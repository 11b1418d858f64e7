----------------------------- MODULE SemProofs ------------------------------
(***************************************************************************)
(* Sem for any set of threads: its types, the mutual exclusion of its      *)
(* critical sections, the absence of lost wake-ups, and that it implements *)
(* the abstract binary semaphore.                                          *)
(***************************************************************************)
EXTENDS Sem, TLAPS

IInv == TypeOK /\ MutexOwned /\ NoLostWakeup

LEMMA InitIInv == Init => IInv
  BY SemAssumption, NoThreadAssumption
  DEF Init, sys_sem_new, IInv, TypeOK, MutexOwned, NoLostWakeup,
      Locations, Waiting, Signalling, Holding

LEMMA StepIInv == IInv /\ [Next]_vars => IInv'
<1> SUFFICES ASSUME IInv, [Next]_vars PROVE IInv'
  OBVIOUS
<1> USE NoThreadAssumption
    DEF IInv, TypeOK, MutexOwned, NoLostWakeup, Locations, Waiting,
        Signalling, Holding, Goto
<1>1. CASE UNCHANGED vars
  BY <1>1 DEF vars
<1>2. ASSUME NEW t \in Threads, NEW b \in BOOLEAN, WaitCall(t, b) PROVE IInv'
  BY <1>2 DEF WaitCall
<1>3. ASSUME NEW t \in Threads, SignalCall(t) PROVE IInv'
  BY <1>3 DEF SignalCall
<1>4. ASSUME NEW t \in Threads, SpuriousWake(t) PROVE IInv'
  BY <1>4 DEF SpuriousWake
<1>5. ASSUME NEW t \in Threads, Expire(t) PROVE IInv'
  BY <1>5 DEF Expire
<1>6. ASSUME NEW t \in Threads, WaitLock(t) PROVE IInv'
  BY <1>6 DEF WaitLock
<1>7. ASSUME NEW t \in Threads, WaitTake(t) PROVE IInv'
  BY <1>7 DEF WaitTake
<1>8. ASSUME NEW t \in Threads, WaitSleep(t) PROVE IInv'
  BY <1>8 DEF WaitSleep
<1>9. ASSUME NEW t \in Threads, WaitTimeout(t) PROVE IInv'
  BY <1>9 DEF WaitTimeout
<1>10. ASSUME NEW t \in Threads, SignalLock(t) PROVE IInv'
  BY <1>10 DEF SignalLock
<1>11. ASSUME NEW t \in Threads, SignalPost(t) PROVE IInv'
  BY <1>11 DEF SignalPost, Capped, Awakened
<1> QED
  BY <1>1, <1>2, <1>3, <1>4, <1>5, <1>6, <1>7, <1>8, <1>9, <1>10, <1>11
  DEF Next, Step

\* Every reachable state of the semaphore is well typed, has one owner inside
\* sem->mutex, and has no sleeper beside a token.
THEOREM SemInvariant == Spec => []IInv
  BY InitIInv, StepIInv, PTL DEF Spec

\* sys_sem_signal loses no wake-up, whatever the number of waiters.
THEOREM SemNoLostWakeup == Spec => []NoLostWakeup
  BY SemInvariant, PTL DEF IInv

-----------------------------------------------------------------------------
(* Refinement of the abstract binary semaphore *)

LEMMA InitRefines == Init => Abs!Init
  BY DEF Init, sys_sem_new, Abs!Init, phase, Waiting, Signalling

LEMMA StepRefines == IInv /\ [Next]_vars => [Abs!Next]_(Abs!vars)
<1> SUFFICES ASSUME IInv, [Next]_vars PROVE [Abs!Next]_(Abs!vars)
  OBVIOUS
<1> USE DEF IInv, TypeOK, Locations, Waiting, Signalling, Goto, phase, Abs!vars
<1>1. CASE UNCHANGED vars
  BY <1>1 DEF vars
<1>2. ASSUME NEW t \in Threads, NEW b \in BOOLEAN, WaitCall(t, b)
      PROVE Abs!Begin(t, "waiting")
  BY <1>2 DEF WaitCall, Abs!Begin
<1>3. ASSUME NEW t \in Threads, SignalCall(t)
      PROVE Abs!Begin(t, "signalling")
  BY <1>3 DEF SignalCall, Abs!Begin
<1>4. ASSUME NEW t \in Threads, WaitTake(t) PROVE Abs!Take(t)
  <2>1. c = 1 /\ c' = 0
    BY <1>4 DEF WaitTake
  <2>2. phase[t] = "waiting" /\ phase' = [phase EXCEPT ![t] = "idle"]
    BY <1>4 DEF WaitTake
  <2> QED
    BY <1>4, <2>1, <2>2 DEF WaitTake, Abs!Take
<1>5. ASSUME NEW t \in Threads, WaitTimeout(t) PROVE Abs!GiveUp(t)
  BY <1>5 DEF WaitTimeout, Abs!GiveUp
<1>6. ASSUME NEW t \in Threads, SignalPost(t) PROVE Abs!Give(t)
  <2>1. c' = 1
    BY <1>6 DEF SignalPost, Capped
  <2>2. phase[t] = "signalling" /\ phase' = [phase EXCEPT ![t] = "idle"]
    BY <1>6 DEF SignalPost, Awakened
  <2> QED
    BY <1>6, <2>1, <2>2 DEF SignalPost, Abs!Give
<1>7. ASSUME NEW t \in Threads,
             SpuriousWake(t) \/ Expire(t) \/ WaitLock(t) \/ WaitSleep(t) \/ SignalLock(t)
      PROVE UNCHANGED Abs!vars
  BY <1>7 DEF SpuriousWake, Expire, WaitLock, WaitSleep, SignalLock
<1> QED
  BY <1>1, <1>2, <1>3, <1>4, <1>5, <1>6, <1>7 DEF Next, Step, Abs!Next

\* The mutex-and-condition-variable code of sys_arch.c implements the binary
\* semaphore: no timeout, spurious wake-up or broadcast is visible as anything
\* but a Take, a Give or a GiveUp.
THEOREM SemRefinement == Spec => Refinement
<1>1. Init => Abs!Init
  BY InitRefines
<1>2. IInv /\ [Next]_vars => [Abs!Next]_(Abs!vars)
  BY StepRefines
<1> QED
  BY <1>1, <1>2, SemInvariant, PTL DEF Spec, Refinement, Abs!Spec
=============================================================================
