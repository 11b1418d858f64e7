-------------------------------- MODULE Sem ---------------------------------
(***************************************************************************)
(* The semaphore of the Unix port (src/src/lwip/sys_arch.c): a count c,    *)
(* one pthread mutex and one condition variable.                           *)
(*                                                                         *)
(* sys_arch_sem_wait re-tests c after every return of cond_wait, so        *)
(* spurious wake-ups are harmless; a timed wait that expires unlocks and   *)
(* returns SYS_ARCH_TIMEOUT without looking at c again.  sys_sem_signal    *)
(* caps c at 1 and broadcasts.                                             *)
(***************************************************************************)
EXTENDS Naturals

CONSTANTS
  Threads,      \* the threads that may call the semaphore
  InitCount,    \* sys_sem_new's count argument
  NoThread      \* owner of a free mutex

ASSUME SemAssumption == InitCount \in {0, 1}
ASSUME NoThreadAssumption == NoThread \notin Threads

VARIABLES
  c,            \* sem->c
  owner,        \* the thread holding sem->mutex, or NoThread
  pc,           \* pc[t]: where t is
  timed,        \* timed[t]: t's wait was called with timeout > 0
  res           \* res[t]: what t's last wait returned

vars == <<c, owner, pc, timed, res>>

(***************************************************************************)
(*   idle      not in a call                                               *)
(*   lock      in sys_arch_sem_wait, wants sem->mutex                      *)
(*   test      holds sem->mutex, at the test of the while loop             *)
(*   sleep     inside pthread_cond_(timed)wait, mutex released             *)
(*   woken     cond_wait was woken, wants sem->mutex back                  *)
(*   expired   cond_wait timed out, wants sem->mutex back                  *)
(*   siglock   in sys_sem_signal, wants sem->mutex                         *)
(*   sigpost   in sys_sem_signal, holds sem->mutex                         *)
(***************************************************************************)
Waiting == {"lock", "test", "sleep", "woken", "expired"}
Signalling == {"siglock", "sigpost"}
Holding == {"test", "sigpost"}
Locations == {"idle"} \cup Waiting \cup Signalling

TypeOK ==
  /\ c \in {0, 1}
  /\ owner \in Threads \cup {NoThread}
  /\ pc \in [Threads -> Locations]
  /\ timed \in [Threads -> BOOLEAN]
  /\ res \in [Threads -> {"none", "taken", "timeout"}]

sys_sem_new ==
  /\ c = InitCount
  /\ owner = NoThread
  /\ pc = [t \in Threads |-> "idle"]
  /\ timed = [t \in Threads |-> FALSE]
  /\ res = [t \in Threads |-> "none"]

Goto(t, l) == pc' = [pc EXCEPT ![t] = l]

-----------------------------------------------------------------------------
(* sys_arch_sem_wait *)

WaitCall(t, hasTimeout) ==
  /\ pc[t] = "idle"
  /\ Goto(t, "lock")
  /\ timed' = [timed EXCEPT ![t] = hasTimeout]
  /\ UNCHANGED <<c, owner, res>>

\* pthread_mutex_lock, on entry or on the way out of cond_wait.
WaitLock(t) ==
  /\ pc[t] \in {"lock", "woken"}
  /\ owner = NoThread
  /\ owner' = t
  /\ Goto(t, "test")
  /\ UNCHANGED <<c, timed, res>>

\* The loop ends: c--, unlock, return.
WaitTake(t) ==
  /\ pc[t] = "test"
  /\ c > 0
  /\ c' = c - 1
  /\ owner' = NoThread
  /\ Goto(t, "idle")
  /\ res' = [res EXCEPT ![t] = "taken"]
  /\ UNCHANGED timed

\* cond_wait: release the mutex and sleep, atomically.
WaitSleep(t) ==
  /\ pc[t] = "test"
  /\ c = 0
  /\ owner' = NoThread
  /\ Goto(t, "sleep")
  /\ UNCHANGED <<c, timed, res>>

\* A condition variable may wake without having been signalled.
SpuriousWake(t) ==
  /\ pc[t] = "sleep"
  /\ Goto(t, "woken")
  /\ UNCHANGED <<c, owner, timed, res>>

\* pthread_cond_timedwait reaches its deadline.
Expire(t) ==
  /\ pc[t] = "sleep"
  /\ timed[t]
  /\ Goto(t, "expired")
  /\ UNCHANGED <<c, owner, timed, res>>

\* A timed-out wait that would still consume the token it raced with.
WaitTimeout_EatsToken(t) ==
  /\ pc[t] = "expired"
  /\ owner = NoThread
  /\ c' = 0
  /\ Goto(t, "idle")
  /\ res' = [res EXCEPT ![t] = "timeout"]
  /\ UNCHANGED <<owner, timed>>

\* ETIMEDOUT: relock inside cond_wait, unlock, return SYS_ARCH_TIMEOUT.
WaitTimeout(t) ==
  /\ pc[t] = "expired"
  /\ owner = NoThread
  /\ Goto(t, "idle")
  /\ res' = [res EXCEPT ![t] = "timeout"]
  /\ UNCHANGED <<c, owner, timed>>

-----------------------------------------------------------------------------
(* sys_sem_signal *)

SignalCall(t) ==
  /\ pc[t] = "idle"
  /\ Goto(t, "siglock")
  /\ UNCHANGED <<c, owner, timed, res>>

SignalLock(t) ==
  /\ pc[t] = "siglock"
  /\ owner = NoThread
  /\ owner' = t
  /\ Goto(t, "sigpost")
  /\ UNCHANGED <<c, timed, res>>

\* if (sem->c > 1) sem->c = 1
Capped(n) == IF n > 1 THEN 1 ELSE n

\* pthread_cond_broadcast: every sleeper must now win the mutex back.
Awakened_NoBroadcast(l) == l
Awakened(l) == IF l = "sleep" THEN "woken" ELSE l

\* c++ capped at 1, broadcast, unlock.
SignalPost(t) ==
  /\ pc[t] = "sigpost"
  /\ c' = Capped(c + 1)
  /\ pc' = [u \in Threads |-> IF u = t THEN "idle" ELSE Awakened(pc[u])]
  /\ owner' = NoThread
  /\ UNCHANGED <<timed, res>>

-----------------------------------------------------------------------------

Step(t) ==
  \/ WaitLock(t)
  \/ WaitTake(t)
  \/ WaitSleep(t)
  \/ WaitTimeout(t)
  \/ SignalLock(t)
  \/ SignalPost(t)

Next ==
  \E t \in Threads :
    \/ \E b \in BOOLEAN : WaitCall(t, b)
    \/ SignalCall(t)
    \/ SpuriousWake(t)
    \/ Expire(t)
    \/ Step(t)

Init == sys_sem_new

Spec == Init /\ [][Next]_vars

\* A thread inside a call keeps running, and one that contends for sem->mutex
\* (held for a handful of instructions at a time) is not passed over forever.
Fairness ==
  \A t \in Threads : WF_vars(Step(t)) /\ SF_vars(WaitLock(t))

FairSpec == Spec /\ Fairness

-----------------------------------------------------------------------------
(* Properties *)

\* sem->mutex serialises the calls: exactly its owner is between lock and
\* unlock in sys_arch_sem_wait or sys_sem_signal.
MutexOwned == \A t \in Threads : pc[t] \in Holding <=> owner = t

\* No lost wake-up: while the token is set nobody sleeps on the condition
\* variable; every sleeper was moved by the broadcast of sys_sem_signal.
NoLostWakeup == c > 0 => \A t \in Threads : pc[t] # "sleep"

\* The pthread implementation is a binary semaphore: a wait returns 0 only by
\* consuming the token, and a timeout of sys_arch_sem_wait consumes nothing.
phase == [t \in Threads |-> IF pc[t] \in Waiting THEN "waiting"
                            ELSE IF pc[t] \in Signalling THEN "signalling"
                            ELSE "idle"]

Abs == INSTANCE SemAbs

Refinement == Abs!Spec

\* A token that a waiter could have does not stay put: some waiter takes it,
\* unless every one of them has given up in the meantime.
Contends(t) == pc[t] \in {"lock", "test", "sleep", "woken"}
TokenIsTaken ==
  (c = 1 /\ \E t \in Threads : Contends(t))
    ~> (c = 0 \/ \A t \in Threads : ~Contends(t))

=============================================================================
