------------------------------- MODULE SemAbs -------------------------------
(***************************************************************************)
(* What the port layer promises of a binary semaphore (sys_sem_t): a count *)
(* that is 0 or 1, a wait that consumes the token, a signal that leaves    *)
(* the token set however often it is called, and a timed wait that may     *)
(* give up without touching the count.                                     *)
(***************************************************************************)
EXTENDS Naturals

CONSTANTS
  Threads,      \* the threads that may call the semaphore
  InitCount     \* the count given to sys_sem_new

VARIABLES
  c,            \* the token
  phase,        \* phase[t]: what t is doing ("idle", "waiting", "signalling")
  res           \* res[t]: what t's last wait returned

vars == <<c, phase, res>>

Init ==
  /\ c = InitCount
  /\ phase = [t \in Threads |-> "idle"]
  /\ res = [t \in Threads |-> "none"]

\* A call of sys_arch_sem_wait or sys_sem_signal begins.
Begin(t, p) ==
  /\ phase[t] = "idle"
  /\ phase' = [phase EXCEPT ![t] = p]
  /\ UNCHANGED <<c, res>>

\* The wait succeeds: it needs the token and consumes it.
Take(t) ==
  /\ phase[t] = "waiting"
  /\ c = 1
  /\ c' = 0
  /\ phase' = [phase EXCEPT ![t] = "idle"]
  /\ res' = [res EXCEPT ![t] = "taken"]

\* A timed wait gives up; the token, if there is one, stays.
GiveUp(t) ==
  /\ phase[t] = "waiting"
  /\ c' = c
  /\ phase' = [phase EXCEPT ![t] = "idle"]
  /\ res' = [res EXCEPT ![t] = "timeout"]

\* The signal takes effect: the token is set, never counted.
Give(t) ==
  /\ phase[t] = "signalling"
  /\ c' = 1
  /\ phase' = [phase EXCEPT ![t] = "idle"]
  /\ UNCHANGED res

Next ==
  \E t \in Threads :
    \/ \E p \in {"waiting", "signalling"} : Begin(t, p)
    \/ Take(t)
    \/ GiveUp(t)
    \/ Give(t)

Spec == Init /\ [][Next]_vars
=============================================================================
