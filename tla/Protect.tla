------------------------------- MODULE Protect -------------------------------
(***************************************************************************)
(* SYS_ARCH_PROTECT of the port layer (sys_arch.c): a mutex that its owner *)
(* may take again.  Whether the caller is the owner is decided by a look   *)
(* at lwprot_thread without the mutex, while others write it: a data race, *)
(* so the look returns any value written since the caller last knew.       *)
(***************************************************************************)
EXTENDS Integers

CONSTANTS ProtThreads, \* the threads that enter the stack, not 0
          MaxNesting   \* bound: how deep protected regions are nested

ASSUME ProtAssumption == 0 \notin ProtThreads /\ MaxNesting \in Nat

VARIABLES lwprot_thread, lwprot_count,
          lwprot_mutex, \* the thread that has it, or 0
          visible,      \* visible[t]: what a look of t at lwprot_thread can return
          prot          \* prot[t]: where t is, and how many regions it is in

protVars == <<lwprot_thread, lwprot_count, lwprot_mutex, visible, prot>>

DEAD == 0

ProtInit ==
  /\ lwprot_thread = DEAD /\ lwprot_count = 0 /\ lwprot_mutex = 0
  /\ visible = [t \in ProtThreads |-> {DEAD}]
  /\ prot = [t \in ProtThreads |-> [pc |-> "run", depth |-> 0]]

(* A thread knows its own writes; the others may or may not see them yet. *)
Write(t, v) ==
  /\ lwprot_thread' = v
  /\ visible' = [u \in ProtThreads |-> IF u = t THEN {v} ELSE visible[u] \cup {v}]

At(t, pc) == prot[t].pc = pc
Goes(t, pc, depth) == prot' = [prot EXCEPT ![t] = [pc |-> pc, depth |-> depth]]

(* The thread takes itself for the owner: it counts and goes on. *)
ProtectAgain(t) ==
  /\ At(t, "run") /\ prot[t].depth < MaxNesting /\ t \in visible[t]
  /\ lwprot_count' = lwprot_count + 1 /\ Goes(t, "run", prot[t].depth + 1)
  /\ UNCHANGED <<lwprot_thread, lwprot_mutex, visible>>

ProtectFirst(t) ==
  /\ At(t, "run") /\ prot[t].depth < MaxNesting /\ \E v \in visible[t] : v # t
  /\ Goes(t, "lock", prot[t].depth)
  /\ UNCHANGED <<lwprot_thread, lwprot_count, lwprot_mutex, visible>>

(* Whoever has the mutex sees what its last holder wrote. *)
ProtectLock(t) ==
  /\ At(t, "lock") /\ lwprot_mutex = 0
  /\ lwprot_mutex' = t /\ visible' = [visible EXCEPT ![t] = {lwprot_thread}]
  /\ Goes(t, "own", prot[t].depth) /\ UNCHANGED <<lwprot_thread, lwprot_count>>

ProtectOwn(t) ==
  /\ At(t, "own") /\ Write(t, t) /\ Goes(t, "count", prot[t].depth)
  /\ UNCHANGED <<lwprot_count, lwprot_mutex>>

ProtectCount(t) ==
  /\ At(t, "count") /\ lwprot_count' = 1 /\ Goes(t, "run", prot[t].depth + 1)
  /\ UNCHANGED <<lwprot_thread, lwprot_mutex, visible>>

(* sys_arch_unprotect does nothing for a thread that finds another there;  *)
(* the owner leaves with its last region.                                  *)
Unprotect(t) ==
  /\ At(t, "run") /\ prot[t].depth > 0
  /\ \E v \in visible[t] :
       IF v # t THEN lwprot_count' = lwprot_count /\ Goes(t, "run", prot[t].depth - 1)
       ELSE /\ lwprot_count' = lwprot_count - 1
            /\ IF lwprot_count' = 0 THEN Goes(t, "leave", prot[t].depth)
               ELSE Goes(t, "run", prot[t].depth - 1)
  /\ UNCHANGED <<lwprot_thread, lwprot_mutex, visible>>

(* Mutant: the mutex is given back with the owner's name still on it. *)
UnprotectReset_skipped(t) ==
  /\ At(t, "leave") /\ Goes(t, "unlock", prot[t].depth)
  /\ UNCHANGED <<lwprot_thread, visible, lwprot_count, lwprot_mutex>>

UnprotectReset(t) ==
  /\ At(t, "leave") /\ Write(t, DEAD) /\ Goes(t, "unlock", prot[t].depth)
  /\ UNCHANGED <<lwprot_count, lwprot_mutex>>

UnprotectUnlock(t) ==
  /\ At(t, "unlock") /\ lwprot_mutex' = 0 /\ Goes(t, "run", prot[t].depth - 1)
  /\ UNCHANGED <<lwprot_thread, lwprot_count, visible>>

ProtNext ==
  \E t \in ProtThreads :
    \/ ProtectAgain(t) \/ ProtectFirst(t) \/ ProtectLock(t) \/ ProtectOwn(t) \/ ProtectCount(t)
    \/ Unprotect(t) \/ UnprotectReset(t) \/ UnprotectUnlock(t)

ProtSpec == ProtInit /\ [][ProtNext]_protVars

-----------------------------------------------------------------------------
(* The unlocked look at lwprot_thread is harmless: a thread is in its      *)
(* regions only with the mutex, lwprot_count is how deep it is, it never   *)
(* waits for the mutex it has, and when nobody is in a region, or on the   *)
(* way in or out, the mutex is free ("sys_arch_protect() could be called   *)
(* while already protected").                                              *)
ProtectExcludes ==
  /\ \A t \in ProtThreads :
       /\ At(t, "run") /\ prot[t].depth > 0 => lwprot_mutex = t /\ lwprot_count = prot[t].depth
       /\ At(t, "lock") => lwprot_mutex # t
  /\ (\A t \in ProtThreads : At(t, "run") /\ prot[t].depth = 0) => lwprot_mutex = 0
=============================================================================
