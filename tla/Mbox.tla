-------------------------------- MODULE Mbox --------------------------------
(***************************************************************************)
(* The mailbox of the Unix port (src/src/lwip/sys_arch.c): a ring msgs     *)
(* addressed by two int cursors that only grow, a binary semaphore used as *)
(* a mutex, and the two binary semaphores not_empty and not_full.          *)
(*                                                                         *)
(* Any number of threads post; one thread fetches, as the tcpip thread     *)
(* does from its mailbox.  Every semaphore operation is a step (module Sem *)
(* justifies treating it as atomic); the code between two of them runs     *)
(* under the mutex and is folded into the step that ends it.               *)
(*                                                                         *)
(* not_empty is signalled only by the post that finds the mailbox empty,   *)
(* not_full only by a fetch that sees wait_send # 0, and neither counts    *)
(* past 1: what the sleepers need is that this is enough.                  *)
(***************************************************************************)
EXTENDS Integers, FiniteSets

CONSTANTS
  Posters,      \* the threads that call sys_mbox_post and sys_mbox_trypost
  Fetcher,      \* the thread that calls sys_arch_mbox_(try)fetch
  Msgs,         \* messages
  NoMsg,        \* the content of a slot that was never written
  Size,         \* SYS_MBOX_SIZE
  IntMax,       \* INT_MAX: first and last are ints
  MaxMsgs       \* bound: messages posted in the life of the mailbox

Threads == Posters \cup {Fetcher}

ASSUME SizeAssumption == Size \in Nat /\ Size >= 2
ASSUME BoundsAssumption == MaxMsgs \in Nat /\ IntMax \in Nat /\ Size <= IntMax
ASSUME FetcherAssumption == Fetcher \notin Posters
ASSUME PostersAssumption == IsFiniteSet(Posters)
ASSUME NoMsgAssumption == NoMsg \notin Msgs

VARIABLES
  first, last,  \* mbox->first, mbox->last
  msgs,         \* mbox->msgs
  mutex,        \* count of mbox->mutex
  not_empty,    \* count of mbox->not_empty
  not_full,     \* count of mbox->not_full
  wait_send,    \* mbox->wait_send
  pc,           \* pc[t]: where t is
  op,           \* op[t]: the call t is in, or was last in
  arg,          \* arg[t]: the message t posts, or that its fetch stored in *msg
  res           \* res[t]: the outcome of t's last call

ring == <<first, last, msgs>>
sems == <<mutex, not_empty, not_full, wait_send>>
vars == <<ring, sems, pc, op, arg, res>>

(***************************************************************************)
(*   idle      not in a call                                               *)
(*   lock      at the first sys_arch_sem_wait(&mbox->mutex)                *)
(*   test      holds the mutex, at the test for full or empty              *)
(*   sleep     at sys_arch_sem_wait on not_full (post), not_empty (fetch)  *)
(*   relock    woken, at the sys_arch_sem_wait(&mbox->mutex) of the loop   *)
(*   wake      holds the mutex, about to signal not_empty (post),          *)
(*             not_full (fetch)                                            *)
(*   unlock    holds the mutex, about to release it and return             *)
(***************************************************************************)
Locations == {"idle", "lock", "test", "sleep", "relock", "wake", "unlock"}
Holding == {"test", "wake", "unlock"}
PostOps == {"post", "trypost"}
FetchOps == {"fetch", "timedfetch", "tryfetch"}

Wrap(n) == IF n > IntMax THEN n - 2 * (IntMax + 1) ELSE n

\* The number of messages in the ring, whatever the cursors wrapped to.
Count == (last - first) % (2 * (IntMax + 1))

\* (mbox->last + 1) >= (mbox->first + SYS_MBOX_SIZE)
Full_OffByOne == Wrap(last) >= Wrap(first + Size)
Full == Wrap(last + 1) >= Wrap(first + Size)

\* mbox->first == mbox->last
Empty == first = last

sys_mbox_new ==
  /\ first = 0 /\ last = 0
  /\ msgs = [i \in 0 .. Size - 1 |-> NoMsg]
  /\ mutex = 1 /\ not_empty = 0 /\ not_full = 0
  /\ wait_send = 0

Init ==
  /\ sys_mbox_new
  /\ pc = [t \in Threads |-> "idle"]
  /\ op = [t \in Threads |-> IF t = Fetcher THEN "fetch" ELSE "post"]
  /\ arg = [t \in Threads |-> NoMsg]
  /\ res = [t \in Threads |-> "none"]

Goto(t, l) == pc' = [pc EXCEPT ![t] = l]
Outcome(t, r) == res' = [res EXCEPT ![t] = r]

\* The posters counted in wait_send, and those whose message may still enter
\* the ring.
Blocked == {p \in Posters : pc[p] \in {"sleep", "relock"}}
Owing == {p \in Posters : pc[p] \in {"lock", "test", "sleep", "relock"}}

-----------------------------------------------------------------------------
(* sys_mbox_post, sys_mbox_trypost *)

PostCall(p, o, m) ==
  /\ pc[p] = "idle"
  /\ last + Cardinality(Owing) < MaxMsgs
  /\ Goto(p, "lock")
  /\ op' = [op EXCEPT ![p] = o]
  /\ arg' = [arg EXCEPT ![p] = m]
  /\ Outcome(p, "none")
  /\ UNCHANGED <<ring, sems>>

\* sys_arch_sem_wait(&mbox->mutex, 0) on entry.
Lock(t) ==
  /\ pc[t] = "lock"
  /\ mutex = 1
  /\ mutex' = 0
  /\ Goto(t, "test")
  /\ UNCHANGED <<ring, not_empty, not_full, wait_send, op, arg, res>>

PostStore_AlwaysQuiet(p) ==
  /\ pc[p] = "test"
  /\ ~Full
  /\ msgs' = [msgs EXCEPT ![last % Size] = arg[p]]
  /\ last' = Wrap(last + 1)
  /\ Goto(p, "unlock")
  /\ UNCHANGED <<first, sems, op, arg, res>>

\* There is room: store, last++, and remember whether the mailbox was empty.
PostStore(p) ==
  /\ pc[p] = "test"
  /\ ~Full
  /\ msgs' = [msgs EXCEPT ![last % Size] = arg[p]]
  /\ last' = Wrap(last + 1)
  /\ Goto(p, IF Empty THEN "wake" ELSE "unlock")
  /\ UNCHANGED <<first, sems, op, arg, res>>

\* if (first) sys_sem_signal(&mbox->not_empty)
PostWake(p) ==
  /\ pc[p] = "wake"
  /\ not_empty' = 1
  /\ Goto(p, "unlock")
  /\ UNCHANGED <<ring, mutex, not_full, wait_send, op, arg, res>>

PostReturn(p) ==
  /\ pc[p] = "unlock"
  /\ mutex' = 1
  /\ Goto(p, "idle")
  /\ Outcome(p, "ok")
  /\ UNCHANGED <<ring, not_empty, not_full, wait_send, op, arg>>

\* sys_mbox_trypost finds the mailbox full: unlock, ERR_MEM.
TryPostFull(p) ==
  /\ pc[p] = "test"
  /\ op[p] = "trypost"
  /\ Full
  /\ mutex' = 1
  /\ Goto(p, "idle")
  /\ Outcome(p, "full")
  /\ UNCHANGED <<ring, not_empty, not_full, wait_send, op, arg>>

\* sys_mbox_post finds the mailbox full: wait_send++, unlock, wait not_full.
PostSleep(p) ==
  /\ pc[p] = "test"
  /\ op[p] = "post"
  /\ Full
  /\ wait_send' = wait_send + 1
  /\ mutex' = 1
  /\ Goto(p, "sleep")
  /\ UNCHANGED <<ring, not_empty, not_full, op, arg, res>>

PostWoken(p) ==
  /\ pc[p] = "sleep"
  /\ not_full = 1
  /\ not_full' = 0
  /\ Goto(p, "relock")
  /\ UNCHANGED <<ring, mutex, not_empty, wait_send, op, arg, res>>

\* Lock again, wait_send--, and back to the test of the while loop.
PostRelock(p) ==
  /\ pc[p] = "relock"
  /\ mutex = 1
  /\ mutex' = 0
  /\ wait_send' = wait_send - 1
  /\ Goto(p, "test")
  /\ UNCHANGED <<ring, not_empty, not_full, op, arg, res>>

-----------------------------------------------------------------------------
(* sys_arch_mbox_fetch, sys_arch_mbox_tryfetch *)

FetchCall(o) ==
  /\ pc[Fetcher] = "idle"
  /\ Goto(Fetcher, "lock")
  /\ op' = [op EXCEPT ![Fetcher] = o]
  /\ Outcome(Fetcher, "none")
  /\ UNCHANGED <<ring, sems, arg>>

FetchTake_NoWake ==
  /\ pc[Fetcher] = "test"
  /\ ~Empty
  /\ arg' = [arg EXCEPT ![Fetcher] = msgs[first % Size]]
  /\ first' = Wrap(first + 1)
  /\ Goto(Fetcher, "unlock")
  /\ UNCHANGED <<last, msgs, sems, op, res>>

\* A message is there: read it, first++, and look at wait_send.
FetchTake ==
  /\ pc[Fetcher] = "test"
  /\ ~Empty
  /\ arg' = [arg EXCEPT ![Fetcher] = msgs[first % Size]]
  /\ first' = Wrap(first + 1)
  /\ Goto(Fetcher, IF wait_send # 0 THEN "wake" ELSE "unlock")
  /\ UNCHANGED <<last, msgs, sems, op, res>>

\* if (mbox->wait_send) sys_sem_signal(&mbox->not_full)
FetchWake ==
  /\ pc[Fetcher] = "wake"
  /\ not_full' = 1
  /\ Goto(Fetcher, "unlock")
  /\ UNCHANGED <<ring, mutex, not_empty, wait_send, op, arg, res>>

FetchReturn ==
  /\ pc[Fetcher] = "unlock"
  /\ mutex' = 1
  /\ Goto(Fetcher, "idle")
  /\ Outcome(Fetcher, "ok")
  /\ UNCHANGED <<ring, not_empty, not_full, wait_send, op, arg>>

\* sys_arch_mbox_tryfetch finds nothing: SYS_MBOX_EMPTY.
TryFetchEmpty ==
  /\ pc[Fetcher] = "test"
  /\ op[Fetcher] = "tryfetch"
  /\ Empty
  /\ mutex' = 1
  /\ Goto(Fetcher, "idle")
  /\ Outcome(Fetcher, "empty")
  /\ UNCHANGED <<ring, not_empty, not_full, wait_send, op, arg>>

\* sys_arch_mbox_fetch finds nothing: unlock, wait not_empty.
FetchSleep ==
  /\ pc[Fetcher] = "test"
  /\ op[Fetcher] # "tryfetch"
  /\ Empty
  /\ mutex' = 1
  /\ Goto(Fetcher, "sleep")
  /\ UNCHANGED <<ring, not_empty, not_full, wait_send, op, arg, res>>

FetchWoken ==
  /\ pc[Fetcher] = "sleep"
  /\ not_empty = 1
  /\ not_empty' = 0
  /\ Goto(Fetcher, "relock")
  /\ UNCHANGED <<ring, mutex, not_full, wait_send, op, arg, res>>

FetchRelock ==
  /\ pc[Fetcher] = "relock"
  /\ mutex = 1
  /\ mutex' = 0
  /\ Goto(Fetcher, "test")
  /\ UNCHANGED <<ring, not_empty, not_full, wait_send, op, arg, res>>

\* sys_arch_sem_wait(&mbox->not_empty, timeout) = SYS_ARCH_TIMEOUT: return
\* without the mutex, even if a message has arrived in the meantime.
FetchTimeout ==
  /\ pc[Fetcher] = "sleep"
  /\ op[Fetcher] = "timedfetch"
  /\ Goto(Fetcher, "idle")
  /\ Outcome(Fetcher, "timeout")
  /\ UNCHANGED <<ring, sems, op, arg>>

-----------------------------------------------------------------------------

PostStep(p) ==
  \/ Lock(p) \/ PostStore(p) \/ PostWake(p) \/ PostReturn(p)
  \/ TryPostFull(p) \/ PostSleep(p) \/ PostWoken(p) \/ PostRelock(p)

FetchStep ==
  \/ Lock(Fetcher) \/ FetchTake \/ FetchWake \/ FetchReturn
  \/ TryFetchEmpty \/ FetchSleep \/ FetchWoken \/ FetchRelock

Next ==
  \/ \E p \in Posters :
       \/ \E o \in PostOps, m \in Msgs : PostCall(p, o, m)
       \/ PostStep(p)
  \/ \E o \in FetchOps : FetchCall(o)
  \/ FetchStep
  \/ FetchTimeout

Spec == Init /\ [][Next]_vars

\* Threads keep running, the fetching thread calls again and again (the loop
\* of tcpip_thread), and a thread waiting for one of the semaphores is not
\* passed over forever.
Fairness ==
  /\ \A p \in Posters :
       WF_vars(PostStep(p)) /\ SF_vars(Lock(p)) /\ SF_vars(PostWoken(p)) /\ SF_vars(PostRelock(p))
  /\ WF_vars(FetchStep) /\ SF_vars(Lock(Fetcher)) /\ SF_vars(FetchRelock)
  /\ WF_vars(\E o \in FetchOps : FetchCall(o))

FairSpec == Spec /\ Fairness

-----------------------------------------------------------------------------
(* Properties *)

\* The cursors stay below INT_MAX for the whole life of the mailbox.
NoOverflow == MaxMsgs + Size <= IntMax

TypeOK ==
  /\ first \in 0 .. MaxMsgs
  /\ last \in 0 .. MaxMsgs
  /\ msgs \in [0 .. Size - 1 -> Msgs \cup {NoMsg}]
  /\ mutex \in {0, 1} /\ not_empty \in {0, 1} /\ not_full \in {0, 1}
  /\ wait_send \in Nat
  /\ pc \in [Threads -> Locations]
  /\ op \in [Threads -> PostOps \cup FetchOps]
  /\ arg \in [Threads -> Msgs \cup {NoMsg}]
  /\ res \in [Threads -> {"none", "ok", "full", "empty", "timeout"}]

\* The cursors never cross, and never drift apart by a whole ring, where a
\* post would overwrite a message not yet fetched.
RingBounded == first <= last /\ last - first < Size

\* mbox->mutex is held by exactly one thread when its count is 0.
MutualExclusion ==
  /\ mutex = 1 => \A t \in Threads : pc[t] \notin Holding
  /\ \A t, u \in Threads : pc[t] \in Holding /\ pc[u] \in Holding => t = u
  /\ mutex = 0 => \E t \in Threads : pc[t] \in Holding

\* wait_send is the number of posters between their increment and their
\* decrement of it, so no fetch can overlook one.
WaitSendCounts == wait_send = Cardinality(Blocked)

\* The one-signal-per-empty-mailbox economy of post loses no wake-up: if the
\* fetcher sleeps although messages wait, the token is there or on its way.
FetcherNotForgotten ==
  pc[Fetcher] = "sleep" /\ ~Empty =>
    not_empty = 1 \/ \E p \in Posters : pc[p] = "wake"

\* No poster is stranded: if one sleeps for room while the mailbox is empty
\* (so that no fetch will ever signal again by itself), a not_full token is
\* there or on its way, or another poster is about to fill the mailbox.
PosterNotForgotten ==
  Empty /\ (\E p \in Posters : pc[p] = "sleep") =>
    \/ not_full = 1
    \/ pc[Fetcher] = "wake"
    \/ \E p \in Posters : pc[p] \in {"relock", "test"}

\* Every call of sys_mbox_post returns as long as the mailbox is read: it
\* "will block until there is more room", and no longer.
PostCompletes ==
  \A p \in Posters : pc[p] # "idle" ~> pc[p] = "idle"

-----------------------------------------------------------------------------
(* Refinement: the mailbox is a bounded queue. *)

queue == [i \in 1 .. Count |-> msgs[(first + i - 1) % Size]]

phase == [t \in Threads |->
            IF pc[t] = "idle" THEN "idle"
            ELSE IF pc[t] \in {"wake", "unlock"} THEN "done"
            ELSE "called"]

Abs == INSTANCE MboxAbs WITH Capacity <- Size - 1

\* Posts and fetches take effect atomically, in the order in which they held
\* the mutex, on a FIFO queue of SYS_MBOX_SIZE - 1 messages: a trypost fails
\* only on a full queue, a tryfetch only on an empty one.
Refinement == Abs!Spec

=============================================================================
