------------------------------ MODULE MboxAbs -------------------------------
(***************************************************************************)
(* What sys_mbox_* promises: a FIFO queue of at most Capacity messages.    *)
(* Each call has one instant, between call and return, at which it takes   *)
(* effect on the queue.                                                    *)
(***************************************************************************)
EXTENDS Integers, Sequences

CONSTANTS Posters, Fetcher, Msgs, NoMsg, Capacity

VARIABLES
  queue,        \* the messages waiting, oldest first
  phase,        \* phase[t] \in {"idle", "called", "done"}
  op,           \* op[t]: the call t is in, or was last in
  arg,          \* arg[t]: the message t posts, or has fetched
  res           \* res[t]: the outcome of t's last call

vars == <<queue, phase, op, arg, res>>

Threads == Posters \cup {Fetcher}

Init ==
  /\ queue = << >>
  /\ phase = [t \in Threads |-> "idle"]
  /\ op = [t \in Threads |-> IF t = Fetcher THEN "fetch" ELSE "post"]
  /\ arg = [t \in Threads |-> NoMsg]
  /\ res = [t \in Threads |-> "none"]

PostCall(p, o, m) ==
  /\ phase[p] = "idle"
  /\ phase' = [phase EXCEPT ![p] = "called"]
  /\ op' = [op EXCEPT ![p] = o]
  /\ arg' = [arg EXCEPT ![p] = m]
  /\ res' = [res EXCEPT ![p] = "none"]
  /\ UNCHANGED queue

Enqueue(p) ==
  /\ phase[p] = "called"
  /\ Len(queue) < Capacity
  /\ queue' = Append(queue, arg[p])
  /\ phase' = [phase EXCEPT ![p] = "done"]
  /\ UNCHANGED <<op, arg, res>>

RefusePost(p) ==
  /\ phase[p] = "called"
  /\ op[p] = "trypost"
  /\ Len(queue) = Capacity
  /\ phase' = [phase EXCEPT ![p] = "idle"]
  /\ res' = [res EXCEPT ![p] = "full"]
  /\ UNCHANGED <<queue, op, arg>>

FetchCall(o) ==
  /\ phase[Fetcher] = "idle"
  /\ phase' = [phase EXCEPT ![Fetcher] = "called"]
  /\ op' = [op EXCEPT ![Fetcher] = o]
  /\ res' = [res EXCEPT ![Fetcher] = "none"]
  /\ UNCHANGED <<queue, arg>>

Dequeue ==
  /\ phase[Fetcher] = "called"
  /\ queue # << >>
  /\ arg' = [arg EXCEPT ![Fetcher] = Head(queue)]
  /\ queue' = Tail(queue)
  /\ phase' = [phase EXCEPT ![Fetcher] = "done"]
  /\ UNCHANGED <<op, res>>

RefuseFetch ==
  /\ phase[Fetcher] = "called"
  /\ op[Fetcher] = "tryfetch"
  /\ queue = << >>
  /\ phase' = [phase EXCEPT ![Fetcher] = "idle"]
  /\ res' = [res EXCEPT ![Fetcher] = "empty"]
  /\ UNCHANGED <<queue, op, arg>>

\* A timed fetch may give up at any moment, with or without a message there.
GiveUp ==
  /\ phase[Fetcher] = "called"
  /\ op[Fetcher] = "timedfetch"
  /\ phase' = [phase EXCEPT ![Fetcher] = "idle"]
  /\ res' = [res EXCEPT ![Fetcher] = "timeout"]
  /\ UNCHANGED <<queue, op, arg>>

Return(t) ==
  /\ phase[t] = "done"
  /\ phase' = [phase EXCEPT ![t] = "idle"]
  /\ res' = [res EXCEPT ![t] = "ok"]
  /\ UNCHANGED <<queue, op, arg>>

Next ==
  \/ \E p \in Posters :
       \/ \E o \in {"post", "trypost"}, m \in Msgs : PostCall(p, o, m)
       \/ Enqueue(p)
       \/ RefusePost(p)
  \/ \E o \in {"fetch", "timedfetch", "tryfetch"} : FetchCall(o)
  \/ Dequeue
  \/ RefuseFetch
  \/ GiveUp
  \/ \E t \in Threads : Return(t)

Spec == Init /\ [][Next]_vars

=============================================================================
