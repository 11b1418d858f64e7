-------------------------------- MODULE Pbuf --------------------------------
(***************************************************************************)
(* Packet buffers: pbuf.c and the pool of memp.c the received ones come    *)
(* from.  A pbuf is counted by its references, one of which belongs to the *)
(* pbuf before it in its chain; the others are held by code.  Counters and *)
(* pools are changed under SYS_ARCH_PROTECT, and a chain belongs to one    *)
(* thread at a time, so a call is one step; only pbuf_alloc(PBUF_POOL),    *)
(* which takes its pbufs one by one, and the reclaiming of TCP's           *)
(* out-of-order segments go over several.  Lengths count small units.      *)
(***************************************************************************)
EXTENDS Integers, Sequences, FiniteSets, FiniteSetsExt, TLC

CONSTANTS
  PoolBufs,            \* MEMP_PBUF_POOL
  OtherBufs,           \* PBUF_RAM, PBUF_REF and pbuf_custom
  PBUF_POOL_BUFSIZE,
  Allocators,          \* threads that call pbuf_alloc
  PoolLengths,         \* what they ask of the pool
  PbufSteps            \* calls that are made; 0: this layer is not used

ASSUME PbufAssumption == PBUF_POOL_BUFSIZE \in Nat \ {0} /\ PbufSteps \in Nat /\ PoolLengths \subseteq Nat

VARIABLES
  pbuf,                \* struct pbuf of each allocated pbuf
  holds,               \* how many references code holds, by pbuf
  ooseq,               \* pbufs on the out-of-order queues, one pcb each
  pbuf_free_ooseq_pending,
  reclaim,             \* whether pbuf_free_ooseq_callback is in the mailbox
  alloc,               \* where each thread is in pbuf_alloc(PBUF_POOL): its p, r and rem_len
  steps

pbufVars == <<pbuf, holds, ooseq, pbuf_free_ooseq_pending, reclaim, alloc, steps>>

NIL == 0
Idle == [at |-> "idle", p |-> NIL, r |-> NIL, rem |-> 0]

PbufInit ==
  /\ pbuf = <<>> /\ holds = <<>> /\ ooseq = {}
  /\ pbuf_free_ooseq_pending = FALSE /\ reclaim = FALSE
  /\ alloc = [t \in Allocators |-> Idle] /\ steps = PbufSteps

Allocated == DOMAIN pbuf
Less(f, x) == [y \in DOMAIN f \ {x} |-> f[y]]
ChainedTo(p) == {q \in Allocated : pbuf[q].next = p}

(* The pbufs of a chain, from p on. *)
RECURSIVE ChainOf(_, _)
ChainOf(b, p) == IF p = NIL THEN <<>> ELSE <<p>> \o ChainOf(b, b[p].next)
In(s) == {s[i] : i \in DOMAIN s}

NewPbuf(len, tot, next, of) == [len |-> len, tot |-> tot, next |-> next, ref |-> 1, of |-> of]

(* pbuf_free: a pbuf that is freed releases the next one; a pbuf_custom of *)
(* ip_frag releases the one it refers to.                                  *)
RECURSIVE pbuf_free(_, _)
pbuf_free(b, p) ==
  IF p = NIL THEN b
  ELSE IF b[p].ref > 1 THEN [b EXCEPT ![p].ref = @ - 1]
  ELSE pbuf_free(pbuf_free(Less(b, p), b[p].of), b[p].next)

pbuf_ref(b, p) == [b EXCEPT ![p].ref = @ + 1]

(* pbuf_cat hands the caller's reference to t over to the chain;           *)
(* pbuf_chain adds one.                                                    *)
pbuf_cat(b, h, t) ==
  [p \in DOMAIN b |->
     IF p \notin In(ChainOf(b, h)) THEN b[p]
     ELSE [b[p] EXCEPT !.tot = @ + b[t].tot, !.next = IF @ = NIL THEN t ELSE @]]
pbuf_chain(b, h, t) == pbuf_ref(pbuf_cat(b, h, t), t)

pbuf_dechain(b, p) == pbuf_free([b EXCEPT ![p].next = NIL, ![p].tot = b[p].len], b[p].next)

(* pbuf_realloc only shrinks: the pbufs behind the new end are freed. *)
RECURSIVE Shrunk(_, _, _, _)
Shrunk(b, q, rem, grow) ==
  IF rem > b[q].len THEN Shrunk([b EXCEPT ![q].tot = @ + grow], b[q].next, rem - b[q].len, grow)
  ELSE pbuf_free([b EXCEPT ![q].len = rem, ![q].tot = rem, ![q].next = NIL], b[q].next)
pbuf_realloc(b, p, new) == IF new >= b[p].tot THEN b ELSE Shrunk(b, p, new, new - b[p].tot)

(* pbuf_header moves the payload of the first pbuf. *)
pbuf_header(b, p, n) == [b EXCEPT ![p].len = @ + n, ![p].tot = @ + n]

-----------------------------------------------------------------------------
Spent == steps > 0 /\ steps' = steps - 1
Same == UNCHANGED <<ooseq, pbuf_free_ooseq_pending, reclaim, alloc>>
HoldsOf(p) == IF p \in DOMAIN holds THEN holds[p] ELSE 0
Holding(h, p, n) == LET k == (IF p \in DOMAIN h THEN h[p] ELSE 0) + n IN IF k = 0 THEN Less(h, p) ELSE p :> k @@ h

(* A caller works on a chain whose head it holds alone. *)
Own(p) == HoldsOf(p) = 1 /\ pbuf[p].ref = 1 /\ ChainedTo(p) = {}

(* pbuf_alloc(PBUF_POOL): the pbufs are taken from the pool one by one;    *)
(* the tail is linked as it grows, with the length still to come in its    *)
(* tot_len.  If the pool has none left, pbuf_pool_is_empty is called while *)
(* the part of the chain is still held, and then it is freed.              *)
FreeBufs(S) == S \ Allocated
Building == UNION {In(ChainOf(pbuf, alloc[t].p)) : t \in Allocators}
AllocPool(t, len) ==
  /\ alloc[t].at = "idle" /\ Spent
  /\ alloc' = [alloc EXCEPT ![t] = [Idle EXCEPT !.at = "take", !.rem = len]]
  /\ UNCHANGED <<pbuf, holds, ooseq, pbuf_free_ooseq_pending, reclaim>>
Take(t) ==
  /\ alloc[t].at = "take" /\ FreeBufs(PoolBufs) # {}
  /\ \E q \in {Min(FreeBufs(PoolBufs))} : \E a \in {alloc[t]} :
       LET len == Min({a.rem, PBUF_POOL_BUFSIZE})
           head == IF a.p = NIL THEN q ELSE a.p IN
       /\ pbuf' = q :> NewPbuf(len, a.rem, NIL, NIL) @@ (IF a.r = NIL THEN pbuf ELSE [pbuf EXCEPT ![a.r].next = q])
       /\ IF a.rem = len
          THEN alloc' = [alloc EXCEPT ![t] = Idle] /\ holds' = Holding(holds, head, 1)
          ELSE alloc' = [alloc EXCEPT ![t] = [a EXCEPT !.p = head, !.r = q, !.rem = @ - len]] /\ UNCHANGED holds
  /\ UNCHANGED <<ooseq, pbuf_free_ooseq_pending, reclaim, steps>>
NoneLeft(t) ==
  /\ alloc[t].at = "take" /\ FreeBufs(PoolBufs) = {} /\ alloc' = [alloc EXCEPT ![t].at = "empty"]
  /\ UNCHANGED <<pbuf, holds, ooseq, pbuf_free_ooseq_pending, reclaim, steps>>
FreePart_forgotten(t) ==
  /\ alloc[t].at = "free" /\ alloc' = [alloc EXCEPT ![t] = Idle]
  /\ UNCHANGED <<pbuf, holds, ooseq, pbuf_free_ooseq_pending, reclaim, steps>>
FreePart(t) ==
  /\ alloc[t].at = "free" /\ pbuf' = pbuf_free(pbuf, alloc[t].p) /\ alloc' = [alloc EXCEPT ![t] = Idle]
  /\ UNCHANGED <<holds, ooseq, pbuf_free_ooseq_pending, reclaim, steps>>

(* pbuf_alloc(PBUF_RAM or PBUF_REF) *)
AllocOther(len) ==
  /\ Spent /\ FreeBufs(OtherBufs) # {} /\ Same
  /\ \E p \in {Min(FreeBufs(OtherBufs))} :
       pbuf' = p :> NewPbuf(len, len, NIL, NIL) @@ pbuf /\ holds' = Holding(holds, p, 1)
(* pbuf_alloced_custom, by ip_frag: a part of p, which it keeps alive. *)
AllocCustom(p) ==
  /\ Spent /\ FreeBufs(OtherBufs) # {} /\ Same /\ pbuf[p].len > 0 /\ p \notin Building
  /\ \E c \in {Min(FreeBufs(OtherBufs))} :
       /\ pbuf' = c :> NewPbuf(1, 1, NIL, p) @@ pbuf_ref(pbuf, p)
       /\ holds' = Holding(holds, c, 1)

Ref(p) == Spent /\ Same /\ HoldsOf(p) = 1 /\ pbuf' = pbuf_ref(pbuf, p) /\ holds' = Holding(holds, p, 1)
FreePbuf(p) == Spent /\ Same /\ HoldsOf(p) > 0 /\ pbuf' = pbuf_free(pbuf, p) /\ holds' = Holding(holds, p, -1)
Cat(h, t) ==
  /\ Spent /\ Same /\ h # t /\ Own(h) /\ Own(t)
  /\ pbuf' = pbuf_cat(pbuf, h, t) /\ holds' = Holding(holds, t, -1)
ChainTo(h, t) ==
  /\ Spent /\ Same /\ h # t /\ Own(h) /\ HoldsOf(t) > 0 /\ ChainedTo(t) = {}
  /\ pbuf' = pbuf_chain(pbuf, h, t) /\ UNCHANGED holds
Dechain(p) == Spent /\ Same /\ Own(p) /\ pbuf[p].next # NIL /\ pbuf' = pbuf_dechain(pbuf, p) /\ UNCHANGED holds
Realloc(p, new) == Spent /\ Same /\ Own(p) /\ new < pbuf[p].tot /\ pbuf' = pbuf_realloc(pbuf, p, new) /\ UNCHANGED holds
Header(p, n) ==
  /\ Spent /\ Same /\ Own(p) /\ pbuf[p].len + n \in 0 .. PBUF_POOL_BUFSIZE /\ pbuf[p].of = NIL
  /\ pbuf' = pbuf_header(pbuf, p, n) /\ UNCHANGED holds

(* A segment goes to an out-of-order queue. *)
Keep(p) ==
  /\ Spent /\ Own(p) /\ ooseq' = ooseq \cup {p} /\ holds' = Holding(holds, p, -1)
  /\ UNCHANGED <<pbuf, pbuf_free_ooseq_pending, reclaim, alloc>>

(* pbuf_pool_is_empty: who sets the flag posts the callback;               *)
(* tcpip_callback_with_block does not block, and if the mailbox is full    *)
(* the flag is taken back.                                                 *)
pbuf_pool_is_empty(t) ==
  /\ alloc[t].at = "empty"
  /\ alloc' = [alloc EXCEPT ![t].at = IF pbuf_free_ooseq_pending THEN "free" ELSE "post"]
  /\ pbuf_free_ooseq_pending' = TRUE
  /\ UNCHANGED <<pbuf, holds, ooseq, reclaim, steps>>
Post(t) ==
  /\ alloc[t].at = "post"
  /\ \/ reclaim' = TRUE /\ alloc' = [alloc EXCEPT ![t].at = "free"]
     \/ UNCHANGED reclaim /\ alloc' = [alloc EXCEPT ![t].at = "undo"]
  /\ UNCHANGED <<pbuf, holds, ooseq, pbuf_free_ooseq_pending, steps>>
Undo(t) ==
  /\ alloc[t].at = "undo" /\ alloc' = [alloc EXCEPT ![t].at = "free"] /\ pbuf_free_ooseq_pending' = FALSE
  /\ UNCHANGED <<pbuf, holds, ooseq, reclaim, steps>>
pbuf_free_ooseq ==
  /\ reclaim /\ reclaim' = FALSE /\ pbuf_free_ooseq_pending' = FALSE
  /\ \/ ooseq = {} /\ UNCHANGED <<pbuf, ooseq>>
     \/ \E p \in ooseq : pbuf' = pbuf_free(pbuf, p) /\ ooseq' = ooseq \ {p}
  /\ UNCHANGED <<holds, alloc, steps>>

PbufNext ==
  \/ \E t \in Allocators :
       \/ \E len \in PoolLengths : AllocPool(t, len)
       \/ Take(t) \/ NoneLeft(t) \/ pbuf_pool_is_empty(t) \/ Post(t) \/ Undo(t) \/ FreePart(t)
  \/ \E len \in 0 .. 1 : AllocOther(len)
  \/ \E p \in Allocated :
       \/ AllocCustom(p) \/ Ref(p) \/ FreePbuf(p) \/ Dechain(p) \/ Keep(p)
       \/ \E new \in 0 .. pbuf[p].tot : Realloc(p, new)
       \/ \E n \in {-1, 1} : Header(p, n)
       \/ \E t \in Allocated : Cat(p, t) \/ ChainTo(p, t)
  \/ pbuf_free_ooseq

-----------------------------------------------------------------------------
(* Buffers are neither lost nor freed early: after chaining, splitting,    *)
(* shrinking and freeing in any order, and while threads that allocate     *)
(* compete for the last pbufs of the pool, a pbuf has as many references   *)
(* as there are holders, chains and pbuf_customs that refer to it, at      *)
(* least one - an allocation that finds the pool empty half way leaves no  *)
(* part of its chain behind - and its tot_len is the length of the chain   *)
(* from it on, with what the allocation under way will still add.  And the *)
(* flag that the pool is being reclaimed is never left set by threads that *)
(* find the pool empty at once, with no callback to come.                  *)
Uses(p) ==
  HoldsOf(p) + Cardinality(ChainedTo(p)) + Cardinality({q \in Allocated : pbuf[q].of = p})
    + Cardinality({t \in Allocators : alloc[t].p = p}) + (IF p \in ooseq THEN 1 ELSE 0)
Rest(p) ==
  IF pbuf[p].next # NIL THEN pbuf[pbuf[p].next].tot
  ELSE SumSet({alloc[t].rem : t \in {u \in Allocators : alloc[u].r = p}})
PbufsSound ==
  /\ \A p \in Allocated :
       /\ pbuf[p].ref = Uses(p) /\ Uses(p) > 0
       /\ pbuf[p].next # NIL => pbuf[p].next \in Allocated
       /\ pbuf[p].tot = pbuf[p].len + Rest(p)
  /\ DOMAIN holds \subseteq Allocated /\ ooseq \subseteq Allocated
  /\ pbuf_free_ooseq_pending <=> reclaim \/ \E t \in Allocators : alloc[t].at \in {"post", "undo"}
=============================================================================
