------------------------------- MODULE Reass --------------------------------
(***************************************************************************)
(* Fragments of IP datagrams, ip_frag.c: ip_frag cuts a datagram to the    *)
(* mtu of the interface, the fragments are lost, duplicated and reordered, *)
(* and ip_reass of the receiver puts them together again.  Both run in     *)
(* tcpip threads, so one call is one step.  A frame is shorter than a pool *)
(* buffer: a fragment that is received is one pbuf.                        *)
(***************************************************************************)
EXTENDS Integers, Sequences, FiniteSets, SequencesExt, FiniteSetsExt

CONSTANTS
  FRAG_UNIT,             \* 8 bytes: what offsets of fragments count
  FRAG_ROOM,             \* mtu - IP_HLEN
  MEMP_NUM_FRAG_PBUF, MEMP_NUM_REASSDATA,
  IP_REASS_MAX_PBUFS, IP_REASS_MAXAGE,
  ReassPlans             \* see ReassInit

ASSUME ReassAssumption ==
  /\ FRAG_ROOM >= FRAG_UNIT /\ FRAG_UNIT \in Nat \ {0}      \* else ip_frag: ERR_VAL
  /\ MEMP_NUM_REASSDATA \in 1 .. IP_REASS_MAX_PBUFS         \* init.c
  /\ IP_REASS_MAXAGE \in Nat

VARIABLES
  reassdatagrams,        \* the list of incomplete datagrams
  ip_reass_pbufcount,
  ip_id,                 \* the next identification each sender uses
  flying,                \* the fragments that may still arrive
  sent,                  \* how many datagrams of the plan were sent
  upward,                \* what ip_reass has just returned
  told,                  \* datagrams whose sender got ICMP time exceeded
  spare,                 \* duplicates, ticks and restarts that may still happen
  failed,                \* the LWIP_ASSERT that stopped the program, or ""
  reassplan

reassVars == <<reassdatagrams, ip_reass_pbufcount, ip_id, flying, sent, upward, told, spare,
               failed, reassplan>>

(* A plan: the datagrams in the order they are sent, each with its source  *)
(* and the lengths of the pbufs that hold it, and how often a fragment is  *)
(* duplicated, ip_reass_tmr runs and a sender's program starts anew.       *)
ReassInit ==
  /\ reassplan \in ReassPlans
  /\ reassdatagrams = <<>> /\ ip_reass_pbufcount = 0 /\ flying = {} /\ sent = 0
  /\ ip_id = [s \in {reassplan.datagrams[d].src : d \in DOMAIN reassplan.datagrams} |-> 0]
  /\ upward = <<>> /\ told = {} /\ failed = ""
  /\ spare = [dups |-> reassplan.dups, ticks |-> reassplan.ticks, restarts |-> reassplan.restarts]

-----------------------------------------------------------------------------
(* The sender. *)

Datagram(d) == reassplan.datagrams[d]
Length(d) == FoldLeft(LAMBDA n, m : n + m, 0, Datagram(d).chain)

(* Fragment k starts at k * Step; the first one whose rest fits is the     *)
(* last.                                                                   *)
Step == (FRAG_ROOM \div FRAG_UNIT) * FRAG_UNIT
LastFragment(len) == CHOOSE k \in 0 .. len : len - k * Step <= FRAG_ROOM /\ (k > 0 => len - (k - 1) * Step > FRAG_ROOM)
Fragment(d, id, k) ==
  LET last == LastFragment(Length(d)) IN
  [d |-> d, src |-> Datagram(d).src, id |-> id, start |-> k * Step,
   end |-> IF k = last THEN Length(d) ELSE (k + 1) * Step, mf |-> k # last]

(* The pbufs of the datagram a fragment refers to, each by a pbuf_custom_ref *)
(* of the pool, which is free again once the interface has put it out.     *)
Before(chain, i) == FoldLeft(LAMBDA n, m : n + m, 0, SubSeq(chain, 1, i - 1))
Pieces(f) ==
  LET chain == Datagram(f.d).chain IN
  {i \in DOMAIN chain : Before(chain, i) < f.end /\ Before(chain, i) + chain[i] > f.start}
ip_frag(d, id) ==
  LET all == [k \in 1 .. LastFragment(Length(d)) + 1 |-> Fragment(d, id, k - 1)]
      short == {k \in DOMAIN all : Cardinality(Pieces(all[k])) > MEMP_NUM_FRAG_PBUF}
  IN IF short = {} THEN all ELSE SubSeq(all, 1, Min(short) - 1)

(* ip_output_if numbers the datagrams and has the large ones cut. *)
FragSend ==
  /\ failed = "" /\ sent < Len(reassplan.datagrams)
  /\ LET s == Datagram(sent + 1).src IN
     /\ flying' = flying \cup ToSet(ip_frag(sent + 1, ip_id[s]))
     /\ ip_id' = [ip_id EXCEPT ![s] = (@ + 1) % 65536]
  /\ sent' = sent + 1
  /\ UNCHANGED <<reassdatagrams, ip_reass_pbufcount, upward, told, spare, failed, reassplan>>

(* The sender's program ends and is started again: ip_id is static. *)
FragRestart(s) ==
  /\ failed = "" /\ spare.restarts > 0 /\ ip_id[s] > 0
  /\ ip_id' = [ip_id EXCEPT ![s] = 0] /\ spare' = [spare EXCEPT !.restarts = @ - 1]
  /\ UNCHANGED <<reassdatagrams, ip_reass_pbufcount, flying, sent, upward, told, failed, reassplan>>

-----------------------------------------------------------------------------
(* The receiver. *)

Matches(r, f) == r.src = f.src /\ r.id = f.id
Told(r) == IF r.p[1].start = 0 THEN {r.p[1].d} ELSE {}

(* ip_reass_free_complete_datagram asserts that prev is the one before. *)
WrongPrev(i, prev) == prev = i \/ (prev # 0 /\ prev + 1 # i)

(* ip_reass_remove_oldest_datagram: a datagram is held in at least one     *)
(* pbuf and one is needed, so the loop runs once.  prev is the one before  *)
(* the last of the list, wherever the oldest is.                           *)
Others(list, f) == {i \in DOMAIN list : ~Matches(list[i], f)}
OldestOther(list, f) ==
  CHOOSE i \in Others(list, f) : \A j \in Others(list, f) :
    list[j].timer > list[i].timer \/ (list[j].timer = list[i].timer /\ j <= i)
ip_reass_remove_oldest_datagram(s, f) ==
  IF Others(s.list, f) = {} THEN s
  ELSE LET i == OldestOther(s.list, f) IN
       IF WrongPrev(i, Len(s.list) - 1) THEN [s EXCEPT !.failed = "prev->next == ipr"]
       ELSE [s EXCEPT !.list = RemoveAt(@, i), !.count = @ - Len(s.list[i].p),
                      !.told = @ \cup Told(s.list[i])]

NewDatagram(f) ==
  [src |-> f.src, id |-> f.id, p |-> <<>>, last |-> FALSE, len |-> 0, timer |-> IP_REASS_MAXAGE, hdr |-> f.start]
ip_reass_enqueue_new_datagram(s, f) == [s EXCEPT !.list = <<NewDatagram(f)>> \o @]

(* ip_reass_chain_frag_into_datagram_and_validate: f goes before the first *)
(* fragment that starts behind it.  The loop looks for holes among the     *)
(* fragments it passes, but not between the last of them and f if f is     *)
(* inserted; what follows f is looked at behind the loop.                  *)
Place(p, f) == Min({i \in DOMAIN p : p[i].start > f.start} \cup {Len(p) + 1})
Overlaps(p, f) ==
  \/ \E i \in 1 .. Place(p, f) - 1 : p[i].start = f.start \/ f.start < p[i].end
  \/ Place(p, f) \in 2 .. Len(p) /\ f.end > p[Place(p, f)].start
Touch(p, i) == p[i].end = p[i + 1].start
Valid_not_behind(r, p, k) ==
  r.last /\ p[1].start = 0 /\ (\A i \in 1 .. k - 2 : Touch(p, i)) /\ (k = Len(p) /\ k > 1 => Touch(p, k - 1))
Valid(r, p, k) ==
  /\ r.last /\ p[1].start = 0
  /\ \A i \in 1 .. k - 2 : Touch(p, i)
  /\ k = Len(p) /\ k > 1 => Touch(p, k - 1)
  /\ \A i \in k .. Len(p) - 1 : Touch(p, i)

(* A duplicate is not kept, but what it says of the end of the datagram    *)
(* and of its header is.                                                   *)
Noted(r, f) ==
  [r EXCEPT !.last = @ \/ ~f.mf, !.len = IF f.mf THEN @ ELSE f.end, !.hdr = IF f.start = 0 THEN 0 ELSE @]
Chained(s, i, f) ==
  LET r == Noted(s.list[i], f)
      k == Place(r.p, f)
      p == InsertAt(r.p, k, f)
  IN IF Overlaps(r.p, f) THEN [s EXCEPT !.list[i] = r]
     ELSE IF ~Valid(r, p, k) THEN [s EXCEPT !.list[i] = [r EXCEPT !.p = p], !.count = @ + 1]
     ELSE IF Len(p) = 1 \/ p[Len(p)].end # r.len
     THEN [s EXCEPT !.failed = "validate_datagram:datagram end!=datagram len"]
     ELSE [s EXCEPT !.list = RemoveAt(@, i), !.count = @ - Len(r.p), !.up = <<[p |-> p, at |-> k, hdr |-> r.hdr]>>]

Heading(s, f) == {i \in DOMAIN s.list : Matches(s.list[i], f)}
Joined(s, f) ==
  IF Heading(s, f) # {} THEN Chained(s, CHOOSE i \in Heading(s, f) : TRUE, f)
  ELSE LET t == IF Len(s.list) < MEMP_NUM_REASSDATA THEN s ELSE ip_reass_remove_oldest_datagram(s, f) IN
       IF t.failed # "" \/ Len(t.list) >= MEMP_NUM_REASSDATA THEN t
       ELSE Chained(ip_reass_enqueue_new_datagram(t, f), 1, f)
ip_reass(s, f) ==
  LET t == IF s.count + 1 <= IP_REASS_MAX_PBUFS THEN s ELSE ip_reass_remove_oldest_datagram(s, f) IN
  IF t.failed # "" \/ t.count + 1 > IP_REASS_MAX_PBUFS THEN t ELSE Joined(t, f)

Reassembly == [list |-> reassdatagrams, count |-> ip_reass_pbufcount, told |-> told, failed |-> failed, up |-> <<>>]
ReassBecomes(s) ==
  /\ reassdatagrams' = s.list /\ ip_reass_pbufcount' = s.count /\ told' = s.told
  /\ failed' = s.failed /\ upward' = s.up
  /\ UNCHANGED <<ip_id, sent, reassplan>>

FragHeard(f) ==
  /\ failed = ""
  /\ ReassBecomes(ip_reass(Reassembly, f)) /\ flying' = flying \ {f} /\ UNCHANGED spare
FragHeardTwice(f) ==
  /\ failed = "" /\ spare.dups > 0
  /\ ReassBecomes(ip_reass(Reassembly, f)) /\ spare' = [spare EXCEPT !.dups = @ - 1] /\ UNCHANGED flying

(* ip_reass_tmr *)
ip_reass_tmr(s) ==
  LET old == {i \in DOMAIN s.list : s.list[i].timer = 0}
      Young(r) == r.timer > 0
      Older(r) == [r EXCEPT !.timer = @ - 1]
  IN [s EXCEPT !.list = LET kept == SelectSeq(s.list, Young) IN [i \in DOMAIN kept |-> Older(kept[i])],
               !.count = @ - FoldSet(LAMBDA i, n : n + Len(s.list[i].p), 0, old),
               !.told = @ \cup UNION {Told(s.list[i]) : i \in old}]
ReassTick ==
  /\ failed = "" /\ spare.ticks > 0 /\ reassdatagrams # <<>>
  /\ ReassBecomes(ip_reass_tmr(Reassembly))
  /\ spare' = [spare EXCEPT !.ticks = @ - 1] /\ UNCHANGED flying

ReassNext ==
  \/ FragSend
  \/ \E s \in DOMAIN ip_id : FragRestart(s)
  \/ \E f \in flying : FragHeard(f) \/ FragHeardTwice(f)
  \/ ReassTick

-----------------------------------------------------------------------------
Ordered(p) ==
  \A i \in 1 .. Len(p) - 1 :
    p[i].start < p[i + 1].start /\ (reassplan.restarts = 0 => p[i].end <= p[i + 1].start)

(* The queue is what its counters say, after any losses, duplicates,       *)
(* evictions and timeouts: ip_reass_pbufcount counts the fragments kept,   *)
(* no two entries wait for one datagram, no entry is empty (its first      *)
(* fragment is read when it is freed), and fragments are in order and,     *)
(* unless a sender reuses an identification, do not overlap; what is       *)
(* handed up has the header of a first fragment.                           *)
ReassAccounted ==
  /\ ip_reass_pbufcount = FoldLeft(LAMBDA n, r : n + Len(r.p), 0, reassdatagrams)
  /\ ip_reass_pbufcount <= IP_REASS_MAX_PBUFS /\ Len(reassdatagrams) <= MEMP_NUM_REASSDATA
  /\ \A i, j \in DOMAIN reassdatagrams : Matches(reassdatagrams[i], reassdatagrams[j]) => i = j
  /\ \A i \in DOMAIN reassdatagrams : reassdatagrams[i].p # <<>> /\ Ordered(reassdatagrams[i].p)
  /\ \A i \in DOMAIN upward : Ordered(upward[i].p) /\ upward[i].hdr = 0

(* A datagram does not wait for its timeout once it is complete, in        *)
(* whatever order its fragments came and unless identifications are        *)
(* reused: what ip_frag cut and ip_reass keeps never has every byte of the *)
(* datagram.                                                               *)
CompleteIsHandedUp ==
  reassplan.restarts = 0 => \A i \in DOMAIN reassdatagrams : \A d \in 1 .. sent :
    UNION {f.start .. f.end - 1 : f \in {g \in ToSet(reassdatagrams[i].p) : g.d = d}} # 0 .. Length(d) - 1

(* And what is handed up, unless identifications are reused, is one        *)
(* datagram with every byte of it, in whatever order the fragments came,   *)
(* except for what may be missing at one place: directly before the        *)
(* fragment that came last, if that one was inserted before others.  There *)
(* the loop of ip_reass_chain_frag_into_datagram_and_validate does not     *)
(* look (ip_frag.c:358-374): of fragments 0, 3 and 2 the third is taken to *)
(* complete the datagram.                                                  *)
WholeButBeforeTheNewest ==
  reassplan.restarts = 0 => \A i \in DOMAIN upward :
    LET u == upward[i]
        d == u.p[1].d
        unseen == IF u.at \in 2 .. Len(u.p) - 1 THEN u.p[u.at - 1].end .. u.p[u.at].start - 1 ELSE {}
    IN /\ \A f \in ToSet(u.p) : f.d = d
       /\ UNION {f.start .. f.end - 1 : f \in ToSet(u.p)} \cup unseen = 0 .. Length(d) - 1

(* The reassembly queue keeps what it should and no more, and hands up     *)
(* what is complete and nothing else, but for one gap (ip_reass).          *)
ReassSound == ReassAccounted /\ CompleteIsHandedUp /\ WholeButBeforeTheNewest

(* "all fragments are received" (ip_frag.c:441): what is handed up has no  *)
(* hole.                                                                   *)
HandedUpWhole == \A i \in DOMAIN upward : \A k \in 1 .. Len(upward[i].p) - 1 : Touch(upward[i].p, k)

(* The assertions of ip_reass_free_complete_datagram hold. *)
ReassListIntact == failed # "prev->next == ipr"
=============================================================================
