----------------------------- MODULE StackProofs -----------------------------
(***************************************************************************)
(* Proofs about layers that know nothing of each other: ProtectExcludes,   *)
(* WaitersCalledBack, UdpSound, HeapSound, ChannelShared and ArpCoherent.  *)
(***************************************************************************)
EXTENDS Protect, Dns, Udp, Heap, HalfDuplex, Link, CountingProofs, SequenceTheorems

-----------------------------------------------------------------------------
(***************************************************************************)
(* ProtectExcludes for any threads and any nesting.  What makes it         *)
(* inductive is what each thread can see in lwprot_thread: its own name    *)
(* while it is in a region, never outside, because only the thread itself  *)
(* writes it there and takes it away again before it unlocks.              *)
(***************************************************************************)

ProtNames == ProtThreads \cup {DEAD}
ProtPlaces == {"run", "lock", "own", "count", "leave", "unlock"}

ProtTypeOK ==
  /\ lwprot_thread \in ProtNames /\ lwprot_count \in Int /\ lwprot_mutex \in ProtNames
  /\ visible \in [ProtThreads -> SUBSET ProtNames]
  /\ prot \in [ProtThreads -> [pc : ProtPlaces, depth : Nat]]

(* The thread is on its way in, in a region, or on its way out. *)
Holds(t) == prot[t].pc \in {"own", "count", "leave", "unlock"} \/ (At(t, "run") /\ prot[t].depth > 0)

MutexHeld == \A t \in ProtThreads : Holds(t) <=> lwprot_mutex = t

(* What a thread that looks at lwprot_thread finds, and how deep it is. *)
SeesItself(t) ==
  /\ At(t, "run") /\ prot[t].depth > 0 => visible[t] = {t} /\ lwprot_count = prot[t].depth
  /\ At(t, "count") => visible[t] = {t} /\ prot[t].depth = 0
  /\ At(t, "leave") => visible[t] = {t} /\ prot[t].depth = 1
  /\ At(t, "unlock") => t \notin visible[t] /\ prot[t].depth = 1 /\ lwprot_thread = DEAD
  /\ At(t, "lock") \/ At(t, "own") => t \notin visible[t] /\ prot[t].depth = 0
  /\ At(t, "run") /\ prot[t].depth = 0 => t \notin visible[t]

FreeIsDead == lwprot_mutex = 0 => lwprot_thread = DEAD

ProtInv == ProtTypeOK /\ MutexHeld /\ (\A t \in ProtThreads : SeesItself(t)) /\ FreeIsDead

LEMMA ProtInitially == ProtInit => ProtInv
  BY ProtAssumption DEF ProtInit, ProtInv, ProtTypeOK, ProtNames, ProtPlaces, MutexHeld, Holds, SeesItself,
     FreeIsDead, At, DEAD

LEMMA ProtStep == ProtInv /\ [ProtNext]_protVars => ProtInv'
<1> SUFFICES ASSUME ProtInv, [ProtNext]_protVars PROVE ProtInv'
  OBVIOUS
<1> USE ProtAssumption DEF ProtInv, ProtTypeOK, ProtNames, ProtPlaces, MutexHeld, Holds, SeesItself, FreeIsDead,
        At, Goes, DEAD
<1>1. CASE UNCHANGED protVars
  BY <1>1 DEF protVars
<1>2. ASSUME NEW t \in ProtThreads, ProtectAgain(t) PROVE ProtInv'
  BY <1>2 DEF ProtectAgain
<1>3. ASSUME NEW t \in ProtThreads, ProtectFirst(t) PROVE ProtInv'
  BY <1>3 DEF ProtectFirst
<1>4. ASSUME NEW t \in ProtThreads, ProtectLock(t) PROVE ProtInv'
  BY <1>4 DEF ProtectLock
<1>5. ASSUME NEW t \in ProtThreads, ProtectOwn(t) PROVE ProtInv'
  BY <1>5 DEF ProtectOwn, Write
<1>6. ASSUME NEW t \in ProtThreads, ProtectCount(t) PROVE ProtInv'
  BY <1>6 DEF ProtectCount
<1>7. ASSUME NEW t \in ProtThreads, Unprotect(t) PROVE ProtInv'
  BY <1>7 DEF Unprotect
<1>8. ASSUME NEW t \in ProtThreads, UnprotectReset(t) PROVE ProtInv'
  BY <1>8 DEF UnprotectReset, Write
<1>9. ASSUME NEW t \in ProtThreads, UnprotectUnlock(t) PROVE ProtInv'
  BY <1>9 DEF UnprotectUnlock
<1> QED
  BY <1>1, <1>2, <1>3, <1>4, <1>5, <1>6, <1>7, <1>8, <1>9 DEF ProtNext

(* For any threads and any depth of nesting, sys_arch_protect excludes     *)
(* every other thread from the protected regions, in spite of its unlocked *)
(* look at lwprot_thread, and sys_arch_unprotect gives the mutex back.     *)
THEOREM ProtectSafe == ProtSpec => []ProtectExcludes
<1>1. ProtInv => ProtectExcludes
  BY ProtAssumption DEF ProtInv, ProtTypeOK, ProtNames, MutexHeld, Holds, SeesItself, ProtectExcludes, At, DEAD
<1> QED
  BY <1>1, ProtInitially, ProtStep, PTL DEF ProtSpec

-----------------------------------------------------------------------------
(***************************************************************************)
(* WaitersCalledBack for a table, pools and counters of any size, any      *)
(* callers, names, losses, delays and duplicates.  What makes it inductive *)
(* is the converse of OneCallsBack: an entry that is being asked for has a *)
(* caller that waits for it, and no two entries the same one.              *)
(***************************************************************************)

DnsName == {NoName} \cup UNION {p.names : p \in DnsPlans}
EntryType ==
  [state : {"UNUSED", "NEW", "ASKING", "DONE"}, numdns : Int, tmr : Int, retries : Int,
   seqno : 0 .. SeqnoValues - 1, ttl : Int, name : DnsName, ip : DnsName, found : DnsCallers \cup {0}]
AskerType ==
  [pc : {"idle", "posted", "lost", "waiting", "woken", "using"}, name : DnsName,
   kind : {"", "hostent", "addrinfo"}, result : DnsName, err : {"", "OK", "VAL", "MEM", "MEMORY"}, ai : {0, 1}]

DnsTypes ==
  /\ dns_table \in [DnsSlots -> EntryType] /\ asker \in [DnsCallers -> AskerType]
  /\ dns_seqno \in 0 .. SeqnoValues - 1 /\ dnsplan \in DnsPlans

(* An entry is asked for on behalf of one waiting caller, and a waiting    *)
(* caller has such an entry.                                               *)
Asking(i) == dns_table[i].state = "ASKING"
OneAsks ==
  /\ \A i \in DnsSlots : dns_table[i].state # "NEW"
  /\ \A i \in DnsSlots : Asking(i) => /\ dns_table[i].found \in DnsCallers
                                      /\ asker[dns_table[i].found].pc = "waiting"
                                      /\ dns_table[i].name = asker[dns_table[i].found].name
  /\ \A i, j \in DnsSlots : Asking(i) /\ Asking(j) /\ dns_table[i].found = dns_table[j].found => i = j
  /\ \A c \in DnsCallers : asker[c].pc = "waiting" => \E i \in DnsSlots : Asking(i) /\ dns_table[i].found = c

(* Every name in use is one that was looked up. *)
Named ==
  /\ \A i \in DnsSlots : dns_table[i].state # "UNUSED" => dns_table[i].name \in dnsplan.names
  /\ \A c \in DnsCallers : asker[c].pc # "idle" => asker[c].name \in dnsplan.names
  /\ \A q \in queries : q.id \in DnsSlots /\ q.name \in dnsplan.names

(* What is cached and what was told are true, if names cannot be confused. *)
CacheTrue == \A i \in DnsSlots : dns_table[i].state = "DONE" => dns_table[i].ip = dns_table[i].name
Told == NamesApart(dnsplan.names) => CacheTrue /\ ToldItsAddress

DnsInv == DnsTypes /\ OneAsks /\ Named /\ Told

LEMMA DnsNames ==
  /\ NoName \in DnsName
  /\ \A p \in DnsPlans : \A n \in p.names : n \in DnsName
<1>1. ASSUME NEW p \in DnsPlans, NEW n \in p.names PROVE n \in DnsName
  <2>1. p.names \in {q.names : q \in DnsPlans}
    OBVIOUS
  <2> QED BY <2>1 DEF DnsName
<1>2. NoName \in DnsName
  BY DEF DnsName
<1> QED
  BY <1>1, <1>2

LEMMA DnsNumbers ==
  /\ DNS_TABLE_SIZE \in Nat /\ DNS_TABLE_SIZE > 0 /\ 0 \in DnsSlots /\ DnsSlots \subseteq Nat
  /\ SeqnoValues \in Nat /\ SeqnoValues > 0 /\ 0 \in 0 .. SeqnoValues - 1
  /\ TtlValues \in Nat /\ TtlValues > 0 /\ DNS_MAX_TTL \in Nat
  BY DnsAssumption DEF DnsSlots

LEMMA VacantTypes == Vacant \in EntryType /\ Idle \in AskerType
  BY DnsNames, DnsNumbers DEF Vacant, Idle, EntryType, AskerType

(* The least element of a set of numbers is found by Min. *)
LEMMA MinIs ==
  ASSUME NEW S, S \subseteq Nat, S # {}
  PROVE  Min(S) \in S
<1>1. \E x \in S : \A y \in S : x =< y
  BY NatLeast
<1> QED
  BY <1>1 DEF Min

(* What the timer makes of an entry. *)
Checked(e, r) ==
  /\ r \in EntryType /\ r.state # "NEW"
  /\ r.state = "ASKING" <=> e.state = "NEW" \/ (e.state = "ASKING" /\ ~GivesUp(e))
  /\ r.state = "DONE" => e.state = "DONE" /\ r.ip = e.ip
  /\ r.state # "UNUSED" => e.state # "UNUSED" /\ r.name = e.name /\ r.found = e.found

LEMMA CheckEntry ==
  ASSUME NEW e \in EntryType
  PROVE  Checked(e, dns_check_entry(e))
<1> DEFINE r == dns_check_entry(e)
<1>0. LiveFor(e.ttl) \in Int
  BY DnsNumbers DEF LiveFor, EntryType
<1>1. CASE e.state = "NEW"
  <2>1. r = [e EXCEPT !.state = "ASKING", !.numdns = 0, !.tmr = 1, !.retries = 0]
    BY <1>1 DEF dns_check_entry, Expires, GivesUp
  <2> HIDE DEF r
  <2>2. r = [state |-> "ASKING", numdns |-> 0, tmr |-> 1, retries |-> 0, seqno |-> e.seqno, ttl |-> e.ttl,
             name |-> e.name, ip |-> e.ip, found |-> e.found]
    BY <2>1 DEF EntryType
  <2>3. Checked(e, r)
    BY <1>1, <2>2 DEF Checked, EntryType
  <2> QED BY <2>3 DEF r
<1>2. CASE e.state = "UNUSED"
  <2>1. r = e
    BY <1>2 DEF dns_check_entry, Expires, GivesUp, Sends
  <2> QED BY <1>2, <2>1 DEF Checked
<1>3. CASE e.state = "DONE"
  <2>1. r = IF LiveFor(e.ttl) = 0 THEN Vacant ELSE [e EXCEPT !.ttl = LiveFor(@)]
    BY <1>3 DEF dns_check_entry, Expires, GivesUp, Sends
  <2> QED BY <1>0, <1>3, <2>1, VacantTypes DEF Checked, EntryType, Vacant
<1>4. CASE e.state = "ASKING"
  <2>1. CASE ~Expires(e)
    <3>1. r = [e EXCEPT !.tmr = @ - 1]
      BY <1>4, <2>1 DEF dns_check_entry, GivesUp
    <3> QED BY <1>4, <2>1, <3>1 DEF Checked, EntryType, GivesUp
  <2>2. CASE Expires(e) /\ Sends(e)
    <3>1. r = [e EXCEPT !.retries = @ + 1, !.tmr = e.retries + 1]
      BY <1>4, <2>2 DEF dns_check_entry, GivesUp
    <3> HIDE DEF r
    <3>2. r = [state |-> e.state, numdns |-> e.numdns, tmr |-> e.retries + 1, retries |-> e.retries + 1,
               seqno |-> e.seqno, ttl |-> e.ttl, name |-> e.name, ip |-> e.ip, found |-> e.found]
      BY <3>1 DEF EntryType
    <3>3. Checked(e, r)
      BY <1>4, <2>2, <3>2 DEF Checked, EntryType, GivesUp
    <3> QED BY <3>3 DEF r
  <2>3. CASE Expires(e) /\ ~Sends(e) /\ HasNext(e)
    <3>1. r = [e EXCEPT !.numdns = @ + 1, !.tmr = 1, !.retries = 0]
      BY <1>4, <2>3 DEF dns_check_entry, GivesUp
    <3> HIDE DEF r
    <3>2. r = [state |-> e.state, numdns |-> e.numdns + 1, tmr |-> 1, retries |-> 0,
               seqno |-> e.seqno, ttl |-> e.ttl, name |-> e.name, ip |-> e.ip, found |-> e.found]
      BY <3>1 DEF EntryType
    <3>3. Checked(e, r)
      BY <1>4, <2>3, <3>2 DEF Checked, EntryType, GivesUp
    <3> QED BY <3>3 DEF r
  <2>4. CASE Expires(e) /\ ~Sends(e) /\ ~HasNext(e)
    <3>1. r = Vacant /\ GivesUp(e)
      BY <1>4, <2>4 DEF dns_check_entry, GivesUp
    <3> QED BY <1>4, <3>1, VacantTypes DEF Checked, Vacant
  <2> QED BY <2>1, <2>2, <2>3, <2>4
<1> QED
  BY <1>1, <1>2, <1>3, <1>4 DEF EntryType

(* The entry that dns_enqueue chooses is one nobody waits for. *)
LEMMA EnqueueEntry ==
  ASSUME DnsTypes, Usable
  PROVE  EntryFor \in DnsSlots /\ dns_table[EntryFor].state \in {"UNUSED", "DONE"}
<1>1. CASE Unoccupied # {}
  <2>1. Unoccupied \subseteq Nat
    BY DnsNumbers DEF Unoccupied
  <2>2. Min(Unoccupied) \in Unoccupied
    BY <1>1, <2>1, MinIs
  <2> QED BY <1>1, <2>2 DEF EntryFor, Unoccupied
<1>2. CASE Unoccupied = {}
  <2>1. EntryFor = Evicted /\ dns_table[Evicted].state = "DONE"
    BY <1>2 DEF EntryFor, Usable
  <2>2. CASE Completed = {}
    BY <2>1, <2>2, DnsNumbers DEF Evicted
  <2>3. CASE Completed # {}
    <3> DEFINE Youth(i) == SeqnoValues - AgeOf(i)
               Y == {Youth(i) : i \in Completed}
    <3>1. ASSUME NEW i \in Completed PROVE i \in DnsSlots /\ i \in Nat /\ AgeOf(i) \in Int /\ Youth(i) \in Nat
      <4>1. i \in DnsSlots
        BY DEF Completed
      <4>2. dns_table[i].seqno \in 0 .. SeqnoValues - 1 /\ dns_seqno \in 0 .. SeqnoValues - 1
        BY <4>1 DEF DnsTypes, EntryType
      <4> QED BY <4>1, <4>2, DnsNumbers DEF AgeOf
    <3> HIDE DEF Youth
    <3>2. Y \subseteq Nat /\ Y # {}
      BY <2>3, <3>1
    <3>3. PICK y \in Y : \A z \in Y : y <= z
      <4> HIDE DEF Y
      <4> QED BY <3>2, NatLeast
    <3> DEFINE O == {i \in Completed : Youth(i) = y}
    <3>4. O \subseteq Nat /\ O # {}
      BY <3>1
    <3>5. PICK i \in O : \A j \in O : i <= j
      <4> HIDE DEF O
      <4> QED BY <3>4, NatLeast
    <3>6. ASSUME NEW j \in Completed PROVE AgeOf(j) < AgeOf(i) \/ (AgeOf(j) = AgeOf(i) /\ i <= j)
      <4>1. i \in Completed /\ Youth(i) <= Youth(j) /\ (Youth(i) = Youth(j) => i <= j)
        BY <3>3, <3>5
      <4>2. AgeOf(i) \in Int /\ AgeOf(j) \in Int
        BY <3>1, <4>1
      <4> QED BY <4>1, <4>2, DnsNumbers DEF Youth
    <3>7. Evicted \in Completed
      <4>1. i \in Completed
        OBVIOUS
      <4> QED BY <2>3, <3>6, <4>1 DEF Evicted
    <3> QED BY <2>1, <3>1, <3>7
  <2> QED BY <2>2, <2>3
<1> QED
  BY <1>1, <1>2

LEMMA DnsInitially == DnsInit => DnsInv
<1> SUFFICES ASSUME DnsInit PROVE DnsInv
  OBVIOUS
<1>1. /\ dnsplan \in DnsPlans /\ dns_table = [i \in DnsSlots |-> Vacant] /\ dns_seqno = dnsplan.seqno
      /\ queries = {} /\ asker = [c \in DnsCallers |-> Idle]
  BY DEF DnsInit
<1>2. DnsTypes
  BY <1>1, VacantTypes, DnsAssumption DEF DnsTypes
<1>3. (\A i \in DnsSlots : dns_table[i].state = "UNUSED") /\ \A c \in DnsCallers : asker[c].pc = "idle"
  BY <1>1 DEF Vacant, Idle
<1> QED
  BY <1>1, <1>2, <1>3 DEF DnsInv, OneAsks, Asking, Named, Told, CacheTrue, ToldItsAddress

(* A step in which one thread that does not wait goes on. *)
LEMMA CallerGoesOn ==
  ASSUME DnsInv, NEW c \in DnsCallers, NEW a \in AskerType,
         asker' \in [DnsCallers -> AskerType], asker'[c] = a, \A d \in DnsCallers : d # c => asker'[d] = asker[d],
         UNCHANGED <<dns_table, dns_seqno, queries, dnsplan>>,
         asker[c].pc # "waiting", a.pc # "waiting",
         a.pc # "idle" => a.name \in dnsplan.names,
         NamesApart(dnsplan.names) /\ a.pc \in {"woken", "using"} /\ a.err = "OK" => a.result = a.name
  PROVE  DnsInv'
<1>1. asker' \in [DnsCallers -> AskerType] /\ asker'[c] = a /\ \A d \in DnsCallers : d # c => asker'[d] = asker[d]
  OBVIOUS
<1>2. dns_table' = dns_table /\ dns_seqno' = dns_seqno /\ queries' = queries /\ dnsplan' = dnsplan
  OBVIOUS
<1>3. DnsTypes'
  BY <1>1, <1>2 DEF DnsInv, DnsTypes
<1>4. OneAsks'
  BY <1>1, <1>2 DEF DnsInv, OneAsks, Asking
<1>5. Named'
  BY <1>1, <1>2 DEF DnsInv, Named
<1>6. Told'
  BY <1>1, <1>2 DEF DnsInv, Told, CacheTrue, ToldItsAddress, NamesApart, dns_compare_name
<1> QED
  BY <1>3, <1>4, <1>5, <1>6 DEF DnsInv

(* dns_tmr: who is told that his query failed is no longer asked for. *)
LEMMA DnsTickStep ==
  ASSUME DnsInv, DnsTick
  PROVE  DnsInv'
<1>1. /\ \A i \in DnsSlots : Checked(dns_table[i], dns_table'[i])
      /\ dns_table' \in [DnsSlots -> EntryType]
  <2>1. dns_table' = [i \in DnsSlots |-> dns_check_entry(dns_table[i])]
    BY DEF DnsTick
  <2>2. \A i \in DnsSlots : dns_table[i] \in EntryType /\ Checked(dns_table[i], dns_check_entry(dns_table[i]))
    BY CheckEntry DEF DnsInv, DnsTypes
  <2> QED BY <2>1, <2>2 DEF Checked
<1>2. dns_seqno' = dns_seqno /\ dnsplan' = dnsplan
  BY DEF DnsTick, Rest
<1>3. \A c \in DnsCallers : asker'[c] = IF GaveUp(c) THEN do_dns_found(asker[c], NoName) ELSE asker[c]
  BY DEF DnsTick
<1>4. ASSUME NEW c \in DnsCallers
      PROVE  /\ do_dns_found(asker[c], NoName) \in AskerType /\ do_dns_found(asker[c], NoName).pc = "woken"
             /\ do_dns_found(asker[c], NoName).name = asker[c].name
             /\ do_dns_found(asker[c], NoName).err = "VAL"
  <2>1. asker[c] \in AskerType
    BY DEF DnsInv, DnsTypes
  <2>2. do_dns_found(asker[c], NoName) = [asker[c] EXCEPT !.pc = "woken", !.result = NoName, !.err = "VAL"]
    BY DEF do_dns_found
  <2> QED BY <2>1, <2>2, DnsNames DEF AskerType
<1>5. asker' \in [DnsCallers -> AskerType]
  BY <1>3, <1>4 DEF DnsTick, DnsInv, DnsTypes
<1>6. ASSUME NEW c \in DnsCallers, GaveUp(c) PROVE asker[c].pc = "waiting"
  BY <1>6 DEF GaveUp, GivesUp, Expires, DnsInv, OneAsks, Asking
<1>7. ASSUME NEW i \in DnsSlots
      PROVE  dns_table'[i].state = "ASKING" <=> Asking(i) /\ ~GaveUp(dns_table[i].found)
  <2>1. dns_table[i].state # "NEW" /\ (dns_table'[i].state = "ASKING" <=> Asking(i) /\ ~GivesUp(dns_table[i]))
    BY <1>1 DEF Checked, DnsInv, OneAsks, Asking
  <2>2. ASSUME Asking(i), GaveUp(dns_table[i].found) PROVE GivesUp(dns_table[i])
    <3>1. PICK j \in DnsSlots : GivesUp(dns_table[j]) /\ dns_table[j].found = dns_table[i].found
      BY <2>2 DEF GaveUp
    <3>2. Asking(j)
      BY <3>1 DEF GivesUp, Expires, Asking
    <3> QED BY <2>2, <3>1, <3>2 DEF DnsInv, OneAsks
  <2>3. GivesUp(dns_table[i]) => GaveUp(dns_table[i].found)
    BY DEF GaveUp
  <2> QED BY <2>1, <2>2, <2>3
<1>8. \A i \in DnsSlots : dns_table'[i].state = "ASKING" =>
        /\ Asking(i) /\ dns_table'[i].found = dns_table[i].found /\ dns_table'[i].name = dns_table[i].name
        /\ ~GaveUp(dns_table[i].found)
  BY <1>1, <1>7 DEF Checked
<1>9. DnsTypes'
  BY <1>1, <1>2, <1>5 DEF DnsInv, DnsTypes
<1>10. OneAsks'
  <2>1. \A i \in DnsSlots : dns_table'[i].state # "NEW"
    BY <1>1 DEF Checked
  <2>2. ASSUME NEW i \in DnsSlots, dns_table'[i].state = "ASKING"
        PROVE  /\ dns_table'[i].found \in DnsCallers /\ asker'[dns_table'[i].found].pc = "waiting"
               /\ dns_table'[i].name = asker'[dns_table'[i].found].name
    BY <1>3, <1>8, <2>2 DEF DnsInv, OneAsks
  <2>3. ASSUME NEW c \in DnsCallers, asker'[c].pc = "waiting"
        PROVE  \E i \in DnsSlots : dns_table'[i].state = "ASKING" /\ dns_table'[i].found = c
    <3>1. ~GaveUp(c) /\ asker[c].pc = "waiting"
      BY <1>3, <1>4, <2>3
    <3>2. PICK i \in DnsSlots : Asking(i) /\ dns_table[i].found = c
      BY <3>1 DEF DnsInv, OneAsks
    <3> QED BY <1>7, <1>8, <3>1, <3>2
  <2> QED BY <1>8, <2>1, <2>2, <2>3 DEF DnsInv, OneAsks, Asking
<1>11. Named'
  <2>1. \A i \in DnsSlots : dns_table'[i].state # "UNUSED" => dns_table'[i].name \in dnsplan.names
    BY <1>1 DEF Checked, DnsInv, Named
  <2>2. \A c \in DnsCallers : asker'[c].pc # "idle" => asker'[c].name \in dnsplan.names
    BY <1>3, <1>4, <1>6 DEF DnsInv, Named
  <2>3. ASSUME NEW q \in queries' PROVE q.id \in DnsSlots /\ q.name \in dnsplan.names
    <3>1. q \in queries \/ \E i \in Senders : q = Query(i, dns_table[i])
      BY DEF DnsTick
    <3>2. CASE q \in queries
      BY <3>2 DEF DnsInv, Named
    <3>3. ASSUME NEW i \in Senders, q = Query(i, dns_table[i]) PROVE q.id \in DnsSlots /\ q.name \in dnsplan.names
      <4>1. i \in DnsSlots /\ dns_table[i].state # "UNUSED"
        BY DEF Senders, Sends, Expires
      <4> QED BY <3>3, <4>1 DEF Query, DnsInv, Named
    <3> QED BY <3>1, <3>2, <3>3
  <2> QED BY <1>2, <2>1, <2>2, <2>3 DEF Named
<1>12. Told'
  <2>1. SUFFICES ASSUME NamesApart(dnsplan.names)
                 PROVE  /\ \A i \in DnsSlots : dns_table'[i].state = "DONE" => dns_table'[i].ip = dns_table'[i].name
                        /\ \A c \in DnsCallers : asker'[c].pc \in {"woken", "using"} /\ asker'[c].err = "OK"
                                                  => asker'[c].result = asker'[c].name
    BY <1>2 DEF Told, CacheTrue, ToldItsAddress, NamesApart, dns_compare_name
  <2>2. CacheTrue /\ ToldItsAddress
    BY <2>1 DEF DnsInv, Told
  <2>3. ASSUME NEW i \in DnsSlots, dns_table'[i].state = "DONE" PROVE dns_table'[i].ip = dns_table'[i].name
    BY <1>1, <2>2, <2>3 DEF Checked, CacheTrue
  <2>4. ASSUME NEW c \in DnsCallers, asker'[c].pc \in {"woken", "using"}, asker'[c].err = "OK"
        PROVE  asker'[c].result = asker'[c].name
    BY <1>3, <1>4, <2>2, <2>4 DEF ToldItsAddress
  <2> QED BY <2>3, <2>4
<1> QED
  BY <1>9, <1>10, <1>11, <1>12 DEF DnsInv

(* A query ends: its entry is completed or given up, its caller is told. *)
LEMMA QueryEnds ==
  ASSUME DnsInv, NEW i \in DnsSlots, Asking(i), NEW r \in EntryType, NEW a \in AskerType,
         dns_table' \in [DnsSlots -> EntryType], dns_table'[i] = r,
         \A j \in DnsSlots : j # i => dns_table'[j] = dns_table[j],
         asker' \in [DnsCallers -> AskerType], asker'[dns_table[i].found] = a,
         \A d \in DnsCallers : d # dns_table[i].found => asker'[d] = asker[d],
         dns_seqno' = dns_seqno, dnsplan' = dnsplan, queries' \subseteq queries,
         r.state \in {"UNUSED", "DONE"}, r.state = "DONE" => r.name = dns_table[i].name,
         a.pc = "woken", a.name = asker[dns_table[i].found].name,
         NamesApart(dnsplan.names) => /\ r.state = "DONE" => r.ip = r.name
                                      /\ a.err = "OK" => a.result = a.name
  PROVE  DnsInv'
<1> DEFINE c == dns_table[i].found
<1>1. c \in DnsCallers /\ asker[c].pc = "waiting" /\ dns_table[i].name = asker[c].name
  BY DEF DnsInv, OneAsks
<1>2. DnsTypes'
  BY DEF DnsInv, DnsTypes
<1>3. OneAsks'
  <2>1. \A j \in DnsSlots : dns_table'[j].state # "NEW"
    BY DEF DnsInv, OneAsks
  <2>2. ASSUME NEW j \in DnsSlots, dns_table'[j].state = "ASKING"
        PROVE  j # i /\ Asking(j) /\ dns_table'[j] = dns_table[j] /\ dns_table[j].found # c
    <3>1. j # i /\ dns_table'[j] = dns_table[j] /\ Asking(j)
      BY <2>2 DEF Asking
    <3> QED BY <3>1 DEF DnsInv, OneAsks
  <2>3. ASSUME NEW d \in DnsCallers, asker'[d].pc = "waiting"
        PROVE  \E j \in DnsSlots : dns_table'[j].state = "ASKING" /\ dns_table'[j].found = d
    <3>1. d # c /\ asker[d].pc = "waiting"
      BY <2>3
    <3>2. PICK j \in DnsSlots : Asking(j) /\ dns_table[j].found = d
      BY <3>1 DEF DnsInv, OneAsks
    <3>3. j # i
      BY <3>1, <3>2
    <3> QED BY <3>2, <3>3 DEF Asking
  <2>4. ASSUME NEW j \in DnsSlots, dns_table'[j].state = "ASKING"
        PROVE  /\ dns_table'[j].found \in DnsCallers /\ asker'[dns_table'[j].found].pc = "waiting"
               /\ dns_table'[j].name = asker'[dns_table'[j].found].name
    <3>1. j # i /\ Asking(j) /\ dns_table'[j] = dns_table[j] /\ dns_table[j].found # c
      BY <2>2, <2>4
    <3>2. /\ dns_table[j].found \in DnsCallers /\ asker[dns_table[j].found].pc = "waiting"
          /\ dns_table[j].name = asker[dns_table[j].found].name
      BY <3>1 DEF DnsInv, OneAsks
    <3> QED BY <3>1, <3>2
  <2>5. ASSUME NEW j \in DnsSlots, NEW k \in DnsSlots, dns_table'[j].state = "ASKING", dns_table'[k].state = "ASKING",
               dns_table'[j].found = dns_table'[k].found
        PROVE  j = k
    <3>1. Asking(j) /\ Asking(k) /\ dns_table[j].found = dns_table[k].found
      BY <2>2, <2>5
    <3> QED BY <3>1 DEF DnsInv, OneAsks
  <2> QED BY <2>1, <2>3, <2>4, <2>5 DEF OneAsks, Asking
<1>4. Named'
  <2>1. \A j \in DnsSlots : dns_table'[j].state # "UNUSED" => dns_table'[j].name \in dnsplan.names
    BY DEF DnsInv, Named, Asking
  <2>2. \A d \in DnsCallers : asker'[d].pc # "idle" => asker'[d].name \in dnsplan.names
    BY <1>1 DEF DnsInv, Named
  <2>3. \A q \in queries' : q.id \in DnsSlots /\ q.name \in dnsplan.names
    BY DEF DnsInv, Named
  <2> QED BY <2>1, <2>2, <2>3 DEF Named
<1>5. Told'
  <2>1. SUFFICES ASSUME NamesApart(dnsplan.names)
                 PROVE  /\ \A j \in DnsSlots : dns_table'[j].state = "DONE" => dns_table'[j].ip = dns_table'[j].name
                        /\ \A d \in DnsCallers : asker'[d].pc \in {"woken", "using"} /\ asker'[d].err = "OK"
                                                  => asker'[d].result = asker'[d].name
    BY DEF Told, CacheTrue, ToldItsAddress, NamesApart, dns_compare_name
  <2>2. CacheTrue /\ ToldItsAddress
    BY <2>1 DEF DnsInv, Told
  <2>3. \A j \in DnsSlots : dns_table'[j].state = "DONE" => dns_table'[j].ip = dns_table'[j].name
    BY <2>1, <2>2 DEF CacheTrue
  <2>4. \A d \in DnsCallers : asker'[d].pc \in {"woken", "using"} /\ asker'[d].err = "OK"
                               => asker'[d].result = asker'[d].name
    BY <1>1, <2>1, <2>2 DEF ToldItsAddress
  <2> QED BY <2>3, <2>4
<1> QED
  BY <1>2, <1>3, <1>4, <1>5 DEF DnsInv

(* What do_dns_found writes. *)
LEMMA FoundThere ==
  ASSUME NEW a \in AskerType, NEW ip \in DnsName
  PROVE  LET b == do_dns_found(a, ip) IN
         b \in AskerType /\ b.pc = "woken" /\ b.name = a.name /\ b.result = ip /\ (b.err = "OK" => ip # NoName)
<1> DEFINE b == do_dns_found(a, ip)
           x == IF ip = NoName THEN "VAL" ELSE "OK"
<1>1. b = [a EXCEPT !.pc = "woken", !.result = ip, !.err = x]
  BY DEF do_dns_found
<1>2. x \in {"OK", "VAL"} /\ (x = "OK" => ip # NoName)
  OBVIOUS
<1> HIDE DEF b, x
<1>3. b = [pc |-> "woken", name |-> a.name, kind |-> a.kind, result |-> ip, err |-> x, ai |-> a.ai]
  BY <1>1 DEF AskerType
<1>4. b \in AskerType /\ b.pc = "woken" /\ b.name = a.name /\ b.result = ip /\ b.err = x
  BY <1>2, <1>3 DEF AskerType
<1> QED
  BY <1>2, <1>4 DEF b

(* dns_recv, and an answer that is dropped. *)
LEMMA DnsAnswerStep ==
  ASSUME DnsInv, NEW q \in queries, DnsAnswer(q)
  PROVE  DnsInv'
<1>1. dns_seqno' = dns_seqno /\ dnsplan' = dnsplan /\ queries' \subseteq queries
  BY DEF DnsAnswer, Rest
<1> DEFINE e == dns_table[q.id]
<1>2. q.id \in DnsSlots /\ q.name \in dnsplan.names /\ q.name \in DnsName /\ NoName \in DnsName /\ e \in EntryType
  BY DnsNames DEF DnsInv, Named, DnsTypes
<1>3. CASE UNCHANGED <<dns_table, asker>>
  <2>1. DnsTypes' /\ OneAsks'
    BY <1>1, <1>3 DEF DnsInv, DnsTypes, OneAsks, Asking
  <2>2. Named' /\ Told'
    BY <1>1, <1>3 DEF DnsInv, Named, Told, CacheTrue, ToldItsAddress, NamesApart, dns_compare_name
  <2> QED BY <2>1, <2>2 DEF DnsInv
<1>4. ASSUME Asking(q.id), NEW says, NEW ttl \in dnsplan.ttls, dns_recv(q, e, says, ttl) PROVE DnsInv'
  <2>1. e.found \in DnsCallers /\ asker[e.found] \in AskerType /\ e.name = asker[e.found].name
    BY <1>2, <1>4 DEF DnsInv, DnsTypes, OneAsks
  <2>2. CASE says = "address" /\ dns_compare_name(e.name, q.name)
    <3> DEFINE m == Min({ttl, DNS_MAX_TTL})
               r == [e EXCEPT !.state = "DONE", !.ip = q.name, !.ttl = m]
               a == do_dns_found(asker[e.found], q.name)
    <3>1. m \in Int
      <4>1. ttl \in Nat
        BY DnsAssumption DEF DnsInv, DnsTypes
      <4>2. {ttl, DNS_MAX_TTL} \subseteq Nat /\ {ttl, DNS_MAX_TTL} # {}
        BY <4>1, DnsNumbers
      <4>3. m \in {ttl, DNS_MAX_TTL}
        BY <4>2, MinIs
      <4> QED BY <4>2, <4>3
    <3>2. dns_table' = [dns_table EXCEPT ![q.id] = r]
      BY <2>2, <1>4 DEF dns_recv
    <3>3. asker' = [asker EXCEPT ![e.found] = a]
      BY <2>2, <1>4 DEF dns_recv
    <3> HIDE DEF m
    <3>4. r = [state |-> "DONE", numdns |-> e.numdns, tmr |-> e.tmr, retries |-> e.retries, seqno |-> e.seqno,
               ttl |-> m, name |-> e.name, ip |-> q.name, found |-> e.found]
      <4> DEFINE n == q.name
      <4>1. r = [e EXCEPT !.state = "DONE", !.ip = n, !.ttl = m]
        OBVIOUS
      <4> HIDE DEF e, r, n
      <4>2. r = [state |-> "DONE", numdns |-> e.numdns, tmr |-> e.tmr, retries |-> e.retries, seqno |-> e.seqno,
                 ttl |-> m, name |-> e.name, ip |-> n, found |-> e.found]
        BY <1>2, <4>1 DEF EntryType
      <4> QED BY <4>2 DEF n
    <3> HIDE DEF r
    <3>5. r \in EntryType /\ r.state = "DONE" /\ r.name = e.name /\ r.ip = q.name
      BY <1>2, <3>1, <3>4 DEF EntryType
    <3>6. a \in AskerType /\ a.pc = "woken" /\ a.name = asker[e.found].name /\ a.result = q.name
      BY <1>2, <2>1, FoundThere
    <3>7. NamesApart(dnsplan.names) => q.name = e.name
      <4>1. e.name \in dnsplan.names
        BY <1>2, <1>4 DEF DnsInv, Named, Asking
      <4> QED BY <1>2, <2>2, <4>1 DEF NamesApart
    <3> HIDE DEF a
    <3>8. /\ dns_table' \in [DnsSlots -> EntryType] /\ dns_table'[q.id] = r
          /\ \A j \in DnsSlots : j # q.id => dns_table'[j] = dns_table[j]
      BY <1>2, <3>2, <3>5 DEF DnsInv, DnsTypes
    <3>9. /\ asker' \in [DnsCallers -> AskerType] /\ asker'[e.found] = a
          /\ \A d \in DnsCallers : d # e.found => asker'[d] = asker[d]
      BY <2>1, <3>3, <3>6 DEF DnsInv, DnsTypes
    <3> QED BY <1>1, <1>2, <1>4, <2>1, <3>5, <3>6, <3>7, <3>8, <3>9, QueryEnds
  <2>3. CASE ~(says = "address" /\ dns_compare_name(e.name, q.name))
    <3> DEFINE a == do_dns_found(asker[e.found], NoName)
    <3>1. dns_table' = [dns_table EXCEPT ![q.id] = Vacant] /\ asker' = [asker EXCEPT ![e.found] = a]
      BY <2>3, <1>4 DEF dns_recv
    <3>2. a \in AskerType /\ a.pc = "woken" /\ a.name = asker[e.found].name /\ a.err # "OK"
      BY <1>2, <2>1, FoundThere
    <3>3. Vacant \in EntryType /\ Vacant.state = "UNUSED"
      BY VacantTypes DEF Vacant
    <3> HIDE DEF a
    <3>4. /\ dns_table' \in [DnsSlots -> EntryType] /\ dns_table'[q.id] = Vacant
          /\ \A j \in DnsSlots : j # q.id => dns_table'[j] = dns_table[j]
      BY <1>2, <3>1, <3>3 DEF DnsInv, DnsTypes
    <3>5. /\ asker' \in [DnsCallers -> AskerType] /\ asker'[e.found] = a
          /\ \A d \in DnsCallers : d # e.found => asker'[d] = asker[d]
      BY <2>1, <3>1, <3>2 DEF DnsInv, DnsTypes
    <3> QED BY <1>1, <1>2, <1>4, <2>1, <3>2, <3>3, <3>4, <3>5, QueryEnds
  <2> QED BY <2>2, <2>3
<1> QED
  BY <1>3, <1>4 DEF DnsAnswer, Asking

(* do_gethostbyname: a caller is answered, refused, or becomes the one for *)
(* whom an entry that nobody waits for is asked for.                       *)
LEMMA DoGethostbynameStep ==
  ASSUME DnsInv, NEW c \in DnsCallers, DoGethostbyname(c)
  PROVE  DnsInv'
<1>1. /\ asker[c].pc = "posted" /\ asker[c] \in AskerType /\ asker[c].name \in dnsplan.names
      /\ dnsplan' = dnsplan /\ dnsplan \in DnsPlans
  BY DEF DoGethostbyname, Rest, DnsInv, DnsTypes, Named
<1>2. asker[c].name \in DnsName
  BY <1>1 DEF AskerType
<1>3. CASE /\ Known(asker[c].name)
           /\ asker' = [asker EXCEPT ![c] = do_dns_found(@, dns_lookup(@.name))]
           /\ UNCHANGED <<dns_table, dns_seqno, dns_peer, queries>>
  <2> DEFINE n == dns_lookup(asker[c].name)
             a == do_dns_found(asker[c], n)
  <2>1. asker' = [asker EXCEPT ![c] = a]
    BY <1>3
  <2>2. n \in DnsName /\ (NamesApart(dnsplan.names) => n = asker[c].name)
    <3>1. CASE KnownLocally(asker[c].name)
      BY <1>2, <3>1 DEF dns_lookup
    <3>2. CASE ~KnownLocally(asker[c].name)
      <4> DEFINE C == Cached(asker[c].name)
      <4>1. C # {} /\ C \subseteq Nat
        BY <1>3, <3>2, DnsNumbers DEF Known, Cached
      <4>2. Min(C) \in C
        <5> HIDE DEF C
        <5> QED BY <4>1, MinIs
      <4>3. /\ Min(C) \in DnsSlots /\ dns_table[Min(C)].state = "DONE"
            /\ dns_table[Min(C)].name = asker[c].name /\ n = dns_table[Min(C)].ip
        BY <3>2, <4>2 DEF Cached, dns_lookup
      <4> HIDE DEF C, n
      <4>4. dns_table[Min(C)].ip \in DnsName
        BY <4>3 DEF DnsInv, DnsTypes, EntryType
      <4> QED BY <4>3, <4>4 DEF DnsInv, Told, CacheTrue
    <3> QED BY <3>1, <3>2
  <2> HIDE DEF n
  <2>3. a \in AskerType /\ a.pc = "woken" /\ a.name = asker[c].name /\ a.result = n
    BY <1>1, <2>2, FoundThere
  <2> HIDE DEF a
  <2>4. /\ asker' \in [DnsCallers -> AskerType] /\ asker'[c] = a
        /\ \A d \in DnsCallers : d # c => asker'[d] = asker[d]
    BY <2>1, <2>3 DEF DnsInv, DnsTypes
  <2>5. UNCHANGED <<dns_table, dns_seqno, queries, dnsplan>>
    BY <1>1, <1>3
  <2> QED BY <1>1, <2>2, <2>3, <2>4, <2>5, CallerGoesOn
<1>4. CASE /\ asker' = [asker EXCEPT ![c].pc = "woken", ![c].err = "MEM"]
           /\ UNCHANGED <<dns_table, dns_seqno, dns_peer, queries>>
  <2> DEFINE b == asker[c]
             a == [b EXCEPT !.pc = "woken", !.err = "MEM"]
  <2>1. asker' = [asker EXCEPT ![c] = a]
    BY <1>1, <1>4 DEF DnsInv, DnsTypes
  <2>2. a \in AskerType /\ a.pc = "woken" /\ a.name = asker[c].name /\ a.err = "MEM"
    BY <1>1 DEF AskerType
  <2> HIDE DEF a
  <2>3. /\ asker' \in [DnsCallers -> AskerType] /\ asker'[c] = a
        /\ \A d \in DnsCallers : d # c => asker'[d] = asker[d]
    BY <2>1, <2>2 DEF DnsInv, DnsTypes
  <2>4. UNCHANGED <<dns_table, dns_seqno, queries, dnsplan>>
    BY <1>1, <1>4
  <2> QED BY <1>1, <2>2, <2>3, <2>4, CallerGoesOn
<1>5. ASSUME Usable, NEW ok \in BOOLEAN, NEW i, i = EntryFor, NEW e,
             e = [Vacant EXCEPT !.state = "NEW", !.seqno = dns_seqno, !.name = asker[c].name, !.found = c],
             dns_enqueue(c, i, e, ok)
      PROVE  DnsInv'
  <2>1. i \in DnsSlots /\ dns_table[i].state \in {"UNUSED", "DONE"}
    BY <1>5, EnqueueEntry DEF DnsInv
  <2>2. e = [state |-> "NEW", numdns |-> 0, tmr |-> 0, retries |-> 0, seqno |-> dns_seqno, ttl |-> 0,
             name |-> asker[c].name, ip |-> NoName, found |-> c]
    BY <1>5 DEF Vacant
  <2>3. e \in EntryType /\ e.state = "NEW" /\ e.name = asker[c].name /\ e.found = c
    BY <1>2, <2>2, DnsNames DEF EntryType, DnsInv, DnsTypes
  <2> DEFINE r == dns_check_entry(e)
             b == asker[c]
             a == [b EXCEPT !.pc = "waiting"]
  <2>4. r \in EntryType /\ r.state = "ASKING" /\ r.name = asker[c].name /\ r.found = c
    <3>1. Checked(e, r)
      BY <2>3, CheckEntry
    <3> HIDE DEF r
    <3> QED BY <2>3, <3>1 DEF Checked
  <2>5. a \in AskerType /\ a.pc = "waiting" /\ a.name = asker[c].name
    BY <1>1 DEF AskerType
  <2>6. dns_table' = [dns_table EXCEPT ![i] = r] /\ asker' = [asker EXCEPT ![c] = a]
    BY <1>5 DEF dns_enqueue
  <2> HIDE DEF r, a
  <2>7. /\ dns_table' \in [DnsSlots -> EntryType] /\ dns_table'[i] = r
        /\ \A j \in DnsSlots : j # i => dns_table'[j] = dns_table[j]
    BY <2>1, <2>4, <2>6 DEF DnsInv, DnsTypes
  <2>8. /\ asker' \in [DnsCallers -> AskerType] /\ asker'[c] = a
        /\ \A d \in DnsCallers : d # c => asker'[d] = asker[d]
    BY <2>5, <2>6 DEF DnsInv, DnsTypes
  <2>9. dns_seqno' \in 0 .. SeqnoValues - 1
    <3>1. dns_seqno' = (dns_seqno + 1) % SeqnoValues /\ dns_seqno \in Nat
      BY <1>5 DEF dns_enqueue, DnsInv, DnsTypes
    <3> QED BY <3>1, DnsNumbers
  <2>10. DnsTypes'
    BY <1>1, <2>7, <2>8, <2>9 DEF DnsTypes
  <2>11. OneAsks'
    <3>1. \A j \in DnsSlots : dns_table'[j].state # "NEW"
      BY <2>4, <2>7 DEF DnsInv, OneAsks
    <3>2. ASSUME NEW j \in DnsSlots, j # i, dns_table'[j].state = "ASKING"
          PROVE  /\ Asking(j) /\ dns_table'[j] = dns_table[j] /\ dns_table[j].found \in DnsCallers
                 /\ dns_table[j].found # c /\ asker[dns_table[j].found].pc = "waiting"
                 /\ dns_table[j].name = asker[dns_table[j].found].name
      <4>1. dns_table'[j] = dns_table[j] /\ Asking(j)
        BY <2>7, <3>2 DEF Asking
      <4>2. /\ dns_table[j].found \in DnsCallers /\ asker[dns_table[j].found].pc = "waiting"
            /\ dns_table[j].name = asker[dns_table[j].found].name
        BY <4>1 DEF DnsInv, OneAsks
      <4> QED BY <1>1, <4>1, <4>2
    <3>3. ASSUME NEW j \in DnsSlots, dns_table'[j].state = "ASKING"
          PROVE  /\ dns_table'[j].found \in DnsCallers /\ asker'[dns_table'[j].found].pc = "waiting"
                 /\ dns_table'[j].name = asker'[dns_table'[j].found].name
      <4>1. CASE j = i
        BY <2>4, <2>5, <2>7, <2>8, <4>1
      <4>2. CASE j # i
        <5>1. /\ dns_table'[j] = dns_table[j] /\ dns_table[j].found \in DnsCallers
              /\ dns_table[j].found # c /\ asker[dns_table[j].found].pc = "waiting"
              /\ dns_table[j].name = asker[dns_table[j].found].name
          BY <3>2, <3>3, <4>2
        <5> QED BY <2>8, <5>1
      <4> QED BY <4>1, <4>2
    <3>4. ASSUME NEW j \in DnsSlots, NEW k \in DnsSlots, dns_table'[j].state = "ASKING",
                 dns_table'[k].state = "ASKING", dns_table'[j].found = dns_table'[k].found
          PROVE  j = k
      <4>1. j # i => Asking(j) /\ dns_table'[j] = dns_table[j] /\ dns_table[j].found # c
        BY <3>2, <3>4
      <4>2. k # i => Asking(k) /\ dns_table'[k] = dns_table[k] /\ dns_table[k].found # c
        BY <3>2, <3>4
      <4>3. dns_table'[i].found = c
        BY <2>4, <2>7
      <4>4. CASE j = i \/ k = i
        BY <3>4, <4>1, <4>2, <4>3, <4>4
      <4>5. CASE j # i /\ k # i
        BY <3>4, <4>1, <4>2, <4>5 DEF DnsInv, OneAsks
      <4> QED BY <4>4, <4>5
    <3>5. ASSUME NEW d \in DnsCallers, asker'[d].pc = "waiting"
          PROVE  \E j \in DnsSlots : dns_table'[j].state = "ASKING" /\ dns_table'[j].found = d
      <4>1. CASE d = c
        BY <2>1, <2>4, <2>7, <4>1
      <4>2. CASE d # c
        <5>1. PICK j \in DnsSlots : Asking(j) /\ dns_table[j].found = d
          BY <2>8, <3>5, <4>2 DEF DnsInv, OneAsks
        <5>2. j # i
          BY <2>1, <5>1 DEF Asking
        <5> QED BY <2>7, <5>1, <5>2 DEF Asking
      <4> QED BY <4>1, <4>2
    <3> QED BY <3>1, <3>3, <3>4, <3>5 DEF OneAsks, Asking
  <2>12. Named'
    <3>1. \A j \in DnsSlots : dns_table'[j].state # "UNUSED" => dns_table'[j].name \in dnsplan.names
      BY <1>1, <2>4, <2>7 DEF DnsInv, Named
    <3>2. \A d \in DnsCallers : asker'[d].pc # "idle" => asker'[d].name \in dnsplan.names
      BY <1>1, <2>5, <2>8 DEF DnsInv, Named
    <3>3. ASSUME NEW q \in queries' PROVE q.id \in DnsSlots /\ q.name \in dnsplan.names
      <4>1. q \in queries \/ q = Query(i, e)
        BY <1>5 DEF dns_enqueue
      <4>2. CASE q \in queries
        BY <4>2 DEF DnsInv, Named
      <4>3. CASE q = Query(i, e)
        BY <1>1, <2>1, <2>3, <4>3 DEF Query
      <4> QED BY <4>1, <4>2, <4>3
    <3> QED BY <1>1, <3>1, <3>2, <3>3 DEF Named
  <2>13. Told'
    <3>1. SUFFICES ASSUME NamesApart(dnsplan.names)
                   PROVE  /\ \A j \in DnsSlots : dns_table'[j].state = "DONE" => dns_table'[j].ip = dns_table'[j].name
                          /\ \A d \in DnsCallers : asker'[d].pc \in {"woken", "using"} /\ asker'[d].err = "OK"
                                                    => asker'[d].result = asker'[d].name
      BY <1>1 DEF Told, CacheTrue, ToldItsAddress, NamesApart, dns_compare_name
    <3>2. CacheTrue /\ ToldItsAddress
      BY <3>1 DEF DnsInv, Told
    <3>3. \A j \in DnsSlots : dns_table'[j].state = "DONE" => dns_table'[j].ip = dns_table'[j].name
      BY <2>4, <2>7, <3>2 DEF CacheTrue
    <3>4. \A d \in DnsCallers : asker'[d].pc \in {"woken", "using"} /\ asker'[d].err = "OK"
                                 => asker'[d].result = asker'[d].name
      BY <2>5, <2>8, <3>2 DEF ToldItsAddress
    <3> QED BY <3>3, <3>4
  <2> QED BY <2>10, <2>11, <2>12, <2>13 DEF DnsInv
<1> QED
  BY <1>3, <1>4, <1>5 DEF DoGethostbyname

(* The steps of the threads that ask. *)
LEMMA AskerStep ==
  ASSUME DnsInv, NEW c \in DnsCallers, NEW a \in AskerType, Asks(c, a),
         asker[c].pc # "waiting", a.pc # "waiting",
         a.pc # "idle" => a.name \in dnsplan.names,
         NamesApart(dnsplan.names) /\ a.pc \in {"woken", "using"} /\ a.err = "OK" => a.result = a.name
  PROVE  DnsInv'
<1>1. /\ asker' \in [DnsCallers -> AskerType] /\ asker'[c] = a
      /\ \A d \in DnsCallers : d # c => asker'[d] = asker[d]
  BY DEF Asks, DnsInv, DnsTypes
<1>2. UNCHANGED <<dns_table, dns_seqno, queries, dnsplan>>
  BY DEF Asks
<1> QED
  BY <1>1, <1>2, CallerGoesOn

LEMMA LookupStep ==
  ASSUME DnsInv, NEW c \in DnsCallers, Lookup(c)
  PROVE  DnsInv'
<1>1. PICK name \in dnsplan.names, kind \in dnsplan.kinds,
           pc \in {"posted"} \cup (IF dnsplan.nomem THEN {"lost"} ELSE {}) :
         Asks(c, [Idle EXCEPT !.pc = pc, !.name = name, !.kind = kind])
  BY DEF Lookup
<1> DEFINE a == [Idle EXCEPT !.pc = pc, !.name = name, !.kind = kind]
<1>2. pc \in {"posted", "lost"} /\ kind \in {"hostent", "addrinfo"} /\ name \in DnsName
  BY DnsAssumption, DnsNames DEF DnsInv, DnsTypes
<1>3. a = [pc |-> pc, name |-> name, kind |-> kind, result |-> NoName, err |-> "", ai |-> 0]
  <2>1. a = [Idle EXCEPT !.pc = pc, !.name = name, !.kind = kind]
    OBVIOUS
  <2>2. Idle = [pc |-> "idle", name |-> NoName, kind |-> "", result |-> NoName, err |-> "", ai |-> 0]
    BY DEF Idle
  <2> HIDE DEF a
  <2> QED BY <2>1, <2>2
<1>4. asker[c].pc = "idle"
  BY DEF Lookup
<1>5. Asks(c, a)
  BY <1>1
<1> HIDE DEF a
<1>6. a \in AskerType /\ a.pc \in {"posted", "lost"} /\ a.name = name
  BY <1>2, <1>3, DnsNames DEF AskerType
<1> QED
  BY <1>4, <1>5, <1>6, AskerStep

LEMMA ReturnStep ==
  ASSUME DnsInv, NEW c \in DnsCallers, Return(c) \/ Finish(c)
  PROVE  DnsInv'
<1>1. asker[c].pc \in {"woken", "using"} /\ asker[c] \in AskerType /\ asker[c].name \in dnsplan.names
  BY DEF Return, Finish, DnsInv, DnsTypes, Named
<1> DEFINE b == asker[c]
<1>2. ASSUME NEW ai \in {0, 1}, b.err = "OK", Asks(c, [b EXCEPT !.pc = "using", !.ai = ai]) PROVE DnsInv'
  <2> DEFINE a == [b EXCEPT !.pc = "using", !.ai = ai]
  <2>1. a = [pc |-> "using", name |-> b.name, kind |-> b.kind, result |-> b.result, err |-> b.err, ai |-> ai]
    <3>1. b \in AskerType /\ a = [b EXCEPT !.pc = "using", !.ai = ai]
      BY <1>1
    <3> HIDE DEF a, b
    <3> QED BY <3>1 DEF AskerType
  <2>2. Asks(c, a)
    BY <1>2
  <2> HIDE DEF a
  <2>3. a \in AskerType /\ a.pc = "using" /\ a.name = b.name /\ a.result = b.result
    BY <1>1, <2>1 DEF AskerType
  <2>4. NamesApart(dnsplan.names) => b.result = b.name
    BY <1>1, <1>2 DEF DnsInv, Told, ToldItsAddress
  <2> QED BY <1>1, <2>2, <2>3, <2>4, AskerStep
<1>3. ASSUME b.err = "OK", Asks(c, [b EXCEPT !.pc = "using"]) PROVE DnsInv'
  <2> DEFINE a == [b EXCEPT !.pc = "using"]
  <2>1. a \in AskerType /\ a.pc = "using" /\ a.name = b.name /\ a.result = b.result
    BY <1>1 DEF AskerType
  <2>2. Asks(c, a)
    BY <1>3
  <2> HIDE DEF a
  <2>3. NamesApart(dnsplan.names) => b.result = b.name
    BY <1>1, <1>3 DEF DnsInv, Told, ToldItsAddress
  <2> QED BY <1>1, <2>1, <2>2, <2>3, AskerStep
<1>4. ASSUME NEW err \in {"", "OK", "VAL", "MEM", "MEMORY"}, Asks(c, [Idle EXCEPT !.err = err]) PROVE DnsInv'
  <2> DEFINE a == [Idle EXCEPT !.err = err]
  <2>1. a \in AskerType /\ a.pc = "idle"
    BY VacantTypes DEF AskerType, Idle
  <2>2. Asks(c, a)
    BY <1>4
  <2> HIDE DEF a
  <2> QED BY <1>1, <2>1, <2>2, AskerStep
<1>5. ASSUME Asks(c, Idle) PROVE DnsInv'
  <2>1. Idle \in AskerType /\ Idle.pc = "idle"
    BY VacantTypes DEF Idle
  <2> QED BY <1>1, <1>5, <2>1, AskerStep
<1>6. b.err \in {"", "OK", "VAL", "MEM", "MEMORY"}
  BY <1>1 DEF AskerType
<1>7. \/ b.err = "OK" /\ Asks(c, [b EXCEPT !.pc = "using"])
      \/ b.err = "OK" /\ Asks(c, [b EXCEPT !.pc = "using", !.ai = 1])
      \/ Asks(c, [Idle EXCEPT !.err = "MEMORY"])
      \/ Asks(c, [Idle EXCEPT !.err = b.err])
      \/ Asks(c, Idle)
  BY DEF Return, Finish
<1> QED
  BY <1>2, <1>3, <1>4, <1>5, <1>6, <1>7

LEMMA DnsStep == DnsInv /\ [DnsNext]_dnsVars => DnsInv'
<1> SUFFICES ASSUME DnsInv, [DnsNext]_dnsVars PROVE DnsInv'
  OBVIOUS
<1>1. CASE UNCHANGED <<dns_table, dns_seqno, queries, asker, dnsplan>>
  <2>1. DnsTypes' /\ OneAsks' /\ Named'
    BY <1>1 DEF DnsInv, DnsTypes, OneAsks, Asking, Named
  <2>2. Told'
    BY <1>1 DEF DnsInv, Told, CacheTrue, ToldItsAddress, NamesApart, dns_compare_name
  <2> QED BY <2>1, <2>2 DEF DnsInv
<1>2. DnsSetserver \/ DnsLocal \/ UNCHANGED dnsVars => UNCHANGED <<dns_table, dns_seqno, queries, asker, dnsplan>>
  BY DEF DnsSetserver, DnsLocal, dnsVars
<1>3. CASE DnsTick
  BY <1>3, DnsTickStep
<1>4. ASSUME NEW q \in queries, DnsAnswer(q) PROVE DnsInv'
  BY <1>4, DnsAnswerStep
<1>5. ASSUME NEW c \in DnsCallers, DoGethostbyname(c) \/ Lookup(c) \/ Return(c) \/ Finish(c) PROVE DnsInv'
  BY <1>5, DoGethostbynameStep, LookupStep, ReturnStep
<1> QED
  BY <1>1, <1>2, <1>3, <1>4, <1>5 DEF DnsNext

LEMMA DnsInvSound == DnsInv => OneCallsBack /\ (NamesApart(dnsplan.names) => ToldItsAddress)
<1> SUFFICES ASSUME DnsInv PROVE OneCallsBack
  BY DEF DnsInv, Told
<1> SUFFICES ASSUME NEW c \in DnsCallers
             PROVE  /\ Cardinality(Waits(c)) = (IF asker[c].pc = "waiting" THEN 1 ELSE 0)
                    /\ \A i \in Waits(c) : dns_table[i].name = asker[c].name
  BY DEF OneCallsBack
<1>1. \A i : i \in Waits(c) <=> i \in DnsSlots /\ Asking(i) /\ dns_table[i].found = c
  BY DEF Waits, Asking, DnsInv, OneAsks
<1>2. \A i \in Waits(c) : dns_table[i].name = asker[c].name /\ asker[c].pc = "waiting"
  BY <1>1 DEF DnsInv, OneAsks
<1>3. CASE asker[c].pc = "waiting"
  <2>1. PICK i \in DnsSlots : Asking(i) /\ dns_table[i].found = c
    BY <1>3 DEF DnsInv, OneAsks
  <2>2. Waits(c) = {i}
    BY <1>1, <2>1 DEF DnsInv, OneAsks
  <2>3. Cardinality({i}) = 1
    BY FS_Singleton
  <2> QED BY <1>2, <1>3, <2>2, <2>3
<1>4. CASE asker[c].pc # "waiting"
  <2>1. Waits(c) = {}
    BY <1>2, <1>4
  <2>2. Cardinality({}) = 0
    BY FS_EmptySet
  <2> QED BY <1>2, <1>4, <2>1, <2>2
<1> QED
  BY <1>3, <1>4

(* For a table of any size, any callers, servers, retries and names,       *)
(* however answers are lost, delayed or repeated: a thread that waits in   *)
(* netconn_gethostbyname has exactly one entry that will call it back, for *)
(* the name it asked for, and no entry calls back a thread that has gone.  *)
THEOREM DnsOneCallsBack == DnsSpec => []OneCallsBack
<1>1. DnsSpec => []DnsInv
  BY DnsInitially, DnsStep, PTL DEF DnsSpec
<1> QED
  BY <1>1, DnsInvSound, PTL

(* And what it is told is the address of that name, provided               *)
(* dns_compare_name can tell apart the names that are looked up: it takes  *)
(* the answer for a name for that of any longer name that begins with it.  *)
THEOREM DnsWaitersCalledBack ==
  ASSUME \A p \in DnsPlans : NamesApart(p.names)
  PROVE  DnsSpec => []WaitersCalledBack
<1>1. DnsSpec => []DnsInv
  BY DnsInitially, DnsStep, PTL DEF DnsSpec
<1>2. DnsInv => WaitersCalledBack
  <2>1. DnsInv => NamesApart(dnsplan.names)
    BY DEF DnsInv, DnsTypes
  <2> QED BY <2>1, DnsInvSound DEF WaitersCalledBack
<1> QED
  BY <1>1, <1>2, PTL

-----------------------------------------------------------------------------
(***************************************************************************)
(* UdpSound for any pools of pcbs, any calls and any packets.  What makes  *)
(* it inductive: the lists are known as sets, which taking a pcb out and   *)
(* moving it to the front respect; a pcb without a peer has none of the    *)
(* old one's address left, so that udp_input cannot take it for connected; *)
(* and two pcbs are apart whether or not they are in the list yet.         *)
(***************************************************************************)

(* A list of pcbs that holds each of them once. *)
ListOf(list, S) == list \in Seq(S) /\ IsInjective(list)

(* The least element of a set of places or pcbs. *)
LEMMA LeastIs ==
  ASSUME NEW S, S \subseteq Nat, S # {}
  PROVE  Min(S) \in S /\ \A y \in S : Min(S) <= y
<1>1. \E x \in S : \A y \in S : x <= y
  BY NatLeast
<1> QED BY <1>1 DEF Min

(* What taking a pcb out of a list leaves. *)
LEMMA TakenOut ==
  ASSUME NEW S, NEW list, ListOf(list, S), NEW i \in DOMAIN list
  PROVE  ListOf(RemoveAt(list, i), S) /\ ToSet(RemoveAt(list, i)) = ToSet(list) \ {list[i]}
<1> DEFINE r == RemoveAt(list, i)
<1>0. list \in Seq(S) /\ DOMAIN list = 1 .. Len(list) /\ Len(list) \in Nat /\ i \in 1 .. Len(list)
  BY DEF ListOf
<1> HIDE DEF r
<1>1. /\ r \in Seq(S) /\ Len(r) = Len(list) - 1
      /\ \A k \in 1 .. Len(list) - 1 : r[k] = IF k < i THEN list[k] ELSE list[k + 1]
  <2>1. r = SubSeq(list, 1, i - 1) \o SubSeq(list, i + 1, Len(list))
    BY DEF RemoveAt, r
  <2> QED BY <1>0, <2>1, Spliced, ZenonT(60)
<1>2. DOMAIN r = 1 .. Len(list) - 1
  BY <1>1
<1>3. \A k \in 1 .. Len(list) - 1 : k \in 1 .. Len(list) /\ k + 1 \in 1 .. Len(list)
  BY <1>0
<1>4. \A j, k \in 1 .. Len(list) : list[j] = list[k] => j = k
  BY <1>0 DEF ListOf, IsInjective
<1>5. IsInjective(r)
  <2> SUFFICES ASSUME NEW j \in 1 .. Len(list) - 1, NEW k \in 1 .. Len(list) - 1, r[j] = r[k] PROVE j = k
    BY <1>2 DEF IsInjective
  <2>1. r[j] = list[IF j < i THEN j ELSE j + 1] /\ r[k] = list[IF k < i THEN k ELSE k + 1]
    BY <1>1
  <2>2. (IF j < i THEN j ELSE j + 1) = (IF k < i THEN k ELSE k + 1)
    BY <1>3, <1>4, <2>1
  <2> QED BY <1>0, <2>2
<1>6. \A k \in 1 .. Len(list) - 1 : r[k] \in ToSet(list) /\ r[k] # list[i]
  <2> TAKE k \in 1 .. Len(list) - 1
  <2>1. k < i \/ k >= i
    BY <1>0
  <2>2. CASE k < i
    <3>1. r[k] = list[k]
      BY <1>1, <2>2
    <3>2. k \in 1 .. Len(list) /\ k # i
      BY <1>0, <1>3, <2>2
    <3> QED BY <1>0, <1>4, <3>1, <3>2 DEF ToSet
  <2>3. CASE k >= i
    <3>1. r[k] = list[k + 1]
      <4>1. ~(k < i)
        BY <1>0, <2>3
      <4> QED BY <1>1, <4>1
    <3>2. k + 1 \in 1 .. Len(list) /\ k + 1 # i
      BY <1>0, <1>3, <2>3
    <3> QED BY <1>0, <1>4, <3>1, <3>2 DEF ToSet
  <2> QED BY <2>1, <2>2, <2>3
<1>7. \A j \in 1 .. Len(list) : j # i => list[j] \in ToSet(r)
  <2> SUFFICES ASSUME NEW j \in 1 .. Len(list), j # i PROVE \E k \in 1 .. Len(list) - 1 : r[k] = list[j]
    BY <1>2 DEF ToSet
  <2>1. j < i \/ j > i
    BY <1>0
  <2>2. CASE j < i
    <3>1. j \in 1 .. Len(list) - 1
      BY <1>0, <2>2
    <3>2. r[j] = list[j]
      BY <1>1, <2>2, <3>1
    <3> QED BY <3>1, <3>2
  <2>3. CASE j > i
    <3>1. j - 1 \in 1 .. Len(list) - 1 /\ ~(j - 1 < i) /\ j - 1 + 1 = j
      BY <1>0, <2>3
    <3>2. r[j - 1] = list[j]
      BY <1>1, <3>1
    <3> QED BY <3>1, <3>2
  <2> QED BY <2>1, <2>2, <2>3
<1>8. ToSet(r) \subseteq ToSet(list) \ {list[i]}
  BY <1>2, <1>6 DEF ToSet
<1>9. ToSet(list) \ {list[i]} \subseteq ToSet(r)
  BY <1>0, <1>7 DEF ToSet
<1> QED
  BY <1>1, <1>5, <1>8, <1>9 DEF ListOf, r

(* A pcb that is put in front of a list it is not in. *)
LEMMA PutInFront ==
  ASSUME NEW S, NEW list, ListOf(list, S), NEW p \in S, p \notin ToSet(list)
  PROVE  ListOf(<<p>> \o list, S) /\ ToSet(<<p>> \o list) = ToSet(list) \cup {p}
<1> DEFINE r == <<p>> \o list
<1>0. list \in Seq(S) /\ DOMAIN list = 1 .. Len(list) /\ Len(list) \in Nat /\ <<p>> \in Seq(S) /\ Len(<<p>>) = 1
  BY DEF ListOf
<1>1. r \in Seq(S) /\ Len(r) = Len(list) + 1 /\ DOMAIN r = 1 .. Len(list) + 1
  BY <1>0
<1>2. r[1] = p /\ \A k \in 1 .. Len(list) : r[k + 1] = list[k]
  BY <1>0
<1> HIDE DEF r
<1>3. \A k \in 1 .. Len(list) + 1 : k = 1 \/ (k - 1 \in 1 .. Len(list) /\ k - 1 + 1 = k)
  BY <1>0
<1>4. \A k \in 1 .. Len(list) + 1 : k = 1 \/ (k - 1 \in 1 .. Len(list) /\ r[k] = list[k - 1])
  BY <1>2, <1>3
<1>5. \A j \in 1 .. Len(list) : list[j] # p
  BY <1>0 DEF ToSet
<1>6. IsInjective(r)
  <2> SUFFICES ASSUME NEW j \in 1 .. Len(list) + 1, NEW k \in 1 .. Len(list) + 1, r[j] = r[k] PROVE j = k
    BY <1>1 DEF IsInjective
  <2>1. CASE j = 1 \/ k = 1
    BY <1>2, <1>4, <1>5, <2>1
  <2>2. CASE j # 1 /\ k # 1
    <3>1. j - 1 \in 1 .. Len(list) /\ k - 1 \in 1 .. Len(list) /\ list[j - 1] = list[k - 1]
      BY <1>4, <2>2
    <3>2. j - 1 = k - 1
      BY <1>0, <3>1 DEF ListOf, IsInjective
    <3> QED BY <3>2
  <2> QED BY <2>1, <2>2
<1>7. \A k \in 1 .. Len(list) : k + 1 \in 1 .. Len(list) + 1
  BY <1>0
<1>8. 1 \in 1 .. Len(list) + 1
  BY <1>0
<1>9. ToSet(r) = ToSet(list) \cup {p}
  <2>1. ToSet(r) \subseteq ToSet(list) \cup {p}
    <3>1. \A k \in 1 .. Len(list) + 1 : r[k] = p \/ r[k] \in ToSet(list)
      BY <1>0, <1>2, <1>4 DEF ToSet
    <3> QED BY <1>1, <3>1 DEF ToSet
  <2>2. ToSet(list) \subseteq ToSet(r)
    <3>1. \A k \in 1 .. Len(list) : list[k] = r[k + 1] /\ k + 1 \in DOMAIN r
      BY <1>1, <1>2, <1>7
    <3> QED BY <1>0, <3>1 DEF ToSet
  <2>3. p \in ToSet(r)
    BY <1>1, <1>2, <1>8 DEF ToSet
  <2> QED BY <2>1, <2>2, <2>3
<1> QED
  BY <1>1, <1>6, <1>9 DEF ListOf, r

(* A pcb that is moved to the front, as udp_input and raw_input do. *)
LEMMA MovedToFront ==
  ASSUME NEW S, NEW list, ListOf(list, S), NEW i \in DOMAIN list
  PROVE  ListOf(ToFront(list, i), S) /\ ToSet(ToFront(list, i)) = ToSet(list)
<1> DEFINE r == RemoveAt(list, i)
<1>1. ListOf(r, S) /\ ToSet(r) = ToSet(list) \ {list[i]}
  BY TakenOut
<1>2. list[i] \in S /\ list[i] \in ToSet(list)
  BY DEF ListOf, ToSet
<1> HIDE DEF r
<1>3. ListOf(<<list[i]>> \o r, S) /\ ToSet(<<list[i]>> \o r) = ToSet(r) \cup {list[i]}
  BY <1>1, <1>2, PutInFront
<1> QED
  BY <1>1, <1>2, <1>3 DEF ToFront, r

(* A list without the pcb, as udp_remove and raw_remove leave it. *)
LEMMA UnlinkedIs ==
  ASSUME NEW S, NEW list, ListOf(list, S), NEW p
  PROVE  ListOf(Unlinked(list, p), S) /\ ToSet(Unlinked(list, p)) = ToSet(list) \ {p}
<1>1. CASE \E i \in DOMAIN list : list[i] = p
  <2> DEFINE i == CHOOSE j \in DOMAIN list : list[j] = p
  <2>1. i \in DOMAIN list /\ list[i] = p
    BY <1>1
  <2>2. Unlinked(list, p) = RemoveAt(list, i)
    BY <1>1 DEF Unlinked
  <2> HIDE DEF i
  <2> QED BY <2>1, <2>2, TakenOut
<1>2. CASE ~ \E i \in DOMAIN list : list[i] = p
  <2>1. Unlinked(list, p) = list /\ p \notin ToSet(list)
    BY <1>2 DEF Unlinked, ToSet
  <2> QED BY <2>1
<1> QED
  BY <1>1, <1>2

(* There are more ephemeral ports than pcbs: 0x4000 for MEMP_NUM_UDP_PCB   *)
(* pcbs.                                                                   *)
PortsToSpare == EphemeralEnd - EphemeralStart >= Cardinality(UdpPcbs)

UdpRec == [lip : Nat, lport : Nat, rip : Nat, rport : Nat, connected : BOOLEAN, reuse : BOOLEAN]

UdpTypes ==
  /\ udpplan \in UdpPlans /\ udp_port \in Ephemeral
  /\ DOMAIN udp \subseteq UdpPcbs /\ udp \in [DOMAIN udp -> UdpRec]
  /\ DOMAIN raw \subseteq RawPcbs

(* The lists hold the bound UDP pcbs and all RAW pcbs, each once. *)
UdpLists ==
  /\ ListOf(udp_pcbs, UdpPcbs) /\ \A p : p \in ToSet(udp_pcbs) <=> p \in DOMAIN udp /\ udp[p].lport # 0
  /\ ListOf(raw_pcbs, RawPcbs) /\ ToSet(raw_pcbs) = DOMAIN raw

(* A pcb that is not connected has no peer, and only shares when told to.  *)
Settled(r) == (~r.connected => r.rip = AnyAddr /\ r.rport = 0) /\ (r.reuse => "reuse" \in udpplan.use)
UdpSettled == \A p \in DOMAIN udp : Settled(udp[p])

(* Two pcbs with these addresses and ports can hear the same datagram only *)
(* if it is sent to two addresses.                                         *)
Apart(r, s) ==
  r.lport # 0 /\ r.lport = s.lport => r.lip # s.lip /\ r.lip # AnyAddr /\ s.lip # AnyAddr
UdpApart ==
  "reuse" \notin udpplan.use => \A p, q \in DOMAIN udp : p # q => Apart(udp[p], udp[q])

UdpInv == UdpTypes /\ UdpLists /\ UdpSettled /\ UdpApart
RightlyHeard == HeardByTheRightOne /\ HeardWhateverCameBefore

(* The empty lists. *)
LEMMA UdpInitially == UdpInit => UdpInv /\ RightlyHeard
<1> SUFFICES ASSUME UdpInit PROVE UdpInv /\ RightlyHeard
  OBVIOUS
<1>1. UdpTypes
  BY UdpAssumption DEF UdpInit, UdpTypes, Ephemeral
<1>2. ToSet(<< >>) = {} /\ IsInjective(<< >>) /\ \A S : << >> \in Seq(S)
  BY DEF ToSet, IsInjective
<1>3. UdpLists
  BY <1>2 DEF UdpInit, UdpLists, ListOf
<1>4. UdpSettled /\ UdpApart
  BY DEF UdpInit, UdpSettled, UdpApart
<1>5. RightlyHeard
  BY DEF UdpInit, NoPacket, RightlyHeard, HeardByTheRightOne, HeardWhateverCameBefore
<1> QED BY <1>1, <1>3, <1>4, <1>5 DEF UdpInv

(* The ports that are tried are all different. *)
LEMMA CycledIs ==
  ASSUME udp_port \in Ephemeral
  PROVE  /\ RangeSize \in Nat
         /\ \A n \in 1 .. RangeSize : Cycled(n) \in Ephemeral
         /\ \A m, n \in 1 .. RangeSize : Cycled(m) = Cycled(n) => m = n
  BY UdpAssumption DEF Ephemeral, RangeSize, Cycled

(* udp_new_port finds one: there are more than there are pcbs. *)
LEMMA NewPortIs ==
  ASSUME UdpInv, PortsToSpare
  PROVE  udp_new_port \in Ephemeral /\ \A p \in DOMAIN udp : udp[p].lport # udp_new_port
<1>1. udp_port \in Ephemeral /\ DOMAIN udp \subseteq UdpPcbs
  BY DEF UdpInv, UdpTypes
<1>2. \A n \in 1 .. RangeSize : n \notin Unused => \E p \in DOMAIN udp : udp[p].lport = Cycled(n)
  BY DEF Unused, UdpInv, UdpLists, ToSet
<1>3. Unused # {}
  <2> SUFFICES ASSUME Unused = {} PROVE FALSE
    OBVIOUS
  <2> DEFINE f == [n \in 1 .. RangeSize |-> CHOOSE p \in DOMAIN udp : udp[p].lport = Cycled(n)]
  <2>1. \A n \in 1 .. RangeSize : f[n] \in DOMAIN udp /\ udp[f[n]].lport = Cycled(n)
    BY <1>2
  <2>2. f \in [1 .. RangeSize -> UdpPcbs]
    BY <1>1, <2>1
  <2> HIDE DEF f
  <2>3. IsInjective(f)
    BY <1>1, <2>1, <2>2, CycledIs DEF IsInjective
  <2>4. f \in Injection(1 .. RangeSize, UdpPcbs)
    BY <2>2, <2>3 DEF Injection
  <2>5. IsFiniteSet(UdpPcbs)
    BY UdpAssumption
  <2>6. Cardinality(1 .. RangeSize) <= Cardinality(UdpPcbs)
    BY <2>4, <2>5, FS_Injection
  <2>7. RangeSize \in Nat
    BY <1>1, CycledIs
  <2>8. Cardinality(1 .. RangeSize) = RangeSize
    BY <2>7, FS_Interval
  <2>9. Cardinality(UdpPcbs) \in Nat
    BY UdpAssumption, FS_CardinalityType
  <2> QED BY <2>6, <2>8, <2>9, UdpAssumption DEF PortsToSpare, RangeSize
<1>4. Unused \subseteq Nat
  BY <1>1, CycledIs DEF Unused
<1>5. Min(Unused) \in Unused
  BY <1>3, <1>4, LeastIs
<1>6. udp_new_port = Cycled(Min(Unused))
  BY <1>3 DEF udp_new_port
<1>7. Cycled(Min(Unused)) \in Ephemeral
  BY <1>1, <1>5, CycledIs DEF Unused
<1>8. \A p \in ToSet(udp_pcbs) : udp[p].lport # Cycled(Min(Unused))
  BY <1>5 DEF Unused, ToSet
<1>9. 0 \notin Ephemeral
  BY UdpAssumption DEF Ephemeral
<1> QED
  BY <1>6, <1>7, <1>8, <1>9 DEF UdpInv, UdpLists

(* What a call that binds may make of pcb p. *)
Fits(p, b) ==
  /\ b = [err |-> b.err, pcb |-> b.pcb, list |-> b.list, last |-> b.last]
  /\ b.pcb \in UdpRec /\ b.last \in Ephemeral /\ ListOf(b.list, UdpPcbs)
  /\ ToSet(b.list) = IF b.pcb.lport # 0 THEN ToSet(udp_pcbs) \cup {p} ELSE ToSet(udp_pcbs) \ {p}
  /\ Settled(b.pcb)
  /\ "reuse" \notin udpplan.use => \A q \in DOMAIN udp \ {p} : Apart(b.pcb, udp[q])

(* A pcb as it is. *)
LEMMA FitsAsIs ==
  ASSUME UdpInv, NEW p \in DOMAIN udp
  PROVE  Fits(p, [err |-> "OK", pcb |-> udp[p], list |-> udp_pcbs, last |-> udp_port])
<1>1. udp[p] \in UdpRec /\ udp_port \in Ephemeral /\ ListOf(udp_pcbs, UdpPcbs) /\ Settled(udp[p])
  BY DEF UdpInv, UdpTypes, UdpLists, UdpSettled
<1>2. ToSet(udp_pcbs) = IF udp[p].lport # 0 THEN ToSet(udp_pcbs) \cup {p} ELSE ToSet(udp_pcbs) \ {p}
  BY DEF UdpInv, UdpLists
<1>3. "reuse" \notin udpplan.use => \A q \in DOMAIN udp \ {p} : Apart(udp[p], udp[q])
  BY DEF UdpInv, UdpApart
<1> QED BY <1>1, <1>2, <1>3 DEF Fits

(* What udp_bind leaves fits: the port that was asked for clashes with no  *)
(* other pcb, and the one udp_new_port finds is nobody's.                  *)
LEMMA BindFits ==
  ASSUME UdpInv, PortsToSpare, NEW p \in DOMAIN udp, NEW ip \in Nat, NEW port \in Nat
  PROVE  Fits(p, udp_bind(p, ip, port))
<1> DEFINE q == IF port = 0 THEN udp_new_port ELSE port
<1>0. udp[p] \in UdpRec /\ udp_port \in Ephemeral /\ p \in UdpPcbs /\ ListOf(udp_pcbs, UdpPcbs) /\ Settled(udp[p])
  BY DEF UdpInv, UdpTypes, UdpLists, UdpSettled
<1>1. CASE Clashes(p, ip, port)
  <2>1. udp_bind(p, ip, port) = [err |-> "USE", pcb |-> udp[p], list |-> udp_pcbs, last |-> udp_port]
    BY <1>1 DEF udp_bind
  <2> QED BY <2>1, FitsAsIs DEF Fits
<1>2. CASE ~Clashes(p, ip, port)
  <2>1. q \in Nat /\ q # 0 /\ (port = 0 => q \in Ephemeral)
    BY NewPortIs, UdpAssumption DEF Ephemeral
  <2>2. port = 0 => \A o \in DOMAIN udp : udp[o].lport # q
    BY NewPortIs
  <2> HIDE DEF q
  <2> DEFINE b == [err |-> "OK", pcb |-> [udp[p] EXCEPT !.lip = ip, !.lport = q],
                   list |-> IF Listed(p) THEN udp_pcbs ELSE <<p>> \o udp_pcbs,
                   last |-> IF port = 0 THEN q ELSE udp_port]
  <2>3. udp_bind(p, ip, port) = b
    BY <1>2, <2>1 DEF udp_bind, q
  <2>4. /\ b.pcb \in UdpRec /\ b.pcb.lip = ip /\ b.pcb.lport = q /\ b.pcb.rip = udp[p].rip /\ b.pcb.rport = udp[p].rport
        /\ b.pcb.connected = udp[p].connected /\ b.pcb.reuse = udp[p].reuse
    BY <1>0, <2>1 DEF UdpRec
  <2>5. b.last \in Ephemeral
    BY <1>0, <2>1
  <2>6. ListOf(b.list, UdpPcbs) /\ ToSet(b.list) = ToSet(udp_pcbs) \cup {p}
    <3>1. CASE Listed(p)
      BY <1>0, <3>1 DEF Listed, ToSet
    <3>2. CASE ~Listed(p)
      <4>1. p \notin ToSet(udp_pcbs)
        BY <3>2 DEF Listed, ToSet
      <4>2. b.list = <<p>> \o udp_pcbs
        BY <3>2
      <4> HIDE DEF b
      <4> QED BY <1>0, <4>1, <4>2, PutInFront
    <3> QED BY <3>1, <3>2
  <2> HIDE DEF b
  <2>7. Settled(b.pcb)
    BY <1>0, <2>4 DEF Settled
  <2>8. ASSUME "reuse" \notin udpplan.use, NEW o \in DOMAIN udp \ {p} PROVE Apart(b.pcb, udp[o])
    <3>1. ~udp[p].reuse /\ ~udp[o].reuse
      BY <2>8 DEF UdpInv, UdpSettled, Settled
    <3>2. CASE port = 0
      BY <2>2, <2>4, <3>2 DEF Apart
    <3>3. CASE port # 0
      <4>1. q = port
        BY <3>3 DEF q
      <4>2. SUFFICES ASSUME udp[o].lport = port PROVE ip # udp[o].lip /\ ip # AnyAddr /\ udp[o].lip # AnyAddr
        BY <2>4, <4>1 DEF Apart
      <4>3. o \in ToSet(udp_pcbs)
        BY <2>8, <3>3, <4>2 DEF UdpInv, UdpLists
      <4>4. PICK i \in DOMAIN udp_pcbs : udp_pcbs[i] = o
        BY <4>3 DEF ToSet
      <4> QED BY <1>2, <2>8, <3>1, <4>2, <4>4 DEF Clashes
    <3> QED BY <3>2, <3>3
  <2>9. b = [err |-> b.err, pcb |-> b.pcb, list |-> b.list, last |-> b.last]
    BY DEF b
  <2> QED BY <2>1, <2>3, <2>4, <2>5, <2>6, <2>7, <2>8, <2>9 DEF Fits
<1> QED
  BY <1>1, <1>2

(* And what udp_connect and udp_sendto_if find bound. *)
LEMMA EnsureBoundFits ==
  ASSUME UdpInv, PortsToSpare, NEW p \in DOMAIN udp
  PROVE  Fits(p, EnsureBound(p))
<1>1. udp[p].lip \in Nat
  BY DEF UdpInv, UdpTypes, UdpRec
<1> QED
  BY <1>1, FitsAsIs, BindFits DEF EnsureBound

(* A call that only makes of a pcb what fits keeps the lists. *)
LEMMA BoundKeeps ==
  ASSUME UdpInv, NEW p \in DOMAIN udp, NEW b, Fits(p, b), Bound(p, b), UdpOnly, UNCHANGED udpplan
  PROVE  UdpInv'
<1>1. /\ DOMAIN udp' = DOMAIN udp /\ udp'[p] = b.pcb /\ \A q \in DOMAIN udp : q # p => udp'[q] = udp[q]
      /\ udp' \in [DOMAIN udp -> UdpRec] /\ udp_pcbs' = b.list /\ udp_port' = b.last
  BY DEF Bound, Fits, UdpInv, UdpTypes
<1>2. UdpTypes'
  BY <1>1 DEF UdpInv, UdpTypes, UdpOnly, Fits
<1>3. UdpLists'
  <2>1. ListOf(udp_pcbs', UdpPcbs) /\ ListOf(raw_pcbs', RawPcbs) /\ ToSet(raw_pcbs') = DOMAIN raw'
    BY <1>1 DEF UdpInv, UdpLists, UdpOnly, Fits
  <2>2. \A o : o \in ToSet(udp_pcbs') <=> o \in DOMAIN udp' /\ udp'[o].lport # 0
    BY <1>1 DEF UdpInv, UdpLists, Fits
  <2> QED BY <2>1, <2>2 DEF UdpLists
<1>4. UdpSettled'
  BY <1>1 DEF UdpInv, UdpSettled, Fits, Settled
<1>5. UdpApart'
  <2> SUFFICES ASSUME "reuse" \notin udpplan.use, NEW q \in DOMAIN udp, NEW o \in DOMAIN udp, q # o
               PROVE  Apart(udp'[q], udp'[o])
    BY <1>1 DEF UdpApart, Apart
  <2>1. CASE q = p
    BY <1>1, <2>1 DEF Fits
  <2>2. CASE o = p
    <3>1. Apart(b.pcb, udp[q])
      BY <2>2 DEF Fits
    <3> QED BY <1>1, <2>2, <3>1 DEF Apart
  <2>3. CASE q # p /\ o # p
    BY <1>1, <2>3 DEF UdpInv, UdpApart
  <2> QED BY <2>1, <2>2, <2>3
<1> QED BY <1>2, <1>3, <1>4, <1>5 DEF UdpInv

(* A step that leaves the UDP pcbs alone. *)
LEMMA UdpAlone ==
  ASSUME UdpInv, UNCHANGED <<udp, udp_port, udpplan>>, DOMAIN raw' \subseteq RawPcbs,
         ListOf(udp_pcbs', UdpPcbs), ToSet(udp_pcbs') = ToSet(udp_pcbs),
         ListOf(raw_pcbs', RawPcbs), ToSet(raw_pcbs') = DOMAIN raw'
  PROVE  UdpInv'
  BY DEF UdpInv, UdpTypes, UdpLists, UdpSettled, Settled, UdpApart, Apart

LEMMA UdpNewStep == ASSUME UdpInv, udp_new PROVE UdpInv'
<1> DEFINE p == Min(Free(UdpPcbs, udp))
<1>1. p \in UdpPcbs \ DOMAIN udp
  <2>1. Free(UdpPcbs, udp) \subseteq Nat /\ Free(UdpPcbs, udp) # {}
    BY UdpAssumption DEF udp_new, Free
  <2> QED BY <2>1, LeastIs DEF Free
<1>2. /\ udp' = [q \in DOMAIN udp \cup {p} |-> IF q = p THEN NewUdp ELSE udp[q]]
      /\ UNCHANGED <<udp_pcbs, udp_port, raw, raw_pcbs, udpplan>>
  BY DEF udp_new, UdpOnly, Calls
<1> HIDE DEF p
<1>3. NewUdp \in UdpRec /\ NewUdp.lport = 0 /\ Settled(NewUdp) /\ Settled(NewUdp)'
  BY <1>2 DEF NewUdp, UdpRec, Settled, AnyAddr
<1>4. DOMAIN udp' = DOMAIN udp \cup {p} /\ udp'[p] = NewUdp /\ \A q \in DOMAIN udp : udp'[q] = udp[q]
  BY <1>1, <1>2
<1>5. UdpTypes'
  BY <1>1, <1>2, <1>3, <1>4 DEF UdpInv, UdpTypes
<1>6. UdpLists'
  BY <1>1, <1>2, <1>3, <1>4 DEF UdpInv, UdpLists
<1>7. UdpSettled'
  BY <1>2, <1>3, <1>4 DEF UdpInv, UdpSettled, Settled
<1>8. UdpApart'
  BY <1>2, <1>3, <1>4 DEF UdpInv, UdpApart, Apart
<1> QED BY <1>5, <1>6, <1>7, <1>8 DEF UdpInv

LEMMA RawNewStep == ASSUME UdpInv, raw_new PROVE UdpInv'
<1> DEFINE p == Min(Free(RawPcbs, raw))
<1>1. p \in RawPcbs \ DOMAIN raw
  <2>1. Free(RawPcbs, raw) \subseteq Nat /\ Free(RawPcbs, raw) # {}
    BY UdpAssumption DEF raw_new, Free
  <2> QED BY <2>1, LeastIs DEF Free
<1>2. DOMAIN raw' = DOMAIN raw \cup {p} /\ raw_pcbs' = <<p>> \o raw_pcbs /\ UNCHANGED <<udp, udp_pcbs, udp_port, udpplan>>
  BY DEF raw_new, RawOnly, Calls
<1> HIDE DEF p
<1>3. ListOf(raw_pcbs, RawPcbs) /\ p \notin ToSet(raw_pcbs) /\ ToSet(raw_pcbs) = DOMAIN raw
  BY <1>1 DEF UdpInv, UdpLists
<1>4. ListOf(raw_pcbs', RawPcbs) /\ ToSet(raw_pcbs') = DOMAIN raw'
  BY <1>1, <1>2, <1>3, PutInFront
<1>5. DOMAIN raw' \subseteq RawPcbs /\ ListOf(udp_pcbs', UdpPcbs) /\ ToSet(udp_pcbs') = ToSet(udp_pcbs)
  BY <1>1, <1>2 DEF UdpInv, UdpTypes, UdpLists
<1> QED BY <1>2, <1>4, <1>5, UdpAlone

LEMMA UdpBindStep == ASSUME UdpInv, PortsToSpare, NEW p \in DOMAIN udp, UdpBind(p) PROVE UdpInv'
<1>1. PICK ip \in udpplan.ips, port \in udpplan.ports : Bound(p, udp_bind(p, ip, port))
  BY DEF UdpBind
<1>2. ip \in Nat /\ port \in Nat
  BY UdpAssumption DEF UdpInv, UdpTypes
<1>3. UdpOnly /\ UNCHANGED udpplan
  BY DEF UdpBind, Calls
<1> QED BY <1>1, <1>2, <1>3, BindFits, BoundKeeps

(* A record that differs from one that fits in the peer only. *)
LEMMA FitsWithPeer ==
  ASSUME NEW p, NEW b, Fits(p, b), NEW ip \in Nat, NEW port \in Nat, NEW on \in BOOLEAN, on \/ (ip = AnyAddr /\ port = 0)
  PROVE  Fits(p, [b EXCEPT !.pcb = [@ EXCEPT !.rip = ip, !.rport = port, !.connected = on]])
<1> DEFINE r == [b.pcb EXCEPT !.rip = ip, !.rport = port, !.connected = on]
           c == [err |-> b.err, pcb |-> r, list |-> b.list, last |-> b.last]
<1>1. [b EXCEPT !.pcb = [@ EXCEPT !.rip = ip, !.rport = port, !.connected = on]] = c
  BY DEF Fits
<1>2. b.pcb \in UdpRec
  BY DEF Fits
<1>3. /\ r \in UdpRec /\ r.lip = b.pcb.lip /\ r.lport = b.pcb.lport /\ r.reuse = b.pcb.reuse
      /\ r.rip = ip /\ r.rport = port /\ r.connected = on
  BY <1>2 DEF UdpRec
<1> HIDE DEF r
<1>4. Settled(r)
  BY <1>3 DEF Fits, Settled
<1>5. \A q \in DOMAIN udp : Apart(b.pcb, udp[q]) => Apart(r, udp[q])
  BY <1>3 DEF Apart
<1>6. Fits(p, c)
  BY <1>3, <1>4, <1>5 DEF Fits
<1> QED BY <1>1, <1>6

LEMMA UdpConnectStep == ASSUME UdpInv, PortsToSpare, NEW p \in DOMAIN udp, UdpConnect(p) PROVE UdpInv'
<1>1. PICK ip \in udpplan.peers, port \in udpplan.rports : udp_connect(p, ip, port)
  BY DEF UdpConnect
<1>2. ip \in Nat /\ port \in Nat
  BY UdpAssumption DEF UdpInv, UdpTypes
<1>3. UdpOnly /\ UNCHANGED udpplan
  BY DEF UdpConnect, Calls
<1> DEFINE b == EnsureBound(p)
           c == IF b.err # "OK" THEN b ELSE [b EXCEPT !.pcb = [@ EXCEPT !.rip = ip, !.rport = port, !.connected = TRUE]]
<1>4. Bound(p, c)
  BY <1>1 DEF udp_connect
<1>5. Fits(p, b)
  BY EnsureBoundFits
<1> HIDE DEF b
<1>6. Fits(p, c)
  BY <1>2, <1>5, FitsWithPeer
<1> HIDE DEF c
<1> QED BY <1>3, <1>4, <1>6, BoundKeeps

LEMMA UdpDisconnectStep == ASSUME UdpInv, NEW p \in DOMAIN udp, UdpDisconnect(p) PROVE UdpInv'
<1> DEFINE b == [err |-> "OK", pcb |-> udp[p], list |-> udp_pcbs, last |-> udp_port]
           c == [b EXCEPT !.pcb = [@ EXCEPT !.rip = AnyAddr, !.rport = 0, !.connected = FALSE]]
<1>1. Fits(p, b)
  BY FitsAsIs
<1>2. Bound(p, c) /\ UdpOnly /\ UNCHANGED udpplan
  BY DEF UdpDisconnect, Calls, Bound
<1> HIDE DEF b
<1>3. Fits(p, c)
  BY <1>1, FitsWithPeer DEF AnyAddr
<1> HIDE DEF c
<1> QED BY <1>2, <1>3, BoundKeeps

LEMMA UdpReuseStep == ASSUME UdpInv, NEW p \in DOMAIN udp, UdpReuse(p) PROVE UdpInv'
<1> DEFINE r == [udp[p] EXCEPT !.reuse = ~udp[p].reuse]
           b == [err |-> "OK", pcb |-> r, list |-> udp_pcbs, last |-> udp_port]
<1>1. Bound(p, b) /\ UdpOnly /\ UNCHANGED udpplan /\ "reuse" \in udpplan.use
  BY DEF UdpReuse, Calls, Bound
<1>2. udp[p] \in UdpRec /\ Settled(udp[p])
  BY DEF UdpInv, UdpTypes, UdpSettled
<1>3. r \in UdpRec /\ r.lport = udp[p].lport /\ r.rip = udp[p].rip /\ r.rport = udp[p].rport /\ r.connected = udp[p].connected
  BY <1>2 DEF UdpRec
<1> HIDE DEF r
<1>4. Settled(r)
  BY <1>1, <1>2, <1>3 DEF Settled
<1>5. Fits(p, [err |-> "OK", pcb |-> udp[p], list |-> udp_pcbs, last |-> udp_port])
  BY FitsAsIs
<1>6. Fits(p, b)
  BY <1>1, <1>3, <1>4, <1>5 DEF Fits
<1> HIDE DEF b
<1> QED BY <1>1, <1>6, BoundKeeps

LEMMA UdpSendStep == ASSUME UdpInv, PortsToSpare, NEW p \in DOMAIN udp, UdpSend(p) PROVE UdpInv'
<1>0. UdpOnly /\ UNCHANGED udpplan
  BY DEF UdpSend, Calls
<1>1. CASE Bound(p, EnsureBound(p))
  BY <1>0, <1>1, EnsureBoundFits, BoundKeeps
<1>2. CASE UNCHANGED <<udp, udp_pcbs, udp_port>>
  BY <1>0, <1>2, UdpAlone DEF UdpOnly, UdpInv, UdpTypes, UdpLists
<1> QED BY <1>1, <1>2 DEF UdpSend

LEMMA UdpRemoveStep == ASSUME UdpInv, NEW p \in DOMAIN udp, UdpRemove(p) PROVE UdpInv'
<1>1. /\ udp' = [q \in DOMAIN udp \ {p} |-> udp[q]] /\ udp_pcbs' = Unlinked(udp_pcbs, p)
      /\ UNCHANGED <<raw, raw_pcbs, udp_port, udpplan>>
  BY DEF UdpRemove, UdpOnly, Calls, Drop, udp_remove
<1>2. ListOf(udp_pcbs', UdpPcbs) /\ ToSet(udp_pcbs') = ToSet(udp_pcbs) \ {p}
  BY <1>1, UnlinkedIs DEF UdpInv, UdpLists
<1>3. DOMAIN udp' = DOMAIN udp \ {p} /\ \A q \in DOMAIN udp : q # p => udp'[q] = udp[q]
  BY <1>1
<1>4. UdpTypes'
  BY <1>1 DEF UdpInv, UdpTypes
<1>5. UdpLists'
  BY <1>1, <1>2, <1>3 DEF UdpInv, UdpLists
<1>6. UdpSettled' /\ UdpApart'
  BY <1>1, <1>3 DEF UdpInv, UdpSettled, Settled, UdpApart, Apart
<1> QED BY <1>4, <1>5, <1>6 DEF UdpInv

LEMMA RawSteps ==
  ASSUME UdpInv, NEW p \in DOMAIN raw, RawBind(p) \/ RawConnect(p) \/ RawRemove(p) \/ RawSend(p)
  PROVE  UdpInv'
<1>0. UNCHANGED <<udp, udp_pcbs, udp_port, udpplan>>
  BY DEF RawBind, RawConnect, RawRemove, RawSend, RawOnly, Calls
<1>1. CASE RawBind(p) \/ RawConnect(p) \/ RawSend(p)
  <2>1. DOMAIN raw' = DOMAIN raw /\ raw_pcbs' = raw_pcbs
    BY <1>1 DEF RawBind, RawConnect, RawSend
  <2> QED BY <1>0, <2>1, UdpAlone DEF UdpInv, UdpTypes, UdpLists
<1>2. CASE RawRemove(p)
  <2>1. DOMAIN raw' = DOMAIN raw \ {p} /\ raw_pcbs' = Unlinked(raw_pcbs, p)
    BY <1>2 DEF RawRemove, Drop
  <2>2. ListOf(raw_pcbs', RawPcbs) /\ ToSet(raw_pcbs') = DOMAIN raw'
    BY <2>1, UnlinkedIs DEF UdpInv, UdpLists
  <2> QED BY <1>0, <2>1, <2>2, UdpAlone DEF UdpInv, UdpTypes, UdpLists
<1> QED BY <1>1, <1>2

(* The search of a list: a place in it, or 0. *)
LEMMA FirstOfIs ==
  ASSUME NEW list, NEW T, ListOf(list, T), NEW S, S \subseteq DOMAIN list
  PROVE  (S = {} => FirstOf(S) = 0) /\ (S # {} => FirstOf(S) \in S /\ FirstOf(S) # 0)
<1>1. S \subseteq Nat /\ 0 \notin S
  BY DEF ListOf
<1>2. S # {} => Min(S) \in S
  BY <1>1, LeastIs
<1> QED BY <1>1, <1>2 DEF FirstOf

(* Where udp_input finds the pcb: a place in the list, or 0. *)
LEMMA PerfectIs ==
  ASSUME UdpInv, NEW pkt
  PROVE  /\ Perfect(pkt) # 0 => Perfect(pkt) \in DOMAIN udp_pcbs /\ PeerMatch(udp_pcbs[Perfect(pkt)], pkt)
         /\ Perfect(pkt) = 0 => \A p \in ToSet(udp_pcbs) : ~PeerMatch(p, pkt)
<1> DEFINE S == {i \in DOMAIN udp_pcbs : PeerMatch(udp_pcbs[i], pkt)}
<1>1. Perfect(pkt) = FirstOf(S)
  BY DEF Perfect
<1>2. ListOf(udp_pcbs, UdpPcbs) /\ S \subseteq DOMAIN udp_pcbs
  BY DEF UdpInv, UdpLists
<1>3. (S = {} => FirstOf(S) = 0) /\ (S # {} => FirstOf(S) \in S /\ FirstOf(S) # 0)
  <2> HIDE DEF S
  <2> QED BY <1>2, FirstOfIs
<1> QED BY <1>1, <1>3 DEF ToSet

LEMMA UnconnectedIs ==
  ASSUME UdpInv, NEW pkt
  PROVE  /\ Unconnected(pkt) # 0 =>
              /\ Unconnected(pkt) \in DOMAIN udp_pcbs /\ ~udp[udp_pcbs[Unconnected(pkt)]].connected
              /\ LocalMatch(udp_pcbs[Unconnected(pkt)], pkt)
         /\ Unconnected(pkt) = 0 => \A p \in ToSet(udp_pcbs) : udp[p].connected \/ ~LocalMatch(p, pkt)
<1> DEFINE S == {i \in DOMAIN udp_pcbs : LocalMatch(udp_pcbs[i], pkt) /\ ~udp[udp_pcbs[i]].connected}
<1>1. Unconnected(pkt) = FirstOf(S)
  BY DEF Unconnected
<1>2. ListOf(udp_pcbs, UdpPcbs) /\ S \subseteq DOMAIN udp_pcbs
  BY DEF UdpInv, UdpLists
<1>3. (S = {} => FirstOf(S) = 0) /\ (S # {} => FirstOf(S) \in S /\ FirstOf(S) # 0)
  <2> HIDE DEF S
  <2> QED BY <1>2, FirstOfIs
<1> QED BY <1>1, <1>3 DEF ToSet

LEMMA RawEaterIs ==
  ASSUME UdpInv, NEW pkt
  PROVE  /\ RawEater(pkt) # 0 =>
              /\ RawEater(pkt) \in DOMAIN raw_pcbs
              /\ RawMatch(raw_pcbs[RawEater(pkt)], pkt) /\ raw[raw_pcbs[RawEater(pkt)]].eats
         /\ RawGets(pkt) \cap UdpPcbs = {}
<1> DEFINE e == {i \in DOMAIN raw_pcbs : RawMatch(raw_pcbs[i], pkt) /\ raw[raw_pcbs[i]].eats}
<1>1. RawEater(pkt) = FirstOf(e)
  BY DEF RawEater, FirstOf
<1>2. ListOf(raw_pcbs, RawPcbs) /\ e \subseteq DOMAIN raw_pcbs
  BY DEF UdpInv, UdpLists
<1>3. (e = {} => FirstOf(e) = 0) /\ (e # {} => FirstOf(e) \in e /\ FirstOf(e) # 0)
  <2> HIDE DEF e
  <2> QED BY <1>2, FirstOfIs
<1>4. \A i \in DOMAIN raw_pcbs : raw_pcbs[i] \in RawPcbs
  BY <1>2 DEF ListOf
<1>5. RawGets(pkt) \cap UdpPcbs = {}
  BY <1>4, UdpAssumption DEF RawGets
<1> QED BY <1>1, <1>2, <1>3, <1>5

LEMMA IpInputLists ==
  ASSUME UdpInv, NEW pkt, NEW ok, IpInput(pkt, ok)
  PROVE  UdpInv' /\ ToSet(udp_pcbs') = ToSet(udp_pcbs)
<1>0. UNCHANGED <<udp, raw, udp_port, udpplan>>
  BY DEF IpInput
<1>1. ListOf(raw_pcbs, RawPcbs) /\ ToSet(raw_pcbs) = DOMAIN raw /\ ListOf(udp_pcbs, UdpPcbs) /\ DOMAIN raw \subseteq RawPcbs
  BY DEF UdpInv, UdpLists, UdpTypes
<1>2. ListOf(raw_pcbs', RawPcbs) /\ ToSet(raw_pcbs') = DOMAIN raw'
  <2>1. CASE raw_pcbs' = raw_pcbs
    BY <1>0, <1>1, <2>1
  <2>2. CASE RawEater(pkt) # 0 /\ raw_pcbs' = ToFront(raw_pcbs, RawEater(pkt))
    BY <1>0, <1>1, <2>2, RawEaterIs, MovedToFront
  <2> QED BY <2>1, <2>2 DEF IpInput
<1>3. ListOf(udp_pcbs', UdpPcbs) /\ ToSet(udp_pcbs') = ToSet(udp_pcbs)
  <2>1. CASE udp_pcbs' = udp_pcbs
    BY <1>1, <2>1
  <2>2. CASE Perfect(pkt) # 0 /\ udp_pcbs' = ToFront(udp_pcbs, Perfect(pkt))
    BY <1>1, <2>2, PerfectIs, MovedToFront
  <2> QED BY <2>1, <2>2 DEF IpInput, udp_input, icmp_input
<1> QED BY <1>0, <1>1, <1>2, <1>3, UdpAlone

(* Who hears the datagram, after the list was reordered. *)
LEMMA IpInputHeard ==
  ASSUME UdpInv, NEW pkt, NEW ok, IpInput(pkt, ok)
  PROVE  HeardByTheRightOne'
<1> DEFINE listed == ToSet(udp_pcbs)
           peers == {p \in listed : udp[p].connected /\ PeerMatch(p, pkt)}
           hearers == got' \cap UdpPcbs
<1>1. packet' = pkt /\ udp' = udp /\ ToSet(udp_pcbs') = listed
  BY IpInputLists DEF IpInput
<1>2. SUFFICES ASSUME pkt.proto = "UDP"
               PROVE  /\ \A p \in hearers : udp[p].connected => p \in peers
                      /\ Cardinality(hearers) <= 1
                      /\ hearers # {} /\ peers # {} /\ pkt.sport # 0 => hearers \subseteq peers
                      /\ out' # << >> => peers = {} /\ \A p \in listed : udp[p].connected \/ ~LocalMatch(p, pkt)
  BY <1>1 DEF HeardByTheRightOne, PeerMatch, LocalMatch
<1>3. Cardinality({}) = 0 /\ \A x : Cardinality({x}) = 1
  BY FS_EmptySet, FS_Singleton
<1>4. CASE got' \in {{}, RawGets(pkt)} /\ out' = << >>
  <2>1. hearers = {} /\ Cardinality(hearers) <= 1
    BY <1>3, <1>4, RawEaterIs
  <2> HIDE DEF peers, hearers, listed
  <2> QED BY <1>4, <2>1
<1>5. CASE udp_input(pkt, ok)
  <2> DEFINE i == IF Perfect(pkt) # 0 THEN Perfect(pkt) ELSE Unconnected(pkt)
  <2>1. /\ got' = RawGets(pkt) \cup (IF i # 0 /\ pkt.sum # "udp" THEN {udp_pcbs[i]} ELSE {})
        /\ out' # << >> => i = 0
    BY <1>5 DEF udp_input
  <2>2. i = 0 => Perfect(pkt) = 0 /\ Unconnected(pkt) = 0
    OBVIOUS
  <2>3. i # 0 => i \in DOMAIN udp_pcbs
    BY PerfectIs, UnconnectedIs
  <2>4. i # 0 => PeerMatch(udp_pcbs[i], pkt) \/ (Perfect(pkt) = 0 /\ ~udp[udp_pcbs[i]].connected)
    BY PerfectIs, UnconnectedIs
  <2> HIDE DEF i
  <2>5. i # 0 => udp_pcbs[i] \in listed /\ udp_pcbs[i] \in UdpPcbs /\ udp_pcbs[i] \in DOMAIN udp
    BY <2>3 DEF UdpInv, UdpTypes, UdpLists, ToSet
  <2>6. CASE i = 0 \/ pkt.sum = "udp"
    <3>1. hearers = {} /\ Cardinality(hearers) <= 1
      BY <1>3, <2>1, <2>6, RawEaterIs
    <3>2. out' # << >> => peers = {} /\ \A p \in listed : udp[p].connected \/ ~LocalMatch(p, pkt)
      BY <2>1, <2>2, PerfectIs, UnconnectedIs
    <3> HIDE DEF peers, hearers, listed
    <3> QED BY <3>1, <3>2
  <2>7. CASE i # 0 /\ pkt.sum # "udp"
    <3> DEFINE h == udp_pcbs[i]
    <3>1. hearers = {h} /\ out' = << >>
      BY <2>1, <2>5, <2>7, RawEaterIs
    <3>2. udp[h].connected => h \in peers
      BY <2>4, <2>5, <2>7
    <3>3. pkt.sport # 0 /\ PeerMatch(h, pkt) => udp[h].connected
      BY <2>5, <2>7 DEF PeerMatch, UdpInv, UdpSettled, Settled
    <3>4. peers # {} => Perfect(pkt) # 0
      BY PerfectIs
    <3>5. peers # {} /\ pkt.sport # 0 => h \in peers
      BY <2>4, <2>7, <3>2, <3>3, <3>4
    <3> HIDE DEF h, peers, hearers, listed
    <3>6. Cardinality({h}) = 1
      BY <1>3, Zenon
    <3>7. Cardinality(hearers) <= 1
      BY <3>1, <3>6
    <3> QED BY <3>1, <3>2, <3>5, <3>7
  <2> QED BY <2>6, <2>7
<1> QED
  BY <1>2, <1>4, <1>5 DEF IpInput

(* Without sharing, a datagram for one address matches one pcb at most. *)
LEMMA OneLocalMatch ==
  ASSUME UdpInv, NEW pkt, "reuse" \notin udpplan.use, ~IsBcast(pkt.dst),
         NEW p \in ToSet(udp_pcbs), NEW q \in ToSet(udp_pcbs), LocalMatch(p, pkt), LocalMatch(q, pkt)
  PROVE  p = q
<1>1. p \in DOMAIN udp /\ q \in DOMAIN udp /\ udp[p].lport # 0
  BY DEF UdpInv, UdpLists
<1>2. udp[p].lport = udp[q].lport /\ udp[p].lip \in {AnyAddr, pkt.dst} /\ udp[q].lip \in {AnyAddr, pkt.dst}
  BY DEF LocalMatch, IsBcast
<1> QED BY <1>1, <1>2 DEF UdpInv, UdpApart, Apart

(* Whom the lists, in whatever order, give a datagram for one address. *)
LEMMA IpInputUnordered ==
  ASSUME UdpInv, NEW pkt, NEW ok, IpInput(pkt, ok)
  PROVE  HeardWhateverCameBefore'
<1> DEFINE listed == ToSet(udp_pcbs)
           those == {p \in listed : LocalMatch(p, pkt) /\ (udp[p].connected => PeerMatch(p, pkt))}
<1>1. packet' = pkt /\ UNCHANGED <<udp, raw, udpplan, netif_up, netif_ip>> /\ ToSet(udp_pcbs') = listed
  BY IpInputLists DEF IpInput
<1>2. SUFFICES ASSUME pkt.proto = "UDP", pkt.sum = "good", ~IsBcast(pkt.dst), Accepted(pkt), "reuse" \notin udpplan.use,
                      \A p \in DOMAIN raw : RawMatch(p, pkt) => ~raw[p].eats
               PROVE  got' \cap UdpPcbs = those
  BY <1>1 DEF HeardWhateverCameBefore, PeerMatch, LocalMatch, RawMatch, Accepted
<1>3. RawEater(pkt) = 0
  BY <1>2, RawEaterIs DEF UdpInv, UdpLists, ToSet
<1>4. udp_input(pkt, ok)
  BY <1>2, <1>3 DEF IpInput
<1> DEFINE i == IF Perfect(pkt) # 0 THEN Perfect(pkt) ELSE Unconnected(pkt)
<1>5. got' = RawGets(pkt) \cup (IF i # 0 THEN {udp_pcbs[i]} ELSE {})
  BY <1>2, <1>4 DEF udp_input
<1>6. i = 0 => those = {}
  BY PerfectIs, UnconnectedIs
<1>7. i # 0 => i \in DOMAIN udp_pcbs
  BY PerfectIs, UnconnectedIs
<1> DEFINE h == udp_pcbs[i]
<1>8. i # 0 => LocalMatch(h, pkt) /\ (udp[h].connected => PeerMatch(h, pkt))
  BY PerfectIs, UnconnectedIs DEF PeerMatch
<1> HIDE DEF i
<1>9. i # 0 => those = {h} /\ h \in UdpPcbs
  <2> SUFFICES ASSUME i # 0 PROVE those = {h} /\ h \in UdpPcbs
    OBVIOUS
  <2>1. h \in listed
    BY <1>7 DEF ToSet
  <2>2. listed \subseteq UdpPcbs
    BY DEF UdpInv, UdpTypes, UdpLists
  <2> HIDE DEF h
  <2>3. LocalMatch(h, pkt) /\ h \in those
    BY <1>8, <2>1
  <2>4. ASSUME NEW p \in those PROVE p = h
    BY <1>2, <2>1, <2>3, OneLocalMatch
  <2> HIDE DEF listed, those
  <2> QED BY <2>1, <2>2, <2>3, <2>4
<1>10. RawGets(pkt) \cap UdpPcbs = {}
  BY RawEaterIs
<1> HIDE DEF those, listed
<1> QED BY <1>5, <1>6, <1>9, <1>10

LEMMA UdpStep ==
  ASSUME UdpInv, RightlyHeard, PortsToSpare, [UdpNext]_udpVars
  PROVE  UdpInv' /\ RightlyHeard'
<1>1. ASSUME NEW c, Calls(c) PROVE RightlyHeard'
  BY <1>1 DEF Calls, NoPacket, RightlyHeard, HeardByTheRightOne, HeardWhateverCameBefore
<1>2. CASE UNCHANGED udpVars
  BY <1>2 DEF udpVars, UdpInv, UdpTypes, UdpLists, UdpSettled, Settled, UdpApart, Apart,
              RightlyHeard, HeardByTheRightOne, HeardWhateverCameBefore, PeerMatch, LocalMatch, RawMatch, Accepted
<1>3. CASE udp_new
  BY <1>1, <1>3, UdpNewStep DEF udp_new
<1>4. CASE raw_new
  BY <1>1, <1>4, RawNewStep DEF raw_new
<1>5. CASE NetifChange
  <2>1. UNCHANGED <<udp, udp_pcbs, udp_port, raw, raw_pcbs, udpplan>>
    BY <1>5 DEF NetifChange, Calls
  <2>2. UdpInv'
    BY <2>1, UdpAlone DEF UdpInv, UdpTypes, UdpLists
  <2> QED BY <1>1, <1>5, <2>2 DEF NetifChange
<1>6. ASSUME NEW p \in DOMAIN udp, UdpBind(p) PROVE UdpInv' /\ RightlyHeard'
  BY <1>1, <1>6, UdpBindStep DEF UdpBind
<1>7. ASSUME NEW p \in DOMAIN udp, UdpConnect(p) PROVE UdpInv' /\ RightlyHeard'
  BY <1>1, <1>7, UdpConnectStep DEF UdpConnect
<1>8. ASSUME NEW p \in DOMAIN udp, UdpDisconnect(p) PROVE UdpInv' /\ RightlyHeard'
  BY <1>1, <1>8, UdpDisconnectStep DEF UdpDisconnect
<1>9. ASSUME NEW p \in DOMAIN udp, UdpRemove(p) PROVE UdpInv' /\ RightlyHeard'
  BY <1>1, <1>9, UdpRemoveStep DEF UdpRemove
<1>10. ASSUME NEW p \in DOMAIN udp, UdpReuse(p) PROVE UdpInv' /\ RightlyHeard'
  BY <1>1, <1>10, UdpReuseStep DEF UdpReuse
<1>11. ASSUME NEW p \in DOMAIN udp, UdpSend(p) PROVE UdpInv' /\ RightlyHeard'
  BY <1>1, <1>11, UdpSendStep DEF UdpSend
<1>12. ASSUME NEW p \in DOMAIN udp, UdpSendConnected(p) PROVE UdpInv' /\ RightlyHeard'
  <2>1. UNCHANGED <<udp, udp_pcbs, udp_port, raw, raw_pcbs, udpplan>>
    BY <1>12 DEF UdpSendConnected, UdpOnly, Calls
  <2>2. UdpInv'
    BY <2>1, UdpAlone DEF UdpInv, UdpTypes, UdpLists
  <2> QED BY <1>1, <1>12, <2>2 DEF UdpSendConnected
<1>13. ASSUME NEW p \in DOMAIN raw, RawBind(p) \/ RawConnect(p) \/ RawRemove(p) \/ RawSend(p)
       PROVE  UdpInv' /\ RightlyHeard'
  BY <1>1, <1>13, RawSteps DEF RawBind, RawConnect, RawRemove, RawSend
<1>14. ASSUME NEW pkt, NEW ok, IpInput(pkt, ok) PROVE UdpInv' /\ RightlyHeard'
  BY <1>14, IpInputLists, IpInputHeard, IpInputUnordered DEF RightlyHeard
<1> QED
  BY <1>2, <1>3, <1>4, <1>5, <1>6, <1>7, <1>8, <1>9, <1>10, <1>11, <1>12, <1>13, <1>14 DEF UdpNext

LEMMA UdpInvSound == UdpInv => PcbListsWhole
<1> SUFFICES ASSUME UdpInv PROVE PcbListsWhole
  OBVIOUS
<1>1. IsInjective(udp_pcbs) /\ ToSet(udp_pcbs) = {p \in DOMAIN udp : udp[p].lport # 0}
  BY DEF UdpInv, UdpLists, ListOf
<1>2. IsInjective(raw_pcbs) /\ ToSet(raw_pcbs) = DOMAIN raw
  BY DEF UdpInv, UdpLists, ListOf
<1>3. ASSUME "reuse" \notin udpplan.use, NEW i \in DOMAIN udp_pcbs, NEW j \in DOMAIN udp_pcbs, i # j
      PROVE  Apart(udp[udp_pcbs[i]], udp[udp_pcbs[j]]) /\ udp[udp_pcbs[i]].lport # 0
  <2>1. udp_pcbs[i] # udp_pcbs[j]
    BY <1>1, <1>3 DEF IsInjective
  <2>2. udp_pcbs[i] \in ToSet(udp_pcbs) /\ udp_pcbs[j] \in ToSet(udp_pcbs)
    BY DEF ToSet
  <2> QED BY <1>1, <1>3, <2>1, <2>2 DEF UdpInv, UdpApart
<1> QED
  BY <1>1, <1>2, <1>3 DEF PcbListsWhole, Apart

(* Whatever calls are made on UDP and RAW pcbs and whatever packets come,  *)
(* the lists of udp.c and raw.c stay whole, no two pcbs that do not share  *)
(* can hear the same datagram, and a datagram is never given to a pcb that *)
(* is connected to another peer; if it is for one address and nobody       *)
(* shares, it is given to the pcb bound there whatever came before.  That  *)
(* udp_new_port never runs out is needed: where it does, udp_bind has      *)
(* already changed the address of a pcb that keeps its port.               *)
THEOREM UdpDelivers == ASSUME PortsToSpare PROVE UdpSpec => []UdpSound
<1>1. UdpInv /\ RightlyHeard => UdpSound
  BY UdpInvSound DEF UdpSound, RightlyHeard
<1> QED
  BY <1>1, UdpInitially, UdpStep, PTL DEF UdpSpec
-----------------------------------------------------------------------------
(***************************************************************************)
(* HeapSound for any size of heap, headers and requests.                   *)
(***************************************************************************)

Block == [next : Nat, prev : Nat, used : BOOLEAN]

BlocksOf(m) ==
  /\ DOMAIN m \subseteq 0 .. MEM_SIZE - 1 /\ 0 \in DOMAIN m
  /\ m \in [DOMAIN m -> Block] /\ m[0].prev = 0

(* No block lies between b and end, and one of the two may be the end. *)
Beside(m, b, end) ==
  /\ end \in DOMAIN m \cup {MEM_SIZE} /\ b < end
  /\ \A x \in DOMAIN m : x > b => end <= x

NextRight(m, b) == Beside(m, b, m[b].next)
PrevRight(m, b) == m[b].prev \in DOMAIN m /\ m[m[b].prev].next = b

(* The blocks are in order and fill the array. *)
Chain(m) ==
  /\ BlocksOf(m)
  /\ \A b \in DOMAIN m : NextRight(m, b) /\ (b > 0 => PrevRight(m, b))

(* They do, but for the link between b and end. *)
Gap(m, b, end) ==
  /\ BlocksOf(m) /\ b \in DOMAIN m /\ Beside(m, b, end)
  /\ \A x \in DOMAIN m : (x # b => NextRight(m, x)) /\ (x > 0 /\ x # end => PrevRight(m, x) /\ m[x].prev # b)

NoneJoined(m) == \A b \in DOMAIN m : ~m[b].used => Used(m, m[b].next)
LowestIs(m, l) ==
  /\ l \in DOMAIN m \cup {MEM_SIZE} /\ (l # MEM_SIZE => ~m[l].used)
  /\ \A b \in DOMAIN m : ~m[b].used => l <= b

HeldIn(m, h) ==
  /\ DOMAIN h = {b \in DOMAIN m : m[b].used} /\ h \in [DOMAIN h -> Nat]
  /\ \A b \in DOMAIN h : h[b] <= m[b].next - b - SIZEOF_STRUCT_MEM

HeapInv ==
  /\ Chain(mem) /\ NoneJoined(mem) /\ LowestIs(mem, lfree) /\ HeldIn(mem, held)
  /\ refused \in Nat
  /\ \A b \in Blocks : refused # 0 /\ ~mem[b].used => Size(b) < refused

LEMMA GapBehind ==
  ASSUME NEW m, Chain(m), NEW b \in DOMAIN m
  PROVE  Gap(m, b, m[b].next)
  BY DEF Gap, Chain, BlocksOf, NextRight, PrevRight, Beside

LEMMA WithoutIs ==
  ASSUME NEW m, Chain(m), NEW b \in DOMAIN m, NEW n, n = m[b].next, n # MEM_SIZE, NEW r, r = Without(m, n)
  PROVE  /\ Gap(r, b, m[n].next)
         /\ DOMAIN r = DOMAIN m \ {n}
         /\ \A x \in DOMAIN r : r[x] = m[x]
<1>1. n \in DOMAIN m /\ n > b /\ n > 0 /\ n \in Nat /\ b \in Nat
  BY HeapAssumption DEF Chain, BlocksOf, NextRight, Beside
<1>2. DOMAIN r = DOMAIN m \ {n} /\ r = [x \in DOMAIN m \ {n} |-> m[x]]
  BY DEF Without
<1>3. \A x \in DOMAIN r : r[x] = m[x]
  BY <1>2
<1>4. BlocksOf(r)
  <2>1. r \in [DOMAIN r -> Block]
    BY <1>2 DEF Chain, BlocksOf
  <2> QED
    BY <1>1, <1>2, <1>3, <2>1 DEF Chain, BlocksOf
<1>5. Beside(r, b, m[n].next) /\ b \in DOMAIN r
  <2>1. m[n].next \in DOMAIN m \cup {MEM_SIZE} /\ n < m[n].next /\ \A x \in DOMAIN m : x > n => m[n].next <= x
    BY <1>1 DEF Chain, NextRight, Beside
  <2>2. \A x \in DOMAIN m : x > b => n <= x
    BY DEF Chain, NextRight, Beside
  <2>3. \A x \in DOMAIN m \cup {MEM_SIZE} : x \in Nat
    BY HeapAssumption DEF Chain, BlocksOf
  <2> QED
    BY <1>1, <1>2, <2>1, <2>2, <2>3 DEF Beside
<1>6. ASSUME NEW x \in DOMAIN r, x # b PROVE NextRight(r, x)
  <2>1. NextRight(m, x)
    BY <1>2 DEF Chain
  <2>2. m[x].next # n
    BY <1>1, <1>2, <1>6 DEF Chain, BlocksOf, NextRight, Beside
  <2> QED
    BY <1>2, <1>3, <2>1, <2>2 DEF NextRight, Beside
<1>7. ASSUME NEW x \in DOMAIN r, x > 0, x # m[n].next PROVE PrevRight(r, x) /\ r[x].prev # b
  <2>1. PrevRight(m, x)
    BY <1>2, <1>7 DEF Chain
  <2> QED
    BY <1>2, <1>3, <1>7, <2>1 DEF PrevRight
<1> QED
  BY <1>2, <1>3, <1>4, <1>5, <1>6, <1>7 DEF Gap

(* The link between b and end is set. *)
Bridged(m, b, end) == SetPrev([m EXCEPT ![b].next = end], end, b)

LEMMA BridgedIs ==
  ASSUME NEW m, NEW b, NEW end, Gap(m, b, end), NEW r, r = Bridged(m, b, end)
  PROVE  /\ Chain(r) /\ DOMAIN r = DOMAIN m
         /\ r[b].next = end
         /\ \A x \in DOMAIN m : r[x].used = m[x].used /\ (x # b => r[x].next = m[x].next)
<1>1. m \in [DOMAIN m -> Block] /\ b \in DOMAIN m /\ DOMAIN m \subseteq Nat /\ MEM_SIZE \in Nat /\ b # end
  BY HeapAssumption DEF Gap, BlocksOf, Beside
<1>2. end \in Nat /\ b \in Nat /\ b < end /\ end > 0 /\ end \in DOMAIN m \cup {MEM_SIZE} /\ MEM_SIZE \notin DOMAIN m
  BY <1>1 DEF Gap, Beside, BlocksOf
<1> DEFINE s == [m EXCEPT ![b].next = end]
<1>3. s \in [DOMAIN m -> Block] /\ s[b].next = end /\ s[b].prev = m[b].prev /\ s[b].used = m[b].used
  BY <1>1, <1>2 DEF Block
<1>4. \A x \in DOMAIN m : x # b => s[x] = m[x]
  BY <1>1
<1>5. r = SetPrev(s, end, b)
  BY DEF Bridged
<1> HIDE DEF s
<1>6. /\ r \in [DOMAIN m -> Block]
      /\ \A x \in DOMAIN m : r[x].used = s[x].used /\ r[x].next = s[x].next
      /\ \A x \in DOMAIN m : x # end => r[x].prev = s[x].prev
      /\ end \in DOMAIN m => r[end].prev = b
  <2>1. CASE end = MEM_SIZE
    BY <1>2, <1>3, <1>5, <2>1 DEF SetPrev
  <2>2. CASE end # MEM_SIZE
    <3>1. r = [s EXCEPT ![end].prev = b] /\ end \in DOMAIN m
      BY <1>2, <1>5, <2>2 DEF SetPrev
    <3> QED
      BY <1>2, <1>3, <3>1 DEF Block
  <2> QED
    BY <2>1, <2>2
<1>7. DOMAIN r = DOMAIN m /\ r[b].next = end
      /\ \A x \in DOMAIN m : r[x].used = m[x].used /\ (x # b => r[x].next = m[x].next)
  BY <1>1, <1>3, <1>4, <1>6
<1>8. \A x \in DOMAIN m : x # end => r[x].prev = m[x].prev
  BY <1>3, <1>4, <1>6
<1>9. BlocksOf(r)
  BY <1>2, <1>6, <1>7, <1>8 DEF Gap, BlocksOf
<1>10. ASSUME NEW x \in DOMAIN r PROVE NextRight(r, x)
  <2>1. CASE x = b
    BY <1>7, <2>1 DEF Gap, Beside, NextRight
  <2>2. CASE x # b
    BY <1>7, <2>2 DEF Gap, Beside, NextRight
  <2> QED
    BY <2>1, <2>2
<1>11. ASSUME NEW x \in DOMAIN r, x > 0 PROVE PrevRight(r, x)
  <2>1. CASE x = end
    BY <1>1, <1>6, <1>7, <2>1 DEF PrevRight
  <2>2. CASE x # end
    <3>1. PrevRight(m, x) /\ m[x].prev # b
      BY <1>7, <1>11, <2>2 DEF Gap
    <3> QED
      BY <1>7, <1>8, <2>2, <3>1 DEF PrevRight
  <2> QED
    BY <2>1, <2>2
<1> QED
  BY <1>7, <1>9, <1>10, <1>11 DEF Chain

(* The block b, up to where end begins, is b and a free block at `at'. *)
IsCut(m, b, at, end, r) ==
  /\ Chain(r) /\ DOMAIN r = DOMAIN m \cup {at} /\ at \notin DOMAIN m
  /\ r[b].next = at /\ r[at].next = end /\ ~r[at].used
  /\ \A x \in DOMAIN m : r[x].used = m[x].used /\ (x # b => r[x].next = m[x].next)

LEMMA CutIs ==
  ASSUME NEW m, NEW b, NEW end, Gap(m, b, end), NEW at \in Nat, b < at, at < end, NEW r, r = Cut(m, b, at, end)
  PROVE  IsCut(m, b, at, end, r)
<1>1. m \in [DOMAIN m -> Block] /\ b \in DOMAIN m /\ DOMAIN m \subseteq Nat /\ MEM_SIZE \in Nat /\ b # end
  BY HeapAssumption DEF Gap, BlocksOf, Beside
<1>2. end \in Nat /\ b \in Nat /\ b < end /\ end > 0 /\ end \in DOMAIN m \cup {MEM_SIZE} /\ MEM_SIZE \notin DOMAIN m
  BY <1>1 DEF Gap, Beside, BlocksOf
<1>3. at \notin DOMAIN m /\ at # MEM_SIZE /\ at < MEM_SIZE /\ at # 0
  BY <1>1, <1>2 DEF Gap, Beside, BlocksOf
<1> DEFINE new == [next |-> end, prev |-> b, used |-> FALSE]
           t == [m EXCEPT ![b].next = at]
           s == With(t, at, new)
           D == DOMAIN m \cup {at}
<1>4. new \in Block
  BY <1>2 DEF Block
<1>5. t \in [DOMAIN m -> Block] /\ t[b].next = at /\ t[b].prev = m[b].prev /\ t[b].used = m[b].used
  BY <1>1, <1>2 DEF Block
<1>6. \A x \in DOMAIN m : x # b => t[x] = m[x]
  BY <1>1
<1>7. s = [x \in D |-> IF x = at THEN new ELSE t[x]]
  BY <1>5 DEF With
<1>8. r = SetPrev(s, end, at)
  BY DEF Cut
<1> HIDE DEF t
<1>9. s \in [D -> Block] /\ s[at] = new /\ \A x \in DOMAIN m : s[x] = t[x]
  <2> HIDE DEF new
  <2> QED
    BY <1>3, <1>4, <1>5, <1>7
<1>10. s[at].next = end /\ s[at].prev = b /\ s[at].used = FALSE
  BY <1>9
<1> HIDE DEF s, new
<1>11. /\ r \in [D -> Block]
       /\ \A x \in D : r[x].used = s[x].used /\ r[x].next = s[x].next
       /\ \A x \in D : x # end => r[x].prev = s[x].prev
       /\ end \in DOMAIN m => r[end].prev = at
  <2>1. CASE end = MEM_SIZE
    BY <1>2, <1>9, <1>8, <2>1 DEF SetPrev
  <2>2. CASE end # MEM_SIZE
    <3>1. r = [s EXCEPT ![end].prev = at] /\ end \in D
      BY <1>2, <1>8, <2>2 DEF SetPrev
    <3> QED
      BY <1>2, <1>9, <3>1 DEF Block
  <2> QED
    BY <2>1, <2>2
<1>12. DOMAIN r = D /\ r[b].next = at /\ r[at].next = end /\ r[at].used = FALSE /\ r[at].prev = b
  BY <1>1, <1>2, <1>5, <1>9, <1>10, <1>11
<1>13. \A x \in DOMAIN m : r[x].used = m[x].used /\ (x # b => r[x].next = m[x].next)
  BY <1>1, <1>5, <1>6, <1>9, <1>11
<1>14. \A x \in DOMAIN m : x # end => r[x].prev = m[x].prev
  BY <1>5, <1>6, <1>9, <1>11
<1>15. BlocksOf(r)
  <2>1. 0 \in DOMAIN m /\ DOMAIN m \subseteq 0 .. MEM_SIZE - 1 /\ m[0].prev = 0
    BY DEF Gap, BlocksOf
  <2>2. D \subseteq 0 .. MEM_SIZE - 1 /\ 0 \in D
    BY <1>1, <1>3, <2>1
  <2>3. r[0].prev = 0
    BY <1>2, <1>14, <2>1
  <2> QED
    BY <1>11, <1>12, <2>2, <2>3 DEF BlocksOf
<1>16. ASSUME NEW x \in DOMAIN r PROVE NextRight(r, x)
  <2>0. \A y \in DOMAIN m : y > b => end <= y
    BY DEF Gap, Beside
  <2>1. CASE x = b
    BY <1>1, <1>2, <1>3, <1>12, <2>0, <2>1 DEF Beside, NextRight
  <2>2. CASE x = at
    BY <1>1, <1>2, <1>3, <1>12, <2>0, <2>2 DEF Beside, NextRight
  <2>3. CASE x # b /\ x # at
    <3>1. x \in DOMAIN m /\ NextRight(m, x) /\ r[x].next = m[x].next
      BY <1>12, <1>13, <2>3 DEF Gap
    <3>2. m[x].next \in DOMAIN m \cup {MEM_SIZE} /\ x < m[x].next /\ \A y \in DOMAIN m : y > x => m[x].next <= y
      BY <3>1 DEF NextRight, Beside
    <3>3. at > x => m[x].next <= at
      <4>1. at > x => x < b
        BY <1>1, <1>2, <2>0, <2>3, <3>1
      <4>2. x < b => m[x].next <= b
        BY <1>1, <1>2, <3>2
      <4> QED
        BY <1>1, <1>2, <3>1, <3>2, <4>1, <4>2
    <3> QED
      BY <1>12, <3>1, <3>2, <3>3 DEF NextRight, Beside
  <2> QED
    BY <2>1, <2>2, <2>3
<1>17. ASSUME NEW x \in DOMAIN r, x > 0 PROVE PrevRight(r, x)
  <2>1. CASE x = end
    BY <1>1, <1>2, <1>3, <1>11, <1>12, <2>1 DEF PrevRight
  <2>2. CASE x = at
    BY <1>1, <1>12, <2>2 DEF PrevRight
  <2>3. CASE x # end /\ x # at
    <3>1. x \in DOMAIN m /\ PrevRight(m, x) /\ m[x].prev # b
      BY <1>12, <1>17, <2>3 DEF Gap
    <3> QED
      BY <1>12, <1>13, <1>14, <2>3, <3>1 DEF PrevRight
  <2> QED
    BY <2>1, <2>2, <2>3
<1> QED
  BY <1>3, <1>12, <1>13, <1>15, <1>16, <1>17 DEF Chain, IsCut

(* n has been joined to the block b before it. *)
Joined(m, b, n, r) ==
  /\ Chain(r) /\ DOMAIN r = DOMAIN m \ {n} /\ b \in DOMAIN r
  /\ r[b].next = m[n].next /\ m[n].next \in DOMAIN r \cup {MEM_SIZE} /\ n \in DOMAIN m /\ n > b
  /\ \A x \in DOMAIN r : r[x].used = m[x].used /\ (x # b => r[x].next = m[x].next)

KeepsLowestAndHeld(m, r) ==
  /\ \A l : LowestIs(m, l) => LowestIs(r, l)
  /\ \A h : HeldIn(m, h) => HeldIn(r, h)

LEMMA JoinIs ==
  ASSUME NEW m, Chain(m), NEW b \in DOMAIN m, NEW n, n = m[b].next, n # MEM_SIZE, NEW r, r = Join(m, b, n)
  PROVE  Joined(m, b, n, r)
<1>1. n \in DOMAIN m /\ n > b /\ m \in [DOMAIN m -> Block] /\ b # n
  BY HeapAssumption DEF Chain, BlocksOf, NextRight, Beside
<1> DEFINE end == m[n].next
           w == Without(m, n)
<1>2. Without([m EXCEPT ![b].next = end], n) = [w EXCEPT ![b].next = end]
  BY <1>1 DEF Without
<1>3. r = Bridged(w, b, end)
  BY <1>2 DEF Bridged, Join
<1>4. Gap(w, b, end) /\ DOMAIN w = DOMAIN m \ {n} /\ \A x \in DOMAIN w : w[x] = m[x]
  BY WithoutIs
<1>5. end \in DOMAIN w \cup {MEM_SIZE}
  BY <1>4 DEF Gap, Beside
<1> HIDE DEF end, w
<1>6. /\ Chain(r) /\ DOMAIN r = DOMAIN w
      /\ r[b].next = end
      /\ \A x \in DOMAIN w : r[x].used = w[x].used /\ (x # b => r[x].next = w[x].next)
  BY <1>3, <1>4, BridgedIs
<1> QED
  BY <1>1, <1>4, <1>5, <1>6 DEF end, Joined

(* What no joining of free blocks changes. *)
LEMMA JoinKeeps ==
  ASSUME NEW m, Chain(m), NEW b \in DOMAIN m, NEW n, n = m[b].next, n # MEM_SIZE, NEW r, r = Join(m, b, n),
         ~m[b].used, ~m[n].used
  PROVE  KeepsLowestAndHeld(m, r)
<1>0. Joined(m, b, n, r)
  BY JoinIs
<1>1. /\ Chain(r) /\ DOMAIN r = DOMAIN m \ {n} /\ b \in DOMAIN r
      /\ r[b].next = m[n].next /\ n \in DOMAIN m /\ n > b
      /\ \A x \in DOMAIN r : r[x].used = m[x].used /\ (x # b => r[x].next = m[x].next)
  BY <1>0 DEF Joined
<1>2. ASSUME NEW l, LowestIs(m, l) PROVE LowestIs(r, l)
  <2>1. l # n
    <3>1. l <= b /\ l \in DOMAIN m \cup {MEM_SIZE}
      BY <1>2 DEF LowestIs
    <3> QED
      BY <1>1, <3>1, HeapAssumption DEF Chain, BlocksOf
  <2> QED
    BY <1>1, <1>2, <2>1 DEF LowestIs
<1>3. ASSUME NEW h, HeldIn(m, h) PROVE HeldIn(r, h)
  <2>1. DOMAIN h = {x \in DOMAIN r : r[x].used}
    BY <1>1, <1>3 DEF HeldIn
  <2>2. \A x \in DOMAIN h : r[x].next = m[x].next
    BY <1>1, <1>3, <2>1 DEF HeldIn
  <2> QED
    BY <1>3, <2>1, <2>2 DEF HeldIn
<1> QED
  BY <1>2, <1>3 DEF KeepsLowestAndHeld

(* The block before b is the one whose next it is. *)
LEMMA OnePrev ==
  ASSUME NEW m, Chain(m), NEW x \in DOMAIN m, NEW y \in DOMAIN m, m[x].next = m[y].next
  PROVE  x = y
<1>1. x \in Int /\ y \in Int /\ m[x].next \in Int /\ x < m[x].next /\ y < m[y].next
  BY HeapAssumption DEF Chain, BlocksOf, NextRight, Beside
<1>2. (y > x => m[x].next <= y) /\ (x > y => m[y].next <= x)
  BY DEF Chain, NextRight, Beside
<1> QED
  BY <1>1, <1>2

(* What plug_holes finds: only b may have a free neighbour. *)
NoneJoinedBut(m, b) == \A x \in DOMAIN m : ~m[x].used /\ x # b /\ m[x].next # b => Used(m, m[x].next)

LEMMA Plugged ==
  ASSUME NEW m, Chain(m), NEW b \in DOMAIN m, ~m[b].used,
         NoneJoinedBut(m, b),
         NEW r, r = plug_holes(m, b)
  PROVE  /\ Chain(r) /\ NoneJoined(r)
         /\ KeepsLowestAndHeld(m, r)
<1> DEFINE s == JoinNext(m, b)
<1>1. /\ Chain(s) /\ b \in DOMAIN s /\ ~s[b].used
      /\ \A x \in DOMAIN s : ~s[x].used /\ s[x].next # b => Used(s, s[x].next)
      /\ KeepsLowestAndHeld(m, s)
  <2>1. CASE Used(m, m[b].next)
    BY <2>1 DEF JoinNext, KeepsLowestAndHeld, NoneJoinedBut
  <2>2. CASE ~Used(m, m[b].next)
    <3> DEFINE n == m[b].next
    <3>1. s = Join(m, b, n) /\ n # MEM_SIZE /\ ~m[n].used
      BY <2>2 DEF JoinNext, Used
    <3> HIDE DEF s
    <3>2. /\ Chain(s) /\ DOMAIN s = DOMAIN m \ {n} /\ b \in DOMAIN s
          /\ s[b].next = m[n].next /\ m[n].next \in DOMAIN s \cup {MEM_SIZE} /\ n \in DOMAIN m /\ n > b
          /\ \A x \in DOMAIN s : s[x].used = m[x].used /\ (x # b => s[x].next = m[x].next)
      <4>1. Joined(m, b, n, s)
        BY <3>1, JoinIs
      <4> QED
        BY <4>1 DEF Joined
    <3>3. KeepsLowestAndHeld(m, s)
      BY <3>1, JoinKeeps
    <3>4. ASSUME NEW x \in DOMAIN s, ~s[x].used, s[x].next # b PROVE Used(s, s[x].next)
      <4>1. CASE x = b
        <5>1. n # b /\ m[n].next # b
          BY <3>2, HeapAssumption DEF Chain, BlocksOf, NextRight, Beside
        <5>2. Used(m, m[n].next)
          BY <3>1, <3>2, <5>1 DEF NoneJoinedBut
        <5> QED
          BY <3>2, <4>1, <5>2 DEF Used
      <4>2. CASE x # b
        <5>1. x \in DOMAIN m /\ s[x].next = m[x].next /\ ~m[x].used
          BY <3>2, <3>4, <4>2
        <5>2. Used(m, m[x].next)
          BY <3>4, <4>2, <5>1 DEF NoneJoinedBut
        <5>3. m[x].next # n
          BY <4>2, <5>1, OnePrev
        <5>4. m[x].next \in DOMAIN m \cup {MEM_SIZE}
          BY <5>1 DEF Chain, NextRight, Beside
        <5> QED
          BY <3>2, <5>1, <5>2, <5>3, <5>4 DEF Used
      <4> QED
        BY <4>1, <4>2
    <3> QED
      BY <3>2, <3>3, <3>4
  <2> QED
    BY <2>1, <2>2
<1>2. r = JoinPrev(s, b)
  BY DEF plug_holes
<1> HIDE DEF s
<1>3. /\ Chain(r) /\ NoneJoined(r)
      /\ KeepsLowestAndHeld(s, r)
  <2> DEFINE p == s[b].prev
  <2>1. CASE p = b \/ s[p].used
    <3>1. r = s
      BY <1>2, <2>1 DEF JoinPrev
    <3>2. ASSUME NEW x \in DOMAIN s, ~s[x].used PROVE s[x].next # b
      <4>1. b > x => b > 0 /\ p \in DOMAIN s /\ s[p].next = b
        BY <1>1 DEF Chain, BlocksOf, PrevRight
      <4>2. s[x].next = b => x < b
        BY <1>1 DEF Chain, NextRight, Beside
      <4>3. s[x].next = b => x = p
        BY <1>1, <4>1, <4>2, OnePrev
      <4>4. x < b => x # b
        BY <1>1 DEF Chain, BlocksOf
      <4> QED
        BY <2>1, <3>2, <4>2, <4>3, <4>4
    <3> QED
      BY <1>1, <3>1, <3>2 DEF NoneJoined, KeepsLowestAndHeld
  <2>2. CASE ~(p = b \/ s[p].used)
    <3>1. r = Join(s, p, b) /\ p # b /\ ~s[p].used
      BY <1>2, <2>2 DEF JoinPrev
    <3>2. p \in DOMAIN s /\ s[p].next = b /\ b # MEM_SIZE
      <4>1. b # 0 /\ b \in Nat /\ b # MEM_SIZE
        BY <1>1, <3>1 DEF Chain, BlocksOf
      <4> QED
        BY <1>1, <4>1 DEF Chain, PrevRight
    <3>3. /\ Chain(r) /\ DOMAIN r = DOMAIN s \ {b} /\ p \in DOMAIN r
          /\ r[p].next = s[b].next /\ s[b].next \in DOMAIN r \cup {MEM_SIZE} /\ b > p
          /\ \A x \in DOMAIN r : r[x].used = s[x].used /\ (x # p => r[x].next = s[x].next)
      <4>1. Joined(s, p, b, r)
        BY <1>1, <3>1, <3>2, JoinIs
      <4> QED
        BY <4>1 DEF Joined
    <3>4. KeepsLowestAndHeld(s, r)
      BY <1>1, <3>1, <3>2, JoinKeeps
    <3>5. ASSUME NEW x \in DOMAIN r, ~r[x].used PROVE Used(r, r[x].next)
      <4>1. CASE x = p
        <5>1. s[b].next # b
          BY <1>1, HeapAssumption DEF Chain, BlocksOf, NextRight, Beside
        <5>2. Used(s, s[b].next)
          BY <1>1, <5>1
        <5> QED
          BY <3>3, <4>1, <5>2 DEF Used
      <4>2. CASE x # p
        <5>1. x \in DOMAIN s /\ r[x].next = s[x].next /\ ~s[x].used
          BY <3>3, <3>5, <4>2
        <5>2. s[x].next # b
          BY <1>1, <3>2, <4>2, <5>1, OnePrev
        <5>3. Used(s, s[x].next)
          BY <1>1, <5>1, <5>2
        <5>4. s[x].next \in DOMAIN s \cup {MEM_SIZE}
          BY <1>1, <5>1 DEF Chain, NextRight, Beside
        <5> QED
          BY <3>3, <5>1, <5>2, <5>3, <5>4 DEF Used
      <4> QED
        BY <4>1, <4>2
    <3> QED
      BY <3>3, <3>4, <3>5 DEF NoneJoined
  <2> QED
    BY <2>1, <2>2
<1> QED
  BY <1>1, <1>3 DEF KeepsLowestAndHeld

LEMMA FreeStep ==
  ASSUME HeapInv, NEW b \in DOMAIN held, mem_free(b)
  PROVE  HeapInv'
<1> DEFINE m == [mem EXCEPT ![b].used = FALSE]
           h == Without(held, b)
<1>1. b \in DOMAIN mem /\ mem[b].used /\ mem \in [DOMAIN mem -> Block] /\ Chain(mem) /\ DOMAIN mem \subseteq Nat
      /\ MEM_SIZE \in Nat /\ MEM_SIZE \notin DOMAIN mem
  BY HeapAssumption DEF HeapInv, HeldIn, Chain, BlocksOf
<1>2. /\ m \in [DOMAIN mem -> Block] /\ DOMAIN m = DOMAIN mem /\ ~m[b].used
      /\ \A x \in DOMAIN mem : m[x].next = mem[x].next /\ m[x].prev = mem[x].prev /\ (x # b => m[x].used = mem[x].used)
  BY <1>1 DEF Block
<1>3. mem' = plug_holes(m, b) /\ lfree' = Lowered(b) /\ held' = h /\ refused' = 0
  BY DEF mem_free
<1>4. h = [x \in DOMAIN held \ {b} |-> held[x]]
  BY DEF Without
<1> HIDE DEF m, h
<1>5. Chain(m)
  BY <1>1, <1>2 DEF Chain, BlocksOf, NextRight, PrevRight, Beside
<1>6. NoneJoinedBut(m, b)
  <2> SUFFICES \A x \in DOMAIN m : ~m[x].used /\ x # b /\ m[x].next # b => Used(m, m[x].next)
    BY DEF NoneJoinedBut
  <2> TAKE x \in DOMAIN m
  <2>1. mem[x].next \in DOMAIN mem \cup {MEM_SIZE}
    BY <1>1, <1>2 DEF Chain, NextRight, Beside
  <2> QED
    BY <1>2, <2>1 DEF HeapInv, NoneJoined, Used
<1>7. /\ Chain(mem') /\ NoneJoined(mem')
      /\ KeepsLowestAndHeld(m, mem')
  BY <1>1, <1>2, <1>3, <1>5, <1>6, Plugged
<1>8. HeldIn(m, h)
  <2>1. DOMAIN h = {x \in DOMAIN m : m[x].used}
    BY <1>1, <1>2, <1>4 DEF HeapInv, HeldIn
  <2> QED
    BY <1>2, <1>4, <2>1 DEF HeapInv, HeldIn
<1>9. LowestIs(m, Lowered(b))
  <2> DEFINE l == Min({b, lfree})
  <2>1. lfree \in Nat /\ b \in Nat
    BY <1>1 DEF HeapInv, LowestIs
  <2>2. l \in {b, lfree} /\ l <= b /\ l <= lfree
    <3>1. l \in {b, lfree} /\ \A y \in {b, lfree} : l <= y
      BY <2>1, LeastIs
    <3> QED
      BY <3>1
  <2> HIDE DEF l
  <2>3. LowestIs(m, l)
    BY <1>1, <1>2, <2>1, <2>2 DEF HeapInv, LowestIs
  <2>4. Lowered(b) = l
    <3>1. SUFFICES ASSUME l = b, mem[b].prev # b, ~mem[mem[b].prev].used PROVE FALSE
      BY DEF Lowered, l
    <3>2. b > 0
      BY <1>1, <2>1, <3>1 DEF Chain, BlocksOf
    <3>3. mem[b].prev \in DOMAIN mem /\ mem[mem[b].prev].next = b
      BY <1>1, <3>2 DEF Chain, PrevRight
    <3>4. mem[b].prev < b
      BY <1>1, <3>3 DEF Chain, NextRight, Beside
    <3>5. lfree <= mem[b].prev
      BY <3>1, <3>3 DEF HeapInv, LowestIs
    <3> QED
      BY <1>1, <2>1, <2>2, <3>1, <3>3, <3>4, <3>5
  <2> QED
    BY <2>3, <2>4
<1> QED
  BY <1>3, <1>7, <1>8, <1>9 DEF HeapInv, Blocks, KeepsLowestAndHeld

LEMMA AskedIs ==
  ASSUME NEW size \in Nat
  PROVE  Asked(size) \in Nat \ {0} /\ size <= Asked(size)
<1>1. \E x \in {size, MIN_SIZE} : \A y \in {size, MIN_SIZE} : x >= y
  BY HeapAssumption
<1>2. Max({size, MIN_SIZE}) \in {size, MIN_SIZE} /\ \A y \in {size, MIN_SIZE} : Max({size, MIN_SIZE}) >= y
  BY <1>1 DEF Max
<1> QED
  BY <1>2, HeapAssumption DEF Asked

(* b is marked as in use, and nothing else changes. *)
IsTaken(m, b, r) ==
  /\ Chain(r) /\ DOMAIN r = DOMAIN m /\ r[b].used
  /\ \A x \in DOMAIN m : r[x].next = m[x].next /\ (x # b => r[x].used = m[x].used)

LEMMA TakenIs ==
  ASSUME NEW m, Chain(m), NEW b \in DOMAIN m, NEW r, r = [m EXCEPT ![b].used = TRUE]
  PROVE  IsTaken(m, b, r)
<1>1. m \in [DOMAIN m -> Block]
  BY DEF Chain, BlocksOf
<1>2. /\ r \in [DOMAIN m -> Block] /\ DOMAIN r = DOMAIN m /\ r[b].used
      /\ \A x \in DOMAIN m : r[x].next = m[x].next /\ r[x].prev = m[x].prev /\ (x # b => r[x].used = m[x].used)
  BY <1>1 DEF Block
<1>3. Chain(r)
  BY <1>2 DEF Chain, BlocksOf, NextRight, PrevRight, Beside
<1> QED
  BY <1>2, <1>3 DEF IsTaken

LEMMA FirstFreeIs ==
  ASSUME NEW m, BlocksOf(m), NEW l \in Nat, \A x \in DOMAIN m : ~m[x].used => l <= x
  PROVE  LowestIs(m, FirstFree(m, l))
<1> DEFINE S == {x \in DOMAIN m : x >= l /\ ~m[x].used} \cup {MEM_SIZE}
<1>1. S \subseteq Nat /\ S # {} /\ MEM_SIZE \in Nat /\ MEM_SIZE \notin DOMAIN m
  BY HeapAssumption DEF BlocksOf
<1>2. Min(S) \in S /\ \A y \in S : Min(S) <= y
  BY <1>1, LeastIs
<1>3. FirstFree(m, l) = Min(S)
  BY DEF FirstFree
<1>4. \A x \in DOMAIN m : ~m[x].used => x \in S
  BY HeapAssumption DEF BlocksOf
<1>5. Min(S) \in DOMAIN m \cup {MEM_SIZE} /\ (Min(S) # MEM_SIZE => ~m[Min(S)].used)
  BY <1>2
<1> HIDE DEF S
<1> QED
  BY <1>2, <1>3, <1>4, <1>5 DEF LowestIs

LEMMA MallocStep ==
  ASSUME HeapInv, NEW size \in HeapSizes, mem_malloc(size)
  PROVE  HeapInv'
<1> DEFINE a == Asked(size)
<1>1. a \in Nat \ {0} /\ size <= a /\ size \in Nat /\ SIZEOF_STRUCT_MEM \in Nat \ {0} /\ MIN_SIZE \in Nat \ {0} /\ MEM_SIZE \in Nat
  BY HeapAssumption, AskedIs
<1>2. /\ mem \in [DOMAIN mem -> Block] /\ Chain(mem) /\ DOMAIN mem \subseteq Nat /\ MEM_SIZE \notin DOMAIN mem
      /\ \A x \in DOMAIN mem : mem[x].next \in Nat /\ x < mem[x].next /\ mem[x].next <= MEM_SIZE
  BY HeapAssumption DEF HeapInv, Chain, BlocksOf, NextRight, Beside
<1>3. lfree \in Nat /\ LowestIs(mem, lfree)
  BY <1>1, <1>2 DEF HeapInv, LowestIs
<1>4. CASE Fitting(a) = {}
  <2>1. refused' = a /\ UNCHANGED <<mem, lfree, held>>
    BY <1>4 DEF mem_malloc
  <2>2. ASSUME NEW x \in DOMAIN mem, ~mem[x].used PROVE Size(x) < a
    <3>1. x >= lfree
      BY <1>2, <1>3, <2>2 DEF LowestIs
    <3>2. Size(x) \in Int /\ (Size(x) >= a => x < MEM_SIZE - a)
      BY <1>1, <1>2 DEF Size
    <3>3. x \notin Fitting(a)
      BY <1>4
    <3> HIDE DEF a
    <3>4. ~(Size(x) >= a)
      BY <2>2, <3>1, <3>2, <3>3 DEF Fitting, Blocks
    <3> QED
      BY <1>1, <3>2, <3>4
  <2>3. \A x \in Blocks' : refused' # 0 /\ ~mem[x]'.used => Size(x)' < refused'
    BY <2>1, <2>2 DEF Blocks, Size
  <2> QED
    BY <1>1, <2>1, <2>3 DEF HeapInv, Blocks, Size
<1>5. CASE Fitting(a) # {}
  <2> DEFINE b == Min(Fitting(a))
  <2>1. Fitting(a) \subseteq Nat
    BY <1>2 DEF Fitting, Blocks
  <2>2. b \in Fitting(a)
    BY <1>5, <2>1, LeastIs
  <2>3. /\ mem' = Taken(b, a) /\ held' = With(held, b, size) /\ refused' = 0
        /\ lfree' = IF b = lfree THEN FirstFree(mem', lfree) ELSE lfree
    BY <1>5 DEF mem_malloc
  <2> HIDE DEF b, a
  <2>4. b \in DOMAIN mem /\ b \in Nat /\ b >= lfree /\ ~mem[b].used /\ Size(b) >= a /\ Size(b) \in Int
    BY <1>2, <1>1, <2>2 DEF Fitting, Blocks, Size
  <2>5. Used(mem, mem[b].next)
    BY <2>4 DEF HeapInv, NoneJoined
  <2>6. CASE Size(b) >= a + SIZEOF_STRUCT_MEM + MIN_SIZE
    <3> DEFINE at == b + SIZEOF_STRUCT_MEM + a
               n == mem[b].next
               c == Cut(mem, b, at, n)
    <3>1. at \in Nat /\ b < at /\ at < n /\ n \in Nat
      BY <1>1, <1>2, <2>4, <2>6 DEF Size
    <3>2. Gap(mem, b, n)
      BY <1>2, <2>4, GapBehind
    <3>3. mem' = [c EXCEPT ![b].used = TRUE]
      BY <2>3, <2>6 DEF Taken
    <3> HIDE DEF c, at, n
    <3>4. IsCut(mem, b, at, n, c)
      BY <3>1, <3>2, CutIs DEF c
    <3>5. Chain(c) /\ b \in DOMAIN c
      BY <2>4, <3>4 DEF IsCut
    <3>6. IsTaken(c, b, mem')
      BY <3>3, <3>5, TakenIs
    <3>7. /\ Chain(mem') /\ DOMAIN mem' = DOMAIN mem \cup {at} /\ at \notin DOMAIN mem
          /\ mem'[b].used /\ mem'[b].next = at /\ ~mem'[at].used /\ mem'[at].next = n
          /\ \A x \in DOMAIN mem : x # b => mem'[x].used = mem[x].used /\ mem'[x].next = mem[x].next
      BY <2>4, <3>4, <3>5, <3>6 DEF IsCut, IsTaken
    <3>8. NoneJoined(mem')
      <4>1. ASSUME NEW x \in DOMAIN mem', ~mem'[x].used PROVE Used(mem', mem'[x].next)
        <5>1. CASE x = at
          <6>1. n # b /\ n \in DOMAIN mem \cup {MEM_SIZE}
            BY <1>2, <2>4, <3>2 DEF n, Gap, Beside
          <6> QED
            BY <2>5, <3>7, <5>1, <6>1 DEF Used, n
        <5>2. CASE x # at
          <6>1. x \in DOMAIN mem /\ x # b /\ ~mem[x].used /\ mem'[x].next = mem[x].next
            BY <3>7, <4>1, <5>2
          <6>2. Used(mem, mem[x].next) /\ mem[x].next \in DOMAIN mem \cup {MEM_SIZE}
            BY <1>2, <6>1 DEF HeapInv, NoneJoined, Chain, NextRight, Beside
          <6> QED
            BY <3>7, <6>1, <6>2 DEF Used
        <5> QED
          BY <5>1, <5>2
      <4> QED
        BY <4>1 DEF NoneJoined
    <3>9. \A x \in DOMAIN mem' : ~mem'[x].used => lfree <= x
      <4> TAKE x \in DOMAIN mem'
      <4>1. CASE x = at
        BY <1>3, <2>4, <3>1, <4>1
      <4>2. CASE x # at
        BY <1>3, <3>7, <4>2 DEF LowestIs
      <4> QED
        BY <4>1, <4>2
    <3>10. LowestIs(mem', lfree')
      <4>1. CASE b = lfree
        BY <1>3, <2>3, <3>7, <3>9, <4>1, FirstFreeIs DEF Chain
      <4>2. CASE b # lfree
        BY <1>3, <2>3, <3>7, <3>9, <4>2 DEF LowestIs
      <4> QED
        BY <4>1, <4>2
    <3>11. HeldIn(mem', held')
      <4>1. held' = [x \in DOMAIN held \cup {b} |-> IF x = b THEN size ELSE held[x]]
        BY <2>3 DEF With
      <4>2. DOMAIN held' = {x \in DOMAIN mem' : mem'[x].used}
        BY <2>4, <3>7, <4>1 DEF HeapInv, HeldIn
      <4>3. held' \in [DOMAIN held' -> Nat]
        BY <1>1, <4>1 DEF HeapInv, HeldIn
      <4>4. ASSUME NEW x \in DOMAIN held' PROVE held'[x] <= mem'[x].next - x - SIZEOF_STRUCT_MEM
        <5>1. CASE x = b
          BY <1>1, <2>4, <3>7, <4>1, <5>1 DEF at
        <5>2. CASE x # b
          BY <3>7, <4>1, <5>2 DEF HeapInv, HeldIn
        <5> QED
          BY <5>1, <5>2
      <4> QED
        BY <4>2, <4>3, <4>4 DEF HeldIn
    <3> QED
      BY <2>3, <3>7, <3>8, <3>10, <3>11 DEF HeapInv
  <2>7. CASE ~(Size(b) >= a + SIZEOF_STRUCT_MEM + MIN_SIZE)
    <3>1. mem' = [mem EXCEPT ![b].used = TRUE]
      BY <2>3, <2>7 DEF Taken
    <3>2. IsTaken(mem, b, mem')
      BY <1>2, <2>4, <3>1, TakenIs
    <3>3. /\ Chain(mem') /\ DOMAIN mem' = DOMAIN mem /\ mem'[b].used
          /\ \A x \in DOMAIN mem : mem'[x].next = mem[x].next /\ (x # b => mem'[x].used = mem[x].used)
      BY <3>2 DEF IsTaken
    <3>4. NoneJoined(mem')
      <4>1. ASSUME NEW x \in DOMAIN mem', ~mem'[x].used PROVE Used(mem', mem'[x].next)
        <5>1. x \in DOMAIN mem /\ x # b /\ ~mem[x].used /\ mem'[x].next = mem[x].next
          BY <3>3, <4>1
        <5>2. Used(mem, mem[x].next) /\ mem[x].next \in DOMAIN mem \cup {MEM_SIZE}
          BY <1>2, <5>1 DEF HeapInv, NoneJoined, Chain, NextRight, Beside
        <5> QED
          BY <3>3, <5>1, <5>2 DEF Used
      <4> QED
        BY <4>1 DEF NoneJoined
    <3>5. \A x \in DOMAIN mem' : ~mem'[x].used => lfree <= x
      BY <1>3, <3>3 DEF LowestIs
    <3>6. LowestIs(mem', lfree')
      <4>1. CASE b = lfree
        BY <1>3, <2>3, <3>3, <3>5, <4>1, FirstFreeIs DEF Chain
      <4>2. CASE b # lfree
        BY <1>3, <2>3, <3>3, <3>5, <4>2 DEF LowestIs
      <4> QED
        BY <4>1, <4>2
    <3>7. HeldIn(mem', held')
      <4>1. held' = [x \in DOMAIN held \cup {b} |-> IF x = b THEN size ELSE held[x]]
        BY <2>3 DEF With
      <4>2. DOMAIN held' = {x \in DOMAIN mem' : mem'[x].used}
        BY <2>4, <3>3, <4>1 DEF HeapInv, HeldIn
      <4>3. held' \in [DOMAIN held' -> Nat]
        BY <1>1, <4>1 DEF HeapInv, HeldIn
      <4>4. ASSUME NEW x \in DOMAIN held' PROVE held'[x] <= mem'[x].next - x - SIZEOF_STRUCT_MEM
        <5>1. CASE x = b
          BY <1>1, <1>2, <2>4, <3>3, <4>1, <5>1 DEF Size
        <5>2. CASE x # b
          BY <3>3, <4>1, <5>2 DEF HeapInv, HeldIn
        <5> QED
          BY <5>1, <5>2
      <4> QED
        BY <4>2, <4>3, <4>4 DEF HeldIn
    <3> QED
      BY <2>3, <3>3, <3>4, <3>6, <3>7 DEF HeapInv
  <2> QED
    BY <2>6, <2>7
<1> QED
  BY <1>4, <1>5

(* A block in use has been cut: what is behind the cut is free and has no  *)
(* free block behind it.                                                   *)
LEMMA CutKeeps ==
  ASSUME HeapInv, NEW b \in DOMAIN held, NEW m, NEW at \in Nat, NEW end, Gap(m, b, end), IsCut(m, b, at, end, mem'),
         b < at, at < mem[b].next,
         \/ m = mem /\ end = mem[b].next /\ Used(mem, end)
         \/ mem[b].next # MEM_SIZE /\ m = Without(mem, mem[b].next) /\ end = mem[mem[b].next].next /\ ~mem[mem[b].next].used,
         NEW size \in Nat, size <= at - b - SIZEOF_STRUCT_MEM, held' = [held EXCEPT ![b] = size], refused' = 0,
         LowestIs(mem', lfree')
  PROVE  HeapInv'
<1> DEFINE n == mem[b].next
<1>1. /\ mem \in [DOMAIN mem -> Block] /\ Chain(mem) /\ DOMAIN mem \subseteq Nat /\ MEM_SIZE \notin DOMAIN mem
      /\ \A x \in DOMAIN mem : mem[x].next \in Nat /\ x < mem[x].next /\ mem[x].next \in DOMAIN mem \cup {MEM_SIZE}
      /\ b \in DOMAIN mem /\ mem[b].used /\ MEM_SIZE \in Nat
  BY HeapAssumption DEF HeapInv, HeldIn, Chain, BlocksOf, NextRight, Beside
<1>2. /\ Chain(mem') /\ DOMAIN mem' = DOMAIN m \cup {at} /\ at \notin DOMAIN m
      /\ mem'[b].next = at /\ mem'[at].next = end /\ ~mem'[at].used
      /\ \A x \in DOMAIN m : mem'[x].used = m[x].used /\ (x # b => mem'[x].next = m[x].next)
  BY DEF IsCut
<1>3. /\ \A x \in DOMAIN m : x \in DOMAIN mem /\ m[x] = mem[x]
      /\ \A x \in DOMAIN mem : mem[x].used \/ x # n => x \in DOMAIN m
      /\ \A x \in DOMAIN m : ~m[x].used => mem[x].next \in DOMAIN m \cup {MEM_SIZE}
      /\ Used(mem, end) /\ end \in DOMAIN m \cup {MEM_SIZE}
  <2>1. end \in DOMAIN m \cup {MEM_SIZE}
    BY DEF Gap, Beside
  <2>2. CASE m = mem /\ end = mem[b].next /\ Used(mem, end)
    BY <1>1, <2>1, <2>2
  <2>3. CASE n # MEM_SIZE /\ m = Without(mem, n) /\ end = mem[n].next /\ ~mem[n].used
    <3>1. DOMAIN m = DOMAIN mem \ {n} /\ \A x \in DOMAIN m : m[x] = mem[x]
      BY <2>3 DEF Without
    <3>2. n \in DOMAIN mem
      BY <1>1, <2>3
    <3>3. Used(mem, end)
      BY <2>3, <3>2 DEF HeapInv, NoneJoined
    <3>4. \A x \in DOMAIN m : ~m[x].used => mem[x].next # n
      BY <1>1, <3>1, OnePrev
    <3> HIDE DEF n
    <3> QED
      BY <1>1, <2>1, <2>3, <3>1, <3>2, <3>3, <3>4
  <2> QED
    BY <2>2, <2>3
<1> HIDE DEF n
<1>4. NoneJoined(mem')
  <2>1. ASSUME NEW x \in DOMAIN mem', ~mem'[x].used PROVE Used(mem', mem'[x].next)
    <3>1. CASE x = at
      BY <1>2, <1>3, <3>1 DEF Used
    <3>2. CASE x # at
      <4>1. x \in DOMAIN m /\ ~mem[x].used /\ x \in DOMAIN mem /\ x # b /\ mem'[x].next = mem[x].next
        BY <1>1, <1>2, <1>3, <2>1, <3>2
      <4>2. Used(mem, mem[x].next)
        BY <4>1 DEF HeapInv, NoneJoined
      <4>3. mem[x].next \in DOMAIN m \cup {MEM_SIZE}
        BY <1>3, <4>1
      <4> QED
        BY <1>2, <1>3, <4>1, <4>2, <4>3 DEF Used
    <3> QED
      BY <3>1, <3>2
  <2> QED
    BY <2>1 DEF NoneJoined
<1>5. HeldIn(mem', held')
  <2>1. DOMAIN held' = DOMAIN held /\ held'[b] = size /\ \A x \in DOMAIN held : x # b => held'[x] = held[x]
    BY DEF HeapInv, HeldIn
  <2>2. held' \in [DOMAIN held' -> Nat]
    BY DEF HeapInv, HeldIn
  <2>3. DOMAIN held' = {x \in DOMAIN mem' : mem'[x].used}
    <3>1. ASSUME NEW x \in DOMAIN held PROVE x \in DOMAIN mem' /\ mem'[x].used
      BY <1>2, <1>3 DEF HeapInv, HeldIn
    <3>2. ASSUME NEW x \in DOMAIN mem', mem'[x].used PROVE x \in DOMAIN held
      BY <1>2, <1>3, <3>2 DEF HeapInv, HeldIn
    <3> QED
      BY <2>1, <3>1, <3>2
  <2>4. ASSUME NEW x \in DOMAIN held' PROVE held'[x] <= mem'[x].next - x - SIZEOF_STRUCT_MEM
    <3>1. CASE x = b
      BY <1>2, <2>1, <3>1
    <3>2. CASE x # b
      <4>1. x \in DOMAIN m /\ mem'[x].next = mem[x].next
        BY <1>2, <1>3, <2>1, <3>2 DEF HeapInv, HeldIn
      <4> QED
        BY <2>1, <3>2, <4>1 DEF HeapInv, HeldIn
    <3> QED
      BY <3>1, <3>2
  <2> QED
    BY <2>2, <2>3, <2>4 DEF HeldIn
<1> QED
  BY <1>2, <1>4, <1>5 DEF HeapInv

LEMMA TrimStep ==
  ASSUME HeapInv, NEW b \in DOMAIN held, NEW size \in 1 .. held[b] - 1, mem_trim(b, size)
  PROVE  HeapInv'
<1> DEFINE n == mem[b].next
           at == b + SIZEOF_STRUCT_MEM + Asked(size)
<1>1. /\ mem \in [DOMAIN mem -> Block] /\ Chain(mem) /\ DOMAIN mem \subseteq Nat /\ MEM_SIZE \notin DOMAIN mem
      /\ n \in Nat /\ n \in DOMAIN mem \cup {MEM_SIZE} /\ b < n
      /\ b \in DOMAIN mem /\ mem[b].used /\ MEM_SIZE \in Nat /\ SIZEOF_STRUCT_MEM \in Nat \ {0} /\ b \in Nat
  BY HeapAssumption DEF HeapInv, HeldIn, Chain, BlocksOf, NextRight, Beside
<1>2. lfree \in Nat /\ LowestIs(mem, lfree)
  BY <1>1 DEF HeapInv, LowestIs
<1>3. held[b] \in Nat /\ size \in Nat /\ size < held[b] /\ held \in [DOMAIN held -> Nat]
  BY DEF HeapInv, HeldIn
<1>4. Asked(size) \in Nat \ {0} /\ size <= Asked(size)
  BY <1>3, AskedIs
<1>5. Asked(size) < n - b - SIZEOF_STRUCT_MEM /\ held' = [held EXCEPT ![b] = size] /\ refused' = 0
  BY DEF mem_trim, Size
<1>6. at \in Nat /\ b < at /\ at < n /\ size <= at - b - SIZEOF_STRUCT_MEM
  BY <1>1, <1>3, <1>4, <1>5
<1>7. \A x \in DOMAIN mem : x > b => n <= x
  BY <1>1 DEF Chain, NextRight, Beside
<1>8. \/ ~Used(mem, n) /\ mem' = Cut(Without(mem, n), b, at, mem[n].next) /\ lfree' = IF lfree = n THEN at ELSE lfree
      \/ Used(mem, n) /\ mem' = Cut(mem, b, at, n) /\ lfree' = Min({lfree, at})
      \/ UNCHANGED <<mem, lfree>>
  BY DEF mem_trim
<1> HIDE DEF n, at
<1>9. CASE ~Used(mem, n) /\ mem' = Cut(Without(mem, n), b, at, mem[n].next) /\ lfree' = IF lfree = n THEN at ELSE lfree
  <2> DEFINE m == Without(mem, n)
             end == mem[n].next
  <2>1. n # MEM_SIZE /\ ~mem[n].used /\ n \in DOMAIN mem
    BY <1>1, <1>9 DEF Used
  <2>2. Gap(m, b, end) /\ DOMAIN m = DOMAIN mem \ {n} /\ (\A x \in DOMAIN m : m[x] = mem[x])
    <3>1. Gap(m, b, end)
      BY <1>1, <2>1, WithoutIs DEF n
    <3>2. m = [x \in DOMAIN mem \ {n} |-> mem[x]]
      BY DEF Without
    <3> HIDE DEF m
    <3> QED
      BY <3>1, <3>2
  <2>3. end \in Nat /\ n < end
    BY <1>1, <2>1 DEF Chain, BlocksOf, NextRight, Beside, Block
  <2> HIDE DEF m, end
  <2>4. IsCut(m, b, at, end, mem')
    <3>1. at < end /\ mem' = Cut(m, b, at, end)
      BY <1>1, <1>6, <1>9, <2>3 DEF m, end
    <3> QED
      BY <1>6, <2>2, <3>1, CutIs
  <2>5. LowestIs(mem', lfree')
    <3>1. DOMAIN mem' = DOMAIN m \cup {at} /\ ~mem'[at].used /\ \A x \in DOMAIN m : mem'[x].used = mem[x].used
      BY <2>2, <2>4 DEF IsCut
    <3>2. lfree <= n /\ lfree # MEM_SIZE
      <4>1. lfree <= n /\ n < MEM_SIZE
        BY <1>1, <1>2, <2>1 DEF LowestIs, Chain, BlocksOf
      <4> QED
        BY <1>1, <1>2, <4>1
    <3>3. CASE lfree = n
      <4>1. lfree' = at
        BY <1>9, <3>3
      <4>2. \A x \in DOMAIN m : ~mem'[x].used => n <= x
        BY <1>2, <2>2, <3>1, <3>3 DEF LowestIs
      <4>3. DOMAIN m \subseteq Nat
        BY <1>1, <2>2
      <4>4. \A x \in DOMAIN mem' : ~mem'[x].used => at <= x
        BY <1>1, <1>6, <3>1, <4>2, <4>3
      <4> QED
        BY <3>1, <4>1, <4>4 DEF LowestIs
    <3>4. CASE lfree # n
      <4>1. lfree' = lfree /\ lfree \in DOMAIN m /\ ~mem[lfree].used
        BY <1>2, <1>9, <2>2, <3>2, <3>4 DEF LowestIs
      <4>2. lfree < at
        BY <1>1, <1>2, <1>6, <1>7, <2>2, <3>2, <3>4, <4>1
      <4> QED
        BY <1>2, <1>6, <2>2, <3>1, <4>1, <4>2 DEF LowestIs
    <3> QED
      BY <3>3, <3>4
  <2> QED
    BY <1>3, <1>5, <1>6, <2>1, <2>2, <2>4, <2>5, CutKeeps DEF n, m, end
<1>10. CASE Used(mem, n) /\ mem' = Cut(mem, b, at, n) /\ lfree' = Min({lfree, at})
  <2>1. Gap(mem, b, n)
    BY <1>1, GapBehind DEF n
  <2>2. IsCut(mem, b, at, n, mem')
    BY <1>1, <1>6, <1>10, <2>1, CutIs
  <2>3. lfree' \in {lfree, at} /\ lfree' <= lfree /\ lfree' <= at
    <3>1. lfree' \in {lfree, at} /\ \A y \in {lfree, at} : lfree' <= y
      BY <1>2, <1>6, <1>10, LeastIs
    <3> QED
      BY <3>1
  <2>4. LowestIs(mem', lfree')
    <3>1. DOMAIN mem' = DOMAIN mem \cup {at} /\ ~mem'[at].used /\ \A x \in DOMAIN mem : mem'[x].used = mem[x].used
      BY <2>2 DEF IsCut
    <3>2. lfree' # MEM_SIZE => lfree' \in DOMAIN mem' /\ ~mem'[lfree'].used
      BY <1>2, <2>3, <3>1 DEF LowestIs
    <3>3. \A x \in DOMAIN mem' : ~mem'[x].used => lfree' <= x
      BY <1>1, <1>2, <1>6, <2>3, <3>1 DEF LowestIs
    <3> QED
      BY <1>2, <2>3, <3>1, <3>2, <3>3 DEF LowestIs
  <2> QED
    BY <1>3, <1>5, <1>6, <1>10, <2>1, <2>2, <2>4, CutKeeps DEF n
<1>11. CASE UNCHANGED <<mem, lfree>>
  <2>1. HeldIn(mem, held')
    <3>1. DOMAIN held' = DOMAIN held /\ held'[b] = size /\ \A x \in DOMAIN held : x # b => held'[x] = held[x]
      BY <1>3, <1>5
    <3>2. held' \in [DOMAIN held' -> Nat]
      BY <1>3, <1>5
    <3>3. \A x \in DOMAIN held : held[x] <= mem[x].next - x - SIZEOF_STRUCT_MEM
      BY DEF HeapInv, HeldIn
    <3>4. size <= n - b - SIZEOF_STRUCT_MEM
      BY <1>1, <1>3, <1>4, <1>5
    <3>5. \A x \in DOMAIN held : held'[x] <= mem[x].next - x - SIZEOF_STRUCT_MEM
      BY <3>1, <3>3, <3>4 DEF n
    <3> QED
      BY <3>1, <3>2, <3>5 DEF HeapInv, HeldIn
  <2> QED
    BY <1>5, <1>11, <2>1 DEF HeapInv, Blocks
<1> QED
  BY <1>8, <1>9, <1>10, <1>11

LEMMA HeapInitially == HeapInit => HeapInv
<1> SUFFICES ASSUME HeapInit PROVE HeapInv
  OBVIOUS
<1>1. mem = [b \in {0} |-> [next |-> MEM_SIZE, prev |-> 0, used |-> FALSE]] /\ lfree = 0 /\ held = <<>> /\ refused = 0
  BY DEF HeapInit
<1>2. DOMAIN mem = {0} /\ mem[0].next = MEM_SIZE /\ mem[0].prev = 0 /\ mem[0].used = FALSE /\ mem \in [{0} -> Block]
  BY <1>1, HeapAssumption DEF Block
<1>3. MEM_SIZE \in Nat /\ MEM_SIZE > 0
  BY HeapAssumption
<1>4. Chain(mem)
  BY <1>2, <1>3 DEF Chain, BlocksOf, NextRight, Beside
<1>5. HeldIn(mem, held)
  <2>1. DOMAIN held = {} /\ held \in [{} -> Nat]
    BY <1>1
  <2> QED
    BY <1>2, <2>1 DEF HeldIn
<1> QED
  BY <1>1, <1>2, <1>3, <1>4, <1>5 DEF HeapInv, NoneJoined, LowestIs, Used

LEMMA HeapStep == HeapInv /\ [HeapNext]_heapVars => HeapInv'
<1>1. ASSUME HeapInv, UNCHANGED heapVars PROVE HeapInv'
  BY <1>1 DEF HeapInv, heapVars, Blocks, Size
<1> QED
  BY <1>1, MallocStep, FreeStep, TrimStep DEF HeapNext

LEMMA HeapInvSound == HeapInv => HeapSound
<1> SUFFICES ASSUME HeapInv PROVE HeapSound
  OBVIOUS
<1>1. /\ Chain(mem) /\ DOMAIN mem \subseteq Nat /\ MEM_SIZE \notin DOMAIN mem /\ MEM_SIZE \in Nat
  BY HeapAssumption DEF HeapInv, Chain, BlocksOf
<1>2. ASSUME NEW b \in DOMAIN mem PROVE mem[b].next = Min({x \in DOMAIN mem \cup {MEM_SIZE} : x > b})
  <2> DEFINE S == {x \in DOMAIN mem \cup {MEM_SIZE} : x > b}
  <2>1. mem[b].next \in S /\ S \subseteq Nat /\ \A x \in DOMAIN mem : x > b => mem[b].next <= x
    BY <1>1 DEF Chain, NextRight, Beside
  <2>2. mem[b].next <= MEM_SIZE
    BY <1>1, <2>1 DEF HeapInv, Chain, BlocksOf
  <2>3. Min(S) \in S /\ \A y \in S : Min(S) <= y
    BY <2>1, LeastIs
  <2>4. mem[b].next <= Min(S) /\ Min(S) <= mem[b].next /\ Min(S) \in Nat /\ mem[b].next \in Nat
    BY <2>1, <2>2, <2>3
  <2> HIDE DEF S
  <2>5. mem[b].next = Min(S)
    BY <2>4
  <2> QED
    BY <2>5 DEF S
<1>3. lfree = FirstFree(mem, 0)
  <2>1. \A x \in DOMAIN mem : ~mem[x].used => 0 <= x
    BY <1>1
  <2>2. LowestIs(mem, FirstFree(mem, 0)) /\ LowestIs(mem, lfree)
    <3>1. BlocksOf(mem) /\ 0 \in Nat
      BY <1>1 DEF Chain
    <3>2. LowestIs(mem, FirstFree(mem, 0))
      BY <2>1, <3>1, FirstFreeIs
    <3> QED
      BY <3>2 DEF HeapInv
  <2> DEFINE f == FirstFree(mem, 0)
  <2> HIDE DEF f
  <2>3. f \in Nat /\ lfree \in Nat /\ LowestIs(mem, f)
    BY <1>1, <2>2 DEF LowestIs, f
  <2>4. \A x \in DOMAIN mem : x < MEM_SIZE
    BY <1>1 DEF Chain, BlocksOf
  <2>5. f = lfree
    BY <1>1, <2>2, <2>3, <2>4 DEF LowestIs
  <2> QED
    BY <2>5 DEF f
<1>4. \A b \in DOMAIN mem : (b > 0 => PrevRight(mem, b)) /\ (~mem[b].used => Used(mem, mem[b].next))
  BY <1>1 DEF HeapInv, Chain, NoneJoined
<1>5. DOMAIN held = {b \in DOMAIN mem : mem[b].used} /\ \A b \in DOMAIN held : held[b] <= Size(b)
  BY DEF HeapInv, HeldIn, Size
<1>6. \A b \in DOMAIN mem : mem[b].used <=> b \in DOMAIN held
  BY <1>5
<1>7. \A b \in Blocks : refused # 0 /\ ~mem[b].used => Size(b) < refused
  BY DEF HeapInv
<1> QED
  BY <1>2, <1>3, <1>4, <1>5, <1>6, <1>7 DEF HeapSound, Blocks, PrevRight

(* The heap of mem.c stays sound over any sequence of mem_malloc, mem_free *)
(* and mem_trim, for every heap size, header size and minimum block size:  *)
(* the blocks fill the array and know their neighbours, no two free ones   *)
(* are adjacent, what is held is as large as asked for, lfree is the       *)
(* lowest free block, and NULL is returned only when nothing fits.         *)
THEOREM HeapStaysSound == HeapSpec => []HeapSound
<1>1. HeapInv /\ [HeapNext]_heapVars => HeapInv'
  BY HeapStep
<1> QED
  BY <1>1, HeapInitially, HeapInvSound, PTL DEF HeapSpec

-----------------------------------------------------------------------------
Whole == \E k \in Nat : pending = k * FrameUnits

(* While the device works, an encoder that is not in the middle of a       *)
(* transmission has whole frames left, and silence is played only then.    *)
BetweenFrames ==
  device = "ok" => /\ ~tx_in_progress => Whole
                   /\ emit_pc = "hush" => ~tx_in_progress

SilenceCounted ==
  /\ rx_wait_peer_frame = quiet
  /\ recv_pc = "free" => quiet = Thresh

EmitJoined == app_pc \in {"join_recv", "destroy", "gone"} => emit_pc = "exited"

DuplexInv == TypeOK /\ BetweenFrames /\ SilenceCounted /\ HoldOff /\ EmitJoined /\ ThreadsJoined

LEMMA OneMore == ASSUME NEW F \in Nat, NEW k \in Nat PROVE k * F + F = (k + 1) * F
  OBVIOUS

LEMMA WholeHasNoRest == ASSUME NEW F \in Nat \ {0}, NEW k \in Nat PROVE (k * F) % F = 0
  OBVIOUS

LEMMA DuplexInitially == Init => DuplexInv
<1> SUFFICES ASSUME Init PROVE DuplexInv
  OBVIOUS
<1>1. Whole
  <2>1. 0 \in Nat /\ pending = 0 * FrameUnits
    BY DuplexAssumption DEF Init
  <2> QED
    BY <2>1 DEF Whole
<1>2. TypeOK
  <2>1. /\ rx_wait_peer_frame \in 0 .. Thresh /\ quiet \in 0 .. Thresh
        /\ pending \in Nat /\ sent \in 0 .. MaxFrames /\ heard \in Nat
    BY DuplexAssumption, SMT DEF Init
  <2>2. /\ rx_in_progress \in BOOLEAN /\ tx_in_progress \in BOOLEAN /\ contended \in BOOLEAN
        /\ cleared \in BOOLEAN /\ frame_open \in BOOLEAN /\ emit_stop \in BOOLEAN /\ recv_stop \in BOOLEAN
    BY Zenon DEF Init
  <2>3. /\ device \in {"ok", "failed"} /\ app_pc = "running" /\ emit_pc = "top" /\ recv_pc = "top"
    BY Zenon DEF Init
  <2> QED
    BY <2>1, <2>2, <2>3 DEF TypeOK
<1>3. BetweenFrames
  BY <1>1 DEF Init, BetweenFrames
<1>4. SilenceCounted
  BY DEF Init, SilenceCounted
<1>5. HoldOff
  BY DEF Init, HoldOff, Clear
<1>6. EmitJoined /\ ThreadsJoined
  BY DEF Init, EmitJoined, ThreadsJoined
<1> QED
  BY <1>2, <1>3, <1>4, <1>5, <1>6 DEF DuplexInv

LEMMA DuplexStep == DuplexInv /\ [Next]_vars => DuplexInv'
<1> SUFFICES ASSUME DuplexInv, [Next]_vars PROVE DuplexInv'
  OBVIOUS
<1> USE DuplexAssumption DEF DuplexInv, TypeOK, BetweenFrames, SilenceCounted, HoldOff, Clear, EmitJoined, ThreadsJoined,
        arb, codec, control, vars
<1>1. CASE UNCHANGED vars
  BY <1>1 DEF Whole
<1>2. CASE encode_frame
  <2>1. Whole => Whole'
    <3> SUFFICES ASSUME NEW k \in Nat, pending = k * FrameUnits PROVE Whole'
      BY DEF Whole
    <3>1. pending' = (k + 1) * FrameUnits /\ k + 1 \in Nat
      BY <1>2, OneMore DEF encode_frame
    <3> QED
      BY <3>1 DEF Whole
  <2> QED
    BY <1>2, <2>1 DEF encode_frame
<1>3. CASE FrameBegins
  BY <1>3 DEF FrameBegins, Whole
<1>4. CASE FrameEnds
  <2>1. heard' \in Nat
    BY <1>4 DEF FrameEnds
  <2>2. frame_open' = FALSE /\ UNCHANGED <<arb, control, pending, sent, device, emit_pc, recv_pc>>
    BY <1>4 DEF FrameEnds
  <2>3. TypeOK'
    <3>1. frame_open' \in BOOLEAN
      BY <2>2, Zenon
    <3> QED
      BY <2>1, <2>2, <3>1
  <2>4. BetweenFrames'
    BY <2>2 DEF Whole
  <2>5. SilenceCounted' /\ HoldOff' /\ EmitJoined' /\ ThreadsJoined'
    BY <2>2
  <2> QED
    BY <2>3, <2>4, <2>5
<1>5. CASE DeviceFails
  BY <1>5 DEF DeviceFails
<1>6. CASE EmitTest
  <2>1. SilenceCounted' /\ EmitJoined' /\ ThreadsJoined'
    BY <1>6 DEF EmitTest
  <2>4. TypeOK'
    <3>1. cleared' \in BOOLEAN
      BY <1>6, Zenon DEF EmitTest
    <3> QED
      BY <1>6, <3>1 DEF EmitTest
  <2>5. HoldOff'
    <3>1. Clear' <=> Clear
      BY <1>6 DEF EmitTest
    <3>2. ~rx_in_progress' => Clear'
      BY <1>6, <3>1 DEF EmitTest
    <3>3. emit_pc' = "emit" /\ ~tx_in_progress' => cleared'
      BY <1>6 DEF EmitTest, MayEmit
    <3> QED
      BY <3>2, <3>3
  <2>2. (tx_in_progress' <=> tx_in_progress) /\ (Whole' <=> Whole) /\ device' = device
    BY <1>6 DEF EmitTest, Whole
  <2>3. emit_pc' = "hush" => ~tx_in_progress
    BY <1>6 DEF EmitTest, MayEmit
  <2> QED
    BY <2>1, <2>2, <2>3, <2>4, <2>5
<1>7. CASE Emit
  <2>1. pending' = 0 \/ tx_in_progress'
    <3>1. CASE pending < 2
      BY <1>7, <3>1 DEF Emit, BufferUnits
    <3>2. CASE ~(pending < 2)
      <4>1. tx_in_progress' = (2 = 2)
        BY <1>7, <3>2 DEF Emit, BufferUnits
      <4> QED
        BY <4>1
    <3> QED
      BY <3>1, <3>2
  <2>2. pending' = 0 => Whole'
    <3>1. 0 = 0 * FrameUnits
      OBVIOUS
    <3> QED
      BY <3>1 DEF Whole
  <2>3. TypeOK'
    BY <1>7 DEF Emit, BufferUnits
  <2>4. emit_pc' # "hush" /\ SilenceCounted' /\ HoldOff' /\ EmitJoined' /\ ThreadsJoined'
    BY <1>7 DEF Emit
  <2> QED
    BY <2>1, <2>2, <2>3, <2>4
<1>8. CASE EmitFails
  BY ZenonT(60), <1>8 DEF EmitFails
<1>9. CASE Hush
  BY <1>9 DEF Hush, Whole
<1>10. CASE EmitCheck
  BY <1>10 DEF EmitCheck, Whole
<1>11. CASE RecvTop
  BY <1>11 DEF RecvTop, Whole
<1>12. CASE Poll
  <2>1. UNCHANGED <<rx_in_progress, tx_in_progress, cleared, codec, control, emit_pc>> /\ recv_pc = "poll"
    BY <1>12 DEF Poll
  <2>2. CASE frame_open
    <3>1. rx_wait_peer_frame' = 0 /\ recv_pc' = "busy" /\ quiet' = 0 /\ contended' = TRUE
      BY <1>12, <2>2 DEF Poll, Restarted
    <3> QED
      BY <2>1, <3>1 DEF Whole
  <2>3. CASE ~frame_open
    <3>1. /\ recv_pc' \in {"free", "drain"}
          /\ recv_pc' = "free" => rx_wait_peer_frame + 1 = Thresh
      BY <1>12, <2>3 DEF Poll, Reaches
    <3>2. /\ rx_wait_peer_frame' = IF quiet < Thresh THEN quiet + 1 ELSE quiet
          /\ quiet' = IF quiet < Thresh THEN quiet + 1 ELSE quiet
          /\ contended' = contended
      BY <1>12, <2>3 DEF Poll, Counted
    <3>3. /\ quiet' \in 0 .. Thresh /\ rx_wait_peer_frame' = quiet'
          /\ quiet = Thresh => quiet' = Thresh
          /\ quiet + 1 = Thresh => quiet' = Thresh
      BY <3>2
    <3>4. TypeOK'
      BY <2>1, <3>1, <3>2, <3>3
    <3>5. SilenceCounted' /\ HoldOff'
      BY <2>1, <3>1, <3>2, <3>3
    <3>6. BetweenFrames' /\ EmitJoined' /\ ThreadsJoined'
      BY <2>1 DEF Whole
    <3> QED
      BY <3>4, <3>5, <3>6
  <2> QED
    BY <2>2, <2>3
<1>13. CASE StoreRx
  BY <1>13 DEF StoreRx, Whole
<1>14. CASE FetchFrame
  BY <1>14 DEF FetchFrame, Whole
<1>15. CASE Drained
  BY <1>15 DEF Drained, Whole
<1>16. CASE StopEmit
  BY <1>16 DEF StopEmit, Whole
<1>17. CASE StopRecv
  BY <1>17 DEF StopRecv, Whole
<1>18. CASE JoinEmit
  BY <1>18 DEF JoinEmit, Whole
<1>19. CASE JoinRecv
  BY <1>19 DEF JoinRecv, Whole
<1>20. CASE Destroy
  BY <1>20 DEF Destroy, Whole
<1> QED
  BY <1>1, <1>2, <1>3, <1>4, <1>5, <1>6, <1>7, <1>8, <1>9, <1>10, <1>11, <1>12, <1>13, <1>14, <1>15, <1>16,
     <1>17, <1>18, <1>19, <1>20 DEF Next, EmitStep, RecvStep, AppStep

(* For any threshold, frame length and traffic: emit_loop plays silence    *)
(* only between frames; the flag that keeps it silent is down only while   *)
(* the channel is clear, and unless it goes on with a transmission it      *)
(* fills a buffer only when its test found the channel clear; the flags    *)
(* are freed only when both audio threads have exited.                     *)
THEOREM DuplexChannelShared == Spec => []ChannelShared
<1>1. DuplexInv => ChannelShared
  <2> SUFFICES ASSUME DuplexInv PROVE ChannelShared
    OBVIOUS
  <2>1. Whole => pending % FrameUnits = 0
    BY WholeHasNoRest, DuplexAssumption DEF Whole
  <2> QED
    BY <2>1 DEF DuplexInv, ChannelShared, BetweenFrames, UnbrokenFrames, MidFrame
<1> QED
  BY <1>1, DuplexInitially, DuplexStep, PTL DEF Spec

-----------------------------------------------------------------------------
(***************************************************************************)
(* ArpCoherent for any hosts, any table, any calls and any faults.  The    *)
(* handlers work on a host record; what they may do to the packets it      *)
(* keeps is said once (Passes) and shown of each of them.                  *)
(***************************************************************************)

Ages == 0 .. ARP_MAXAGE
EntryRec ==
  [state : {"EMPTY", "PENDING", "STABLE", "REREQUESTING"}, ip : Nat, netif : BOOLEAN,
   hw : Hosts \cup {""}, ctime : Ages, q : Nat]
HostRec ==
  [up : BOOLEAN, link : BOOLEAN, ip : Nat, gw : Nat, auto : {"OFF", "PROBING", "ANNOUNCING", "BOUND"},
   sent : Nat, ttw : Nat, ll : Nat, tried : 0 .. TriedValues - 1, conflict : Nat,
   tbl : [Slots -> EntryRec], hint : Slots, pcbs : SUBSET Nat, out : Seq(Frame)]

(* An address has one entry, a packet is kept once and by an entry that    *)
(* waits, and an entry in use is not yet too old.                          *)
EntryOK(e) == (e.q # 0 => e.state = "PENDING") /\ (e.state # "EMPTY" => e.ctime < ARP_MAXAGE)
Differ(e, f) == (e.state # "EMPTY" /\ f.state # "EMPTY" => e.ip # f.ip) /\ (e.q # 0 => e.q # f.q)
TableOK(t) == \A i \in Slots : EntryOK(t[i]) /\ \A j \in Slots : i # j => Differ(t[i], t[j])

(* What a handler has sent it no longer keeps. *)
Intact(r) == r \in HostRec /\ TableOK(r.tbl) /\ Queues(r) \cap Gone(r) = {}

(* From r to q, no packets turn up but those of S. *)
Seen(r) == Queues(r) \cup (Gone(r) \ {0})
Passes(r, q, S) == Intact(q) /\ Seen(q) \subseteq Seen(r) \cup S

(* Handlers can be put together. *)
LEMMA PassesOn ==
  ASSUME NEW r, NEW q, NEW s, NEW S, NEW T, Passes(r, q, S), Passes(q, s, T)
  PROVE  Passes(r, s, S \cup T)
  BY DEF Passes

(* A handler that does nothing. *)
LEMMA PassesSelf ==
  ASSUME NEW r, Intact(r)
  PROVE  Passes(r, r, {})
  BY DEF Passes

(* What is kept, entry by entry. *)
LEMMA QueuesIs ==
  ASSUME NEW r, NEW x
  PROVE  x \in Queues(r) <=> x # 0 /\ \E i \in Slots : r.tbl[i].q = x
  BY DEF Queues

(* What is put out, frame by frame. *)
LEMMA GoneIs ==
  ASSUME NEW r, NEW x
  PROVE  x \in Gone(r) <=> \E k \in DOMAIN r.out : r.out[k].p = x
  BY DEF Gone

(* The state of a host outside its table changes. *)
LEMMA SameTable ==
  ASSUME NEW r, Intact(r), NEW q \in HostRec, q.tbl = r.tbl, q.out = r.out
  PROVE  Passes(r, q, {})
  BY DEF Passes, Intact, Seen, Queues, Gone

(* A frame is put out. *)
LEMMA OutIs ==
  ASSUME NEW r \in HostRec, NEW f \in Frame
  PROVE  /\ Out(r, f) \in HostRec /\ Out(r, f).tbl = r.tbl
         /\ Out(r, f).ip = r.ip /\ Out(r, f).hint = r.hint
         /\ Out(r, f).out = Append(r.out, f)
         /\ Gone(Out(r, f)) = Gone(r) \cup {f.p}
<1>1. r.out \in Seq(Frame)
  BY DEF HostRec
<1>2. Append(r.out, f) \in Seq(Frame)
  BY <1>1
<1>3. Out(r, f) = [r EXCEPT !.out = Append(r.out, f)]
  BY DEF Out
<1>4. /\ Out(r, f) \in HostRec /\ Out(r, f).tbl = r.tbl
      /\ Out(r, f).ip = r.ip /\ Out(r, f).hint = r.hint
      /\ Out(r, f).out = Append(r.out, f)
  BY <1>2, <1>3 DEF HostRec
<1>5. ASSUME NEW x
      PROVE  x \in Gone(Out(r, f)) <=> x \in Gone(r) \/ x = f.p
  <2>1. DOMAIN Append(r.out, f) = DOMAIN r.out \cup {Len(r.out) + 1}
    BY <1>1
  <2>2. \A k \in DOMAIN r.out : Append(r.out, f)[k] = r.out[k]
    BY <1>1
  <2>3. Append(r.out, f)[Len(r.out) + 1] = f
    BY <1>1
  <2> QED
    BY <1>4, <2>1, <2>2, <2>3 DEF Gone
<1> QED
  BY <1>4, <1>5

(* A packet that is sent is not one that is kept; an ARP frame has none. *)
LEMMA OutPasses ==
  ASSUME NEW r, Intact(r), NEW f \in Frame, f.p \notin Queues(r), NEW S, f.p \in S \cup {0}
  PROVE  Passes(r, Out(r, f), S)
<1>1. /\ Out(r, f) \in HostRec /\ Out(r, f).tbl = r.tbl /\ Gone(Out(r, f)) = Gone(r) \cup {f.p}
  BY OutIs DEF Intact
<1>2. Queues(Out(r, f)) = Queues(r)
  BY <1>1 DEF Queues
<1>3. Queues(r) \cap Gone(r) = {} /\ TableOK(r.tbl)
  BY DEF Intact
<1> QED
  BY <1>1, <1>2, <1>3 DEF Passes, Intact, Seen

(* Entries are dropped, age or lose their packets. *)
Thinner(e, d) ==
  /\ e.q \in {0, d.q} /\ EntryOK(e)
  /\ e.state # "EMPTY" => d.state # "EMPTY" /\ e.ip = d.ip
(* Any number of entries may be thinned at once. *)
LEMMA Thinned ==
  ASSUME NEW r, Intact(r), NEW q \in HostRec, q.out = r.out, \A i \in Slots : Thinner(q.tbl[i], r.tbl[i])
  PROVE  Passes(r, q, {})
<1>1. TableOK(q.tbl)
  BY DEF Intact, TableOK, Thinner, Differ
<1>2. Queues(q) \subseteq Queues(r) /\ Gone(q) = Gone(r)
  BY DEF Queues, Gone, Thinner
<1> QED
  BY <1>1, <1>2 DEF Passes, Intact, Seen

(* One entry changes. *)
Only(r, q, i) == \A j \in Slots : j # i => q.tbl[j] = r.tbl[j]
(* The entry may be new, for an address no other has and a packet nobody has seen. *)
LEMMA Entered ==
  ASSUME NEW r, Intact(r), NEW i \in Slots, NEW q \in HostRec, q.out = r.out, Only(r, q, i),
         EntryOK(q.tbl[i]), NEW S,
         \A j \in Slots : j # i /\ q.tbl[i].state # "EMPTY" /\ r.tbl[j].state # "EMPTY" => r.tbl[j].ip # q.tbl[i].ip,
         q.tbl[i].q \in {0, r.tbl[i].q} \/ (q.tbl[i].q \in S /\ q.tbl[i].q \notin Seen(r))
  PROVE  Passes(r, q, S)
<1> DEFINE x == q.tbl[i].q
<1>1. TableOK(r.tbl) /\ Gone(q) = Gone(r)
  BY DEF Intact, Gone
<1>2. x # 0 => \A j \in Slots : j # i => r.tbl[j].q # x
  BY <1>1 DEF TableOK, Differ, Seen, Queues
<1>3. \A j \in Slots : j # i => Differ(q.tbl[i], q.tbl[j]) /\ Differ(q.tbl[j], q.tbl[i])
  BY <1>2 DEF Differ, Only
<1>4. \A j \in Slots : j # i => EntryOK(q.tbl[j]) /\ \A k \in Slots : k # i /\ k # j => Differ(q.tbl[j], q.tbl[k])
  BY <1>1 DEF TableOK, Only
<1>5. TableOK(q.tbl)
  BY <1>3, <1>4 DEF TableOK
<1>6. Queues(q) \subseteq Queues(r) \cup {x} /\ (x # 0 => x \in Queues(r) \/ (x \in S /\ x \notin Gone(r))) /\ 0 \notin Queues(q)
  BY DEF Queues, Only, Seen
<1> QED
  BY <1>1, <1>5, <1>6 DEF Passes, Intact, Seen

-----------------------------------------------------------------------------
(* The entries of the table *)

(* The sizes the code is built with. *)
LEMMA LinkSizes ==
  /\ Slots \subseteq Nat /\ 0 \in Slots /\ ARP_TABLE_SIZE \in Nat /\ (\A i \in Slots : i < ARP_TABLE_SIZE)
  /\ ARP_MAXAGE \in Nat /\ 0 < ARP_MAXAGE /\ LinkLocals \in Nat /\ 0 < LinkLocals
  /\ TriedValues \in Nat /\ 0 < TriedValues
  BY LinkAssumption DEF Slots

(* Ages are natural numbers. *)
LEMMA AgesIs == 0 \in Ages /\ \A x \in Ages : x \in Nat /\ x <= ARP_MAXAGE
  BY LinkSizes DEF Ages

(* There is an oldest one, and of several as old a last one. *)
LEMMA OldestIs ==
  ASSUME NEW t \in [Slots -> EntryRec], NEW S, S \subseteq Slots, S # {}
  PROVE  Oldest(t, S) \in S
<1>1. Slots \subseteq Nat /\ ARP_TABLE_SIZE \in Nat /\ ARP_MAXAGE \in Nat /\ \A i \in Slots : i < ARP_TABLE_SIZE
  BY LinkSizes
<1>2. ASSUME NEW i \in Slots
      PROVE  t[i].ctime \in Nat /\ t[i].ctime <= ARP_MAXAGE
  <2>1. t[i] \in EntryRec
    OBVIOUS
  <2> QED
    BY <2>1, AgesIs DEF EntryRec
<1> DEFINE left(i) == ARP_MAXAGE - t[i].ctime
           L == {left(i) : i \in S}
<1>3. L \subseteq Nat /\ L # {}
  <2>1. \A i \in S : left(i) \in Nat
    BY <1>1, <1>2
  <2> QED
    BY <2>1
<1>4. PICK a \in S : \A j \in S : left(a) <= left(j)
  <2> HIDE DEF L
  <2>1. PICK x \in L : \A y \in L : x <= y
    BY <1>3, NatLeast
  <2> QED
    BY <2>1 DEF L
<1> DEFINE M == {ARP_TABLE_SIZE - j : j \in {k \in S : t[k].ctime = t[a].ctime}}
<1>5. M \subseteq Nat /\ M # {}
  <2>1. \A j \in S : ARP_TABLE_SIZE - j \in Nat
    BY <1>1
  <2> QED
    BY <2>1
<1>6. PICK b \in S : t[b].ctime = t[a].ctime /\ \A j \in S : t[j].ctime = t[a].ctime => ARP_TABLE_SIZE - b <= ARP_TABLE_SIZE - j
  <2> HIDE DEF M
  <2>1. PICK x \in M : \A y \in M : x <= y
    BY <1>5, NatLeast
  <2> QED
    BY <2>1 DEF M
<1>7. \A j \in S : t[j].ctime < t[b].ctime \/ (t[j].ctime = t[b].ctime /\ j <= b)
  <2> TAKE j \in S
  <2>1. t[j].ctime <= t[b].ctime
    BY <1>1, <1>2, <1>4, <1>6
  <2>2. CASE t[j].ctime = t[b].ctime
    BY <1>1, <1>6, <2>2
  <2> QED
    BY <1>2, <2>1, <2>2
<1> QED
  BY <1>6, <1>7 DEF Oldest

(* Whoever asks for the slot of an address gets the one that is in use for *)
(* it, if there is one.                                                    *)
ItsSlot(t, i, ip) == \A j \in Slots : t[j].state # "EMPTY" /\ t[j].ip = ip => j = i
(* With TRY_HARD there always is one. *)
LEMMA SlotIs ==
  ASSUME NEW t \in [Slots -> EntryRec], TableOK(t), NEW ip, NEW flag
  PROVE  /\ Slot(t, ip, flag) \in Slots \cup {-1}
         /\ ~(Slot(t, ip, flag) < 0) => Slot(t, ip, flag) \in Slots /\ ItsSlot(t, Slot(t, ip, flag), ip)
         /\ flag = "TRY_HARD" => Slot(t, ip, flag) \in Slots
<1> DEFINE U == {i \in Slots : t[i].state # "EMPTY" /\ t[i].ip = ip}
           E == {i \in Slots : t[i].state = "EMPTY"}
           R == Recyclable(t)
<1>1. Slots \subseteq Nat /\ 0 \in Slots
  BY LinkSizes
<1>2. U # {} => Min(U) \in U
  BY <1>1, LeastIs
<1>3. E # {} => Min(E) \in E
  BY <1>1, LeastIs
<1>4. R \subseteq Slots /\ R # {}
  BY <1>1 DEF Recyclable
<1>5. Oldest(t, R) \in Slots
  BY <1>4, OldestIs
<1>6. \A i \in U : ItsSlot(t, i, ip)
  BY DEF ItsSlot, TableOK, Differ
<1>7. CASE U # {}
  <2>1. Slot(t, ip, flag) = Min(U)
    BY <1>7 DEF Slot
  <2> QED
    BY <1>2, <1>6, <1>7, <2>1
<1>8. CASE U = {}
  <2>1. \A i \in Slots : ItsSlot(t, i, ip)
    BY <1>8 DEF ItsSlot
  <2>2. Slot(t, ip, flag) = IF flag = "FIND_ONLY" THEN -1 ELSE IF E # {} THEN Min(E) ELSE
                            IF flag = "TRY_HARD" THEN Oldest(t, R) ELSE -1
    BY <1>8 DEF Slot
  <2>3. Slot(t, ip, flag) \in Slots \/ (Slot(t, ip, flag) = -1 /\ flag # "TRY_HARD")
    BY <1>3, <1>5, <2>2
  <2>4. -1 < 0
    OBVIOUS
  <2> QED
    BY <2>1, <2>3, <2>4
<1> QED
  BY <1>7, <1>8

(* One field of one entry *)
LEMMA FreeEntryIs ==
  ASSUME NEW r \in HostRec, NEW i \in Slots
  PROVE  LET q == etharp_free_entry(r, i) IN
         /\ q \in HostRec /\ q.out = r.out /\ q.hint = r.hint /\ q.ip = r.ip /\ Only(r, q, i)
         /\ q.tbl[i].q = 0 /\ q.tbl[i].state = "EMPTY"
<1> DEFINE q == etharp_free_entry(r, i)
<1>1. r.tbl \in [Slots -> EntryRec] /\ r.tbl[i] \in EntryRec
  BY DEF HostRec
<1> DEFINE e == [r.tbl[i] EXCEPT !.q = 0, !.state = "EMPTY"]
<1>2. e \in EntryRec
  BY <1>1 DEF EntryRec
<1>3. q = [r EXCEPT !.tbl = [r.tbl EXCEPT ![i] = e]]
  BY <1>1 DEF etharp_free_entry, HostRec, EntryRec
<1> HIDE DEF e, q
<1>4. [r.tbl EXCEPT ![i] = e] \in [Slots -> EntryRec]
  BY <1>1, <1>2
<1>5. q \in HostRec /\ q.out = r.out /\ q.hint = r.hint /\ q.ip = r.ip /\ q.tbl = [r.tbl EXCEPT ![i] = e]
  BY <1>3, <1>4 DEF HostRec
<1>6. e.q = 0 /\ e.state = "EMPTY"
  BY <1>1 DEF e, EntryRec
<1>7. Only(r, q, i) /\ q.tbl[i].q = 0 /\ q.tbl[i].state = "EMPTY"
  BY <1>1, <1>5, <1>6 DEF Only
<1> QED
  BY <1>5, <1>7 DEF q

(* etharp_find_entry leaves the slot for its address. *)
Ready(r, q, i, ip) ==
  /\ Passes(r, q, {}) /\ q.out = r.out /\ q.hint = r.hint /\ q.ip = r.ip
  /\ q.tbl[i].ip = ip /\ q.tbl[i].ctime < ARP_MAXAGE /\ ItsSlot(q.tbl, i, ip)
(* etharp_find_entry: what the slot held for another address is freed. *)
LEMMA FoundIs ==
  ASSUME NEW r, Intact(r), NEW ip \in Nat, NEW i \in Slots, ItsSlot(r.tbl, i, ip)
  PROVE  Ready(r, Found(r, i, ip), i, ip)
<1> DEFINE s == etharp_free_entry(r, i)
           e == [s.tbl[i] EXCEPT !.ip = ip, !.ctime = 0]
           q == Found(r, i, ip)
<1>1. r \in HostRec /\ TableOK(r.tbl) /\ r.tbl[i] \in EntryRec
  BY DEF Intact, HostRec
<1>2. CASE r.tbl[i].state # "EMPTY" /\ r.tbl[i].ip = ip
  <2>1. q = r
    BY <1>2 DEF Found
  <2>2. r.tbl[i].ctime < ARP_MAXAGE
    BY <1>1, <1>2 DEF TableOK, EntryOK
  <2> QED
    BY <1>2, <2>1, <2>2, PassesSelf DEF Ready
<1>3. CASE ~(r.tbl[i].state # "EMPTY" /\ r.tbl[i].ip = ip)
  <2>1. /\ s \in HostRec /\ s.out = r.out /\ s.hint = r.hint /\ s.ip = r.ip /\ Only(r, s, i)
        /\ s.tbl[i].q = 0 /\ s.tbl[i].state = "EMPTY"
    BY <1>1, FreeEntryIs
  <2>2. q = [s EXCEPT !.tbl[i].ip = ip, !.tbl[i].ctime = 0]
    BY <1>3 DEF Found
  <2> HIDE DEF s, q
  <2>3. s.tbl \in [Slots -> EntryRec] /\ s.tbl[i] \in EntryRec
    BY <2>1 DEF HostRec
  <2>4. q = [s EXCEPT !.tbl = [s.tbl EXCEPT ![i] = e]]
    BY <2>1, <2>2, <2>3 DEF HostRec, EntryRec
  <2>5. e \in EntryRec /\ e.ip = ip /\ e.ctime = 0 /\ e.q = 0 /\ e.state = "EMPTY"
    BY <2>1, <2>3, AgesIs DEF EntryRec
  <2> HIDE DEF e
  <2>6. [s.tbl EXCEPT ![i] = e] \in [Slots -> EntryRec]
    BY <2>3, <2>5
  <2>7. q \in HostRec /\ q.out = s.out /\ q.hint = s.hint /\ q.ip = s.ip /\ q.tbl = [s.tbl EXCEPT ![i] = e]
    BY <2>1, <2>4, <2>6 DEF HostRec
  <2>8. q.tbl[i] = e /\ Only(r, q, i)
    BY <2>1, <2>3, <2>7 DEF Only
  <2>9. Passes(r, q, {})
    BY <2>1, <2>5, <2>7, <2>8, Entered DEF EntryOK
  <2>10. ItsSlot(q.tbl, i, ip)
    BY <2>8 DEF ItsSlot, Only
  <2> QED
    BY <2>1, <2>5, <2>7, <2>8, <2>9, <2>10, LinkSizes DEF Ready, q
<1> QED
  BY <1>2, <1>3

(* An entry is replaced. *)
Put(r, i, e) == [r EXCEPT !.tbl = [r.tbl EXCEPT ![i] = e]]
(* It is the only one that changes. *)
LEMMA PutIs ==
  ASSUME NEW r \in HostRec, NEW i \in Slots, NEW e \in EntryRec
  PROVE  /\ Put(r, i, e) \in HostRec /\ Put(r, i, e).out = r.out /\ Put(r, i, e).hint = r.hint
         /\ Put(r, i, e).ip = r.ip /\ Put(r, i, e).tbl[i] = e /\ Only(r, Put(r, i, e), i)
<1>1. r.tbl \in [Slots -> EntryRec]
  BY DEF HostRec
<1>2. [r.tbl EXCEPT ![i] = e] \in [Slots -> EntryRec]
  BY <1>1
<1>3. /\ Put(r, i, e) \in HostRec /\ Put(r, i, e).out = r.out /\ Put(r, i, e).hint = r.hint
      /\ Put(r, i, e).ip = r.ip /\ Put(r, i, e).tbl = [r.tbl EXCEPT ![i] = e]
  BY <1>2 DEF Put, HostRec
<1> QED
  BY <1>1, <1>3 DEF Only

(* A frame with a packet. *)
LEMMA IpIs ==
  ASSUME NEW h \in Hosts, NEW to \in Hosts \cup {"", "all"}, NEW p \in Nat
  PROVE  Ip(h, to, p) \in Frame /\ Ip(h, to, p).p = p
  BY DEF Ip, Frame, ANY

(* A frame without one. *)
LEMMA ArpIs ==
  ASSUME NEW op \in {"request", "reply"}, NEW h \in Hosts, NEW sip \in Nat, NEW dip \in Nat
  PROVE  Arp(op, h, sip, dip) \in Frame /\ Arp(op, h, sip, dip).p = 0
  BY DEF Arp, Frame

(* An ARP frame goes out, or there was no memory for it. *)
LEMMA RawPasses ==
  ASSUME NEW r, Intact(r), NEW h \in Hosts, NEW sip \in Nat, NEW dip \in Nat,
         NEW op \in {"request", "reply"}, NEW ok
  PROVE  LET q == etharp_raw(r, h, op, sip, dip, ok) IN
         Passes(r, q, {}) /\ q.tbl = r.tbl /\ q.hint = r.hint /\ q.ip = r.ip /\ Seen(q) = Seen(r)
<1> DEFINE f == Arp(op, h, sip, dip)
<1>1. f \in Frame /\ f.p = 0
  BY ArpIs
<1>2. 0 \notin Queues(r) /\ r \in HostRec
  BY DEF Queues, Intact
<1> HIDE DEF f
<1>3. Passes(r, Out(r, f), {}) /\ Out(r, f).tbl = r.tbl /\ Out(r, f).hint = r.hint /\ Out(r, f).ip = r.ip
  BY <1>1, <1>2, OutPasses, OutIs
<1>4. Seen(Out(r, f)) = Seen(r)
  <2>1. Gone(Out(r, f)) = Gone(r) \cup {0}
    BY <1>1, <1>2, OutIs
  <2> QED
    BY <1>3, <2>1 DEF Seen, Queues
<1>5. Passes(r, r, {})
  BY PassesSelf
<1> QED
  BY <1>3, <1>4, <1>5 DEF etharp_raw, f

(* etharp_request. *)
LEMMA RequestPasses ==
  ASSUME NEW r, Intact(r), NEW h \in Hosts, NEW ip \in Nat, NEW ok
  PROVE  LET q == etharp_request(r, h, ip, ok) IN
         Passes(r, q, {}) /\ q.tbl = r.tbl /\ q.hint = r.hint /\ q.ip = r.ip
<1>1. r.ip \in Nat
  BY DEF Intact, HostRec
<1> QED
  BY <1>1, RawPasses DEF etharp_request

(* The answer is noted and the packet that waited for it sent. *)
LEMMA LearnedPasses ==
  ASSUME NEW r, Intact(r), NEW h \in Hosts, NEW hw \in Hosts, NEW i \in Slots, ItsSlot(r.tbl, i, r.tbl[i].ip)
  PROVE  LET q == Learned(r, h, i, hw) IN Passes(r, q, {}) /\ q.ip = r.ip
<1> DEFINE e == [r.tbl[i] EXCEPT !.state = "STABLE", !.netif = TRUE, !.hw = hw, !.ctime = 0, !.q = 0]
           s == Put(r, i, e)
           x == r.tbl[i].q
           f == Ip(h, hw, x)
<1>1. r \in HostRec /\ r.tbl \in [Slots -> EntryRec] /\ r.tbl[i] \in EntryRec /\ TableOK(r.tbl)
  BY DEF Intact, HostRec
<1>2. e \in EntryRec /\ e.state = "STABLE" /\ e.ip = r.tbl[i].ip /\ e.q = 0 /\ e.ctime = 0
  BY <1>1, AgesIs DEF EntryRec
<1>3. x \in Nat
  BY <1>1 DEF EntryRec
<1>4. Learned(r, h, i, hw) = IF x = 0 THEN s ELSE Out(s, f)
  <2> DEFINE o == IF x = 0 THEN r.out ELSE Append(r.out, f)
             t == [r.tbl EXCEPT ![i] = e]
  <2>1. Learned(r, h, i, hw) = [r EXCEPT !.tbl[i] = e, !.out = o]
    BY DEF Learned
  <2> HIDE DEF o, e
  <2>2. Learned(r, h, i, hw) = [r EXCEPT !.tbl = t, !.out = o]
    BY <1>1, <2>1 DEF HostRec, EntryRec
  <2> HIDE DEF t
  <2>3. s = [r EXCEPT !.tbl = t] /\ s.out = r.out
    BY <1>1 DEF Put, t, HostRec
  <2> HIDE DEF s, f
  <2>4. CASE x = 0
    BY <1>1, <2>2, <2>3, <2>4 DEF o, HostRec
  <2>5. CASE x # 0
    <3>1. Out(s, f) = [s EXCEPT !.out = Append(r.out, f)] /\ o = Append(r.out, f)
      BY <2>3, <2>5 DEF Out, o
    <3> QED
      BY <1>1, <2>2, <2>3, <2>5, <3>1 DEF HostRec
  <2> QED
    BY <2>4, <2>5
<1> HIDE DEF e
<1>5. s \in HostRec /\ s.out = r.out /\ s.ip = r.ip /\ s.tbl[i] = e /\ Only(r, s, i)
  BY <1>1, <1>2, PutIs
<1> HIDE DEF s
<1>6. EntryOK(e)
  BY <1>2, LinkSizes DEF EntryOK
<1>7. Passes(r, s, {})
  BY <1>2, <1>5, <1>6, Entered DEF ItsSlot
<1>8. CASE x = 0
  BY <1>4, <1>5, <1>7, <1>8
<1>9. CASE x # 0
  <2>1. x \in Queues(r)
    BY <1>9 DEF Queues
  <2>2. x \notin Queues(s)
    <3>1. \A j \in Slots : j # i => r.tbl[j].q # x
      BY <1>1, <1>9 DEF TableOK, Differ
    <3> QED
      BY <1>2, <1>5, <1>9, <3>1 DEF Queues, Only
  <2>3. f \in Frame /\ f.p = x
    BY <1>3, IpIs
  <2> HIDE DEF f
  <2>4. Intact(s)
    BY <1>7 DEF Passes
  <2>5. Passes(s, Out(s, f), {x}) /\ Out(s, f).ip = s.ip
    BY <1>5, <2>2, <2>3, <2>4, OutPasses, OutIs
  <2>6. Passes(r, Out(s, f), {} \cup {x})
    BY <1>7, <2>5, PassesOn
  <2>7. Passes(r, Out(s, f), {})
    BY <2>1, <2>6 DEF Passes, Seen
  <2> QED
    BY <1>4, <1>5, <1>9, <2>5, <2>7 DEF f
<1> QED
  BY <1>8, <1>9

(* etharp_update_arp_entry. *)
LEMMA UpdatePasses ==
  ASSUME NEW r, Intact(r), NEW h \in Hosts, NEW ip \in Nat, NEW hw \in Hosts, NEW flag
  PROVE  LET q == etharp_update_arp_entry(r, h, ip, hw, flag) IN Passes(r, q, {}) /\ q.ip = r.ip
<1> DEFINE i == Slot(r.tbl, ip, flag)
           s == Found(r, i, ip)
<1>1. CASE NotOneHost(ip) \/ i < 0
  BY <1>1, PassesSelf DEF etharp_update_arp_entry
<1>2. CASE ~(NotOneHost(ip) \/ i < 0)
  <2>1. r.tbl \in [Slots -> EntryRec] /\ TableOK(r.tbl)
    BY DEF Intact, HostRec
  <2>2. i \in Slots /\ ItsSlot(r.tbl, i, ip)
    BY <1>2, <2>1, SlotIs
  <2>3. etharp_update_arp_entry(r, h, ip, hw, flag) = Learned(s, h, i, hw)
    BY <1>2 DEF etharp_update_arp_entry
  <2> HIDE DEF i
  <2>4. Ready(r, s, i, ip)
    BY <2>2, FoundIs
  <2> HIDE DEF s
  <2>5. Intact(s) /\ ItsSlot(s.tbl, i, s.tbl[i].ip) /\ s.ip = r.ip /\ Passes(r, s, {})
    BY <2>4 DEF Ready, Passes
  <2>6. Passes(s, Learned(s, h, i, hw), {}) /\ Learned(s, h, i, hw).ip = s.ip
    BY <2>2, <2>5, LearnedPasses
  <2>7. Passes(r, Learned(s, h, i, hw), {} \cup {})
    BY <2>5, <2>6, PassesOn
  <2>8. {} \cup {} = {}
    OBVIOUS
  <2> QED
    BY <2>3, <2>5, <2>6, <2>7, <2>8
<1> QED
  BY <1>1, <1>2

-----------------------------------------------------------------------------
(* A packet is sent or kept *)

(* The packet p has not been seen by r. *)
New(r, p) == p \in Nat /\ p # 0 /\ p \notin Seen(r)

(* It is still new after a handler that was not given it. *)
LEMMA StillNew ==
  ASSUME NEW r, NEW q, NEW p, New(r, p), Passes(r, q, {})
  PROVE  New(q, p)
  BY DEF New, Passes

(* The packet may be given to the second of two handlers. *)
LEMMA ThenPasses ==
  ASSUME NEW r, NEW q, NEW s, NEW S, Passes(r, q, {}), Passes(q, s, S)
  PROVE  Passes(r, s, S)
  BY DEF Passes

(* It goes out at once. *)
LEMMA SendPasses ==
  ASSUME NEW r, Intact(r), NEW h \in Hosts, NEW to \in Hosts \cup {"", "all"}, NEW p, New(r, p)
  PROVE  Passes(r, Out(r, Ip(h, to, p)), {p})
<1> DEFINE f == Ip(h, to, p)
<1>1. p \in Nat /\ p \notin Queues(r)
  BY DEF New, Seen
<1>2. f \in Frame /\ f.p = p
  BY <1>1, IpIs
<1> HIDE DEF f
<1>3. Passes(r, Out(r, f), {p})
  BY <1>1, <1>2, OutPasses
<1> QED
  BY <1>3 DEF f

(* The state of an entry that stays in use, or is taken into use. *)
LEMMA StatePasses ==
  ASSUME NEW r, Intact(r), NEW i \in Slots, NEW st \in {"PENDING", "STABLE", "REREQUESTING"},
         ItsSlot(r.tbl, i, r.tbl[i].ip), r.tbl[i].ctime < ARP_MAXAGE, r.tbl[i].q # 0 => st = "PENDING"
  PROVE  LET q == [r EXCEPT !.tbl[i].state = st] IN
         /\ Passes(r, q, {}) /\ q.out = r.out /\ q.hint = r.hint /\ q.ip = r.ip /\ Only(r, q, i)
         /\ q.tbl[i] \in EntryRec /\ q.tbl[i].state = st /\ q.tbl[i].ip = r.tbl[i].ip
         /\ q.tbl[i].ctime = r.tbl[i].ctime /\ q.tbl[i].q = r.tbl[i].q /\ q.tbl[i].hw = r.tbl[i].hw
<1> DEFINE e == [r.tbl[i] EXCEPT !.state = st]
           q == [r EXCEPT !.tbl[i].state = st]
<1>1. r \in HostRec /\ r.tbl \in [Slots -> EntryRec] /\ r.tbl[i] \in EntryRec
  BY DEF Intact, HostRec
<1>2. /\ e \in EntryRec /\ e.state = st /\ e.ip = r.tbl[i].ip /\ e.q = r.tbl[i].q
      /\ e.ctime = r.tbl[i].ctime /\ e.hw = r.tbl[i].hw
  BY <1>1 DEF EntryRec
<1>3. q = Put(r, i, e)
  BY <1>1 DEF Put, HostRec, EntryRec
<1> HIDE DEF e, q
<1>4. q \in HostRec /\ q.out = r.out /\ q.hint = r.hint /\ q.ip = r.ip /\ q.tbl[i] = e /\ Only(r, q, i)
  BY <1>1, <1>2, <1>3, PutIs
<1>5. EntryOK(e)
  BY <1>2 DEF EntryOK
<1>6. Passes(r, q, {})
  BY <1>2, <1>4, <1>5, Entered DEF ItsSlot
<1> QED
  BY <1>2, <1>4, <1>6 DEF q

(* etharp_output_to_arp_index: also when the entry is asked for again. *)
LEMMA OutputToPasses ==
  ASSUME NEW r, Intact(r), NEW h \in Hosts, NEW p, New(r, p), NEW i \in Slots, IsStable(r.tbl[i]), NEW ok
  PROVE  Passes(r, etharp_output_to_arp_index(r, h, p, i, ok), {p})
<1> DEFINE s == etharp_request(r, h, r.tbl[i].ip, ok)
           st == IF ok THEN "REREQUESTING" ELSE s.tbl[i].state
           u == [s EXCEPT !.tbl[i].state = st]
           hw == r.tbl[i].hw
<1>1. r \in HostRec /\ r.tbl \in [Slots -> EntryRec] /\ r.tbl[i] \in EntryRec /\ TableOK(r.tbl)
  BY DEF Intact, HostRec
<1>2. hw \in Hosts \cup {"", "all"} /\ r.tbl[i].ip \in Nat /\ r.ip \in Nat
  BY <1>1 DEF EntryRec, HostRec
<1>3. Passes(r, Out(r, Ip(h, hw, p)), {p})
  BY <1>2, SendPasses
<1>4. CASE r.tbl[i].state = "STABLE" /\ r.tbl[i].ctime >= ARP_AGE_REREQUEST_USED
  <2>1. Passes(r, s, {}) /\ s.tbl = r.tbl
    BY <1>2, RequestPasses
  <2>2. etharp_output_to_arp_index(r, h, p, i, ok) = Out(u, Ip(h, hw, p))
    BY <1>4 DEF etharp_output_to_arp_index
  <2>3. st \in {"PENDING", "STABLE", "REREQUESTING"}
    BY <1>4, <2>1
  <2>4. Intact(s)
    BY <2>1 DEF Passes
  <2>5. ItsSlot(s.tbl, i, s.tbl[i].ip) /\ s.tbl[i].ctime < ARP_MAXAGE /\ s.tbl[i].q = 0
    BY <1>1, <1>4, <2>1 DEF ItsSlot, TableOK, Differ, EntryOK
  <2> HIDE DEF s, st
  <2>6. Passes(s, u, {})
    BY <2>3, <2>4, <2>5, StatePasses
  <2> HIDE DEF u
  <2>7. Passes(r, u, {})
    BY <2>1, <2>6, ThenPasses
  <2>8. Intact(u) /\ New(u, p)
    BY <2>7, StillNew DEF Passes
  <2>9. Passes(u, Out(u, Ip(h, hw, p)), {p})
    BY <1>2, <2>8, SendPasses
  <2> QED
    BY <2>2, <2>7, <2>9, ThenPasses
<1>5. CASE ~(r.tbl[i].state = "STABLE" /\ r.tbl[i].ctime >= ARP_AGE_REREQUEST_USED)
  BY <1>3, <1>5 DEF etharp_output_to_arp_index
<1> QED
  BY <1>4, <1>5

(* The new packet takes the place of one that was kept. *)
LEMMA KeptPasses ==
  ASSUME NEW r, Intact(r), NEW p, New(r, p), NEW i \in Slots, r.tbl[i].state = "PENDING", NEW ok
  PROVE  Passes(r, Kept(r, i, p, ok), {p})
<1> DEFINE e == [r.tbl[i] EXCEPT !.q = p]
           q == Put(r, i, e)
<1>1. r \in HostRec /\ r.tbl \in [Slots -> EntryRec] /\ r.tbl[i] \in EntryRec /\ TableOK(r.tbl) /\ p \in Nat
  BY DEF Intact, HostRec, New
<1>2. e \in EntryRec /\ e.state = "PENDING" /\ e.ip = r.tbl[i].ip /\ e.q = p /\ e.ctime = r.tbl[i].ctime
  BY <1>1 DEF EntryRec
<1>3. Kept(r, i, p, ok) = IF ok THEN q ELSE r
  BY <1>1 DEF Kept, Put, HostRec, EntryRec
<1> HIDE DEF e
<1>4. q \in HostRec /\ q.out = r.out /\ q.tbl[i] = e /\ Only(r, q, i)
  BY <1>1, <1>2, PutIs
<1> HIDE DEF q
<1>5. EntryOK(e) /\ \A j \in Slots : j # i /\ r.tbl[j].state # "EMPTY" => r.tbl[j].ip # e.ip
  BY <1>1, <1>2 DEF EntryOK, TableOK, Differ
<1>6. Passes(r, q, {p})
  BY <1>2, <1>4, <1>5, Entered DEF New
<1>7. Passes(r, r, {p})
  BY DEF Passes
<1> QED
  BY <1>3, <1>6, <1>7

(* The packet goes out, or waits in the slot made ready for it. *)
LEMMA QueriedPasses ==
  ASSUME NEW r, Intact(r), NEW h \in Hosts, NEW p, New(r, p), NEW i \in Slots, NEW ip \in Nat, NEW ok,
         ItsSlot(r.tbl, i, r.tbl[i].ip), r.tbl[i].ctime < ARP_MAXAGE
  PROVE  Passes(r, Queried(r, h, i, ip, p, ok), {p})
<1> DEFINE s == [r EXCEPT !.hint = i]
           u == [r EXCEPT !.tbl[i].state = "PENDING"]
           v == etharp_request(u, h, ip, ok)
           hw == r.tbl[i].hw
<1>1. r \in HostRec /\ r.tbl \in [Slots -> EntryRec] /\ r.tbl[i] \in EntryRec /\ TableOK(r.tbl)
  BY DEF Intact, HostRec
<1>2. hw \in Hosts \cup {"", "all"}
  BY <1>1 DEF EntryRec
<1>3. CASE IsStable(r.tbl[i])
  <2>1. Queried(r, h, i, ip, p, ok) = Out(s, Ip(h, hw, p))
    BY <1>3 DEF Queried
  <2>2. s \in HostRec /\ s.tbl = r.tbl /\ s.out = r.out
    BY <1>1 DEF HostRec
  <2> HIDE DEF s
  <2>3. Passes(r, s, {})
    BY <2>2, SameTable
  <2>4. Intact(s) /\ New(s, p)
    BY <2>3, StillNew DEF Passes
  <2>5. Passes(s, Out(s, Ip(h, hw, p)), {p})
    BY <1>2, <2>4, SendPasses
  <2> QED
    BY <2>1, <2>3, <2>5, ThenPasses
<1>4. CASE ~IsStable(r.tbl[i])
  <2>1. Queried(r, h, i, ip, p, ok) = Kept(v, i, p, ok)
    BY <1>4 DEF Queried
  <2>2. Passes(r, u, {}) /\ u.tbl[i].state = "PENDING"
    BY StatePasses
  <2> HIDE DEF u
  <2>3. Intact(u) /\ u.ip \in Nat
    BY <2>2 DEF Passes, Intact, HostRec
  <2>4. Passes(u, v, {}) /\ v.tbl = u.tbl
    BY <2>3, RequestPasses
  <2> HIDE DEF v
  <2>5. Passes(r, v, {})
    BY <2>2, <2>4, ThenPasses
  <2>6. Intact(v) /\ New(v, p) /\ v.tbl[i].state = "PENDING"
    BY <2>2, <2>4, <2>5, StillNew DEF Passes
  <2>7. Passes(v, Kept(v, i, p, ok), {p})
    BY <2>6, KeptPasses
  <2> QED
    BY <2>1, <2>5, <2>7, ThenPasses
<1> QED
  BY <1>3, <1>4

(* etharp_query. *)
LEMMA QueryPasses ==
  ASSUME NEW r, Intact(r), NEW h \in Hosts, NEW p, New(r, p), NEW ip \in Nat, NEW ok
  PROVE  Passes(r, etharp_query(r, h, ip, p, ok), {p})
<1> DEFINE i == Slot(r.tbl, ip, "TRY_HARD")
           s == Found(r, i, ip)
<1>1. CASE NotOneHost(ip)
  BY <1>1 DEF etharp_query, Passes
<1>2. CASE ~NotOneHost(ip)
  <2>1. r.tbl \in [Slots -> EntryRec] /\ TableOK(r.tbl)
    BY DEF Intact, HostRec
  <2>2. etharp_query(r, h, ip, p, ok) = Queried(s, h, i, ip, p, ok)
    BY <1>2 DEF etharp_query
  <2>3. i \in Slots
    BY <2>1, SlotIs
  <2>4. ItsSlot(r.tbl, i, ip)
    <3>1. ~(i < 0)
      <4> HIDE DEF i
      <4> QED
        BY <2>3, LinkSizes
    <3> QED
      BY <2>1, <3>1, SlotIs
  <2> HIDE DEF i
  <2>5. Ready(r, s, i, ip)
    BY <2>3, <2>4, FoundIs
  <2> HIDE DEF s
  <2>6. /\ Passes(r, s, {}) /\ Intact(s) /\ ItsSlot(s.tbl, i, s.tbl[i].ip) /\ s.tbl[i].ctime < ARP_MAXAGE
        /\ New(s, p)
    BY <2>5, StillNew DEF Ready, Passes
  <2>7. Passes(s, Queried(s, h, i, ip, p, ok), {p})
    BY <2>3, <2>6, QueriedPasses
  <2> QED
    BY <2>2, <2>6, <2>7, ThenPasses
<1> QED
  BY <1>1, <1>2

(* The hint, a stable entry, or etharp_query. *)
LEMMA ResolvedPasses ==
  ASSUME NEW r, Intact(r), NEW h \in Hosts, NEW p, New(r, p), NEW ip \in Nat, NEW ok
  PROVE  Passes(r, Resolved(r, h, p, ip, ok), {p})
<1> DEFINE D == {j \in Slots : IsStable(r.tbl[j]) /\ r.tbl[j].ip = ip}
           s == [r EXCEPT !.hint = Min(D)]
<1>1. r \in HostRec /\ r.hint \in Slots
  BY DEF Intact, HostRec
<1>2. CASE IsStable(r.tbl[r.hint]) /\ r.tbl[r.hint].ip = ip
  <2>1. Passes(r, etharp_output_to_arp_index(r, h, p, r.hint, ok), {p})
    BY <1>1, <1>2, OutputToPasses
  <2> QED
    BY <1>2, <2>1 DEF Resolved
<1>3. CASE ~(IsStable(r.tbl[r.hint]) /\ r.tbl[r.hint].ip = ip) /\ D # {}
  <2>1. Resolved(r, h, p, ip, ok) = etharp_output_to_arp_index(s, h, p, Min(D), ok)
    BY <1>3 DEF Resolved
  <2>2. Min(D) \in D
    BY <1>3, LeastIs, LinkSizes
  <2>3. Min(D) \in Slots /\ IsStable(r.tbl[Min(D)])
    BY <2>2
  <2> HIDE DEF D
  <2>4. s \in HostRec /\ s.tbl = r.tbl /\ s.out = r.out
    BY <1>1, <2>3 DEF HostRec
  <2> HIDE DEF s
  <2>5. Passes(r, s, {})
    BY <2>4, SameTable
  <2>6. Intact(s) /\ New(s, p) /\ IsStable(s.tbl[Min(D)])
    BY <2>3, <2>4, <2>5, StillNew DEF Passes
  <2>7. Passes(s, etharp_output_to_arp_index(s, h, p, Min(D), ok), {p})
    BY <2>3, <2>6, OutputToPasses
  <2> QED
    BY <2>1, <2>5, <2>7, ThenPasses
<1>4. CASE ~(IsStable(r.tbl[r.hint]) /\ r.tbl[r.hint].ip = ip) /\ D = {}
  <2>1. Resolved(r, h, p, ip, ok) = etharp_query(r, h, ip, p, ok)
    BY <1>4 DEF Resolved
  <2> QED
    BY <2>1, QueryPasses
<1> QED
  BY <1>2, <1>3, <1>4

(* Whatever etharp_output does, the packet it is given is all that is new. *)
LEMMA OutputPasses ==
  ASSUME NEW r, Intact(r), NEW h \in Hosts, NEW p, New(r, p), NEW ip \in Nat, NEW ok
  PROVE  Passes(r, etharp_output(r, h, p, ip, ok), {p})
<1>1. CASE NotOneHost(ip)
  <2>1. etharp_output(r, h, p, ip, ok) = Out(r, Ip(h, "all", p))
    BY <1>1 DEF etharp_output
  <2> QED
    BY <2>1, SendPasses
<1>2. CASE ~NotOneHost(ip) /\ NextHop(r, ip) = ANY
  <2>1. etharp_output(r, h, p, ip, ok) = r
    BY <1>2 DEF etharp_output
  <2> QED
    BY <2>1 DEF Passes
<1>3. CASE ~NotOneHost(ip) /\ NextHop(r, ip) # ANY
  <2>1. etharp_output(r, h, p, ip, ok) = Resolved(r, h, p, NextHop(r, ip), ok)
    BY <1>3 DEF etharp_output
  <2>2. NextHop(r, ip) \in Nat
    BY DEF NextHop, Intact, HostRec
  <2> QED
    BY <2>1, <2>2, ResolvedPasses
<1> QED
  BY <1>1, <1>2, <1>3

-----------------------------------------------------------------------------
(* The handlers that are given no packet *)

(* etharp_cleanup_netif. *)
LEMMA CleanupPasses ==
  ASSUME NEW r, Intact(r)
  PROVE  Passes(r, etharp_cleanup_netif(r), {})
<1> DEFINE q == etharp_cleanup_netif(r)
           t == [i \in Slots |-> IF r.tbl[i].netif THEN [r.tbl[i] EXCEPT !.q = 0, !.state = "EMPTY"] ELSE r.tbl[i]]
<1>1. r \in HostRec /\ r.tbl \in [Slots -> EntryRec] /\ TableOK(r.tbl)
  BY DEF Intact, HostRec
<1>2. ASSUME NEW i \in Slots
      PROVE  t[i] \in EntryRec /\ Thinner(t[i], r.tbl[i])
  <2>1. r.tbl[i] \in EntryRec /\ EntryOK(r.tbl[i])
    BY <1>1 DEF TableOK
  <2> DEFINE e == [r.tbl[i] EXCEPT !.q = 0, !.state = "EMPTY"]
  <2>2. e \in EntryRec /\ Thinner(e, r.tbl[i])
    BY <2>1 DEF EntryRec, Thinner, EntryOK
  <2>3. Thinner(r.tbl[i], r.tbl[i])
    BY <2>1 DEF Thinner
  <2> QED
    BY <2>1, <2>2, <2>3
<1>3. q = [r EXCEPT !.tbl = t]
  BY DEF etharp_cleanup_netif
<1>4. t \in [Slots -> EntryRec]
  BY <1>2
<1> HIDE DEF q, t
<1>5. q \in HostRec /\ q.out = r.out /\ q.tbl = t
  BY <1>1, <1>3, <1>4 DEF HostRec
<1>6. Passes(r, q, {})
  BY <1>2, <1>5, Thinned
<1> QED
  BY <1>6 DEF q

(* etharp_tmr: an entry that reaches ARP_MAXAGE is dropped, so no age exceeds it. *)
LEMMA TmrPasses ==
  ASSUME NEW r, Intact(r)
  PROVE  Passes(r, etharp_tmr(r), {})
<1> DEFINE q == etharp_tmr(r)
           t == [i \in Slots |-> Aged(r.tbl[i])]
<1>1. r \in HostRec /\ r.tbl \in [Slots -> EntryRec] /\ TableOK(r.tbl)
  BY DEF Intact, HostRec
<1>2. ASSUME NEW i \in Slots
      PROVE  Aged(r.tbl[i]) \in EntryRec /\ Thinner(Aged(r.tbl[i]), r.tbl[i])
  <2> DEFINE d == r.tbl[i]
             n == d.ctime + 1
             dead == [d EXCEPT !.ctime = n, !.state = "EMPTY", !.q = 0]
             old == [d EXCEPT !.ctime = n, !.state = IF d.state = "REREQUESTING" THEN "STABLE" ELSE d.state]
  <2>1. d \in EntryRec /\ EntryOK(d)
    BY <1>1 DEF TableOK
  <2>2. d.ctime \in Nat /\ ARP_MAXAGE \in Nat /\ d.ctime <= ARP_MAXAGE /\ n \in Nat
    <3>1. d.ctime \in Ages
      BY <2>1 DEF EntryRec
    <3> HIDE DEF d
    <3> QED
      BY <3>1, AgesIs, LinkSizes
  <2>3. CASE d.state = "EMPTY"
    BY <2>1, <2>3 DEF Aged, Thinner
  <2>4. CASE d.state # "EMPTY"
    <3>1. d.ctime < ARP_MAXAGE
      BY <2>1, <2>4 DEF EntryOK
    <3>2. n \in Ages
      BY <2>2, <3>1 DEF Ages
    <3>3. Aged(d) = dead \/ (Aged(d) = old /\ ~(n >= ARP_MAXAGE))
      BY <2>4 DEF Aged
    <3> HIDE DEF n
    <3>4. dead \in EntryRec /\ Thinner(dead, d)
      BY <2>1, <3>2 DEF EntryRec, Thinner, EntryOK
    <3>5. old \in EntryRec /\ old.ctime = n /\ old.q = d.q /\ old.ip = d.ip
          /\ (d.state = "PENDING" => old.state = "PENDING")
      BY <2>1, <3>2 DEF EntryRec
    <3>6. ~(n >= ARP_MAXAGE) => Thinner(old, d)
      <4> HIDE DEF old
      <4>1. ~(n >= ARP_MAXAGE) => n < ARP_MAXAGE
        BY <2>2
      <4> QED
        BY <2>1, <2>4, <3>5, <4>1 DEF Thinner, EntryOK
    <3> QED
      BY <3>3, <3>4, <3>5, <3>6
  <2> QED
    BY <2>3, <2>4
<1>3. q = [r EXCEPT !.tbl = t]
  BY DEF etharp_tmr
<1>4. t \in [Slots -> EntryRec]
  BY <1>2
<1> HIDE DEF q
<1>5. q \in HostRec /\ q.out = r.out /\ q.tbl = t
  BY <1>1, <1>3, <1>4 DEF HostRec
<1>6. Passes(r, q, {})
  BY <1>2, <1>5, Thinned
<1> QED
  BY <1>6 DEF q

(* netif_set_ipaddr. *)
LEMMA IpaddrPasses ==
  ASSUME NEW r, Intact(r), NEW ip \in Nat
  PROVE  Passes(r, netif_set_ipaddr(r, ip), {})
<1> DEFINE q == netif_set_ipaddr(r, ip)
           S == IF ip # r.ip /\ r.ip \notin LinkLocal THEN r.pcbs \ {r.ip} ELSE r.pcbs
<1>1. r \in HostRec
  BY DEF Intact
<1>2. S \in SUBSET Nat
  BY <1>1 DEF HostRec
<1>3. q = [r EXCEPT !.ip = ip, !.pcbs = S]
  BY DEF netif_set_ipaddr
<1> HIDE DEF q, S
<1>4. q \in HostRec /\ q.tbl = r.tbl /\ q.out = r.out
  BY <1>1, <1>2, <1>3 DEF HostRec
<1>5. Passes(r, q, {})
  BY <1>4, SameTable
<1> QED
  BY <1>5 DEF q

(* netif_set_up, with its announcement. *)
LEMMA UpPasses ==
  ASSUME NEW r, Intact(r), NEW h \in Hosts, NEW ok
  PROVE  Passes(r, netif_set_up(r, h, ok), {})
<1> DEFINE s == [r EXCEPT !.up = TRUE]
<1>1. r \in HostRec /\ r.ip \in Nat
  BY DEF Intact, HostRec
<1>2. s \in HostRec /\ s.tbl = r.tbl /\ s.out = r.out
  BY <1>1 DEF HostRec
<1>3. netif_set_up(r, h, ok) \in {r, s, etharp_request(s, h, r.ip, ok)}
  BY DEF netif_set_up
<1> HIDE DEF s
<1>4. Passes(r, s, {})
  BY <1>2, SameTable
<1>5. Passes(s, etharp_request(s, h, r.ip, ok), {})
  BY <1>1, <1>4, RequestPasses DEF Passes
<1>6. Passes(r, etharp_request(s, h, r.ip, ok), {})
  BY <1>4, <1>5, ThenPasses
<1> QED
  BY <1>3, <1>4, <1>6, PassesSelf

(* netif_set_down, with its clean-up. *)
LEMMA DownPasses ==
  ASSUME NEW r, Intact(r)
  PROVE  Passes(r, netif_set_down(r), {})
<1> DEFINE s == [r EXCEPT !.up = FALSE]
<1>1. r \in HostRec
  BY DEF Intact
<1>2. s \in HostRec /\ s.tbl = r.tbl /\ s.out = r.out
  BY <1>1 DEF HostRec
<1>3. netif_set_down(r) \in {r, etharp_cleanup_netif(s)}
  BY DEF netif_set_down
<1> HIDE DEF s
<1>4. Passes(r, s, {})
  BY <1>2, SameTable
<1>5. Passes(s, etharp_cleanup_netif(s), {})
  BY <1>4, CleanupPasses DEF Passes
<1>6. Passes(r, etharp_cleanup_netif(s), {})
  BY <1>4, <1>5, ThenPasses
<1> QED
  BY <1>3, <1>6, PassesSelf

-----------------------------------------------------------------------------
(* AutoIP *)

(* The waits the code is built with. *)
LEMMA LinkWaits ==
  /\ ANNOUNCE_WAIT \in Nat /\ DEFEND_INTERVAL \in Nat /\ RATE_LIMIT_INTERVAL \in Nat
  /\ PROBE_WAITS \subseteq Nat
  BY LinkAssumption

(* autoip_start_probing. *)
LEMMA ProbingPasses ==
  ASSUME NEW r, Intact(r), NEW w \in Nat
  PROVE  LET q == autoip_start_probing(r, w) IN Passes(r, q, {}) /\ q.tbl = r.tbl /\ q.out = r.out
<1> DEFINE q == autoip_start_probing(r, w)
           t == IF r.tried > MAX_CONFLICTS THEN RATE_LIMIT_INTERVAL ELSE w
<1>1. r \in HostRec
  BY DEF Intact
<1>2. t \in Nat
  BY LinkWaits
<1>3. q = [r EXCEPT !.auto = "PROBING", !.sent = 0, !.ttw = t]
  BY DEF autoip_start_probing
<1> HIDE DEF q, t
<1>4. q \in HostRec /\ q.tbl = r.tbl /\ q.out = r.out
  BY <1>1, <1>2, <1>3 DEF HostRec
<1>5. Passes(r, q, {})
  BY <1>4, SameTable
<1> QED
  BY <1>4, <1>5 DEF q

(* A link-local address is chosen and probed for. *)
LEMMA ChosenPasses ==
  ASSUME NEW r, Intact(r), NEW h \in Hosts, NEW w \in Nat, linkplan \in LinkPlans
  PROVE  LET q == AddressChosen(r, h, w) IN Passes(r, q, {}) /\ q.tbl = r.tbl /\ q.out = r.out
<1> DEFINE a == autoip_create_addr(h, r.tried)
           s == [r EXCEPT !.conflict = 0, !.ll = a]
<1>1. r \in HostRec /\ r.tried \in 0 .. TriedValues - 1
  BY DEF Intact, HostRec
<1>2. a \in Nat
  <2>1. linkplan.seed \in [Hosts -> Nat]
    BY LinkAssumption
  <2> DEFINE x == linkplan.seed[h]
             y == r.tried
  <2>2. x \in Nat /\ y \in Nat /\ LinkLocals \in Nat /\ LinkLocals > 0
    BY <1>1, <2>1, LinkSizes
  <2>3. a = 1 + ((x + y) % LinkLocals)
    BY DEF autoip_create_addr
  <2> HIDE DEF x, y, a
  <2> QED
    BY <2>2, <2>3
<1>3. AddressChosen(r, h, w) = autoip_start_probing(s, w)
  BY DEF AddressChosen
<1> HIDE DEF a
<1>4. s \in HostRec /\ s.tbl = r.tbl /\ s.out = r.out
  BY <1>1, <1>2 DEF HostRec
<1> HIDE DEF s
<1>5. Passes(r, s, {})
  BY <1>4, SameTable
<1>6. LET q == autoip_start_probing(s, w) IN Passes(s, q, {}) /\ q.tbl = s.tbl /\ q.out = s.out
  BY <1>5, ProbingPasses DEF Passes
<1> QED
  BY <1>3, <1>4, <1>5, <1>6, ThenPasses

(* On an interface that is down it touches no table. *)
LEMMA StartPasses ==
  ASSUME NEW r, Intact(r), NEW h \in Hosts, NEW w \in Nat, linkplan \in LinkPlans
  PROVE  LET q == autoip_start(r, h, w) IN
         Passes(r, q, {}) /\ (~r.up => q.tbl = r.tbl /\ q.out = r.out)
<1> DEFINE d == netif_set_down(r)
           z == Zeroed(d)
<1>1. Passes(r, d, {})
  BY DownPasses
<1>2. ~r.up => d = r
  BY DEF netif_set_down
<1>3. autoip_start(r, h, w) = AddressChosen(z, h, w)
  BY DEF autoip_start
<1> HIDE DEF d
<1>4. Intact(d) /\ d \in HostRec
  BY <1>1 DEF Passes, Intact
<1>5. z \in HostRec /\ z.tbl = d.tbl /\ z.out = d.out
  BY <1>4 DEF Zeroed, HostRec, ANY
<1> HIDE DEF z
<1>6. Passes(r, z, {})
  BY <1>1, <1>4, <1>5, SameTable, ThenPasses
<1>7. LET q == AddressChosen(z, h, w) IN Passes(z, q, {}) /\ q.tbl = z.tbl /\ q.out = z.out
  BY <1>6, ChosenPasses DEF Passes
<1> QED
  BY <1>2, <1>3, <1>5, <1>6, <1>7, ThenPasses

(* autoip_restart: tried_llipaddr wraps. *)
LEMMA RestartPasses ==
  ASSUME NEW r, Intact(r), NEW h \in Hosts, NEW w \in Nat, linkplan \in LinkPlans
  PROVE  Passes(r, autoip_restart(r, h, w), {})
<1> DEFINE n == (r.tried + 1) % TriedValues
           s == [r EXCEPT !.tried = n]
<1>1. r \in HostRec /\ r.tried \in 0 .. TriedValues - 1
  BY DEF Intact, HostRec
<1>2. n \in 0 .. TriedValues - 1
  <2> DEFINE y == r.tried
  <2>1. y \in Nat /\ TriedValues \in Nat /\ TriedValues > 0 /\ n = (y + 1) % TriedValues
    BY <1>1, LinkSizes
  <2> HIDE DEF y, n
  <2> QED
    BY <2>1
<1>3. autoip_restart(r, h, w) = autoip_start(s, h, w)
  BY DEF autoip_restart
<1> HIDE DEF n
<1>4. s \in HostRec /\ s.tbl = r.tbl /\ s.out = r.out
  BY <1>1, <1>2 DEF HostRec
<1> HIDE DEF s
<1>5. Passes(r, s, {})
  BY <1>4, SameTable
<1>6. Passes(s, autoip_start(s, h, w), {})
  BY <1>5, StartPasses DEF Passes
<1> QED
  BY <1>3, <1>5, <1>6, ThenPasses

(* autoip_arp_announce. *)
LEMMA AnnouncePasses ==
  ASSUME NEW r, Intact(r), NEW h \in Hosts, NEW ok
  PROVE  Passes(r, autoip_arp_announce(r, h, ok), {})
<1>1. r.ll \in Nat
  BY DEF Intact, HostRec
<1> QED
  BY <1>1, RawPasses DEF autoip_arp_announce

(* autoip_handle_arp_conflict: defend, or give up. *)
LEMMA ConflictPasses ==
  ASSUME NEW r, Intact(r), NEW h \in Hosts, NEW w \in Nat, NEW ok, linkplan \in LinkPlans
  PROVE  Passes(r, autoip_handle_arp_conflict(r, h, w, ok), {})
<1> DEFINE a == autoip_arp_announce(r, h, ok)
           s == [a EXCEPT !.conflict = DEFEND_INTERVAL]
<1>1. Passes(r, a, {})
  BY AnnouncePasses
<1>2. autoip_handle_arp_conflict(r, h, w, ok) \in {autoip_restart(r, h, w), s}
  BY DEF autoip_handle_arp_conflict
<1> HIDE DEF a
<1>3. Intact(a) /\ a \in HostRec
  BY <1>1 DEF Passes, Intact
<1>4. s \in HostRec /\ s.tbl = a.tbl /\ s.out = a.out
  BY <1>3, LinkWaits DEF HostRec
<1> HIDE DEF s
<1>5. Passes(r, s, {})
  BY <1>1, <1>3, <1>4, SameTable, ThenPasses
<1> QED
  BY <1>2, <1>5, RestartPasses

(* autoip_bind. *)
LEMMA BindPasses ==
  ASSUME NEW r, Intact(r), NEW h \in Hosts, NEW ok
  PROVE  Passes(r, autoip_bind(r, h, ok), {})
<1> DEFINE a == netif_set_ipaddr(r, r.ll)
           s == [a EXCEPT !.gw = ANY]
<1>1. r.ll \in Nat
  BY DEF Intact, HostRec
<1>2. Passes(r, a, {})
  BY <1>1, IpaddrPasses
<1>3. autoip_bind(r, h, ok) = netif_set_up(s, h, ok)
  BY DEF autoip_bind
<1> HIDE DEF a
<1>4. Intact(a) /\ a \in HostRec
  BY <1>2 DEF Passes, Intact
<1>5. s \in HostRec /\ s.tbl = a.tbl /\ s.out = a.out
  BY <1>4 DEF HostRec, ANY
<1> HIDE DEF s
<1>6. Passes(r, s, {})
  BY <1>2, <1>4, <1>5, SameTable, ThenPasses
<1>7. Passes(s, netif_set_up(s, h, ok), {})
  BY <1>6, UpPasses DEF Passes
<1> QED
  BY <1>3, <1>6, <1>7, ThenPasses

(* autoip_network_changed. *)
LEMMA ChangedPasses ==
  ASSUME NEW r, Intact(r), NEW w \in Nat
  PROVE  Passes(r, autoip_network_changed(r, w), {})
<1> DEFINE d == netif_set_down(r)
<1>1. Passes(r, d, {})
  BY DownPasses
<1>2. autoip_network_changed(r, w) \in {r, autoip_start_probing(d, w)}
  BY DEF autoip_network_changed
<1> HIDE DEF d
<1>3. Passes(d, autoip_start_probing(d, w), {})
  BY <1>1, ProbingPasses DEF Passes
<1> QED
  BY <1>1, <1>2, <1>3, PassesSelf, ThenPasses

(* autoip_stop. *)
LEMMA StopPasses ==
  ASSUME NEW r, Intact(r)
  PROVE  Passes(r, autoip_stop(r), {})
<1> DEFINE s == [r EXCEPT !.auto = "OFF"]
<1>1. s \in HostRec /\ s.tbl = r.tbl /\ s.out = r.out
  BY DEF Intact, HostRec
<1>2. autoip_stop(r) = netif_set_down(s)
  BY DEF autoip_stop
<1> HIDE DEF s
<1>3. Passes(r, s, {})
  BY <1>1, SameTable
<1>4. Passes(s, netif_set_down(s), {})
  BY <1>3, DownPasses DEF Passes
<1> QED
  BY <1>2, <1>3, <1>4, ThenPasses

(* The announcement that was sent is counted. *)
LEMMA AnnouncedPasses ==
  ASSUME NEW r, Intact(r)
  PROVE  Passes(r, Announced(r), {})
<1>1. r \in HostRec /\ r.sent \in Nat
  BY DEF Intact, HostRec
<1>2. r.sent + 1 \in Nat
  BY <1>1
<1> DEFINE n == r.sent + 1
<1>3. Announced(r) \in {[r EXCEPT !.auto = "BOUND", !.sent = 0, !.ttw = 0], [r EXCEPT !.sent = n, !.ttw = ANNOUNCE_WAIT]}
  BY DEF Announced
<1> HIDE DEF n
<1>4. LET q == [r EXCEPT !.auto = "BOUND", !.sent = 0, !.ttw = 0] IN q \in HostRec /\ q.tbl = r.tbl /\ q.out = r.out
  BY <1>1 DEF HostRec
<1>5. LET q == [r EXCEPT !.sent = n, !.ttw = ANNOUNCE_WAIT] IN q \in HostRec /\ q.tbl = r.tbl /\ q.out = r.out
  BY <1>1, <1>2, LinkWaits DEF HostRec, n
<1> QED
  BY <1>3, <1>4, <1>5, SameTable

(* The time since the last conflict runs down to zero. *)
LEMMA ElapsedPasses ==
  ASSUME NEW r, Intact(r)
  PROVE  Passes(r, Elapsed(r), {})
<1> DEFINE m == Max({0, r.conflict - 1})
           q == [r EXCEPT !.conflict = m]
<1>1. r \in HostRec /\ r.conflict \in Nat
  BY DEF Intact, HostRec
<1>2. m \in Nat
  <2> DEFINE x == r.conflict
  <2>1. x \in Nat /\ m = Max({0, x - 1})
    BY <1>1
  <2> HIDE DEF x, m
  <2>2. CASE x = 0
    <3>1. {0, x - 1} = {0, -1}
      BY <2>2
    <3>2. m \in {0, -1} /\ \A y \in {0, -1} : m >= y
      <4>1. 0 \in {0, -1} /\ \A y \in {0, -1} : 0 >= y
        OBVIOUS
      <4> QED
        BY <2>1, <3>1, <4>1 DEF Max
    <3> QED
      BY <3>2
  <2>3. CASE x # 0
    <3>1. x - 1 \in {0, x - 1} /\ \A y \in {0, x - 1} : x - 1 >= y
      BY <2>1, <2>3
    <3>2. m \in {0, x - 1}
      BY <2>1, <3>1 DEF Max
    <3> QED
      BY <2>1, <2>3, <3>2
  <2> QED
    BY <2>2, <2>3
<1>3. Elapsed(r) = q
  BY DEF Elapsed
<1> HIDE DEF m
<1>4. q \in HostRec /\ q.tbl = r.tbl /\ q.out = r.out
  BY <1>1, <1>2 DEF HostRec
<1> QED
  BY <1>3, <1>4, SameTable

(* What AutoIP does in a tick. *)
LEMMA TickedPasses ==
  ASSUME NEW r, Intact(r), NEW h \in Hosts, NEW w \in Nat, NEW ok
  PROVE  Passes(r, Ticked(r, h, w, ok), {})
<1>1. r \in HostRec /\ r.ttw \in Nat /\ r.sent \in Nat /\ r.ll \in Nat
  BY DEF Intact, HostRec
<1>2. CASE r.auto \notin {"PROBING", "ANNOUNCING"}
  BY <1>2, PassesSelf DEF Ticked
<1>3. CASE r.auto \in {"PROBING", "ANNOUNCING"} /\ r.ttw > 0
  <2> DEFINE n == r.ttw - 1
             q == [r EXCEPT !.ttw = n]
  <2>1. n \in Nat
    BY <1>1, <1>3
  <2>2. Ticked(r, h, w, ok) = q
    BY <1>3 DEF Ticked
  <2> HIDE DEF n
  <2>3. q \in HostRec /\ q.tbl = r.tbl /\ q.out = r.out
    BY <1>1, <2>1 DEF HostRec
  <2> QED
    BY <2>2, <2>3, SameTable
<1>4. CASE r.auto \in {"PROBING", "ANNOUNCING"} /\ ~(r.ttw > 0)
  <2>1. CASE r.auto = "PROBING" /\ r.sent >= PROBE_NUM
    <3> DEFINE q == [r EXCEPT !.auto = "ANNOUNCING", !.sent = 0, !.ttw = ANNOUNCE_WAIT]
    <3>1. Ticked(r, h, w, ok) = q
      BY <1>4, <2>1 DEF Ticked
    <3>2. q \in HostRec /\ q.tbl = r.tbl /\ q.out = r.out
      BY <1>1, LinkWaits DEF HostRec
    <3> QED
      BY <3>1, <3>2, SameTable
  <2>2. CASE r.auto = "PROBING" /\ ~(r.sent >= PROBE_NUM)
    <3> DEFINE s == etharp_raw(r, h, "request", ANY, r.ll, ok)
               n == s.sent + 1
               q == [s EXCEPT !.sent = n, !.ttw = w]
    <3>1. Passes(r, s, {})
      BY <1>1, RawPasses DEF ANY
    <3>2. Ticked(r, h, w, ok) = q
      BY <1>4, <2>2 DEF Ticked
    <3> HIDE DEF s
    <3>3. Intact(s) /\ s \in HostRec /\ s.sent \in Nat
      BY <3>1 DEF Passes, Intact, HostRec
    <3>4. n \in Nat
      BY <3>3
    <3> HIDE DEF n
    <3>5. q \in HostRec /\ q.tbl = s.tbl /\ q.out = s.out
      BY <3>3, <3>4 DEF HostRec
    <3> HIDE DEF q
    <3> QED
      BY <3>1, <3>2, <3>3, <3>5, SameTable, ThenPasses
  <2>3. CASE r.auto # "PROBING"
    <3> DEFINE s == IF r.sent = 0 THEN autoip_bind(r, h, ok) ELSE autoip_arp_announce(r, h, ok)
    <3>1. Passes(r, s, {})
      BY BindPasses, AnnouncePasses
    <3>2. Ticked(r, h, w, ok) = Announced(s)
      BY <1>4, <2>3 DEF Ticked
    <3> HIDE DEF s
    <3>3. Passes(s, Announced(s), {})
      BY <3>1, AnnouncedPasses DEF Passes
    <3> QED
      BY <3>1, <3>2, <3>3, ThenPasses
  <2> QED
    BY <2>1, <2>2, <2>3
<1> QED
  BY <1>2, <1>3, <1>4

(* autoip_tmr. *)
LEMMA AutoipTmrPasses ==
  ASSUME NEW r, Intact(r), NEW h \in Hosts, NEW w \in Nat, NEW ok
  PROVE  Passes(r, autoip_tmr(r, h, w, ok), {})
<1>1. Passes(r, Elapsed(r), {})
  BY ElapsedPasses
<1>2. Passes(Elapsed(r), Ticked(Elapsed(r), h, w, ok), {})
  BY <1>1, TickedPasses DEF Passes
<1> QED
  BY <1>1, <1>2, ThenPasses DEF autoip_tmr

(* autoip_arp_reply. *)
LEMMA ReplyPasses ==
  ASSUME NEW r, Intact(r), NEW h \in Hosts, NEW f, NEW w \in Nat, NEW ok, linkplan \in LinkPlans
  PROVE  Passes(r, autoip_arp_reply(r, h, f, w, ok), {})
<1>1. autoip_arp_reply(r, h, f, w, ok) \in {r, autoip_restart(r, h, w), autoip_handle_arp_conflict(r, h, w, ok)}
  BY DEF autoip_arp_reply
<1> QED
  BY <1>1, PassesSelf, RestartPasses, ConflictPasses

(* A request for our address is answered. *)
LEMMA AnsweredPasses ==
  ASSUME NEW r, Intact(r), NEW h \in Hosts, NEW f \in Frame
  PROVE  Passes(r, AnsweredTo(r, h, f), {})
<1>1. r.ip \in Nat /\ f.sip \in Nat
  BY DEF Intact, HostRec, Frame
<1>2. AnsweredTo(r, h, f) \in {r, etharp_raw(r, h, "reply", r.ip, f.sip, TRUE)}
  BY DEF AnsweredTo, etharp_raw
<1>3. Passes(r, etharp_raw(r, h, "reply", r.ip, f.sip, TRUE), {})
  BY <1>1, RawPasses
<1> QED
  BY <1>2, <1>3, PassesSelf

(* ethernet_input, with all it calls. *)
LEMMA InputPasses ==
  ASSUME NEW r, Intact(r), NEW h \in Hosts, NEW f \in Frame, NEW w \in Nat, NEW ok, linkplan \in LinkPlans
  PROVE  Passes(r, ethernet_input(r, h, f, w, ok), {})
<1> DEFINE a == autoip_arp_reply(r, h, f, w, ok)
           flag == IF ForUs(a, f) THEN "TRY_HARD" ELSE "FIND_ONLY"
           u == etharp_update_arp_entry(a, h, f.sip, f.from, flag)
<1>1. Passes(r, a, {})
  BY ReplyPasses
<1>2. ethernet_input(r, h, f, w, ok) \in {r, AnsweredTo(u, h, f)}
  BY DEF ethernet_input, etharp_arp_input, Heard
<1>3. f.sip \in Nat /\ f.from \in Hosts
  BY DEF Frame
<1> HIDE DEF a, flag
<1>4. Passes(a, u, {})
  BY <1>1, <1>3, UpdatePasses DEF Passes
<1> HIDE DEF u
<1>5. Passes(r, u, {})
  BY <1>1, <1>4, ThenPasses
<1>6. Passes(u, AnsweredTo(u, h, f), {})
  BY <1>5, AnsweredPasses DEF Passes
<1>7. Passes(r, AnsweredTo(u, h, f), {})
  BY <1>5, <1>6, ThenPasses
<1> QED
  BY <1>2, <1>7, PassesSelf

-----------------------------------------------------------------------------
(* The inductive invariant *)

Fates == {"unsent", "queued", "sent", "freed", "twice", "refused"}
AppRec == [pc : {"idle", "clean", "free"}, i : Slots, q : Nat]
LinkTypes ==
  /\ linkplan \in LinkPlans /\ wire \in [Hosts -> Seq(Frame)] /\ fate \in [1 .. linkplan.packets -> Fates]
  /\ host \in [Hosts -> HostRec] /\ app \in [Hosts -> AppRec]
(* Between two steps the tables are coherent and nothing is left to put    *)
(* on the air; what is kept has been sent by someone.                      *)
TablesIntact ==
  \A h \in Hosts :
    /\ Intact(host[h]) /\ host[h].out = <<>>
    /\ \A x \in Queues(host[h]) : x \in DOMAIN fate /\ fate[x] # "unsent"
(* While no application thread takes an interface down a packet is kept by *)
(* one host, and its fate is known.                                        *)
KeptByOne == \A h, g \in Hosts : h # g => Queues(host[h]) \cap Queues(host[g]) = {}
ClosersClose == \A h \in Hosts : app[h].pc # "idle" => "close" \in linkplan.calls
FatesKnown == "close" \notin linkplan.calls => FreedOnce /\ HeldIffQueued /\ KeptByOne
LinkInv == LinkTypes /\ TablesIntact /\ ClosersClose /\ FatesKnown

(* The tables of every other host stay as they were. *)
LEMMA OtherTables ==
  ASSUME LinkInv, NEW h \in Hosts, NEW q, Intact(q), host' = [host EXCEPT ![h] = [q EXCEPT !.out = <<>>]]
  PROVE  /\ host' \in [Hosts -> HostRec] /\ Intact(host'[h]) /\ host'[h].out = <<>>
         /\ host'[h].tbl = q.tbl /\ Queues(host'[h]) = Queues(q)
         /\ \A g \in Hosts : g # h => host'[g] = host[g]
<1> DEFINE s == [q EXCEPT !.out = <<>>]
<1>1. q \in HostRec /\ TableOK(q.tbl)
  BY DEF Intact
<1>2. s \in HostRec /\ s.out = <<>> /\ s.tbl = q.tbl
  <2> DEFINE o == <<>>
  <2>1. o \in Seq(Frame)
    OBVIOUS
  <2>2. s = [q EXCEPT !.out = o]
    OBVIOUS
  <2> HIDE DEF o, s
  <2>3. s \in HostRec /\ s.out = o /\ s.tbl = q.tbl
    BY <1>1, <2>1, <2>2 DEF HostRec
  <2> QED
    BY <2>3 DEF o
<1>3. host \in [Hosts -> HostRec]
  BY DEF LinkInv, LinkTypes
<1> HIDE DEF s
<1>4. host' = [host EXCEPT ![h] = s]
  BY DEF s
<1>5. host'[h] = s /\ host' \in [Hosts -> HostRec] /\ \A g \in Hosts : g # h => host'[g] = host[g]
  BY <1>2, <1>3, <1>4
<1>6. Queues(s) = Queues(q)
  BY <1>2 DEF Queues
<1>7. Gone(s) = {}
  BY <1>2 DEF Gone
<1>8. Intact(s)
  BY <1>1, <1>2, <1>7 DEF Intact
<1> QED
  BY <1>2, <1>5, <1>6, <1>8

(* What is put on the air are frames. *)
LEMMA AirIs ==
  ASSUME LinkInv, NEW h \in Hosts, NEW q, Intact(q), NEW taken \in {0, 1}, OnAir(h, q, taken)
  PROVE  wire' \in [Hosts -> Seq(Frame)]
<1>1. wire \in [Hosts -> Seq(Frame)] /\ q.out \in Seq(Frame)
  BY DEF LinkInv, LinkTypes, Intact, HostRec
<1>2. SubSeq(wire[h], 1 + taken, Len(wire[h])) \in Seq(Frame)
  <2> DEFINE s == wire[h]
  <2>1. s \in Seq(Frame)
    BY <1>1
  <2> HIDE DEF s
  <2>2. Len(s) \in Int /\ 1 + taken \in Int /\ \A i \in 1 + taken .. Len(s) : s[i] \in Frame
    BY <2>1
  <2>3. SubSeq(s, 1 + taken, Len(s)) \in Seq(Frame)
    BY <2>2, SubSeqProperties
  <2> QED
    BY <2>3 DEF s
<1>3. \A g \in Hosts : wire[g] \o q.out \in Seq(Frame)
  BY <1>1
<1>4. wire' = [g \in Hosts |-> IF g = h THEN SubSeq(wire[h], 1 + taken, Len(wire[h])) ELSE wire[g] \o q.out]
  BY DEF OnAir
<1> QED
  BY <1>2, <1>3, <1>4

(* A packet the host has seen it kept, or it is the one it is given. *)
LEMMA SeenIs ==
  ASSUME LinkInv, NEW h \in Hosts, NEW q, NEW S, Passes(host[h], q, S), 0 \notin S
  PROVE  /\ Intact(q) /\ Queues(q) \cap Gone(q) = {}
         /\ Queues(q) \cup (Gone(q) \ {0}) \subseteq Queues(host[h]) \cup S
<1>1. Gone(host[h]) = {}
  BY DEF LinkInv, TablesIntact, Gone
<1> QED
  BY <1>1 DEF Passes, Seen, Intact

(* The step of a handler: given packets S nobody has seen, the fates are   *)
(* known afterwards, but for a packet x of S that the host has not taken:  *)
(* that one stays as it was, or is given back.                             *)
LEMMA FatesFollow ==
  ASSUME LinkInv, NEW h \in Hosts, NEW q, NEW S, Passes(host[h], q, S),
         \A x \in S : x \in DOMAIN fate /\ fate[x] = "unsent",
         NEW R, R \subseteq S, R \cap (Queues(q) \cup Gone(q)) = {},
         host' = [host EXCEPT ![h] = [q EXCEPT !.out = <<>>]],
         fate' = [x \in DOMAIN fate |-> IF x \in R THEN "refused" ELSE FateOf(x, host[h], q)],
         UNCHANGED linkplan
  PROVE  /\ fate' \in [1 .. linkplan.packets -> Fates] /\ TablesIntact' /\ FatesKnown'
<1> DEFINE H == Queues(host[h])
           Q == Queues(q)
           G == Gone(q)
<1>1. fate \in [1 .. linkplan.packets -> Fates] /\ DOMAIN fate = 1 .. linkplan.packets /\ linkplan.packets \in Nat
  BY LinkAssumption DEF LinkInv, LinkTypes
<1>2. 0 \notin DOMAIN fate /\ 0 \notin S
  BY <1>1
<1>3. Intact(q) /\ Q \cap G = {} /\ Q \cup (G \ {0}) \subseteq H \cup S
  BY <1>2, SeenIs
<1>4. /\ host' \in [Hosts -> HostRec] /\ Intact(host'[h]) /\ host'[h].out = <<>>
      /\ Queues(host'[h]) = Q /\ \A g \in Hosts : g # h => host'[g] = host[g]
  BY <1>3, OtherTables
<1>5. DOMAIN fate' = DOMAIN fate
  OBVIOUS
<1>6. ASSUME NEW x \in DOMAIN fate
      PROVE  /\ x \in G => fate'[x] = IF fate[x] \in {"unsent", "queued"} THEN "sent" ELSE "twice"
             /\ x \in Q => fate'[x] = "queued"
             /\ x \in H /\ x \notin Q /\ x \notin G => fate'[x] = IF fate[x] = "queued" THEN "freed" ELSE "twice"
             /\ x \in R => fate'[x] = "refused"
             /\ x \notin G /\ x \notin Q /\ x \notin H /\ x \notin R => fate'[x] = fate[x]
  <2>1. x \in H => x \notin R
    BY DEF LinkInv, TablesIntact
  <2>2. fate'[x] = IF x \in R THEN "refused" ELSE FateOf(x, host[h], q)
    OBVIOUS
  <2> QED
    BY <1>3, <2>1, <2>2 DEF FateOf
<1> HIDE DEF Q, G, H
<1>7. ASSUME NEW x \in DOMAIN fate PROVE fate'[x] \in Fates
  BY <1>1, <1>6 DEF Fates
<1>8. fate' \in [1 .. linkplan.packets -> Fates]
  BY <1>1, <1>7
<1>9. TablesIntact'
  <2> SUFFICES ASSUME NEW g \in Hosts
               PROVE  /\ Intact(host'[g]) /\ host'[g].out = <<>>
                      /\ \A x \in Queues(host'[g]) : x \in DOMAIN fate' /\ fate'[x] # "unsent"
    BY DEF TablesIntact, Intact, Queues, Gone
  <2>1. CASE g = h
    <3> SUFFICES ASSUME NEW x \in Q PROVE x \in DOMAIN fate /\ fate'[x] # "unsent"
      BY <1>4, <1>5, <2>1
    <3>1. x \in DOMAIN fate
      BY <1>3 DEF LinkInv, TablesIntact, H
    <3> QED
      BY <1>6, <3>1
  <2>2. CASE g # h
    <3>1. host'[g] = host[g] /\ Intact(host[g]) /\ host[g].out = <<>>
      BY <1>4, <2>2 DEF LinkInv, TablesIntact
    <3>2. ASSUME NEW x \in Queues(host[g])
          PROVE  x \in DOMAIN fate /\ fate'[x] # "unsent"
      <4>1. x \in DOMAIN fate /\ fate[x] # "unsent"
        BY DEF LinkInv, TablesIntact
      <4> QED
        BY <1>6, <4>1
    <3> QED
      BY <1>5, <3>1, <3>2
  <2> QED
    BY <2>1, <2>2
<1>10. FatesKnown'
  <2> SUFFICES ASSUME "close" \notin linkplan.calls
               PROVE  FreedOnce' /\ HeldIffQueued' /\ KeptByOne'
    BY DEF FatesKnown
  <2>1. FreedOnce /\ HeldIffQueued /\ KeptByOne
    BY DEF LinkInv, FatesKnown
  <2>2. \A x \in H : x \in DOMAIN fate /\ fate[x] = "queued"
    BY <2>1 DEF HeldIffQueued, LinkInv, TablesIntact, H
  <2>3. \A x \in S : \A g \in Hosts : x \notin Queues(host[g])
    BY DEF LinkInv, TablesIntact
  <2>4. \A g \in Hosts : g # h => Queues(host[g]) \cap H = {}
    BY <2>1 DEF KeptByOne, H
  <2>5. FreedOnce'
    <3> SUFFICES ASSUME NEW x \in DOMAIN fate PROVE fate'[x] # "twice"
      BY <1>5 DEF FreedOnce
    <3>1. fate[x] # "twice"
      BY <2>1 DEF FreedOnce
    <3>2. x \in G => fate[x] \in {"unsent", "queued"}
      BY <1>2, <1>3, <2>2
    <3> QED
      BY <1>6, <2>2, <3>1, <3>2
  <2>6. HeldIffQueued'
    <3> SUFFICES ASSUME NEW x \in DOMAIN fate
                 PROVE  fate'[x] = "queued" <=> \E g \in Hosts : x \in Queues(host'[g])
      BY <1>5 DEF HeldIffQueued, Queues
    <3>1. (\E g \in Hosts : x \in Queues(host'[g])) <=> x \in Q \/ \E g \in Hosts : g # h /\ x \in Queues(host[g])
      BY <1>4
    <3>2. fate[x] = "queued" <=> x \in H \/ \E g \in Hosts : g # h /\ x \in Queues(host[g])
      BY <2>1 DEF HeldIffQueued, H
    <3>3. x \in H \/ x \in S => ~\E g \in Hosts : g # h /\ x \in Queues(host[g])
      BY <2>3, <2>4
    <3>4. CASE x \in Q
      BY <1>6, <3>1, <3>4
    <3>5. CASE x \in R
      BY <1>3, <1>6, <3>1, <3>3, <3>5 DEF Q
    <3>6. CASE x \notin Q /\ x \notin R /\ (x \in G \/ x \in H)
      <4>1. x \in H \/ x \in S
        BY <1>2, <1>3, <3>6
      <4>2. fate'[x] # "queued"
        BY <1>6, <3>6
      <4> QED
        BY <3>1, <3>3, <3>6, <4>1, <4>2
    <3>7. CASE x \notin Q /\ x \notin R /\ x \notin G /\ x \notin H
      BY <1>6, <3>1, <3>2, <3>7
    <3> QED
      BY <3>4, <3>5, <3>6, <3>7
  <2>7. KeptByOne'
    <3> SUFFICES ASSUME NEW f \in Hosts, NEW g \in Hosts, f # g
                 PROVE  Queues(host'[f]) \cap Queues(host'[g]) = {}
      BY DEF KeptByOne, Queues
    <3>1. \A e \in Hosts : e # h => Queues(host[e]) \cap Q = {}
      BY <1>3, <2>3, <2>4
    <3> QED
      BY <1>4, <2>1, <3>1 DEF KeptByOne
  <2> QED
    BY <2>5, <2>6, <2>7
<1> QED
  BY <1>8, <1>9, <1>10

(* A handler runs and its frames go on the air. *)
LEMMA BecomesKeeps ==
  ASSUME LinkInv, NEW h \in Hosts, NEW q, NEW S, Passes(host[h], q, S), NEW taken \in {0, 1},
         \A x \in S : x \in DOMAIN fate /\ fate[x] = "unsent",
         Becomes(h, q, taken), UNCHANGED <<app, linkplan>>
  PROVE  LinkInv'
<1>1. Intact(q)
  BY DEF Passes
<1>2. OnAir(h, q, taken) /\ fate' = [x \in DOMAIN fate |-> IF x \in {} THEN "refused" ELSE FateOf(x, host[h], q)]
  BY DEF Becomes
<1>3. host' = [host EXCEPT ![h] = [q EXCEPT !.out = <<>>]]
  BY <1>2 DEF OnAir
<1>4. wire' \in [Hosts -> Seq(Frame)]
  BY <1>1, <1>2, AirIs
<1> DEFINE R == {}
<1>5. fate' \in [1 .. linkplan.packets -> Fates] /\ TablesIntact' /\ FatesKnown'
  <2>1. R \subseteq S /\ R \cap (Queues(q) \cup Gone(q)) = {}
    OBVIOUS
  <2>2. fate' = [x \in DOMAIN fate |-> IF x \in R THEN "refused" ELSE FateOf(x, host[h], q)]
    BY <1>2
  <2> HIDE DEF R
  <2> QED
    BY <1>3, <2>1, <2>2, FatesFollow
<1>6. host' \in [Hosts -> HostRec]
  BY <1>1, <1>3, OtherTables
<1> QED
  BY <1>4, <1>5, <1>6 DEF LinkInv, LinkTypes, ClosersClose

(* A packet is given back to the caller. *)
LEMMA RefusedKeeps ==
  ASSUME LinkInv, NEW h \in Hosts, NEW q, NEW p \in DOMAIN fate, fate[p] = "unsent",
         Passes(host[h], q, {p}), p \notin Gone(q) \cup Queues(q), OnAir(h, q, 0),
         fate' = [x \in DOMAIN fate |-> IF x = p THEN "refused" ELSE FateOf(x, host[h], q)],
         UNCHANGED <<app, linkplan>>
  PROVE  LinkInv'
<1>1. Intact(q)
  BY DEF Passes
<1>2. fate' = [x \in DOMAIN fate |-> IF x \in {p} THEN "refused" ELSE FateOf(x, host[h], q)]
  OBVIOUS
<1>3. host' = [host EXCEPT ![h] = [q EXCEPT !.out = <<>>]]
  BY DEF OnAir
<1>4. wire' \in [Hosts -> Seq(Frame)]
  BY <1>1, AirIs
<1> DEFINE R == {p}
<1>5. fate' \in [1 .. linkplan.packets -> Fates] /\ TablesIntact' /\ FatesKnown'
  <2>1. /\ R \subseteq R /\ R \cap (Queues(q) \cup Gone(q)) = {} /\ Passes(host[h], q, R)
        /\ \A x \in R : x \in DOMAIN fate /\ fate[x] = "unsent"
    OBVIOUS
  <2>2. fate' = [x \in DOMAIN fate |-> IF x \in R THEN "refused" ELSE FateOf(x, host[h], q)]
    BY <1>2
  <2> HIDE DEF R
  <2> QED
    BY <1>3, <2>1, <2>2, FatesFollow
<1>6. host' \in [Hosts -> HostRec]
  BY <1>1, <1>3, OtherTables
<1> QED
  BY <1>4, <1>5, <1>6 DEF LinkInv, LinkTypes, ClosersClose

(* A packet that is not sent yet is new to every host. *)
LEMMA UnsentIsNew ==
  ASSUME LinkInv, NEW h \in Hosts, NEW p \in DOMAIN fate, fate[p] = "unsent"
  PROVE  Intact(host[h]) /\ New(host[h], p)
<1>1. Intact(host[h]) /\ Gone(host[h]) = {} /\ p \notin Queues(host[h])
  BY DEF LinkInv, TablesIntact, Gone
<1>2. DOMAIN fate = 1 .. linkplan.packets /\ linkplan.packets \in Nat
  BY LinkAssumption DEF LinkInv, LinkTypes
<1>3. p \in Nat /\ p # 0
  BY <1>2
<1> QED
  BY <1>1, <1>3 DEF New, Seen

(* The stack sends a packet, or fails to. *)
LEMMA SendKeeps ==
  ASSUME LinkInv, NEW h \in Hosts, Send(h) \/ SendFails(h)
  PROVE  LinkInv'
<1>1. PICK p \in DOMAIN fate, ip \in linkplan.to[h], ok \in Memory :
        /\ fate[p] = "unsent" /\ UNCHANGED <<app, linkplan>>
        /\ LET q == etharp_output(host[h], h, p, ip, ok) IN
           \/ Becomes(h, q, 0)
           \/ /\ p \notin Gone(q) \cup Queues(q) /\ OnAir(h, q, 0)
              /\ fate' = [x \in DOMAIN fate |-> IF x = p THEN "refused" ELSE FateOf(x, host[h], q)]
  <2>1. CASE Send(h)
    BY <2>1 DEF Send
  <2>2. CASE SendFails(h)
    BY <2>2 DEF SendFails
  <2> QED
    BY <2>1, <2>2
<1> DEFINE q == etharp_output(host[h], h, p, ip, ok)
<1>2. ip \in Nat
  BY LinkAssumption DEF LinkInv, LinkTypes
<1>3. Passes(host[h], q, {p})
  BY <1>1, <1>2, UnsentIsNew, OutputPasses
<1> HIDE DEF q
<1>4. CASE Becomes(h, q, 0)
  BY <1>1, <1>3, <1>4, BecomesKeeps
<1>5. CASE /\ p \notin Gone(q) \cup Queues(q) /\ OnAir(h, q, 0)
           /\ fate' = [x \in DOMAIN fate |-> IF x = p THEN "refused" ELSE FateOf(x, host[h], q)]
  BY <1>1, <1>3, <1>5, RefusedKeeps
<1> QED
  BY <1>1, <1>4, <1>5 DEF q

(* The handlers of the tcpip thread that are given no packet *)
LEMMA HandlersKeep ==
  ASSUME LinkInv, NEW h \in Hosts, Hear(h) \/ ArpTick(h) \/ AutoipTick(h)
  PROVE  LinkInv'
<1>1. Intact(host[h]) /\ linkplan \in LinkPlans /\ wire[h] \in Seq(Frame)
  BY DEF LinkInv, TablesIntact, LinkTypes
<1>2. CASE Hear(h)
  <2>1. PICK w \in PROBE_WAITS, ok \in Memory : Becomes(h, ethernet_input(host[h], h, Head(wire[h]), w, ok), 1)
    BY <1>2 DEF Hear
  <2>2. Head(wire[h]) \in Frame /\ w \in Nat /\ UNCHANGED <<app, linkplan>>
    BY <1>1, <1>2, LinkWaits DEF Hear
  <2>3. Passes(host[h], ethernet_input(host[h], h, Head(wire[h]), w, ok), {})
    BY <1>1, <2>2, InputPasses
  <2> QED
    BY <2>1, <2>2, <2>3, BecomesKeeps
<1>3. CASE ArpTick(h)
  <2>1. Becomes(h, etharp_tmr(host[h]), 0) /\ UNCHANGED <<app, linkplan>>
    BY <1>3 DEF ArpTick
  <2>2. Passes(host[h], etharp_tmr(host[h]), {})
    BY <1>1, TmrPasses
  <2> QED
    BY <2>1, <2>2, BecomesKeeps
<1>4. CASE AutoipTick(h)
  <2>1. PICK w \in PROBE_WAITS, ok \in Memory : Becomes(h, autoip_tmr(host[h], h, w, ok), 0)
    BY <1>4 DEF AutoipTick
  <2>2. w \in Nat /\ UNCHANGED <<app, linkplan>>
    BY <1>4, LinkWaits DEF AutoipTick
  <2>3. Passes(host[h], autoip_tmr(host[h], h, w, ok), {})
    BY <1>1, <2>2, AutoipTmrPasses
  <2> QED
    BY <2>1, <2>2, <2>3, BecomesKeeps
<1> QED
  BY <1>2, <1>3, <1>4

(* A call through netifapi. *)
LEMMA CallKeeps ==
  ASSUME LinkInv, NEW h \in Hosts, NEW name, NEW q, NEW ok, Passes(host[h], q, {}), Call(h, name, q, ok)
  PROVE  LinkInv'
  BY BecomesKeeps DEF Call

(* Each of the calls. *)
LEMMA CallsKeep ==
  ASSUME LinkInv, NEW h \in Hosts,
         SetDown(h) \/ SetUp(h) \/ SetAddr(h) \/ LinkDown(h) \/ LinkUp(h) \/ AutoipStop(h)
  PROVE  LinkInv'
<1> DEFINE r == host[h]
<1>1. Intact(r) /\ r \in HostRec /\ linkplan \in LinkPlans
  BY DEF LinkInv, TablesIntact, LinkTypes, Intact
<1>2. CASE SetDown(h)
  BY <1>1, <1>2, DownPasses, CallKeeps DEF SetDown
<1>3. CASE SetUp(h)
  <2>1. PICK ok \in Memory : Call(h, "up", netif_set_up(r, h, ok), ok)
    BY <1>3 DEF SetUp
  <2>2. Passes(r, netif_set_up(r, h, ok), {})
    BY <1>1, UpPasses
  <2> QED
    BY <2>1, <2>2, CallKeeps
<1>4. CASE SetAddr(h)
  <2>1. PICK ip \in linkplan.ips : Call(h, "addr", netif_set_ipaddr(r, ip), ~r.up)
    BY <1>4 DEF SetAddr
  <2>2. ip \in Nat
    BY <1>1, LinkAssumption
  <2>3. Passes(r, netif_set_ipaddr(r, ip), {})
    BY <1>1, <2>2, IpaddrPasses
  <2> QED
    BY <2>1, <2>3, CallKeeps
<1>5. CASE LinkDown(h)
  <2> DEFINE q == [r EXCEPT !.link = FALSE]
  <2>1. q \in HostRec /\ q.tbl = r.tbl /\ q.out = r.out
    BY <1>1 DEF HostRec
  <2>2. Call(h, "link", q, TRUE)
    BY <1>5 DEF LinkDown
  <2> HIDE DEF q
  <2>3. Passes(r, q, {})
    BY <1>1, <2>1, SameTable
  <2> QED
    BY <2>2, <2>3, CallKeeps
<1>6. CASE LinkUp(h)
  <2> DEFINE s == [r EXCEPT !.link = TRUE]
  <2>1. PICK w \in PROBE_WAITS, ok \in Memory :
          LET q == autoip_network_changed(s, w) IN
          Call(h, "link", IF q.up THEN etharp_request(q, h, q.ip, ok) ELSE q, ok)
    BY <1>6 DEF LinkUp
  <2> DEFINE q == autoip_network_changed(s, w)
  <2>2. w \in Nat
    BY LinkWaits
  <2>3. s \in HostRec /\ s.tbl = r.tbl /\ s.out = r.out
    BY <1>1 DEF HostRec
  <2>4. Call(h, "link", IF q.up THEN etharp_request(q, h, q.ip, ok) ELSE q, ok)
    BY <2>1
  <2> HIDE DEF s
  <2>5. Passes(r, s, {})
    BY <1>1, <2>3, SameTable
  <2>6. Passes(s, q, {})
    BY <2>2, <2>5, ChangedPasses DEF Passes
  <2> HIDE DEF q
  <2>7. Passes(r, q, {})
    BY <2>5, <2>6, ThenPasses
  <2>8. Intact(q) /\ q.ip \in Nat
    BY <2>7 DEF Passes, Intact, HostRec
  <2>9. Passes(q, etharp_request(q, h, q.ip, ok), {})
    BY <2>8, RequestPasses
  <2>10. Passes(r, etharp_request(q, h, q.ip, ok), {})
    BY <2>7, <2>9, ThenPasses
  <2>11. Passes(r, IF q.up THEN etharp_request(q, h, q.ip, ok) ELSE q, {})
    BY <2>7, <2>10
  <2> QED
    BY <2>4, <2>11, CallKeeps
<1>7. CASE AutoipStop(h)
  <2>1. Passes(r, autoip_stop(r), {})
    BY <1>1, StopPasses
  <2> QED
    BY <1>7, <2>1, CallKeeps DEF AutoipStop
<1> QED
  BY <1>2, <1>3, <1>4, <1>5, <1>6, <1>7

(* The application's thread works on the table without the fates being     *)
(* kept: only a closer drops a packet.                                     *)
LEMMA AppKeeps ==
  ASSUME LinkInv, NEW h \in Hosts, NEW q, Passes(host[h], q, {}), q.out = <<>>,
         host' = [host EXCEPT ![h] = q], app' \in [Hosts -> AppRec], ClosersClose',
         UNCHANGED <<wire, linkplan>>, fate' \in [1 .. linkplan.packets -> Fates],
         \A x \in DOMAIN fate : fate'[x] = "unsent" => fate[x] = "unsent",
         "close" \in linkplan.calls \/ (fate' = fate /\ q.tbl = host[h].tbl)
  PROVE  LinkInv'
<1>1. host \in [Hosts -> HostRec] /\ fate \in [1 .. linkplan.packets -> Fates]
  BY DEF LinkInv, LinkTypes
<1>2. 0 \notin {}
  OBVIOUS
<1>3. Intact(q) /\ q \in HostRec /\ Queues(q) \subseteq Queues(host[h])
  <2>1. Queues(q) \subseteq Queues(host[h]) \cup {}
    BY <1>2, SeenIs
  <2> QED
    BY <2>1 DEF Passes, Intact
<1>4. host' \in [Hosts -> HostRec] /\ host'[h] = q /\ \A g \in Hosts : g # h => host'[g] = host[g]
  BY <1>1, <1>3
<1>5. DOMAIN fate' = DOMAIN fate
  BY <1>1
<1>6. LinkTypes'
  BY <1>4 DEF LinkInv, LinkTypes
<1>7. ASSUME NEW g \in Hosts
      PROVE  Intact(host'[g]) /\ host'[g].out = <<>> /\ Queues(host'[g]) \subseteq Queues(host[g])
  BY <1>3, <1>4 DEF LinkInv, TablesIntact
<1>8. TablesIntact'
  <2> SUFFICES ASSUME NEW g \in Hosts
               PROVE  /\ Intact(host'[g]) /\ host'[g].out = <<>>
                      /\ \A x \in Queues(host'[g]) : x \in DOMAIN fate' /\ fate'[x] # "unsent"
    BY DEF TablesIntact, Intact, Queues, Gone
  <2>1. \A x \in Queues(host[g]) : x \in DOMAIN fate /\ fate[x] # "unsent"
    BY DEF LinkInv, TablesIntact
  <2> QED
    BY <1>5, <1>7, <2>1
<1>9. FatesKnown'
  <2> SUFFICES ASSUME "close" \notin linkplan.calls
               PROVE  FreedOnce' /\ HeldIffQueued' /\ KeptByOne'
    BY DEF FatesKnown
  <2>1. fate' = fate /\ \A g \in Hosts : Queues(host'[g]) = Queues(host[g])
    BY <1>4 DEF Queues
  <2>2. FreedOnce /\ HeldIffQueued /\ KeptByOne
    BY DEF LinkInv, FatesKnown
  <2>3. FreedOnce'
    BY <2>1, <2>2 DEF FreedOnce
  <2>4. HeldIffQueued'
    <3>1. \A x \in DOMAIN fate : fate'[x] = "queued" <=> \E g \in Hosts : x \in Queues(host'[g])
      BY <2>1, <2>2 DEF HeldIffQueued
    <3> QED
      BY <1>5, <3>1 DEF HeldIffQueued, Queues
  <2>5. KeptByOne'
    <3>1. \A f, g \in Hosts : f # g => Queues(host'[f]) \cap Queues(host'[g]) = {}
      BY <2>1, <2>2 DEF KeptByOne
    <3> QED
      BY <3>1 DEF KeptByOne, Queues
  <2> QED
    BY <2>3, <2>4, <2>5
<1> QED
  BY <1>6, <1>8, <1>9 DEF LinkInv

(* etharp_free_entry. *)
LEMMA FreeEntryPasses ==
  ASSUME NEW r, Intact(r), NEW i \in Slots
  PROVE  Passes(r, etharp_free_entry(r, i), {}) /\ etharp_free_entry(r, i).out = r.out
<1> DEFINE q == etharp_free_entry(r, i)
<1>1. r \in HostRec
  BY DEF Intact
<1>2. q \in HostRec /\ q.out = r.out /\ Only(r, q, i) /\ q.tbl[i].q = 0 /\ q.tbl[i].state = "EMPTY"
  BY <1>1, FreeEntryIs
<1> HIDE DEF q
<1>3. EntryOK(q.tbl[i])
  BY <1>2 DEF EntryOK
<1>4. Passes(r, q, {})
  BY <1>2, <1>3, Entered
<1> QED
  BY <1>2, <1>4 DEF q

(* Where the closing thread goes next *)
LEMMA NextSlotIs ==
  ASSUME NEW a \in AppRec
  PROVE  NextSlot(a) \in AppRec
<1>1. NoApp \in AppRec
  BY LinkSizes DEF NoApp, AppRec
<1>2. a.i + 1 \in Slots => [NoApp EXCEPT !.pc = "clean", !.i = a.i + 1] \in AppRec
  BY <1>1 DEF AppRec
<1> QED
  BY <1>1, <1>2 DEF NextSlot

(* The steps of a close in the thread of the application. *)
LEMMA ClosingKeeps ==
  ASSUME LinkInv, NEW h \in Hosts, AppDown(h) \/ AppClean(h) \/ AppFree(h)
  PROVE  LinkInv'
<1> DEFINE r == host[h]
           a == app[h]
<1>1. /\ Intact(r) /\ r \in HostRec /\ r.out = <<>> /\ app \in [Hosts -> AppRec] /\ a \in AppRec
      /\ host \in [Hosts -> HostRec] /\ fate \in [1 .. linkplan.packets -> Fates]
  BY DEF LinkInv, TablesIntact, LinkTypes, Intact
<1>2. a.i \in Slots
  BY <1>1 DEF AppRec
<1>3. "close" \in linkplan.calls
  BY DEF AppDown, AppClean, AppFree, LinkInv, ClosersClose
<1>4. UNCHANGED <<wire, linkplan>>
  BY DEF AppDown, AppClean, AppFree, AppDoes
<1>5. ClosersClose'
  BY <1>3, <1>4 DEF ClosersClose
<1>6. CASE AppDown(h)
  <2> DEFINE q == [r EXCEPT !.up = FALSE]
             b == [NoApp EXCEPT !.pc = "clean"]
  <2>1. host' = [host EXCEPT ![h] = q] /\ app' = [app EXCEPT ![h] = b] /\ fate' = fate
    BY <1>6 DEF AppDown
  <2>2. q \in HostRec /\ q.tbl = r.tbl /\ q.out = r.out
    BY <1>1 DEF HostRec
  <2>3. b \in AppRec
    BY LinkSizes DEF NoApp, AppRec
  <2> HIDE DEF q, b
  <2>4. Passes(r, q, {}) /\ app' \in [Hosts -> AppRec]
    BY <1>1, <2>1, <2>2, <2>3, SameTable
  <2> QED
    BY <1>1, <1>3, <1>4, <1>5, <2>1, <2>2, <2>4, AppKeeps
<1>7. CASE AppClean(h)
  <2> DEFINE e == r.tbl[a.i]
             s == etharp_free_entry(r, a.i)
             b == [a EXCEPT !.pc = "free", !.q = e.q]
  <2>1. PICK q \in {r, s}, c \in {NextSlot(a), b} : AppDoes(h, q, c) /\ fate' = fate
    BY <1>7 DEF AppClean
  <2>2. e.q \in Nat
    BY <1>1, <1>2 DEF HostRec, EntryRec
  <2>3. b \in AppRec
    BY <1>1, <2>2 DEF AppRec
  <2>4. c \in AppRec
    BY <1>1, <2>1, <2>3, NextSlotIs
  <2>5. Passes(r, q, {}) /\ q.out = <<>>
    BY <1>1, <1>2, <2>1, PassesSelf, FreeEntryPasses
  <2>6. host' = [host EXCEPT ![h] = q] /\ app' \in [Hosts -> AppRec]
    BY <1>1, <2>1, <2>4 DEF AppDoes
  <2> QED
    BY <1>1, <1>3, <1>4, <1>5, <2>1, <2>5, <2>6, AppKeeps
<1>8. CASE AppFree(h)
  <2> DEFINE q == etharp_free_entry(r, a.i)
             f == IF fate[a.q] = "queued" THEN "freed" ELSE "twice"
  <2>1. host' = [host EXCEPT ![h] = q] /\ app' = [app EXCEPT ![h] = NextSlot(a)] /\ fate' = [fate EXCEPT ![a.q] = f]
    BY <1>8 DEF AppFree, AppDoes
  <2>2. Passes(r, q, {}) /\ q.out = <<>>
    BY <1>1, <1>2, FreeEntryPasses
  <2>3. app' \in [Hosts -> AppRec]
    BY <1>1, <2>1, NextSlotIs
  <2>4. f \in Fates /\ f # "unsent"
    BY DEF Fates
  <2> HIDE DEF q, f
  <2>5. fate' \in [1 .. linkplan.packets -> Fates] /\ \A x \in DOMAIN fate : fate'[x] = "unsent" => fate[x] = "unsent"
    BY <1>1, <2>1, <2>4
  <2> QED
    BY <1>1, <1>3, <1>4, <1>5, <2>1, <2>2, <2>3, <2>5, AppKeeps
<1> QED
  BY <1>6, <1>7, <1>8

(* autoip_start in the thread of the application. *)
LEMMA AutoipStartKeeps ==
  ASSUME LinkInv, NEW h \in Hosts, AutoipStart(h)
  PROVE  LinkInv'
<1> DEFINE r == host[h]
<1>1. Intact(r) /\ r.out = <<>> /\ linkplan \in LinkPlans /\ app \in [Hosts -> AppRec] /\ ClosersClose
      /\ fate \in [1 .. linkplan.packets -> Fates]
  BY DEF LinkInv, TablesIntact, LinkTypes
<1>2. PICK w \in PROBE_WAITS : AppDoes(h, autoip_start(r, h, w), app[h])
  BY DEF AutoipStart
<1> DEFINE q == autoip_start(r, h, w)
<1>3. ~r.up /\ fate' = fate /\ w \in Nat
  BY LinkWaits DEF AutoipStart
<1>4. Passes(r, q, {}) /\ q.tbl = r.tbl /\ q.out = r.out
  BY <1>1, <1>3, StartPasses
<1>5. host' = [host EXCEPT ![h] = q] /\ app' = app /\ UNCHANGED <<wire, linkplan>>
  BY <1>1, <1>2 DEF AppDoes
<1>6. ClosersClose'
  BY <1>1, <1>5 DEF ClosersClose
<1> HIDE DEF q
<1> QED
  BY <1>1, <1>3, <1>4, <1>5, <1>6, AppKeeps

(* The rest of the invariant is not about the wire. *)
LEMMA WireApart ==
  ASSUME LinkInv, UNCHANGED <<host, fate, app, linkplan>>
  PROVE  TablesIntact' /\ ClosersClose' /\ FatesKnown'
<1>1. host' = host /\ fate' = fate /\ app' = app /\ linkplan' = linkplan
  OBVIOUS
<1>2. TablesIntact /\ ClosersClose /\ FatesKnown
  BY DEF LinkInv
<1>3. ClosersClose'
  BY <1>1, <1>2 DEF ClosersClose
<1>4. TablesIntact'
  <2> SUFFICES ASSUME NEW g \in Hosts
               PROVE  /\ Intact(host'[g]) /\ host'[g].out = <<>>
                      /\ \A x \in Queues(host'[g]) : x \in DOMAIN fate' /\ fate'[x] # "unsent"
    BY DEF TablesIntact, Intact, Queues, Gone
  <2> QED
    BY <1>1, <1>2 DEF TablesIntact
<1>5. FatesKnown'
  <2> SUFFICES ASSUME "close" \notin linkplan.calls
               PROVE  FreedOnce' /\ HeldIffQueued' /\ KeptByOne'
    BY DEF FatesKnown
  <2>1. FreedOnce /\ HeldIffQueued /\ KeptByOne
    BY <1>2 DEF FatesKnown
  <2>2. FreedOnce'
    BY <1>1, <2>1 DEF FreedOnce
  <2>3. HeldIffQueued'
    BY <1>1, <2>1 DEF HeldIffQueued, Queues
  <2>4. KeptByOne'
    BY <1>1, <2>1 DEF KeptByOne, Queues
  <2> QED
    BY <2>2, <2>3, <2>4
<1> QED
  BY <1>3, <1>4, <1>5

(* A frame is lost. *)
LEMMA MissKeeps ==
  ASSUME LinkInv, NEW h \in Hosts, Miss(h)
  PROVE  LinkInv'
<1>1. wire \in [Hosts -> Seq(Frame)] /\ wire[h] \in Seq(Frame) /\ wire[h] # <<>>
  BY DEF LinkInv, LinkTypes, Miss
<1>2. Tail(wire[h]) \in Seq(Frame)
  BY <1>1
<1>3. wire' \in [Hosts -> Seq(Frame)] /\ UNCHANGED <<host, fate, app, linkplan>>
  BY <1>1, <1>2 DEF Miss
<1>4. LinkTypes'
  BY <1>3 DEF LinkInv, LinkTypes
<1>5. TablesIntact' /\ ClosersClose' /\ FatesKnown'
  BY <1>3, WireApart
<1> QED
  BY <1>4, <1>5 DEF LinkInv

(* At first the tables are empty. *)
LEMMA LinkStarts == LinkInit => LinkInv
<1> SUFFICES ASSUME LinkInit PROVE LinkInv
  OBVIOUS
<1>1. /\ linkplan \in LinkPlans /\ host = [h \in Hosts |-> Fresh(linkplan.ip[h])] /\ wire = [h \in Hosts |-> <<>>]
      /\ fate = [p \in 1 .. linkplan.packets |-> "unsent"] /\ app = [h \in Hosts |-> NoApp]
  BY DEF LinkInit
<1>2. ASSUME NEW ip \in Nat
      PROVE  Fresh(ip) \in HostRec /\ Intact(Fresh(ip)) /\ Fresh(ip).out = <<>> /\ Queues(Fresh(ip)) = {}
  <2> DEFINE r == Fresh(ip)
             g == IF ip \in Near THEN 19 ELSE ANY
             t == [i \in Slots |-> Empty]
             S == {ip} \ {ANY}
             u == ip # ANY
             o == <<>>
  <2>1. Empty \in EntryRec /\ Empty.q = 0 /\ Empty.state = "EMPTY"
    BY AgesIs DEF Empty, EntryRec, ANY
  <2>2. t \in [Slots -> EntryRec] /\ g \in Nat /\ S \in SUBSET Nat /\ u \in BOOLEAN /\ o \in Seq(Frame)
    BY <2>1 DEF ANY
  <2>3. r = [up |-> u, link |-> TRUE, ip |-> ip, gw |-> g, auto |-> "OFF", sent |-> 0, ttw |-> 0, ll |-> ANY,
             tried |-> 0, conflict |-> 0, tbl |-> t, hint |-> 0, pcbs |-> S, out |-> o]
    BY DEF Fresh
  <2>4. 0 \in 0 .. TriedValues - 1 /\ 0 \in Slots
    BY LinkSizes
  <2> HIDE DEF r, g, t, S, u, o
  <2>5. r \in HostRec /\ r.tbl = t /\ r.out = o
    BY <2>2, <2>3, <2>4 DEF HostRec, ANY
  <2>6. \A i \in Slots : r.tbl[i] = Empty
    BY <2>5 DEF t
  <2>7. TableOK(r.tbl)
    BY <2>1, <2>6 DEF TableOK, EntryOK, Differ
  <2>8. Queues(r) = {} /\ r.out = <<>>
    BY <2>1, <2>5, <2>6 DEF Queues, o
  <2> QED
    BY <2>5, <2>7, <2>8 DEF Intact, r
<1>3. ASSUME NEW h \in Hosts
      PROVE  host[h] \in HostRec /\ Intact(host[h]) /\ host[h].out = <<>> /\ Queues(host[h]) = {}
  <2>1. linkplan.ip[h] \in Nat
    BY <1>1, LinkAssumption
  <2> QED
    BY <1>1, <1>2, <2>1
<1>4. NoApp \in AppRec /\ NoApp.pc = "idle"
  BY LinkSizes DEF NoApp, AppRec
<1>5. LinkTypes
  <2>1. host \in [Hosts -> HostRec]
    BY <1>1, <1>3
  <2>2. wire \in [Hosts -> Seq(Frame)]
    BY <1>1
  <2>3. fate \in [1 .. linkplan.packets -> Fates]
    BY <1>1 DEF Fates
  <2>4. app \in [Hosts -> AppRec]
    BY <1>1, <1>4
  <2> QED
    BY <1>1, <2>1, <2>2, <2>3, <2>4 DEF LinkTypes
<1>6. TablesIntact
  BY <1>3 DEF TablesIntact
<1>7. ClosersClose
  BY <1>1, <1>4 DEF ClosersClose
<1>8. FatesKnown
  BY <1>1, <1>3 DEF FatesKnown, FreedOnce, HeldIffQueued, KeptByOne
<1> QED
  BY <1>5, <1>6, <1>7, <1>8 DEF LinkInv

(* Every step keeps the invariant. *)
LEMMA LinkKeeps == LinkInv /\ [LinkNext]_linkVars => LinkInv'
<1> SUFFICES ASSUME LinkInv, [LinkNext]_linkVars PROVE LinkInv'
  OBVIOUS
<1>1. CASE UNCHANGED linkVars
  <2>1. UNCHANGED <<host, wire, fate, app, linkplan>>
    BY <1>1 DEF linkVars
  <2>2. LinkTypes'
    BY <2>1 DEF LinkInv, LinkTypes
  <2> QED
    BY <2>1, <2>2, WireApart DEF LinkInv
<1>2. ASSUME NEW h \in Hosts, LinkStep(h) PROVE LinkInv'
  BY <1>2, SendKeeps, HandlersKeep, CallsKeep, ClosingKeeps, AutoipStartKeeps, MissKeeps DEF LinkStep
<1> QED
  BY <1>1, <1>2 DEF LinkNext

(* The invariant says what ArpCoherent says. *)
LEMMA LinkSound == LinkInv => ArpCoherent
<1> SUFFICES ASSUME LinkInv PROVE ArpCoherent
  OBVIOUS
<1>1. ASSUME NEW h \in Hosts
      PROVE  /\ host[h] \in HostRec /\ Intact(host[h]) /\ host[h].out = <<>> /\ wire[h] \in Seq(Frame)
             /\ \A x \in Queues(host[h]) : x \in DOMAIN fate
  BY DEF LinkInv, LinkTypes, TablesIntact
<1>2. LinkTypeOK
  <2> SUFFICES ASSUME NEW h \in Hosts
               PROVE  /\ \A i \in Slots : host[h].tbl[i] \in Entry
                      /\ host[h].tried \in 0 .. TriedValues - 1 /\ host[h].hint \in Slots
                      /\ host[h].out = <<>> /\ wire[h] \in Seq(Frame)
    BY DEF LinkTypeOK
  <2>1. ASSUME NEW i \in Slots PROVE host[h].tbl[i] \in Entry
    <3> DEFINE e == host[h].tbl[i]
    <3>1. e \in EntryRec
      BY <1>1 DEF HostRec
    <3>2. e.q # 0 => e.q \in Queues(host[h])
      BY DEF Queues
    <3>3. e.q \in {0} \cup DOMAIN fate
      BY <1>1, <3>2
    <3> HIDE DEF e
    <3>4. e \in Entry
      BY <3>1, <3>3 DEF EntryRec, Entry, Ages
    <3> QED
      BY <3>4 DEF e
  <2> QED
    BY <1>1, <2>1 DEF HostRec
<1>3. \A h \in Hosts : TableOK(host[h].tbl)
  BY <1>1 DEF Intact
<1>4. "close" \notin linkplan.calls => FreedOnce /\ HeldIffQueued
  BY DEF LinkInv, FatesKnown
<1> QED
  BY <1>2, <1>3, <1>4 DEF ArpCoherent, TableOK, EntryOK, Differ

(* An address has one entry, a packet that waits is held once by an entry  *)
(* that waits, and none is sent or freed twice while only the tcpip thread *)
(* takes interfaces down, for any hosts, table, plans, losses, ages and    *)
(* seeds (etharp_find_entry, etharp_query, etharp_update_arp_entry).       *)
THEOREM ArpStaysCoherent == LinkSpec => []ArpCoherent
<1>1. LinkSpec => []LinkInv
  BY LinkStarts, LinkKeeps, PTL DEF LinkSpec
<1> QED
  BY <1>1, LinkSound, PTL

==============================================================================
