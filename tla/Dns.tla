-------------------------------- MODULE Dns ---------------------------------
(***************************************************************************)
(* The resolver: the table of dns.c, whose index is the identification of  *)
(* a query, and the threads that wait for it in netconn_gethostbyname      *)
(* (api_lib.c, api_msg.c) on behalf of netdb.c.  The table belongs to the  *)
(* tcpip thread: a message, an answer or a timeout is one step.  Queries   *)
(* and answers are lost, delayed and duplicated, and the servers are       *)
(* environment.  An address is written as the name it belongs to.          *)
(***************************************************************************)
EXTENDS Integers, Sequences, FiniteSets, SequencesExt, FiniteSetsExt, TLC

CONSTANTS
  DNS_TABLE_SIZE, DNS_MAX_SERVERS, DNS_MAX_RETRIES, DNS_MAX_TTL,
  SeqnoValues,          \* 256: seqno is a u8_t
  TtlValues,            \* 2^32: ttl is a u32_t
  MEMP_NUM_NETDB,
  DnsCallers,           \* threads that look up names
  DnsPlans              \* see DnsInit

ASSUME DnsAssumption ==
  /\ DNS_TABLE_SIZE \in Nat \ {0} /\ DNS_MAX_SERVERS \in Nat \ {0} /\ DNS_MAX_RETRIES \in Nat \ {0}
  /\ SeqnoValues \in Nat \ {0} /\ TtlValues \in Nat /\ DNS_MAX_TTL \in Nat /\ DNS_MAX_TTL < TtlValues
  /\ \A p \in DnsPlans : p.seqno \in 0 .. SeqnoValues - 1 /\ p.ttls \subseteq Nat /\ p.kinds \subseteq {"hostent", "addrinfo"}

VARIABLES
  dns_table, dns_seqno, dns_servers,
  dns_peer,             \* the server dns_pcb is connected to
  local_hostlist,       \* local_hostlist_dynamic
  queries,              \* the queries that may still be answered
  asker,                \* what each thread does
  hostent,              \* s_hostent of lwip_gethostbyname
  budget,               \* lookups, duplicates and other calls still to come
  dnsplan

dnsVars == <<dns_table, dns_seqno, dns_servers, dns_peer, local_hostlist, queries, asker, hostent, budget, dnsplan>>

DnsSlots == 0 .. DNS_TABLE_SIZE - 1
NoName == <<>>
Vacant == [state |-> "UNUSED", numdns |-> 0, tmr |-> 0, retries |-> 0, seqno |-> 0, ttl |-> 0,
           name |-> NoName, ip |-> NoName, found |-> 0]
Idle == [pc |-> "idle", name |-> NoName, kind |-> "", result |-> NoName, err |-> "", ai |-> 0]

(* A plan: the names that are looked up and the calls used for it, how     *)
(* many, the lifetimes servers give, how many answers are duplicated, how  *)
(* many servers are set, and whether the local list is used.  A name is    *)
(* the sequence of its labels; <<"1">> is an address in dotted notation.   *)
DnsInit ==
  /\ dnsplan \in DnsPlans
  /\ dns_table = [i \in DnsSlots |-> Vacant] /\ dns_seqno = dnsplan.seqno
  /\ dns_servers = 1 .. dnsplan.servers /\ dns_peer = 0 /\ local_hostlist = <<>> /\ queries = {}
  /\ asker = [c \in DnsCallers |-> Idle] /\ hostent = NoName
  /\ budget = [lookups |-> dnsplan.lookups, dups |-> dnsplan.dups, locals |-> dnsplan.locals]

Literal == <<"1">>

-----------------------------------------------------------------------------
(* An entry and its timer. *)

(* dns_check_entry, by what it does to the entry; e is sent (again) to its *)
(* server if Sends(e), and its asker is told if GivesUp(e).                *)
Expires(e) == e.state = "ASKING" /\ e.tmr = 1
Sends(e) == e.state = "NEW" \/ (Expires(e) /\ e.retries + 1 < DNS_MAX_RETRIES)
HasNext(e) == e.numdns + 1 < DNS_MAX_SERVERS /\ e.numdns + 2 \in dns_servers
GivesUp(e) == Expires(e) /\ ~Sends(e) /\ ~HasNext(e)
LiveFor(ttl) == (ttl - 1) % TtlValues
dns_check_entry(e) ==
  CASE e.state = "NEW" -> [e EXCEPT !.state = "ASKING", !.numdns = 0, !.tmr = 1, !.retries = 0]
    [] Expires(e) /\ Sends(e) -> [e EXCEPT !.retries = @ + 1, !.tmr = e.retries + 1]
    [] Expires(e) /\ ~Sends(e) /\ HasNext(e) -> [e EXCEPT !.numdns = @ + 1, !.tmr = 1, !.retries = 0]
    [] GivesUp(e) -> Vacant
    [] e.state = "ASKING" /\ ~Expires(e) -> [e EXCEPT !.tmr = @ - 1]
    [] e.state = "DONE" -> IF LiveFor(e.ttl) = 0 THEN Vacant ELSE [e EXCEPT !.ttl = LiveFor(@)]
    [] OTHER -> e

(* dns_send connects dns_pcb to the server it asks. *)
Query(i, e) == [id |-> i, name |-> e.name, server |-> e.numdns + 1]

(* do_dns_found: the asker's own message is written, then it is woken.     *)
do_dns_found(a, ip) == [a EXCEPT !.pc = "woken", !.result = ip, !.err = IF ip = NoName THEN "VAL" ELSE "OK"]

(* dns_enqueue: the first unused entry, else the completed one that is     *)
(* oldest by the difference of the u8_t numbers, else entry 0 if it is     *)
(* completed.                                                              *)
Unoccupied == {i \in DnsSlots : dns_table[i].state = "UNUSED"}
AgeOf(i) == dns_seqno - dns_table[i].seqno
Completed == {i \in DnsSlots : dns_table[i].state = "DONE" /\ AgeOf(i) > 0}
Evicted ==
  IF Completed = {} THEN 0
  ELSE CHOOSE i \in Completed : \A j \in Completed : AgeOf(j) < AgeOf(i) \/ (AgeOf(j) = AgeOf(i) /\ i <= j)
EntryFor == IF Unoccupied # {} THEN Min(Unoccupied) ELSE Evicted
Usable == Unoccupied # {} \/ dns_table[Evicted].state = "DONE"

(* dns_gethostbyname knows addresses, the local list and what is cached. *)
KnownLocally(name) == name = Literal \/ \E k \in DOMAIN local_hostlist : local_hostlist[k] = name
Cached(name) == {i \in DnsSlots : dns_table[i].state = "DONE" /\ dns_table[i].name = name}
Known(name) == KnownLocally(name) \/ Cached(name) # {}
dns_lookup(name) == IF KnownLocally(name) THEN name ELSE dns_table[Min(Cached(name))].ip

(* dns_compare_name stops where the answer's name ends. *)
dns_compare_name_off(query, response) == TRUE
dns_compare_name(query, response) == IsPrefix(response, query)

-----------------------------------------------------------------------------
(* The steps of the tcpip thread. *)

Rest == UNCHANGED <<dns_servers, local_hostlist, hostent, dnsplan>>

(* do_gethostbyname; ok: dns_send has memory. *)
dns_enqueue(c, i, e, ok) ==
  /\ dns_table' = [dns_table EXCEPT ![i] = dns_check_entry(e)]
  /\ dns_seqno' = (dns_seqno + 1) % SeqnoValues
  /\ dns_peer' = IF ok THEN 1 ELSE dns_peer
  /\ queries' = IF ok THEN queries \cup {Query(i, e)} ELSE queries
  /\ asker' = [asker EXCEPT ![c].pc = "waiting"]
DoGethostbyname(c) ==
  /\ asker[c].pc = "posted" /\ Rest /\ UNCHANGED budget
  /\ \/ /\ Known(asker[c].name)
        /\ asker' = [asker EXCEPT ![c] = do_dns_found(@, dns_lookup(@.name))]
        /\ UNCHANGED <<dns_table, dns_seqno, dns_peer, queries>>
     \/ /\ ~Known(asker[c].name) /\ ~Usable
        /\ asker' = [asker EXCEPT ![c].pc = "woken", ![c].err = "MEM"]
        /\ UNCHANGED <<dns_table, dns_seqno, dns_peer, queries>>
     \/ /\ ~Known(asker[c].name) /\ Usable
        /\ \E ok \in BOOLEAN, i \in {EntryFor} :
             dns_enqueue(c, i, [Vacant EXCEPT !.state = "NEW", !.seqno = dns_seqno, !.name = asker[c].name, !.found = c], ok)

(* dns_tmr goes through the table; the last query sent decides which       *)
(* server dns_pcb is connected to.                                         *)
GaveUp_silent(c) == FALSE
GaveUp(c) == \E i \in DnsSlots : GivesUp(dns_table[i]) /\ dns_table[i].found = c
Senders == {i \in DnsSlots : Sends(dns_table[i])}
DnsTick ==
  /\ Rest /\ UNCHANGED <<budget, dns_seqno>>
  /\ dns_table' = [i \in DnsSlots |-> dns_check_entry(dns_table[i])]
  /\ queries' = queries \cup {Query(i, dns_table[i]) : i \in Senders}
  /\ dns_peer' = IF Senders = {} THEN dns_peer ELSE dns_table[Max(Senders)].numdns + 1
  /\ asker' = [c \in DnsCallers |-> IF GaveUp(c) THEN do_dns_found(asker[c], NoName) ELSE asker[c]]

(* dns_recv: an answer that is not for the entry's name, says there is an  *)
(* error or has no address ends the query as much as one that is good.     *)
dns_recv(q, e, says, ttl) ==
  IF says = "address" /\ dns_compare_name(e.name, q.name)
  THEN /\ dns_table' = [dns_table EXCEPT ![q.id].state = "DONE", ![q.id].ip = q.name,
                                      ![q.id].ttl = Min({ttl, DNS_MAX_TTL})]
       /\ asker' = [asker EXCEPT ![e.found] = do_dns_found(@, q.name)]
  ELSE /\ dns_table' = [dns_table EXCEPT ![q.id] = Vacant]
       /\ asker' = [asker EXCEPT ![e.found] = do_dns_found(@, NoName)]
(* udp_input drops what does not come from the server dns_pcb is connected *)
(* to.                                                                     *)
DnsAnswer(q) ==
  /\ Rest /\ UNCHANGED <<dns_seqno, dns_peer>>
  /\ \/ UNCHANGED budget /\ queries' = queries \ {q}
     \/ budget.dups > 0 /\ budget' = [budget EXCEPT !.dups = @ - 1] /\ UNCHANGED queries
  /\ IF q.server = dns_peer /\ dns_table[q.id].state = "ASKING"
     THEN \E says \in {"address", "error"}, ttl \in dnsplan.ttls : dns_recv(q, dns_table[q.id], says, ttl)
     ELSE UNCHANGED <<dns_table, asker>>

(* dns_setserver; dns_local_addhost and dns_local_removehost. *)
DnsSetserver ==
  /\ budget.locals > 0 /\ budget' = [budget EXCEPT !.locals = @ - 1]
  /\ \E n \in 1 .. DNS_MAX_SERVERS : dns_servers' = dns_servers \cup {n}
  /\ UNCHANGED <<dns_table, dns_seqno, dns_peer, local_hostlist, queries, asker, hostent, dnsplan>>
DnsLocal ==
  /\ budget.locals > 0 /\ budget' = [budget EXCEPT !.locals = @ - 1]
  /\ \E name \in dnsplan.names :
       \/ local_hostlist' = <<name>> \o local_hostlist
       \/ local_hostlist' = SelectSeq(local_hostlist, LAMBDA n : n # name)
  /\ UNCHANGED <<dns_table, dns_seqno, dns_peer, dns_servers, queries, asker, hostent, dnsplan>>

-----------------------------------------------------------------------------
(* The steps of the threads that ask. *)

Asks(c, a) == /\ asker' = [asker EXCEPT ![c] = a]
              /\ UNCHANGED <<dns_table, dns_seqno, dns_servers, dns_peer, local_hostlist, queries, dnsplan>>

(* netconn_gethostbyname posts its message, which lies on its stack, and   *)
(* waits; that tcpip_callback may have had no memory goes unnoticed.       *)
Lookup(c) ==
  /\ asker[c].pc = "idle" /\ budget.lookups > 0 /\ budget' = [budget EXCEPT !.lookups = @ - 1]
  /\ \E name \in dnsplan.names, kind \in dnsplan.kinds, pc \in {"posted"} \cup (IF dnsplan.nomem THEN {"lost"} ELSE {}) :
       Asks(c, [Idle EXCEPT !.pc = pc, !.name = name, !.kind = kind])
  /\ UNCHANGED hostent

(* It returns: lwip_gethostbyname fills its static hostent, of which the   *)
(* caller gets a pointer, lwip_getaddrinfo takes an addrinfo of the pool.  *)
Infos == {c \in DnsCallers : asker[c].ai # 0}
Return(c) ==
  /\ asker[c].pc = "woken" /\ UNCHANGED budget
  /\ \/ asker[c].err = "OK" /\ asker[c].kind = "hostent"
        /\ hostent' = asker[c].result /\ Asks(c, [asker[c] EXCEPT !.pc = "using"])
     \/ asker[c].err = "OK" /\ asker[c].kind = "addrinfo"
        /\ Asks(c, IF Cardinality(Infos) < MEMP_NUM_NETDB THEN [asker[c] EXCEPT !.pc = "using", !.ai = 1]
                   ELSE [Idle EXCEPT !.err = "MEMORY"])
        /\ UNCHANGED hostent
     \/ asker[c].err # "OK" /\ Asks(c, [Idle EXCEPT !.err = asker[c].err]) /\ UNCHANGED hostent
(* lwip_freeaddrinfo, or the caller has read its hostent. *)
Finish(c) == asker[c].pc = "using" /\ Asks(c, Idle) /\ UNCHANGED <<hostent, budget>>

DnsNext ==
  \/ DnsTick \/ DnsSetserver \/ DnsLocal
  \/ \E q \in queries : DnsAnswer(q)
  \/ \E c \in DnsCallers : DoGethostbyname(c) \/ Lookup(c) \/ Return(c) \/ Finish(c)

DnsSpec == DnsInit /\ [][DnsNext]_dnsVars

(* dns_timer re-arms itself; the tcpip thread handles what is posted; a    *)
(* thread that was woken goes on.                                          *)
DnsFairness ==
  /\ WF_dnsVars(DnsTick)
  /\ \A c \in DnsCallers : WF_dnsVars(DoGethostbyname(c)) /\ WF_dnsVars(Return(c))

-----------------------------------------------------------------------------
(* A thread waits in netconn_gethostbyname if and only if exactly one      *)
(* entry will call it back, for the name it asked for (the assertion of    *)
(* do_dns_found): retries, evictions, late and duplicate answers never     *)
(* leave an entry that would write to the stack of a thread that has gone  *)
(* on, nor a thread that nobody wakes.                                     *)
Waits(c) == {i \in DnsSlots : dns_table[i].state \in {"NEW", "ASKING"} /\ dns_table[i].found = c}
OneCallsBack ==
  \A c \in DnsCallers :
    /\ Cardinality(Waits(c)) = (IF asker[c].pc = "waiting" THEN 1 ELSE 0)
    /\ \A i \in Waits(c) : dns_table[i].name = asker[c].name

(* What a thread was told is the address of the name it asked for. *)
ToldItsAddress ==
  \A c \in DnsCallers :
    asker[c].pc \in {"woken", "using"} /\ asker[c].err = "OK" => asker[c].result = asker[c].name

(* Every waiting caller is called back once, with its own name's address   *)
(* (dns_enqueue, dns_check_entry, dns_recv).                               *)
WaitersCalledBack == OneCallsBack /\ ToldItsAddress

(* dns_compare_name tells the names of a plan apart. *)
NamesApart(names) == \A s, t \in names : dns_compare_name(s, t) => s = t

(* A lookup returns, whatever is lost: the retries of every server run out. *)
LookupReturns == \A c \in DnsCallers : asker[c].pc \in {"posted", "waiting"} ~> asker[c].pc \in {"using", "idle"}

(* What lwip_gethostbyname returned is still that of its caller when it    *)
(* reads it: the hostent is one for all threads.                           *)
HostentIsOwn == \A c \in DnsCallers : asker[c].pc = "using" /\ asker[c].kind = "hostent" => hostent = asker[c].name
=============================================================================
