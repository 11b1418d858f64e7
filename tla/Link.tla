-------------------------------- MODULE Link --------------------------------
(***************************************************************************)
(* The link layer: the interfaces of netif.c, the ARP table of etharp.c    *)
(* and the choice of a link-local address of autoip.c, for hosts that      *)
(* share one audio channel.  Every host has one interface and hears every  *)
(* frame of the others: neither the driver nor ethernet_input looks at the *)
(* hardware address a frame is for.                                        *)
(*                                                                         *)
(* A step is one message or timeout of a host's tcpip thread, or one step  *)
(* of the application thread, which takes its interface down itself.  A    *)
(* host is a record, and the functions of the code are operators from host *)
(* records to host records; `out' collects the frames they put out.        *)
(***************************************************************************)
EXTENDS Integers, Sequences, FiniteSets, SequencesExt, FiniteSetsExt

CONSTANTS
  Hosts,                   \* the stations, named by their hardware addresses
  ARP_TABLE_SIZE,
  ARP_MAXAGE, ARP_AGE_REREQUEST_USED, ARP_MAXPENDING,      \* ticks of etharp_tmr
  PROBE_NUM, ANNOUNCE_NUM, MAX_CONFLICTS,
  PROBE_WAITS,             \* ticks before a probe: LWIP_AUTOIP_RAND chooses
  ANNOUNCE_WAIT, DEFEND_INTERVAL, RATE_LIMIT_INTERVAL,     \* ticks of autoip_tmr
  TriedValues,             \* how many values tried_llipaddr can have
  LinkLocals,              \* how many addresses AutoIP has to choose from
  MaxWire,                 \* frames a station may still have to hear
  LinkPlans                \* what the hosts do: see LinkInit

(* Addresses: 0 is IP_ADDR_ANY, then those of AutoIP, of the configured    *)
(* network and of hosts beyond the gateway.                                *)
ANY == 0
LinkLocal == 1 .. LinkLocals
Near == 11 .. 19
BROADCAST == 98
MULTICAST == 99
Slots == 0 .. ARP_TABLE_SIZE - 1

ASSUME LinkAssumption ==
  /\ ARP_TABLE_SIZE \in Nat \ {0} /\ LinkLocals \in 1 .. 9
  /\ ARP_MAXAGE \in 1 .. 255 /\ ARP_AGE_REREQUEST_USED \in 0 .. ARP_MAXAGE
  /\ TriedValues \in 2 .. 256 /\ PROBE_WAITS \subseteq Nat
  /\ {ANNOUNCE_WAIT, DEFEND_INTERVAL, RATE_LIMIT_INTERVAL} \subseteq Nat
  /\ \A plan \in LinkPlans :
       /\ plan.ip \in [Hosts -> Nat] /\ plan.seed \in [Hosts -> Nat] /\ plan.packets \in Nat
       /\ plan.ips \subseteq Nat /\ plan.to \in [Hosts -> SUBSET Nat]

VARIABLES
  host,     \* the interface, ARP table and AutoIP state of every host
  wire,     \* the frames each host has yet to hear
  fate,     \* what became of each packet handed to etharp_output
  app,      \* where the application thread of each host is
  faults,   \* frames lost, allocations failed, addresses changed unannounced
  ops,      \* calls the application may still make
  linkplan  \* the plan that is followed

linkVars == <<host, wire, fate, app, faults, ops, linkplan>>

Empty == [state |-> "EMPTY", ip |-> ANY, netif |-> FALSE, hw |-> "", ctime |-> 0, q |-> 0]
Fresh(ip) ==
  [up |-> ip # ANY, link |-> TRUE, ip |-> ip, gw |-> IF ip \in Near THEN 19 ELSE ANY,
   auto |-> "OFF", sent |-> 0, ttw |-> 0, ll |-> ANY, tried |-> 0, conflict |-> 0,
   tbl |-> [i \in Slots |-> Empty], hint |-> 0, pcbs |-> {ip} \ {ANY}, out |-> <<>>]

NoApp == [pc |-> "idle", i |-> 0, q |-> 0]

(* A plan: the address each host is created with (ANY: none yet), the      *)
(* destinations it sends to, its seed for AutoIP, the number of packets,   *)
(* the calls made and how many, how many frames may be lost, whether       *)
(* memory may run out.                                                     *)
LinkInit ==
  /\ linkplan \in LinkPlans
  /\ host = [h \in Hosts |-> Fresh(linkplan.ip[h])]
  /\ wire = [h \in Hosts |-> <<>>]
  /\ fate = [p \in 1 .. linkplan.packets |-> "unsent"]
  /\ app = [h \in Hosts |-> NoApp]
  /\ faults = 0 /\ ops = linkplan.ops

Arp(op, h, sip, dip) == [k |-> op, from |-> h, sip |-> sip, dip |-> dip, to |-> "", p |-> 0]
Ip(h, to, p) == [k |-> "ip", from |-> h, sip |-> ANY, dip |-> ANY, to |-> to, p |-> p]
Out(r, f) == [r EXCEPT !.out = Append(@, f)]

-----------------------------------------------------------------------------
(* The ARP table. *)

IsBroadcast(ip) == ip \in {ANY, BROADCAST}
NotOneHost(ip) == IsBroadcast(ip) \/ ip = MULTICAST
OnNet(r, ip) == r.ip = ANY \/ (r.ip \in Near /\ ip \in Near) \/ (r.ip \in LinkLocal /\ ip \in LinkLocal)

(* etharp_raw: ok tells if pbuf_alloc had memory. *)
etharp_raw(r, h, op, sip, dip, ok) == IF ok THEN Out(r, Arp(op, h, sip, dip)) ELSE r
etharp_request(r, h, ip, ok) == etharp_raw(r, h, "request", r.ip, ip, ok)

etharp_free_entry(r, i) == [r EXCEPT !.tbl[i].q = 0, !.tbl[i].state = "EMPTY"]

Aged(e) ==
  LET t == e.ctime + 1 IN
  IF e.state = "EMPTY" THEN e
  ELSE IF t >= ARP_MAXAGE \/ (e.state = "PENDING" /\ t >= ARP_MAXPENDING)
  THEN [e EXCEPT !.ctime = t, !.state = "EMPTY", !.q = 0]
  ELSE [e EXCEPT !.ctime = t, !.state = IF @ = "REREQUESTING" THEN "STABLE" ELSE @]
etharp_tmr(r) == [r EXCEPT !.tbl = [i \in Slots |-> Aged(r.tbl[i])]]

IsStable(e) == e.state \in {"STABLE", "REREQUESTING"}

(* The slot for ip, or -1: the entry for it, an empty one, or with         *)
(* TRY_HARD the oldest (of the last in the table, if two are as old) of    *)
(* the stable ones, else of those without a packet, else of all.           *)
Oldest(tbl, S) ==
  CHOOSE i \in S : \A j \in S : tbl[j].ctime < tbl[i].ctime \/ (tbl[j].ctime = tbl[i].ctime /\ j <= i)
Recyclable(tbl) ==
  LET idle == {i \in Slots : tbl[i].state = "PENDING" /\ tbl[i].q = 0} IN
  IF \E i \in Slots : IsStable(tbl[i]) THEN {i \in Slots : IsStable(tbl[i])}
  ELSE IF idle # {} THEN idle ELSE Slots
Slot_first_empty(tbl, ip, flag) ==
  IF \E i \in Slots : tbl[i].state = "EMPTY" THEN Min({i \in Slots : tbl[i].state = "EMPTY"})
  ELSE IF \E i \in Slots : tbl[i].ip = ip THEN Min({i \in Slots : tbl[i].ip = ip})
  ELSE IF flag = "TRY_HARD" THEN Oldest(tbl, Recyclable(tbl)) ELSE -1
Slot(tbl, ip, flag) ==
  IF \E i \in Slots : tbl[i].state # "EMPTY" /\ tbl[i].ip = ip
  THEN Min({i \in Slots : tbl[i].state # "EMPTY" /\ tbl[i].ip = ip})
  ELSE IF flag = "FIND_ONLY" THEN -1
  ELSE IF \E i \in Slots : tbl[i].state = "EMPTY" THEN Min({i \in Slots : tbl[i].state = "EMPTY"})
  ELSE IF flag = "TRY_HARD" THEN Oldest(tbl, Recyclable(tbl)) ELSE -1

(* etharp_find_entry: makes the slot ready for ip unless it already is. *)
Found(r, i, ip) ==
  IF r.tbl[i].state # "EMPTY" /\ r.tbl[i].ip = ip THEN r
  ELSE [etharp_free_entry(r, i) EXCEPT !.tbl[i].ip = ip, !.tbl[i].ctime = 0]

(* A packet waiting in the entry goes out. *)
Learned(r, h, i, hw) ==
  [r EXCEPT !.tbl[i] = [r.tbl[i] EXCEPT !.state = "STABLE", !.netif = TRUE, !.hw = hw, !.ctime = 0, !.q = 0],
            !.out = IF r.tbl[i].q = 0 THEN @ ELSE Append(@, Ip(h, hw, r.tbl[i].q))]

etharp_update_arp_entry(r, h, ip, hw, flag) ==
  IF NotOneHost(ip) \/ Slot(r.tbl, ip, flag) < 0 THEN r
  ELSE Learned(Found(r, Slot(r.tbl, ip, flag), ip), h, Slot(r.tbl, ip, flag), hw)

etharp_cleanup_netif(r) ==
  [r EXCEPT !.tbl = [i \in Slots |-> IF r.tbl[i].netif THEN [r.tbl[i] EXCEPT !.q = 0, !.state = "EMPTY"]
                                     ELSE r.tbl[i]]]

etharp_output_to_arp_index(r, h, p, i, ok) ==
  IF r.tbl[i].state = "STABLE" /\ r.tbl[i].ctime >= ARP_AGE_REREQUEST_USED
  THEN Out([etharp_request(r, h, r.tbl[i].ip, ok) EXCEPT
              !.tbl[i].state = IF ok THEN "REREQUESTING" ELSE @], Ip(h, r.tbl[i].hw, p))
  ELSE Out(r, Ip(h, r.tbl[i].hw, p))

(* The packet is copied and kept, in the place of one kept before. *)
Kept(r, i, p, ok) == IF ok THEN [r EXCEPT !.tbl[i].q = p] ELSE r
Queried(r, h, i, ip, p, ok) ==
  IF IsStable(r.tbl[i])
  THEN Out([r EXCEPT !.hint = i], Ip(h, r.tbl[i].hw, p))
  ELSE Kept(etharp_request([r EXCEPT !.tbl[i].state = "PENDING"], h, ip, ok), i, p, ok)
etharp_query(r, h, ip, p, ok) ==
  IF NotOneHost(ip) THEN r
  ELSE Queried(Found(r, Slot(r.tbl, ip, "TRY_HARD"), ip), h, Slot(r.tbl, ip, "TRY_HARD"), ip, p, ok)

(* The next hop, or ANY when there is no route; a packet from a link-local *)
(* address does not go to a gateway.                                       *)
NextHop(r, ip) == IF OnNet(r, ip) \/ ip \in LinkLocal \/ r.ip \in LinkLocal THEN ip ELSE r.gw

Resolved(r, h, p, ip, ok) ==
  IF IsStable(r.tbl[r.hint]) /\ r.tbl[r.hint].ip = ip
  THEN etharp_output_to_arp_index(r, h, p, r.hint, ok)
  ELSE IF \E i \in Slots : IsStable(r.tbl[i]) /\ r.tbl[i].ip = ip
  THEN LET i == Min({j \in Slots : IsStable(r.tbl[j]) /\ r.tbl[j].ip = ip})
       IN etharp_output_to_arp_index([r EXCEPT !.hint = i], h, p, i, ok)
  ELSE etharp_query(r, h, ip, p, ok)
etharp_output(r, h, p, ip, ok) ==
  IF NotOneHost(ip) THEN Out(r, Ip(h, "all", p))
  ELSE IF NextHop(r, ip) = ANY THEN r
  ELSE Resolved(r, h, p, NextHop(r, ip), ok)

-----------------------------------------------------------------------------
(* Interfaces. *)

(* Connections from the old address are aborted, unless it is link-local. *)
netif_set_ipaddr(r, ip) ==
  [r EXCEPT !.ip = ip, !.pcbs = IF ip # r.ip /\ r.ip \notin LinkLocal THEN @ \ {r.ip} ELSE @]
netif_set_up(r, h, ok) ==
  IF r.up THEN r
  ELSE IF r.link THEN etharp_request([r EXCEPT !.up = TRUE], h, r.ip, ok)
  ELSE [r EXCEPT !.up = TRUE]
netif_set_down(r) == IF r.up THEN etharp_cleanup_netif([r EXCEPT !.up = FALSE]) ELSE r

-----------------------------------------------------------------------------
(* AutoIP.  w is the wait LWIP_AUTOIP_RAND comes to. *)

autoip_create_addr(h, tried) == 1 + ((linkplan.seed[h] + tried) % LinkLocals)
autoip_start_probing(r, w) ==
  [r EXCEPT !.auto = "PROBING", !.sent = 0,
            !.ttw = IF r.tried > MAX_CONFLICTS THEN RATE_LIMIT_INTERVAL ELSE w]
Zeroed(r) == [r EXCEPT !.ip = ANY, !.gw = ANY]
AddressChosen(r, h, w) ==
  autoip_start_probing([r EXCEPT !.conflict = 0, !.ll = autoip_create_addr(h, r.tried)], w)
autoip_start(r, h, w) == AddressChosen(Zeroed(netif_set_down(r)), h, w)
autoip_restart(r, h, w) == autoip_start([r EXCEPT !.tried = (@ + 1) % TriedValues], h, w)
autoip_arp_announce(r, h, ok) == etharp_raw(r, h, "request", r.ll, r.ll, ok)

autoip_handle_arp_conflict_defends(r, h, w, ok) ==
  [autoip_arp_announce(r, h, ok /\ r.conflict = 0) EXCEPT !.conflict = DEFEND_INTERVAL]
autoip_handle_arp_conflict(r, h, w, ok) ==
  IF r.conflict > 0 THEN autoip_restart(r, h, w)
  ELSE [autoip_arp_announce(r, h, ok) EXCEPT !.conflict = DEFEND_INTERVAL]

autoip_bind(r, h, ok) ==
  netif_set_up([netif_set_ipaddr(r, r.ll) EXCEPT !.gw = ANY], h, ok)

autoip_network_changed(r, w) ==
  IF r.auto = "OFF" THEN r ELSE autoip_start_probing(netif_set_down(r), w)
autoip_stop(r) == netif_set_down([r EXCEPT !.auto = "OFF"])

Announced(r) ==
  IF r.sent + 1 >= ANNOUNCE_NUM THEN [r EXCEPT !.auto = "BOUND", !.sent = 0, !.ttw = 0]
  ELSE [r EXCEPT !.sent = @ + 1, !.ttw = ANNOUNCE_WAIT]
Elapsed(r) == [r EXCEPT !.conflict = Max({0, @ - 1})]
Ticked(r, h, w, ok) ==
  IF r.auto \notin {"PROBING", "ANNOUNCING"} THEN r
  ELSE IF r.ttw > 0 THEN [r EXCEPT !.ttw = @ - 1]
  ELSE IF r.auto = "PROBING" /\ r.sent >= PROBE_NUM
  THEN [r EXCEPT !.auto = "ANNOUNCING", !.sent = 0, !.ttw = ANNOUNCE_WAIT]
  ELSE IF r.auto = "PROBING"
  THEN [etharp_raw(r, h, "request", ANY, r.ll, ok) EXCEPT !.sent = @ + 1, !.ttw = w]
  ELSE Announced(IF r.sent = 0 THEN autoip_bind(r, h, ok) ELSE autoip_arp_announce(r, h, ok))
autoip_tmr(r, h, w, ok) == Ticked(Elapsed(r), h, w, ok)

(* Until it has announced its address a host takes any other that asks for *)
(* it or has it for a conflict; later only one that has it.                *)
Claiming(r) == r.auto = "PROBING" \/ (r.auto = "ANNOUNCING" /\ r.sent = 0)
autoip_arp_reply(r, h, f, w, ok) ==
  IF r.auto = "OFF" THEN r
  ELSE IF Claiming(r) /\ (f.sip = r.ll \/ (f.dip = r.ll /\ f.from # h)) THEN autoip_restart(r, h, w)
  ELSE IF ~Claiming(r) /\ f.sip = r.ll /\ f.from # h THEN autoip_handle_arp_conflict(r, h, w, ok)
  ELSE r

-----------------------------------------------------------------------------
(* Frames that arrive. *)

ForUs(r, f) == r.ip # ANY /\ f.dip = r.ip
AnsweredTo(r, h, f) ==
  IF f.k = "request" /\ ForUs(r, f) THEN Out(r, Arp("reply", h, r.ip, f.sip)) ELSE r
Heard(r, h, f) ==
  AnsweredTo(etharp_update_arp_entry(r, h, f.sip, f.from, IF ForUs(r, f) THEN "TRY_HARD" ELSE "FIND_ONLY"),
             h, f)
etharp_arp_input(r, h, f, w, ok) == Heard(autoip_arp_reply(r, h, f, w, ok), h, f)
ethernet_input(r, h, f, w, ok) == IF f.k = "ip" THEN r ELSE etharp_arp_input(r, h, f, w, ok)

-----------------------------------------------------------------------------
(* Steps.  What the host put out is on the air for all the others; a       *)
(* packet it held and no longer holds has gone out or was freed.           *)

Queues(r) == {r.tbl[i].q : i \in Slots} \ {0}
Gone(r) == {r.out[k].p : k \in DOMAIN r.out}
FateOf(p, r, q) ==
  IF p \in Gone(q) THEN IF fate[p] \in {"unsent", "queued"} THEN "sent" ELSE "twice"
  ELSE IF p \in Queues(q) THEN "queued"
  ELSE IF p \in Queues(r) THEN IF fate[p] = "queued" THEN "freed" ELSE "twice"
  ELSE fate[p]

Room == \A g \in Hosts : Len(wire[g]) + 2 <= MaxWire

(* Host h becomes q; heard is 1 when the step took a frame off its wire. *)
OnAir(h, q, heard) ==
  /\ host' = [host EXCEPT ![h] = [q EXCEPT !.out = <<>>]]
  /\ wire' = [g \in Hosts |-> IF g = h THEN SubSeq(wire[h], 1 + heard, Len(wire[h]))
                              ELSE wire[g] \o q.out]
Becomes(h, q, heard) ==
  OnAir(h, q, heard) /\ fate' = [p \in DOMAIN fate |-> FateOf(p, host[h], q)]

Memory == IF faults < linkplan.faults THEN BOOLEAN ELSE {TRUE}
Charge(ok) == faults' = faults + IF ok THEN 0 ELSE 1

(* The tcpip thread of h takes a frame off the air. *)
Hear(h) ==
  /\ wire[h] # <<>> /\ Room
  /\ \E w \in PROBE_WAITS, ok \in Memory :
       /\ Becomes(h, ethernet_input(host[h], h, Head(wire[h]), w, ok), 1) /\ Charge(ok)
  /\ UNCHANGED <<app, ops, linkplan>>
(* The frame was garbled. *)
Miss(h) ==
  /\ wire[h] # <<>> /\ faults < linkplan.faults
  /\ wire' = [wire EXCEPT ![h] = Tail(@)] /\ faults' = faults + 1
  /\ UNCHANGED <<host, fate, app, ops, linkplan>>

ArpTick(h) ==
  /\ Room /\ linkplan.aging /\ \E i \in Slots : host[h].tbl[i].state # "EMPTY"
  /\ Becomes(h, etharp_tmr(host[h]), 0)
  /\ UNCHANGED <<app, faults, ops, linkplan>>
AutoipTick(h) ==
  /\ Room /\ (host[h].auto \in {"PROBING", "ANNOUNCING"} \/ host[h].conflict > 0)
  /\ \E w \in PROBE_WAITS, ok \in Memory :
       Becomes(h, autoip_tmr(host[h], h, w, ok), 0) /\ Charge(ok)
  /\ UNCHANGED <<app, ops, linkplan>>

(* The stack sends the next packet; ip_route takes no interface that is down. *)
Send(h) ==
  /\ Room /\ host[h].up
  /\ \E p \in {q \in DOMAIN fate : fate[q] = "unsent" /\ \A o \in DOMAIN fate : o < q => fate[o] # "unsent"} :
     \E ip \in linkplan.to[h], ok \in Memory :
       \E q \in {etharp_output(host[h], h, p, ip, ok)} :
         /\ Becomes(h, q, 0) /\ Charge(ok)
         /\ p \in Gone(q) \cup Queues(q)
  /\ UNCHANGED <<app, ops, linkplan>>
(* No route, or no memory for the copy: the caller has the packet back.    *)
(* The packet of an entry that was recycled for it is freed all the same.  *)
SendFails(h) ==
  /\ Room /\ host[h].up
  /\ \E p \in {q \in DOMAIN fate : fate[q] = "unsent" /\ \A o \in DOMAIN fate : o < q => fate[o] # "unsent"} :
     \E ip \in linkplan.to[h], ok \in Memory :
       \E q \in {etharp_output(host[h], h, p, ip, ok)} :
         /\ p \notin Gone(q) \cup Queues(q)
         /\ OnAir(h, q, 0) /\ Charge(ok)
         /\ fate' = [x \in DOMAIN fate |-> IF x = p THEN "refused" ELSE FateOf(x, host[h], q)]
  /\ UNCHANGED <<app, ops, linkplan>>

(* Calls made through netifapi, on the tcpip thread. *)
Call(h, name, q, ok) ==
  /\ Room /\ name \in linkplan.calls /\ ops > 0 /\ app[h] = NoApp
  /\ ops' = ops - 1 /\ Becomes(h, q, 0) /\ Charge(ok) /\ UNCHANGED <<app, linkplan>>
SetDown(h) == host[h].up /\ Call(h, "down", netif_set_down(host[h]), TRUE)
SetUp(h) == ~host[h].up /\ \E ok \in Memory : Call(h, "up", netif_set_up(host[h], h, ok), ok)
(* Nobody is told of a new address of an interface that is up. *)
SetAddr(h) ==
  \E ip \in linkplan.ips \ {host[h].ip} :
    Call(h, "addr", netif_set_ipaddr(host[h], ip), ~host[h].up)
LinkDown(h) == host[h].link /\ Call(h, "link", [host[h] EXCEPT !.link = FALSE], TRUE)
LinkUp(h) ==
  /\ ~host[h].link
  /\ \E w \in PROBE_WAITS, ok \in Memory :
     \E q \in {autoip_network_changed([host[h] EXCEPT !.link = TRUE], w)} :
       Call(h, "link", IF q.up THEN etharp_request(q, h, q.ip, ok) ELSE q, ok)
AutoipStop(h) == host[h].auto # "OFF" /\ Call(h, "stop", autoip_stop(host[h]), TRUE)

(* quiet_lwip_close and quiet_lwip_autoip take the interface down in the   *)
(* application's own thread: the table is cleaned entry by entry while the *)
(* tcpip thread goes on using it.                                          *)
AppDoes(h, q, a) ==
  /\ host' = [host EXCEPT ![h] = q] /\ app' = [app EXCEPT ![h] = a]
  /\ UNCHANGED <<wire, faults, ops, linkplan>>
AppDown(h) ==
  /\ app[h] = NoApp /\ ops > 0 /\ "close" \in linkplan.calls /\ host[h].up
  /\ ops' = ops - 1 /\ host' = [host EXCEPT ![h].up = FALSE]
  /\ app' = [app EXCEPT ![h] = [NoApp EXCEPT !.pc = "clean"]]
  /\ UNCHANGED <<wire, fate, faults, linkplan>>
NextSlot(a) == IF a.i + 1 \in Slots THEN [NoApp EXCEPT !.pc = "clean", !.i = a.i + 1] ELSE NoApp
AppClean(h) ==
  /\ app[h].pc = "clean"
  /\ LET i == app[h].i e == host[h].tbl[i] IN
     IF e.state = "EMPTY" \/ ~e.netif THEN AppDoes(h, host[h], NextSlot(app[h]))
     ELSE IF e.q # 0 THEN AppDoes(h, host[h], [app[h] EXCEPT !.pc = "free", !.q = e.q])
     ELSE AppDoes(h, etharp_free_entry(host[h], i), NextSlot(app[h]))
  /\ UNCHANGED fate
AppFree(h) ==
  /\ app[h].pc = "free"
  /\ AppDoes(h, etharp_free_entry(host[h], app[h].i), NextSlot(app[h]))
  /\ fate' = [fate EXCEPT ![app[h].q] = IF @ = "queued" THEN "freed" ELSE "twice"]

(* quiet_lwip_autoip on an interface that has no address yet. *)
AutoipStart(h) ==
  /\ host[h].auto = "OFF" /\ ~host[h].up /\ host[h].ip = ANY /\ linkplan.seed[h] > 0
  /\ \E w \in PROBE_WAITS : AppDoes(h, autoip_start(host[h], h, w), app[h])
  /\ UNCHANGED fate

LinkStep(h) ==
  \/ Hear(h) \/ Miss(h) \/ ArpTick(h) \/ AutoipTick(h) \/ Send(h) \/ SendFails(h)
  \/ SetDown(h) \/ SetUp(h) \/ SetAddr(h) \/ LinkDown(h) \/ LinkUp(h) \/ AutoipStop(h)
  \/ AppDown(h) \/ AppClean(h) \/ AppFree(h) \/ AutoipStart(h)
LinkNext == \E h \in Hosts : LinkStep(h)
LinkSpec == LinkInit /\ [][LinkNext]_linkVars

-----------------------------------------------------------------------------
Quiet == \A h \in Hosts : wire[h] = <<>>

Entry == [state : {"EMPTY", "PENDING", "STABLE", "REREQUESTING"}, ip : Nat, netif : BOOLEAN,
          hw : Hosts \cup {""}, ctime : 0 .. ARP_MAXAGE, q : {0} \cup DOMAIN fate]
Frame == [k : {"request", "reply", "ip"}, from : Hosts, sip : Nat, dip : Nat, to : Hosts \cup {"", "all"}, p : Nat]
LinkTypeOK ==
  \A h \in Hosts :
    /\ \A i \in Slots : host[h].tbl[i] \in Entry
    /\ host[h].tried \in 0 .. TriedValues - 1 /\ host[h].hint \in Slots
    /\ host[h].out = <<>> /\ wire[h] \in Seq(Frame)

HeldIffQueued ==
  \A p \in DOMAIN fate : fate[p] = "queued" <=> \E h \in Hosts : p \in Queues(host[h])

(* A packet kept for an ARP answer is freed once, the assertion of         *)
(* pbuf_free ("pbuf_free: p->ref > 0"): not by the tcpip thread, which     *)
(* sends or ages it, and again by the thread that closes the interface.    *)
FreedOnce == \A p \in DOMAIN fate : fate[p] # "twice"

(* The ARP table is coherent: an address has at most one entry, so that    *)
(* etharp_output, which stops at the first, never uses an old one beside a *)
(* fresh one; only an entry that waits for an answer holds a packet (the   *)
(* assertion of etharp_find_entry); a packet that is held is held once,    *)
(* and no packet is sent or freed twice, as long as only the tcpip thread  *)
(* takes interfaces down.                                                  *)
ArpCoherent ==
  /\ LinkTypeOK
  /\ \A h \in Hosts : \A i, j \in Slots :
       LET e == host[h].tbl[i] f == host[h].tbl[j] IN
       /\ i # j /\ e.state # "EMPTY" /\ f.state # "EMPTY" => e.ip # f.ip
       /\ i # j /\ e.q # 0 => e.q # f.q
       /\ e.q # 0 => e.state = "PENDING"
  /\ "close" \notin linkplan.calls => FreedOnce /\ HeldIffQueued

(* A packet is not held for nothing: when all frames have been heard, none *)
(* was lost and no address changed unannounced, no entry still waits for a *)
(* host that is up and linked with the address: etharp_arp_input answered  *)
(* the request, or netif_set_up or netif_set_link_up announced the address *)
(* later.  netif_set_up says nothing while the link is down (netif.c:464), *)
(* and then the packet waits until the link is up or the entry is too old. *)
PendingAnswered ==
  Quiet /\ faults = 0 =>
    \A h, g \in Hosts : \A i \in Slots :
      host[h].tbl[i].state = "PENDING" /\ h # g /\ host[g].up /\ host[g].link => host[h].tbl[i].ip # host[g].ip

(* Two hosts do not keep one link-local address: whatever the order of     *)
(* probes, announcements and answers, when all frames have been heard and  *)
(* none was lost, no two hosts use the same one.                           *)
InUse(r) == r.up /\ r.auto \in {"ANNOUNCING", "BOUND"} /\ r.ip = r.ll
NoDuplicateAddress ==
  Quiet /\ faults = 0 =>
    \A h, g \in Hosts : h # g /\ InUse(host[h]) /\ InUse(host[g]) => host[h].ip # host[g].ip

(* When the link falls silent all is settled: requests are answered and    *)
(* addresses are unique (etharp_arp_input, autoip_arp_reply, netif_set_up).*)
LinkSettles == PendingAnswered /\ NoDuplicateAddress

(* etharp_cleanup_netif, "Remove all ARP table entries of the specified    *)
(* netif": an interface that was taken down has no packet waiting.         *)
DownHoldsNothing == \A h \in Hosts : ~host[h].up /\ app[h] = NoApp => Queues(host[h]) = {}

=============================================================================
