-------------------------------- MODULE Udp ---------------------------------
(***************************************************************************)
(* IP, UDP, RAW and ICMP of one host with one interface: ip.c, udp.c,      *)
(* raw.c and icmp.c.  All of it runs in the tcpip thread, so a step is one *)
(* call of the API or one packet from the driver.  Fragments are module    *)
(* Reass, TCP segments module Tcp, routing to the next hop module Link.    *)
(***************************************************************************)
EXTENDS Integers, Sequences, FiniteSets, SequencesExt, FiniteSetsExt

CONSTANTS
  UdpPcbs, RawPcbs,     \* the pools MEMP_UDP_PCB and MEMP_RAW_PCB
  EphemeralStart, EphemeralEnd,     \* UDP_LOCAL_PORT_RANGE
  UdpPlans              \* see UdpInit

ASSUME UdpAssumption ==
  /\ EphemeralStart \in Nat \ {0} /\ EphemeralEnd \in Nat /\ EphemeralStart <= EphemeralEnd
  /\ UdpPcbs \subseteq Nat /\ RawPcbs \subseteq Nat /\ UdpPcbs \cap RawPcbs = {} /\ IsFiniteSet(UdpPcbs)
  /\ \A plan \in UdpPlans : plan.ips \cup plan.ports \cup plan.peers \cup plan.rports \subseteq Nat

(* Addresses: none (IP_ADDR_ANY), two of this interface, two of peers, and *)
(* the broadcast of the subnet and of all.                                 *)
AnyAddr == 0
SubnetBcast == 8
AllBcast == 9
IsBcast(a) == a \in {AnyAddr, SubnetBcast, AllBcast}

VARIABLES
  udp, udp_pcbs,        \* the pcbs in use by name; the list
  raw, raw_pcbs,
  udp_port,             \* the last ephemeral port
  netif_ip, netif_up,
  out,                  \* the packets the last step put out
  got,                  \* who received the last packet
  packet,               \* the packet that came last
  calls,                \* the calls that may still be made
  udpplan

udpVars == <<udp, udp_pcbs, raw, raw_pcbs, udp_port, netif_ip, netif_up, out, got, packet, calls, udpplan>>

NoPacket == [proto |-> "none", src |-> 0, dst |-> 0, sport |-> 0, dport |-> 0, sum |-> "good"]

(* A plan: the calls that are made, how many, the local addresses and      *)
(* ports that are asked for, the peers, and the packets that come.         *)
UdpInit ==
  /\ udpplan \in UdpPlans
  /\ udp = <<>> /\ udp_pcbs = <<>> /\ raw = <<>> /\ raw_pcbs = <<>>
  /\ udp_port = EphemeralStart /\ netif_ip = 1 /\ netif_up = TRUE
  /\ out = <<>> /\ got = {} /\ packet = NoPacket /\ calls = udpplan.calls

Drop(f, x) == [y \in DOMAIN f \ {x} |-> f[y]]
ToFront(list, i) == <<list[i]>> \o RemoveAt(list, i)
Unlinked(list, p) ==
  IF \E i \in DOMAIN list : list[i] = p THEN RemoveAt(list, CHOOSE i \in DOMAIN list : list[i] = p) ELSE list

-----------------------------------------------------------------------------
(* Output. *)

(* ip_route: the one interface is also the default one. *)
ip_route == netif_up
(* ip_output_if; cutting a large packet is ip_frag of module Reass. *)
ip_output_if(proto, src, dst, sport, dport) ==
  <<[proto |-> proto, src |-> IF src = AnyAddr THEN netif_ip ELSE src, dst |-> dst,
     sport |-> sport, dport |-> dport, sum |-> "good"]>>

(* icmp_send_response answers the sender of the packet; ok: pbuf_alloc had *)
(* memory.                                                                 *)
icmp_send_response(type, pkt, ok) ==
  IF ok /\ ip_route THEN ip_output_if(type, AnyAddr, pkt.src, 0, 0) ELSE <<>>

-----------------------------------------------------------------------------
(* The calls on UDP pcbs. *)

Free(pool, used) == pool \ DOMAIN used
Calls(c) == /\ calls > 0 /\ c \in udpplan.use /\ calls' = calls - 1
            /\ got' = {} /\ packet' = NoPacket /\ UNCHANGED udpplan
UdpOnly == UNCHANGED <<raw, raw_pcbs, netif_ip, netif_up>>

NewUdp == [lip |-> AnyAddr, lport |-> 0, rip |-> AnyAddr, rport |-> 0, connected |-> FALSE, reuse |-> FALSE]
udp_new ==
  /\ Calls("new") /\ Free(UdpPcbs, udp) # {} /\ UdpOnly
  /\ \E p \in {Min(Free(UdpPcbs, udp))} : udp' = [q \in DOMAIN udp \cup {p} |-> IF q = p THEN NewUdp ELSE udp[q]]
  /\ out' = <<>> /\ UNCHANGED <<udp_pcbs, udp_port>>

(* udp_new_port takes the next port no pcb has, or 0. *)
Ephemeral == EphemeralStart .. EphemeralEnd
RangeSize == EphemeralEnd - EphemeralStart + 1
Cycled(n) == IF udp_port + n <= EphemeralEnd THEN udp_port + n ELSE udp_port + n - RangeSize
Unused == {n \in 1 .. RangeSize : \A i \in DOMAIN udp_pcbs : udp[udp_pcbs[i]].lport # Cycled(n)}
udp_new_port == IF Unused = {} THEN 0 ELSE Cycled(Min(Unused))

Clashes(p, ip, port) ==
  \E i \in DOMAIN udp_pcbs :
    LET q == udp[udp_pcbs[i]] IN
    /\ udp_pcbs[i] # p /\ ~udp[p].reuse /\ ~q.reuse
    /\ q.lport = port /\ (q.lip = AnyAddr \/ ip = AnyAddr \/ q.lip = ip)
Listed(p) == \E i \in DOMAIN udp_pcbs : udp_pcbs[i] = p

(* What udp_bind leaves behind: the address is set even if no port is left. *)
udp_bind(p, ip, port) ==
  LET q == IF port = 0 THEN udp_new_port ELSE port IN
  IF Clashes(p, ip, port) THEN [err |-> "USE", pcb |-> udp[p], list |-> udp_pcbs, last |-> udp_port]
  ELSE IF q = 0 THEN [err |-> "USE", pcb |-> [udp[p] EXCEPT !.lip = ip], list |-> udp_pcbs, last |-> udp_port]
  ELSE [err |-> "OK", pcb |-> [udp[p] EXCEPT !.lip = ip, !.lport = q],
        list |-> IF Listed(p) THEN udp_pcbs ELSE <<p>> \o udp_pcbs,
        last |-> IF port = 0 THEN q ELSE udp_port]
(* udp_connect and udp_sendto_if bind a pcb that has no port. *)
EnsureBound(p) ==
  IF udp[p].lport # 0 THEN [err |-> "OK", pcb |-> udp[p], list |-> udp_pcbs, last |-> udp_port]
  ELSE udp_bind(p, udp[p].lip, 0)
Bound(p, b) == udp' = [udp EXCEPT ![p] = b.pcb] /\ udp_pcbs' = b.list /\ udp_port' = b.last

UdpBind(p) ==
  /\ Calls("bind") /\ UdpOnly /\ out' = <<>>
  /\ \E ip \in udpplan.ips, port \in udpplan.ports : Bound(p, udp_bind(p, ip, port))

udp_connect(p, ip, port) ==
  \E b \in {EnsureBound(p)} :
    Bound(p, IF b.err # "OK" THEN b
             ELSE [b EXCEPT !.pcb = [@ EXCEPT !.rip = ip, !.rport = port, !.connected = TRUE]])
UdpConnect(p) ==
  /\ Calls("connect") /\ UdpOnly /\ out' = <<>>
  /\ \E ip \in udpplan.peers, port \in udpplan.rports : udp_connect(p, ip, port)

UdpDisconnect(p) ==
  /\ Calls("disconnect") /\ UdpOnly /\ out' = <<>> /\ udp[p].connected
  /\ udp' = [udp EXCEPT ![p].rip = AnyAddr, ![p].rport = 0, ![p].connected = FALSE]
  /\ UNCHANGED <<udp_pcbs, udp_port>>

udp_remove(p) == Unlinked(udp_pcbs, p)
UdpRemove(p) ==
  /\ Calls("remove") /\ UdpOnly /\ out' = <<>>
  /\ udp_pcbs' = udp_remove(p) /\ udp' = Drop(udp, p) /\ UNCHANGED udp_port

(* setsockopt(SO_REUSEADDR) *)
UdpReuse(p) ==
  /\ Calls("reuse") /\ UdpOnly /\ out' = <<>>
  /\ udp' = [udp EXCEPT ![p].reuse = ~@] /\ UNCHANGED <<udp_pcbs, udp_port>>

(* udp_sendto: a pcb bound to an address the interface no longer has sends *)
(* nothing (ERR_VAL), though it may have been given a port.                *)
udp_sendto_if(p, b, dst, dport) ==
  IF b.err # "OK" \/ (b.pcb.lip # AnyAddr /\ b.pcb.lip # netif_ip) THEN <<>>
  ELSE ip_output_if("UDP", b.pcb.lip, dst, b.pcb.lport, dport)
UdpSend(p) ==
  /\ Calls("send") /\ UdpOnly
  /\ \E dst \in udpplan.peers : \E b \in {EnsureBound(p)} :
       IF ip_route THEN Bound(p, b) /\ out' = udp_sendto_if(p, b, dst, 7)
       ELSE out' = <<>> /\ UNCHANGED <<udp, udp_pcbs, udp_port>>
(* udp_send: to where the pcb is connected. *)
UdpSendConnected(p) ==
  /\ Calls("send") /\ UdpOnly /\ udp[p].connected
  /\ out' = IF ip_route THEN udp_sendto_if(p, EnsureBound(p), udp[p].rip, udp[p].rport) ELSE <<>>
  /\ UNCHANGED <<udp, udp_pcbs, udp_port>>

(* netif_set_ipaddr, netif_set_up and netif_set_down leave UDP pcbs alone. *)
NetifChange ==
  /\ Calls("netif") /\ out' = <<>> /\ UNCHANGED <<udp, udp_pcbs, udp_port, raw, raw_pcbs>>
  /\ \/ netif_ip' = 3 - netif_ip /\ UNCHANGED netif_up
     \/ netif_up' = ~netif_up /\ UNCHANGED netif_ip

-----------------------------------------------------------------------------
(* The calls on RAW pcbs; eats: what the receive callback returns, FALSE   *)
(* for that of the netconn API.                                            *)

RawOnly == UNCHANGED <<udp, udp_pcbs, udp_port, netif_ip, netif_up>>
raw_new ==
  /\ Calls("raw") /\ Free(RawPcbs, raw) # {} /\ RawOnly /\ out' = <<>>
  /\ \E p \in {Min(Free(RawPcbs, raw))}, proto \in udpplan.protos, eats \in BOOLEAN :
       /\ raw' = [q \in DOMAIN raw \cup {p} |->
                    IF q = p THEN [proto |-> proto, lip |-> AnyAddr, rip |-> AnyAddr, eats |-> eats] ELSE raw[q]]
       /\ raw_pcbs' = <<p>> \o raw_pcbs
RawBind(p) ==
  /\ Calls("rawbind") /\ RawOnly /\ out' = <<>>
  /\ \E ip \in udpplan.ips : raw' = [raw EXCEPT ![p].lip = ip] /\ UNCHANGED raw_pcbs
RawConnect(p) ==
  /\ Calls("rawbind") /\ RawOnly /\ out' = <<>>
  /\ \E ip \in udpplan.peers : raw' = [raw EXCEPT ![p].rip = ip] /\ UNCHANGED raw_pcbs
RawRemove(p) ==
  /\ Calls("remove") /\ RawOnly /\ out' = <<>>
  /\ raw_pcbs' = Unlinked(raw_pcbs, p) /\ raw' = Drop(raw, p)
(* raw_send, that is raw_sendto(pcb->remote_ip): any source address goes.  *)
RawSend(p) ==
  /\ Calls("send") /\ RawOnly /\ raw[p].rip # AnyAddr
  /\ out' = IF ip_route THEN ip_output_if(raw[p].proto, raw[p].lip, raw[p].rip, 0, 0) ELSE <<>>
  /\ UNCHANGED <<raw, raw_pcbs>>

-----------------------------------------------------------------------------
(* Input. *)

(* ip_input keeps what is for this interface and not from a broadcast.     *)
Accepted(pkt) ==
  /\ pkt.sum # "ip" /\ netif_up /\ netif_ip # AnyAddr
  /\ (pkt.dst = netif_ip \/ IsBcast(pkt.dst)) /\ ~IsBcast(pkt.src)

(* raw_input: every matching pcb until one eats the packet. *)
RawMatch(p, pkt) == raw[p].proto = pkt.proto /\ raw[p].lip \in {AnyAddr, pkt.dst}
RawEater(pkt) ==
  LET e == {i \in DOMAIN raw_pcbs : RawMatch(raw_pcbs[i], pkt) /\ raw[raw_pcbs[i]].eats} IN
  IF e = {} THEN 0 ELSE Min(e)
RawGets(pkt) ==
  {raw_pcbs[i] : i \in {i \in DOMAIN raw_pcbs :
     RawMatch(raw_pcbs[i], pkt) /\ (RawEater(pkt) = 0 \/ i <= RawEater(pkt))}}

(* udp_input: the first pcb that is connected to the sender, which moves   *)
(* to the front, or else the first that is not connected.                  *)
LocalMatch(p, pkt) ==
  /\ udp[p].lport = pkt.dport
  /\ \/ udp[p].lip = AnyAddr \/ udp[p].lip = pkt.dst
     \/ pkt.dst = SubnetBcast
PeerMatch(p, pkt) == LocalMatch(p, pkt) /\ udp[p].rport = pkt.sport /\ udp[p].rip \in {AnyAddr, pkt.src}
FirstOf(S) == IF S = {} THEN 0 ELSE Min(S)
Perfect(pkt) == FirstOf({i \in DOMAIN udp_pcbs : PeerMatch(udp_pcbs[i], pkt)})
Unconnected_any(pkt) == FirstOf({i \in DOMAIN udp_pcbs : LocalMatch(udp_pcbs[i], pkt)})
Unconnected(pkt) ==
  FirstOf({i \in DOMAIN udp_pcbs : LocalMatch(udp_pcbs[i], pkt) /\ ~udp[udp_pcbs[i]].connected})
udp_input(pkt, ok) ==
  LET i == IF Perfect(pkt) # 0 THEN Perfect(pkt) ELSE Unconnected(pkt) IN
  /\ udp_pcbs' = IF Perfect(pkt) # 0 THEN ToFront(udp_pcbs, Perfect(pkt)) ELSE udp_pcbs
  /\ got' = RawGets(pkt) \cup (IF i # 0 /\ pkt.sum # "udp" THEN {udp_pcbs[i]} ELSE {})
  /\ out' = IF i = 0 /\ pkt.dst = netif_ip /\ pkt.sum # "udp"
            THEN icmp_send_response("UNREACH", pkt, ok) ELSE <<>>

(* icmp_input answers a ping that was sent to this host alone. *)
icmp_input(pkt, ok) ==
  /\ out' = IF pkt.proto = "ECHO" /\ ~IsBcast(pkt.dst) /\ pkt.sum = "good" /\ ok
            THEN ip_output_if("REPLY", pkt.dst, pkt.src, 0, 0) ELSE <<>>
  /\ got' = RawGets(pkt) /\ UNCHANGED udp_pcbs

(* ip_input *)
IpInput(pkt, ok) ==
  /\ packet' = pkt /\ calls > 0 /\ calls' = calls - 1
  /\ raw_pcbs' = IF Accepted(pkt) /\ RawEater(pkt) # 0 THEN ToFront(raw_pcbs, RawEater(pkt)) ELSE raw_pcbs
  /\ UNCHANGED <<udp, raw, udp_port, netif_ip, netif_up, udpplan>>
  /\ \/ ~Accepted(pkt) /\ got' = {} /\ out' = <<>> /\ UNCHANGED udp_pcbs
     \/ Accepted(pkt) /\ RawEater(pkt) # 0 /\ got' = RawGets(pkt) /\ out' = <<>> /\ UNCHANGED udp_pcbs
     \/ Accepted(pkt) /\ RawEater(pkt) = 0 /\ pkt.proto = "UDP" /\ udp_input(pkt, ok)
     \/ Accepted(pkt) /\ RawEater(pkt) = 0 /\ pkt.proto \in {"ECHO", "REPLY", "UNREACH"} /\ icmp_input(pkt, ok)
     \/ /\ Accepted(pkt) /\ RawEater(pkt) = 0 /\ pkt.proto = "OTHER"
        /\ got' = RawGets(pkt) /\ UNCHANGED udp_pcbs
        /\ out' = IF IsBcast(pkt.dst) THEN <<>> ELSE icmp_send_response("UNREACH", pkt, ok)

UdpNext ==
  \/ udp_new \/ raw_new \/ NetifChange
  \/ \E p \in DOMAIN udp :
       \/ UdpBind(p) \/ UdpConnect(p) \/ UdpDisconnect(p) \/ UdpRemove(p)
       \/ UdpReuse(p) \/ UdpSend(p) \/ UdpSendConnected(p)
  \/ \E p \in DOMAIN raw : RawBind(p) \/ RawConnect(p) \/ RawRemove(p) \/ RawSend(p)
  \/ \E pkt \in udpplan.packets, ok \in BOOLEAN : IpInput(pkt, ok)

UdpSpec == UdpInit /\ [][UdpNext]_udpVars

-----------------------------------------------------------------------------
(* The lists stay whole while udp_input and raw_input reorder them: the    *)
(* list holds exactly the pcbs that have a port, each once, none that was  *)
(* removed; and where no pcb ever asked to share, no two can be given the  *)
(* same datagram: the ports that udp_bind accepts and udp_new_port finds   *)
(* are not those of another pcb, after any wrap of the range.              *)
PcbListsWhole ==
  /\ IsInjective(udp_pcbs) /\ ToSet(udp_pcbs) = {p \in DOMAIN udp : udp[p].lport # 0}
  /\ IsInjective(raw_pcbs) /\ ToSet(raw_pcbs) = DOMAIN raw
  /\ "reuse" \notin udpplan.use =>
       \A i, j \in DOMAIN udp_pcbs :
         LET p == udp[udp_pcbs[i]] q == udp[udp_pcbs[j]] IN
         i # j /\ p.lport = q.lport => p.lip # q.lip /\ p.lip # AnyAddr /\ q.lip # AnyAddr

(* A datagram is given to one pcb at most, to none that is connected to    *)
(* another peer, to one that is connected to the sender rather than to one *)
(* that is not connected, and the sender is told that nobody listens only  *)
(* if nobody does.  Among several pcbs that match alike (they share a port *)
(* or the datagram is a broadcast) the first of the list hears it, and     *)
(* that depends on the datagrams before: udp.c:271-276 moves to the front. *)
HeardByTheRightOne ==
  LET peers == {p \in ToSet(udp_pcbs) : udp[p].connected /\ PeerMatch(p, packet)}
      hearers == got \cap UdpPcbs
  IN packet.proto = "UDP" =>
       /\ \A p \in hearers : udp[p].connected => p \in peers
       /\ Cardinality(hearers) <= 1
       /\ hearers # {} /\ peers # {} /\ packet.sport # 0 => hearers \subseteq peers
       /\ out # <<>> => peers = {} /\ \A p \in ToSet(udp_pcbs) : udp[p].connected \/ ~LocalMatch(p, packet)

(* Where no pcb asked to share and the datagram is for one address, it     *)
(* does not depend on what came before: whatever moved to the front of the *)
(* lists, a good datagram that no RAW pcb eats is heard by whoever is      *)
(* bound to its port and address, unless connected to another peer.        *)
HeardWhateverCameBefore ==
  /\ packet.proto = "UDP" /\ packet.sum = "good" /\ ~IsBcast(packet.dst) /\ Accepted(packet)
  /\ "reuse" \notin udpplan.use /\ \A p \in DOMAIN raw : RawMatch(p, packet) => ~raw[p].eats
  => got \cap UdpPcbs =
       {p \in ToSet(udp_pcbs) : LocalMatch(p, packet) /\ (udp[p].connected => PeerMatch(p, packet))}

(* A datagram finds its reader in whole lists (udp_input, udp_bind). *)
UdpSound == PcbListsWhole /\ HeardByTheRightOne /\ HeardWhateverCameBefore

(* udp_bind, "unless *all* PCBs with that port have tha REUSEADDR flag     *)
(* set".  *)
SharedByConsent ==
  \A i, j \in DOMAIN udp_pcbs :
    LET p == udp[udp_pcbs[i]] q == udp[udp_pcbs[j]] IN
    i # j /\ p.lport = q.lport /\ p.lip = q.lip => p.reuse /\ q.reuse
=============================================================================
