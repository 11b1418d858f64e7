------------------------------ MODULE MCStack ------------------------------
(***************************************************************************)
(* Components that need no other to be checked, side by side: a behaviour  *)
(* picks one layer and one scenario of it, and the others stay as they     *)
(* began.                                                                  *)
(***************************************************************************)
EXTENDS Link, Heap, Reass, Udp, Pbuf, Bytes, Protect, Kv

VARIABLE layer
Layers == {"link", "heap", "reass", "udp", "pbuf", "bytes", "protect", "kv"}

(* Link: two hosts, one network; 11 and 12 are theirs, 13 and 14 nobody's, *)
(* 21 is behind the gateway.  Talking with a lost frame or no memory,      *)
(* more neighbours than table entries, addresses and interfaces that come  *)
(* and go, a close from an application thread, two AutoIPs with one seed   *)
(* of which one loses its link and gets it back, or is stopped.            *)
Plan == [ip |-> [A |-> 11, B |-> 12], to |-> [A |-> {12}, B |-> {11}], seed |-> [A |-> 0, B |-> 0],
         packets |-> 2, ops |-> 0, calls |-> {}, ips |-> {}, faults |-> 0, aging |-> TRUE]
Talk == [Plan EXCEPT !.to["A"] = {12, 21, BROADCAST}, !.faults = 1]
Evict == [Plan EXCEPT !.to["A"] = {12, 13, 14}, !.to["B"] = {}, !.packets = 3, !.faults = 1]
Admin == [Plan EXCEPT !.ip["B"] = 0, !.calls = {"up", "down", "addr", "link"}, !.ops = 3, !.ips = {12, 13}, !.to["B"] = {}]
Shut == [Plan EXCEPT !.calls = {"close"}, !.ops = 1, !.to["B"] = {}]
Claim == [Plan EXCEPT !.ip = [A |-> 0, B |-> 0], !.seed = [A |-> 1, B |-> 1], !.packets = 0, !.aging = FALSE,
                       !.calls = {"link"}, !.ops = 2]
Quit == [Claim EXCEPT !.calls = {"link", "stop"}, !.ops = 1]
MCLinkPlans == {Talk, Evict, Admin, Shut, Claim, Quit}

(* Reass: one large datagram; one that is cut out of a chain; two senders  *)
(* that compete for the pools; a sender that restarts and reuses its ids.  *)
From(s, c) == [src |-> s, chain |-> c]
RPlan == [datagrams |-> <<From(1, <<9>>)>>, dups |-> 1, ticks |-> 2, restarts |-> 0]
MCReassPlans ==
  {RPlan,
   [RPlan EXCEPT !.datagrams = <<From(1, <<7>>), From(1, <<1, 4, 2>>)>>, !.ticks = 4],
   [RPlan EXCEPT !.datagrams = <<From(1, <<5>>), From(2, <<5>>), From(1, <<7>>)>>, !.dups = 0],
   [RPlan EXCEPT !.datagrams = <<From(1, <<1, 1, 3>>), From(1, <<7>>)>>, !.ticks = 1, !.restarts = 1]}

(* Udp: the calls on pcbs and two peers; shared ports, broadcasts, bad     *)
(* checksums and a changing interface; one port at two addresses, where a  *)
(* broadcast moves one pcb before the other; raw pcbs and ICMP.            *)
Packet(proto, src, dst, sport, dport, sum) ==
  [proto |-> proto, src |-> src, dst |-> dst, sport |-> sport, dport |-> dport, sum |-> sum]
UPlan == [use |-> {"new", "bind", "connect", "disconnect", "remove", "send"}, calls |-> 7, ips |-> {0, 1}, ports |-> {0, 7},
          peers |-> {3}, rports |-> {7}, protos |-> {"UDP"},
          packets |-> {Packet("UDP", 3, 1, 7, 5, "good"), Packet("UDP", 4, 1, 7, 7, "good")}]
MCUdpPlans ==
  {UPlan,
   [UPlan EXCEPT !.use = {"new", "bind", "connect", "reuse", "netif"}, !.ips = {1}, !.ports = {7}, !.calls = 8,
     !.packets = {Packet("UDP", 3, 1, 7, 7, "good"), Packet("UDP", 4, 8, 0, 7, "good"), Packet("UDP", 4, 9, 7, 7, "udp"),
                  Packet("UDP", 0, 1, 7, 7, "good"), Packet("UDP", 3, 1, 7, 7, "ip")}],
   [UPlan EXCEPT !.use = {"new", "bind", "connect", "netif"}, !.ips = {1, 2}, !.ports = {7}, !.calls = 9,
     !.packets = {Packet("UDP", 3, 1, 7, 7, "good"), Packet("UDP", 3, 2, 7, 7, "good"), Packet("UDP", 4, 1, 7, 7, "good"),
                  Packet("UDP", 3, 8, 7, 7, "good")}],
   [UPlan EXCEPT !.use = {"raw", "rawbind", "remove", "send", "netif"}, !.protos = {"UDP", "ECHO", "OTHER"}, !.calls = 5, !.ips = {1, 2},
     !.packets = {Packet("UDP", 3, 1, 7, 7, "good")} \cup {Packet(x, 3, y, 0, 0, "good") : x \in {"ECHO", "REPLY", "OTHER"}, y \in {1, 8}}]}

StackInit ==
  /\ layer \in Layers
  /\ (IF layer = "link" THEN TRUE ELSE linkplan = Shut) /\ LinkInit
  /\ HeapInit
  /\ (IF layer = "reass" THEN TRUE ELSE reassplan = RPlan) /\ ReassInit
  /\ (IF layer = "udp" THEN TRUE ELSE udpplan = UPlan) /\ UdpInit
  /\ PbufInit /\ ProtInit /\ KvInit
  /\ IF layer = "bytes" THEN BytesInit ELSE input = NoInput

StackNext ==
  \/ layer = "link" /\ LinkNext /\ UNCHANGED <<layer, heapVars, reassVars, udpVars, pbufVars, bytesVars, protVars, kvVars>>
  \/ layer = "heap" /\ HeapNext /\ UNCHANGED <<layer, linkVars, reassVars, udpVars, pbufVars, bytesVars, protVars, kvVars>>
  \/ layer = "reass" /\ ReassNext /\ UNCHANGED <<layer, linkVars, heapVars, udpVars, pbufVars, bytesVars, protVars, kvVars>>
  \/ layer = "udp" /\ UdpNext /\ UNCHANGED <<layer, linkVars, heapVars, reassVars, pbufVars, bytesVars, protVars, kvVars>>
  \/ layer = "pbuf" /\ PbufNext /\ UNCHANGED <<layer, linkVars, heapVars, reassVars, udpVars, bytesVars, protVars, kvVars>>
  \/ layer = "protect" /\ ProtNext /\ UNCHANGED <<layer, linkVars, heapVars, reassVars, udpVars, pbufVars, bytesVars, kvVars>>
  \/ layer = "kv" /\ KvNext /\ UNCHANGED <<layer, linkVars, heapVars, reassVars, udpVars, pbufVars, bytesVars, protVars>>

StackSpec == StackInit /\ [][StackNext]_<<layer, linkVars, heapVars, reassVars, udpVars, pbufVars, bytesVars, protVars, kvVars>>
=============================================================================
