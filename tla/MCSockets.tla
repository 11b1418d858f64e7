------------------------------ MODULE MCSockets -----------------------------
(* What applications do with sockets while another thread selects. *)
EXTENDS Sockets

Select(rd, wr, ex, timed) ==
  [rd |-> rd, wr |-> wr, ex |-> ex, poll |-> FALSE, timed |-> timed]
OnRead == Select({0}, {}, {}, FALSE)

Plan == [slot0 |-> "free", kinds |-> {"tcp"}, segs |-> 1, peers |-> 1, push |-> {FALSE}, resets |-> FALSE,
         calls |-> [app |-> {"recv"}, sel |-> {"select"}, sel2 |-> {"select"}],
         max |-> [app |-> 2, sel |-> 1, sel2 |-> 0],
         recvs |-> {<<3, "">>}, selects |-> {OnRead}]

(* A connection comes, with data, while the listener is selected. *)
Server == [Plan EXCEPT !.slot0 = "listener", !.calls["app"] = {"accept", "recv"},
                       !.selects = {OnRead, Select({0, 1}, {}, {}, TRUE)}]
(* More connections than slots, and connections that break at once. *)
TableFull == [Plan EXCEPT !.slot0 = "listener", !.calls["app"] = {"accept", "close", "nonblock"},
                          !.peers = 2, !.segs = 0, !.max = [app |-> 3, sel |-> 0, sel2 |-> 0], !.resets = TRUE]
Reader == [Plan EXCEPT !.slot0 = "connected", !.segs = 2, !.recvs = {<<1, "">>, <<3, "">>}]
Nonblocking == [Plan EXCEPT !.slot0 = "connected", !.segs = 2, !.push = BOOLEAN, !.resets = TRUE,
                  !.recvs = {<<1, "DONTWAIT">>, <<3, "DONTWAIT">>, <<3, "PEEK">>},
                  !.max = [app |-> 3, sel |-> 0, sel2 |-> 0]]
(* The list of waiters changes while a callback walks along it. *)
TwoSelectors == [Plan EXCEPT !.slot0 = "connected", !.max = [app |-> 0, sel |-> 1, sel2 |-> 1],
                   !.selects = {OnRead, Select({}, {}, {0}, TRUE)}]
Client == [Plan EXCEPT !.calls["app"] = {"socket", "connect", "write", "nonblock"}, !.resets = TRUE,
                       !.max["app"] = 4, !.segs = 0, !.selects = {Select({}, {0}, {0}, FALSE)}]
Datagrams == [Plan EXCEPT !.kinds = {"udp"}, !.calls["app"] = {"socket", "bind", "recv", "send", "close"},
                !.max["app"] = 4, !.segs = 3, !.recvs = {<<1, "">>, <<3, "DONTWAIT">>}]
(* A RAW socket receives before lwip_socket has given it its number. *)
Raw == [Plan EXCEPT !.kinds = {"raw"}, !.calls["app"] = {"socket", "recv", "close"},
                    !.segs = 2, !.recvs = {<<1, "">>, <<3, "DONTWAIT">>}]
Settings == [Plan EXCEPT !.slot0 = "connected", !.resets = TRUE, !.max["app"] = 2, !.max["sel"] = 0,
              !.calls["app"] = {"getaddr", "getsockopt", "setsockopt", "shut_rd", "shut_wr", "listen",
                                "close", "recv"}]
MCPlans == {Server, TableFull, Reader, Nonblocking, TwoSelectors, Client, Datagrams, Raw, Settings}
=============================================================================
