------------------------------ MODULE Sockets -------------------------------
(***************************************************************************)
(* The BSD socket layer, api/sockets.c: the table of sockets, the calls    *)
(* that application threads make on them, event_callback, which counts     *)
(* what the stack delivers, and lwip_select, which sleeps on those counts. *)
(*                                                                         *)
(* The actors are the application threads and the tcpip thread.  A step is *)
(* what one actor does without letting another see an intermediate state:  *)
(* a section under SYS_ARCH_PROTECT, one unlocked access to a shared       *)
(* field, a mailbox operation, one message of the tcpip thread.  The       *)
(* netconns below are as module Netconn has them, reduced to what this     *)
(* layer sees: mailboxes, last_err, whether there is a pcb, op_completed.  *)
(***************************************************************************)
EXTENDS Integers, Sequences, FiniteSets, SequencesExt

CONSTANTS
  Threads,      \* application threads
  NUM_SOCKETS,  \* slots of the table
  Netconns,     \* MEMP_NUM_NETCONN: numbers of the netconns
  MboxSize,     \* length of recvmbox and acceptmbox
  Plans,        \* what the application does and meets: a plan has what is in
                \* slot 0 at first, the kinds of socket asked for, per thread
                \* the calls it makes and how many, the arguments of select
                \* and of recvfrom (size, flag), how many segments or
                \* datagrams and how many connections arrive, data pushed
                \* or not, and if resets do
  Shared,       \* may two threads call on one socket at the same time?
  SegLen        \* bytes in an arriving segment or datagram

TCPIP == "tcpip"
Actors == Threads \cup {TCPIP}
Fds == 0 .. NUM_SOCKETS - 1
NULL == [none |-> TRUE]

ASSUME SocketsAssumption ==
  /\ TCPIP \notin Threads
  /\ NUM_SOCKETS \in Nat \ {0} /\ MboxSize \in Nat \ {0} /\ SegLen \in Nat \ {0}
  /\ Netconns \subseteq Nat

VARIABLES
  sock,     \* struct lwip_sock sockets[NUM_SOCKETS]
  conn,     \* the netconns
  th,       \* where each thread is, with its locals
  work,     \* what an actor still has to do before it goes on
  cb,       \* the event_callback each actor is in
  scb,      \* struct lwip_select_cb of each thread, on its stack
  list,     \* select_cb_list
  ctr,      \* select_cb_ctr
  api,      \* the messages posted to the tcpip thread
  plan,     \* the plan the application follows
  peers,    \* connections that have reached a listener
  crashed   \* an assertion failed or a null pointer was followed

vars == <<sock, conn, th, work, cb, scb, list, ctr, api, plan, peers, crashed>>

NoSock == [conn |-> 0, lastdata |-> NULL, rcvevent |-> 0, sendevent |-> FALSE,
           errevent |-> FALSE, waiting |-> 0]
NoConn == [type |-> "free", state |-> "NONE", socket |-> -1, pcb |-> FALSE, up |-> FALSE,
           err |-> "OK", mbox |-> <<>>, valid |-> FALSE, nonblock |-> FALSE, inconnect |-> FALSE,
           op |-> 0, avail |-> 0, segs |-> 0, fin |-> FALSE, room |-> TRUE, check |-> FALSE,
           read |-> 0, recved |-> 0, told |-> FALSE, options |-> {},
           given |-> -1, missed |-> 0]    \* history: the descriptor the application was given,
                                          \* and the arrivals that its name wrote over
NoScb == [rd |-> {}, wr |-> {}, ex |-> {}, signalled |-> FALSE, sem |-> 0]
Idle == [pc |-> "idle", s |-> 0, c |-> 0, left |-> 0, off |-> 0, flag |-> "", buf |-> NULL,
         next |-> "", arg |-> NULL, i |-> 0, rest |-> {}, ready |-> {}, timed |-> FALSE,
         failed |-> FALSE]

(* What an application that has called socket(), bind() and listen(), or   *)
(* that has accepted a connection, may hold in slot 0.                     *)
Listener == [NoConn EXCEPT !.type = "tcp", !.pcb = TRUE, !.state = "LISTEN", !.valid = TRUE, !.socket = 0,
                       !.given = 0]
Connected == [Listener EXCEPT !.state = "NONE", !.up = TRUE]
Init ==
  /\ plan \in Plans
  /\ sock = [s \in Fds |-> IF s > 0 \/ plan.slot0 = "free" THEN NoSock
                           ELSE [NoSock EXCEPT !.conn = 1, !.sendevent = (plan.slot0 = "connected")]]
  /\ conn = [c \in Netconns |-> IF c # 1 \/ plan.slot0 = "free" THEN NoConn
                                ELSE IF plan.slot0 = "listener" THEN Listener ELSE Connected]
  /\ th = [t \in Threads |-> [Idle EXCEPT !.i = plan.max[t]]]
  /\ work = [a \in Actors |-> <<>>]
  /\ cb = [a \in Actors |-> NULL]
  /\ scb = [t \in Threads |-> NoScb]
  /\ list = <<>> /\ ctr = 0 /\ api = <<>> /\ peers = 0 /\ crashed = FALSE

(* ERR_IS_FATAL(last_err): NETCONN_SET_SAFE_ERR keeps such an error. *)
IsFatal(c) == conn[c].err # "OK"
SafeErr(e, f) == IF e = "OK" THEN f ELSE e

(* The things an actor has in hand: an event to report, an item to post. *)
Event(c, e) == [op |-> "event", c |-> c, x |-> e]
PostItem(c, item) == [op |-> "post", c |-> c, x |-> item]
Avail(c, n) == [op |-> "avail", c |-> c, x |-> n]
Signal(c) == [op |-> "signal", c |-> c, x |-> 0]

Data(first, n, push) == [k |-> "data", first |-> first, n |-> n, push |-> push]
EOF == [k |-> "eof", first |-> 0, n |-> 0, push |-> FALSE]
Newcomer(c) == [k |-> "conn", first |-> c, n |-> 0, push |-> FALSE]

(* An actor is free for its next step when nothing is left in its hands. *)
Ready(a) == work[a] = <<>> /\ cb[a] = NULL /\ ~crashed
At(t, pc) == Ready(t) /\ th[t].pc = pc
Goto(t, pc) == th' = [th EXCEPT ![t].pc = pc]
Return(t) == th' = [th EXCEPT ![t] = [Idle EXCEPT !.i = th[t].i]]
Does(a, items) == work' = [work EXCEPT ![a] = items]

-----------------------------------------------------------------------------
(* event_callback, run by the tcpip thread and, for RCVMINUS, by a reader. *)

EventDone(a) ==
  /\ cb' = [cb EXCEPT ![a] = NULL] /\ Does(a, Tail(work[a])) /\ UNCHANGED scb

Calls(a, pc, s, e) ==
  cb' = [cb EXCEPT ![a] = [pc |-> pc, s |-> s, evt |-> e, at |-> "", ctr |-> 0]] /\ UNCHANGED work

(* Which socket does the netconn belong to?  One that no application       *)
(* thread has adopted yet counts its arrivals below -1: conn->socket--     *)
(* under SYS_ARCH_PROTECT, a read here and a write in EventCount.          *)
EventLookup(a) ==
  /\ cb[a] = NULL /\ work[a] # <<>> /\ ~crashed /\ Head(work[a]).op = "event"
  /\ \E c \in {Head(work[a]).c}, e \in {Head(work[a]).x} :
       IF conn[c].socket < 0
       THEN IF e = "RCVPLUS" THEN Calls(a, "count", conn[c].socket, e)
            ELSE Does(a, Tail(work[a])) /\ UNCHANGED cb
       ELSE IF sock[conn[c].socket].conn = 0
       THEN Does(a, Tail(work[a])) /\ UNCHANGED cb
       ELSE Calls(a, "apply", conn[c].socket, e)
  /\ UNCHANGED <<sock, conn, th, scb, list, ctr, api, plan, peers, crashed>>

(* The lock is held, but lwip_socket names the netconn without it. *)
Counting == \E a \in Actors : cb[a] # NULL /\ cb[a].pc = "count"
EventCount(a) ==
  /\ cb[a] # NULL /\ ~crashed /\ cb[a].pc = "count"
  /\ conn' = [conn EXCEPT ![Head(work[a]).c].socket = cb[a].s - 1]
  /\ EventDone(a)
  /\ UNCHANGED <<sock, th, list, ctr, api, plan, peers, crashed>>

Applied(k, e) ==
  CASE e = "RCVPLUS"   -> [k EXCEPT !.rcvevent = @ + 1]
    [] e = "RCVMINUS"  -> [k EXCEPT !.rcvevent = @ - 1]
    [] e = "SENDPLUS"  -> [k EXCEPT !.sendevent = TRUE]
    [] e = "SENDMINUS" -> [k EXCEPT !.sendevent = FALSE]
    [] e = "ERROR"     -> [k EXCEPT !.errevent = TRUE]

(* Does select_cb b wait for what socket s now has?  k is the socket. *)
WantsSignal(b, s, k) ==
  /\ ~b.signalled
  /\ \/ k.rcvevent > 0 /\ s \in b.rd
     \/ k.sendevent /\ s \in b.wr
     \/ k.errevent /\ s \in b.ex

(* Looks at the select_cb of thread t and lets go of the lock. *)
Visit_no_signal(a, t, k) ==
  /\ scb' = IF WantsSignal(scb[t], cb[a].s, k) THEN [scb EXCEPT ![t].signalled = TRUE] ELSE scb
  /\ cb' = [cb EXCEPT ![a].pc = "loop", ![a].at = t, ![a].ctr = ctr]
  /\ UNCHANGED work
Visit(a, t, k) ==
  /\ scb' = IF WantsSignal(scb[t], cb[a].s, k)
            THEN [scb EXCEPT ![t].signalled = TRUE, ![t].sem = 1] ELSE scb
  /\ cb' = [cb EXCEPT ![a].pc = "loop", ![a].at = t, ![a].ctr = ctr]
  /\ UNCHANGED work

(* The count changes and the first waiter is looked at under one lock. *)
EventApply(a) ==
  /\ cb[a] # NULL /\ ~crashed /\ cb[a].pc = "apply"
  /\ \E k \in {Applied(sock[cb[a].s], cb[a].evt)} :
       /\ sock' = [sock EXCEPT ![cb[a].s] = k]
       /\ IF k.waiting = 0 \/ list = <<>> THEN EventDone(a) ELSE Visit(a, list[1], k)
  /\ UNCHANGED <<conn, th, list, ctr, api, plan, peers, crashed>>

(* The waiter to look at after thread t's: the list has not changed. *)
After(t) == SelectInSeq(list, LAMBDA u : u = t) + 1

(* Has the list changed while the lock was free?  Then from the start. *)
EventLoop(a) ==
  /\ cb[a] # NULL /\ ~crashed /\ cb[a].pc = "loop"
  /\ \E n \in {IF cb[a].ctr # ctr THEN 1 ELSE After(cb[a].at)} :
       IF n > Len(list) THEN EventDone(a) ELSE Visit(a, list[n], sock[cb[a].s])
  /\ UNCHANGED <<sock, conn, th, list, ctr, api, plan, peers, crashed>>

(* The other things in hand.  The NULL that err_tcp posts into a full     *)
(* mailbox is gone.                                                       *)
Post(a) ==
  /\ cb[a] = NULL /\ work[a] # <<>> /\ ~crashed /\ Head(work[a]).op # "event"
  /\ \E c \in {Head(work[a]).c}, x \in {Head(work[a]).x} :
       conn' = CASE Head(work[a]).op = "post" /\ conn[c].valid /\ Len(conn[c].mbox) < MboxSize ->
                      [conn EXCEPT ![c].mbox = Append(@, x)]
                 [] Head(work[a]).op = "avail" -> [conn EXCEPT ![c].avail = @ + x]
                 [] Head(work[a]).op = "signal" -> [conn EXCEPT ![c].op = 1]
                 [] OTHER -> conn
  /\ Does(a, Tail(work[a]))
  /\ UNCHANGED <<sock, th, cb, scb, list, ctr, api, plan, peers, crashed>>

-----------------------------------------------------------------------------
(* Calls of the application. *)

(* A thread begins call f.  One call at a time on a socket, and none that  *)
(* closes it under a select, unless the application shares its sockets.    *)
Begin(t, f) == At(t, "idle") /\ th[t].i > 0 /\ f \in plan.calls[t]
InUse(t, s) == \E u \in Threads \ {t} : th[u].pc # "idle" /\ th[u].s = s /\ th[u].arg = NULL
Selected(t, s) == \E u \in Threads \ {t} : th[u].pc # "idle" /\ th[u].arg # NULL
                                            /\ s \in th[u].arg.rd \cup th[u].arg.wr \cup th[u].arg.ex
(* The application has been given the descriptor. *)
Adopted(s) == sock[s].conn # 0 /\ conn[sock[s].conn].given = s
Closing(t, s) == \E u \in Threads \ {t} : th[u].s = s /\ th[u].next = "free"
On(t, s) == Adopted(s) /\ (Shared \/ ~InUse(t, s))
Enter(t, s, pc) == [th[t] EXCEPT !.pc = pc, !.s = s, !.c = sock[s].conn, !.i = @ - 1]

(* tcpip_apimsg: post the message, then wait on the netconn's op_completed. *)
Ask(t, r, fn, next) ==
  /\ api' = Append(api, [fn |-> fn, t |-> t, c |-> r.c])
  /\ th' = [th EXCEPT ![t] = [r EXCEPT !.pc = "api", !.next = next]]

Answered(t) ==
  /\ At(t, "api") /\ conn[th[t].c].op = 1
  /\ conn' = [conn EXCEPT ![th[t].c].op = 0]
  /\ IF th[t].next = "return" THEN Return(t) ELSE Goto(t, th[t].next)
  /\ UNCHANGED <<sock, work, cb, scb, list, ctr, api, plan, peers, crashed>>

(* A call that only passes a message on and waits for the answer. *)
Forward(t, s, fn) ==
  /\ Begin(t, fn) /\ On(t, s)
  /\ Ask(t, Enter(t, s, "api"), fn, "return")
  /\ UNCHANGED <<sock, conn, work, cb, scb, list, ctr, plan, peers, crashed>>

IsTcp(s) == sock[s].conn # 0 /\ conn[sock[s].conn].type = "tcp"
lwip_bind(t, s) == Forward(t, s, "bind")
lwip_connect(t, s) == Forward(t, s, "connect")
lwip_listen(t, s) == Forward(t, s, "listen")
lwip_send(t, s) == IsTcp(s) /\ Forward(t, s, "write")
lwip_sendto(t, s) == ~IsTcp(s) /\ Forward(t, s, "send")
lwip_shutdown(t, s) == IsTcp(s) /\ \E how \in {"shut_rd", "shut_wr"} : Forward(t, s, how)
lwip_getaddrname(t, s) == Forward(t, s, "getaddr")

(* Options kept in the pcb, for every type or for one, and in the netconn. *)
Options == {"SO_KEEPALIVE", "SO_NO_CHECK", "TCP_NODELAY", "SO_RCVTIMEO"}
(* An option of another type of socket is refused without a message. *)
Understood(c, opt) ==
  /\ opt = "SO_NO_CHECK" => conn[c].type = "udp"
  /\ opt = "TCP_NODELAY" => conn[c].type = "tcp"
Sockopt(t, s, call, fn, opt) ==
  /\ Begin(t, call) /\ On(t, s)
  /\ IF Understood(sock[s].conn, opt)
     THEN Ask(t, [Enter(t, s, "api") EXCEPT !.flag = opt], fn, "return")
     ELSE th' = [th EXCEPT ![t].i = @ - 1] /\ UNCHANGED api
  /\ UNCHANGED <<sock, conn, work, cb, scb, list, ctr, plan, peers, crashed>>
lwip_getsockopt(t, s, opt) == Sockopt(t, s, "getsockopt", "getopt", opt)
lwip_setsockopt(t, s, opt) == Sockopt(t, s, "setsockopt", "setopt", opt)

(* lwip_ioctl(FIONBIO) and lwip_fcntl(F_SETFL): no message. *)
SetNonblocking(t, s) ==
  /\ Begin(t, "nonblock") /\ On(t, s)
  /\ conn' = [conn EXCEPT ![sock[s].conn].nonblock = ~@]
  /\ th' = [th EXCEPT ![t].i = @ - 1]
  /\ UNCHANGED <<sock, work, cb, scb, list, ctr, api, plan, peers, crashed>>

(* netconn_alloc takes the netconn, do_newconn gives it a pcb. *)
FreeConns == {c \in Netconns : conn[c].type = "free"}
FreshConn(type) == [NoConn EXCEPT !.type = type, !.valid = TRUE]
lwip_socket(t, type) ==
  /\ Begin(t, "socket") /\ FreeConns # {}
  /\ \E c \in {CHOOSE c \in FreeConns : \A d \in FreeConns : c <= d} :
       /\ conn' = [conn EXCEPT ![c] = FreshConn(type)]
       /\ Ask(t, [th[t] EXCEPT !.s = -1, !.c = c, !.i = @ - 1, !.flag = "socket", !.left = 0],
              "newconn", "alloc")
  /\ UNCHANGED <<sock, work, cb, scb, list, ctr, plan, peers, crashed>>

-----------------------------------------------------------------------------
(* alloc_socket: slot by slot, each under the lock; left counts them. *)

AllocScan(t) ==
  /\ At(t, "alloc")
  /\ IF th[t].left = NUM_SOCKETS
     THEN Ask(t, th[t], "delconn", "discard") /\ UNCHANGED sock
     ELSE IF sock[th[t].left].conn # 0
     THEN th' = [th EXCEPT ![t].left = @ + 1] /\ UNCHANGED <<sock, api>>
     ELSE /\ sock' = [sock EXCEPT ![th[t].left].conn = th[t].c]
          /\ Goto(t, "fields") /\ UNCHANGED api
  /\ UNCHANGED <<conn, work, cb, scb, list, ctr, plan, peers, crashed>>

(* The other fields of the slot, no longer under the lock. *)
Claimed(k, c, accepted) ==
  [NoSock EXCEPT !.conn = k.conn, !.sendevent = (conn[c].type = "tcp" => accepted)]
AllocFields(t) ==
  /\ At(t, "fields")
  /\ sock' = [sock EXCEPT ![th[t].left] = Claimed(@, th[t].c, th[t].flag = "accept")]
  /\ Goto(t, IF th[t].flag = "accept" THEN "adopt" ELSE "name")
  /\ UNCHANGED <<conn, work, cb, scb, list, ctr, api, plan, peers, crashed>>

(* conn->socket = i, the end of lwip_socket, without the lock.  What a RAW *)
(* netconn has counted by then is written over.                            *)
SocketNamed(t) ==
  /\ At(t, "name")
  /\ conn' = [conn EXCEPT ![th[t].c].socket = th[t].left, ![th[t].c].given = th[t].left,
                          ![th[t].c].missed = -1 - conn[th[t].c].socket]
  /\ Return(t)
  /\ UNCHANGED <<sock, work, cb, scb, list, ctr, api, plan, peers, crashed>>

(* The end of lwip_accept: the new socket takes over the early arrivals. *)
AcceptAdopt_forgets(t) ==
  /\ At(t, "adopt") /\ ~Counting
  /\ conn' = [conn EXCEPT ![th[t].c].socket = th[t].left, ![th[t].c].given = th[t].left]
  /\ Return(t)
  /\ UNCHANGED <<sock, work, cb, scb, list, ctr, api, plan, peers, crashed>>
AcceptAdopt(t) ==
  /\ At(t, "adopt") /\ ~Counting
  /\ sock' = [sock EXCEPT ![th[t].left].rcvevent = @ + (-1 - conn[th[t].c].socket)]
  /\ conn' = [conn EXCEPT ![th[t].c].socket = th[t].left, ![th[t].c].given = th[t].left]
  /\ Return(t)
  /\ UNCHANGED <<work, cb, scb, list, ctr, api, plan, peers, crashed>>

(* netconn_free of a netconn that found no slot, or lost its peer. *)
Discard(t) ==
  /\ At(t, "discard")
  /\ conn' = [conn EXCEPT ![th[t].c] = NoConn]
  /\ Return(t)
  /\ UNCHANGED <<sock, work, cb, scb, list, ctr, api, plan, peers, crashed>>

(* lwip_close: netconn_delete, then the slot is given up. *)
lwip_close(t, s) ==
  /\ Begin(t, "close") /\ On(t, s) /\ (Shared \/ ~Selected(t, s))
  /\ Ask(t, Enter(t, s, "api"), "delconn", "free")
  /\ UNCHANGED <<sock, conn, work, cb, scb, list, ctr, plan, peers, crashed>>

NetconnFree(t) ==
  /\ At(t, "free")
  /\ conn' = [conn EXCEPT ![th[t].c] = NoConn]
  /\ crashed' = conn[th[t].c].pcb
  /\ Goto(t, "slot")
  /\ UNCHANGED <<sock, work, cb, scb, list, ctr, api, plan, peers>>

free_socket(t) ==
  /\ At(t, "slot")
  /\ sock' = [sock EXCEPT ![th[t].s].lastdata = NULL, ![th[t].s].conn = 0]
  /\ Return(t)
  /\ UNCHANGED <<conn, work, cb, scb, list, ctr, api, plan, peers, crashed>>

-----------------------------------------------------------------------------
(* lwip_accept and lwip_recvfrom. *)

(* Would the call have to wait?  A nonblocking one then gives up. *)
WouldBlock(s, flag) ==
  (flag = "DONTWAIT" \/ conn[sock[s].conn].nonblock) /\ sock[s].rcvevent <= 0

lwip_accept(t, s) ==
  /\ Begin(t, "accept") /\ On(t, s) /\ conn[sock[s].conn].state = "LISTEN"
  /\ th' = [th EXCEPT ![t] =
       IF WouldBlock(s, "") \/ IsFatal(sock[s].conn)
       THEN [Idle EXCEPT !.i = th[t].i - 1] ELSE Enter(t, s, "accept")]
  /\ UNCHANGED <<sock, conn, work, cb, scb, list, ctr, api, plan, peers, crashed>>

(* netconn_accept has its connection: RCVMINUS, then who is the peer? *)
AcceptFetch(t) ==
  /\ At(t, "accept") /\ conn[th[t].c].mbox # <<>>
  /\ conn' = [conn EXCEPT ![th[t].c].mbox = Tail(@)]
  /\ Does(t, <<Event(th[t].c, "RCVMINUS")>>)
  /\ th' = [th EXCEPT ![t].pc = "peer", ![t].c = Head(conn[th[t].c].mbox).first,
                      ![t].flag = "accept", ![t].left = 0]
  /\ UNCHANGED <<sock, cb, scb, list, ctr, api, plan, peers, crashed>>

AcceptPeer(t) ==
  /\ At(t, "peer") /\ Ask(t, th[t], "getaddr", "named")
  /\ UNCHANGED <<sock, conn, work, cb, scb, list, ctr, plan, peers, crashed>>

AcceptNamed(t) ==
  /\ At(t, "named")
  /\ IF th[t].failed THEN Ask(t, th[t], "delconn", "discard")
                     ELSE Goto(t, "alloc") /\ UNCHANGED api
  /\ UNCHANGED <<sock, conn, work, cb, scb, list, ctr, plan, peers, crashed>>

lwip_recvfrom(t, s, len, flag) ==
  /\ Begin(t, "recv") /\ On(t, s)
  /\ th' = [th EXCEPT ![t] = [Enter(t, s, "recv") EXCEPT !.left = len, !.flag = flag]]
  /\ UNCHANGED <<sock, conn, work, cb, scb, list, ctr, api, plan, peers, crashed>>

(* The end of the call: the window of what was copied is given back. *)
Finish(t, r) ==
  IF r.off > 0 /\ conn[r.c].type = "tcp"
  THEN Ask(t, r, "recved", "return")
  ELSE Return(t) /\ UNCHANGED api

(* netconn_recv_data.  The end of the stream is a NULL: it is answered to  *)
(* TCP and counted down before last_err becomes ERR_CLSD.                  *)
RecvFetch(t) ==
  /\ At(t, "fetch") /\ conn[th[t].c].mbox # <<>>
  /\ conn' = [conn EXCEPT ![th[t].c].mbox = Tail(@)]
  /\ \E b \in {Head(conn[th[t].c].mbox)} :
       IF b.k = "eof"
       THEN Ask(t, th[t], "fin_recved", "ended") /\ UNCHANGED work
       ELSE /\ th' = [th EXCEPT ![t].buf = b, ![t].pc = "got"]
            /\ Does(t, <<Avail(th[t].c, - b.n), Event(th[t].c, "RCVMINUS")>>)
            /\ UNCHANGED api
  /\ UNCHANGED <<sock, cb, scb, list, ctr, plan, peers, crashed>>

RecvEnded(t) ==
  /\ At(t, "ended") /\ Does(t, <<Event(th[t].c, "RCVMINUS")>>) /\ Goto(t, "closed")
  /\ UNCHANGED <<sock, conn, cb, scb, list, ctr, api, plan, peers, crashed>>

RecvClosed(t) ==
  /\ At(t, "closed")
  /\ conn' = [conn EXCEPT ![th[t].c].err = SafeErr(@, "CLSD"), ![th[t].c].told = @ \/ th[t].off = 0]
  /\ Finish(t, th[t])
  /\ UNCHANGED <<sock, work, cb, scb, list, ctr, plan, peers, crashed>>

RecvGot(t) ==
  /\ At(t, "got")
  /\ sock' = [sock EXCEPT ![th[t].s].lastdata = th[t].buf]
  /\ Goto(t, "recv")
  /\ UNCHANGED <<conn, work, cb, scb, list, ctr, api, plan, peers, crashed>>

(* What stays in lastdata, at lastoffset, after n bytes are taken from b. *)
Rest_dropped(c, b, n) == NULL
Rest(c, b, n) ==
  IF conn[c].type = "tcp" /\ b.n > n THEN [b EXCEPT !.first = @ + n, !.n = @ - n] ELSE NULL

RecvDone(t, b, n) ==
  \/ conn[th[t].c].type # "tcp"
  \/ th[t].left - n = 0 \/ b.push \/ th[t].flag = "PEEK"
  \/ sock[th[t].s].rcvevent <= 0

(* One turn of the copying loop on buffer b.  A peek leaves b as it is. *)
RecvCopy(t, b, n) ==
  /\ IF th[t].flag = "PEEK" THEN UNCHANGED <<sock, conn>>
     ELSE /\ sock' = [sock EXCEPT ![th[t].s].lastdata = Rest(th[t].c, b, n)]
          /\ conn' = [conn EXCEPT ![th[t].c].read =
                        IF conn[th[t].c].type = "tcp" THEN b.first + n - 1 ELSE b.first]
  /\ \E r \in {[th[t] EXCEPT !.left = @ - n, !.off = @ + n, !.buf = NULL]} :
       IF RecvDone(t, b, n) THEN Finish(t, r)
       ELSE th' = [th EXCEPT ![t] = r] /\ UNCHANGED api

(* The top of the loop: the rest of the last buffer, or the mailbox. *)
RecvTop(t) ==
  /\ At(t, "recv")
  /\ IF sock[th[t].s].lastdata # NULL
     THEN \E b \in {sock[th[t].s].lastdata} :
            RecvCopy(t, b, IF th[t].left > b.n THEN b.n ELSE th[t].left)
     ELSE /\ IF WouldBlock(th[t].s, th[t].flag) \/ ~conn[th[t].c].valid \/ IsFatal(th[t].c)
             THEN Finish(t, th[t])
             ELSE Goto(t, "fetch") /\ UNCHANGED api
          /\ UNCHANGED <<sock, conn>>
  /\ UNCHANGED <<work, cb, scb, list, ctr, plan, peers, crashed>>

-----------------------------------------------------------------------------
(* lwip_select.  rest holds the descriptors a loop has still to visit. *)

Args(t) == th[t].arg
Wanted(t) == Args(t).rd \cup Args(t).wr \cup Args(t).ex
Least(S) == CHOOSE i \in S : \A j \in S : i <= j

lwip_select(t, q) ==
  /\ Begin(t, "select")
  /\ Shared \/ \A s \in q.rd \cup q.wr \cup q.ex : Adopted(s) /\ ~Closing(t, s)
  /\ th' = [th EXCEPT ![t] = [@ EXCEPT !.pc = "scan1", !.arg = q, !.i = @ - 1, !.ready = {},
                                !.s = -1, !.rest = q.rd \cup q.wr \cup q.ex]]
  /\ UNCHANGED <<sock, conn, work, cb, scb, list, ctr, api, plan, peers, crashed>>

(* Is descriptor i ready?  One turn of lwip_selscan, under the lock. *)
IsReady(q, i) ==
  /\ sock[i].conn # 0
  /\ \/ i \in q.rd /\ (sock[i].lastdata # NULL \/ sock[i].rcvevent > 0)
     \/ i \in q.wr /\ sock[i].sendevent
     \/ i \in q.ex /\ sock[i].errevent

(* Where the call goes after a scan that left the set r of ready ones. *)
Scanned(q, pc, r) ==
  CASE pc = "scan1" -> IF r # {} \/ q.poll THEN "idle" ELSE "insert"
    [] pc = "scan2" -> IF r # {} THEN "dec" ELSE "sleep"
    [] pc = "scan3" -> "idle"

lwip_selscan(t) ==
  /\ Ready(t) /\ th[t].pc \in {"scan1", "scan2", "scan3"}
  /\ \E i \in {Least(th[t].rest)} : \E r \in {th[t].ready \cup {j \in {i} : IsReady(Args(t), j)}} :
       th' = [th EXCEPT ![t] =
         IF th[t].rest = {i}
         THEN IF Scanned(Args(t), th[t].pc, r) = "idle" THEN [Idle EXCEPT !.i = th[t].i]
              ELSE [@ EXCEPT !.pc = Scanned(Args(t), th[t].pc, r), !.ready = r, !.rest = Wanted(t)]
         ELSE [@ EXCEPT !.ready = r, !.rest = @ \ {i}]]
  /\ UNCHANGED <<sock, conn, work, cb, scb, list, ctr, api, plan, peers, crashed>>

SelectInsert(t) ==
  /\ At(t, "insert")
  /\ scb' = [scb EXCEPT ![t] = [NoScb EXCEPT !.rd = Args(t).rd, !.wr = Args(t).wr, !.ex = Args(t).ex]]
  /\ list' = <<t>> \o list
  /\ ctr' = ctr + 1
  /\ th' = [th EXCEPT ![t].pc = "inc", ![t].rest = Wanted(t)]
  /\ UNCHANGED <<sock, conn, work, cb, api, plan, peers, crashed>>

(* select_waiting of the descriptors, one by one.  The slot must be open. *)
SelectCount(t, pc, d, next) ==
  /\ At(t, pc)
  /\ \E i \in {Least(th[t].rest)} :
       /\ sock' = [sock EXCEPT ![i].waiting = @ + d]
       /\ crashed' = (sock[i].conn = 0 \/ sock[i].waiting + d < 0)
       /\ th' = [th EXCEPT ![t] =
            IF th[t].rest = {i} THEN [@ EXCEPT !.pc = next, !.rest = Wanted(t), !.ready = {}]
                                ELSE [@ EXCEPT !.rest = @ \ {i}]]
  /\ UNCHANGED <<conn, work, cb, scb, list, ctr, api, plan, peers>>

SelectWaiting_no_rescan(t) == SelectCount(t, "inc", 1, "sleep")
SelectWaiting(t) == SelectCount(t, "inc", 1, "scan2")
SelectNotWaiting(t) == SelectCount(t, "dec", -1, "remove")

SelectWoken(t) ==
  /\ At(t, "sleep") /\ scb[t].sem = 1
  /\ scb' = [scb EXCEPT ![t].sem = 0]
  /\ Goto(t, "dec")
  /\ UNCHANGED <<sock, conn, work, cb, list, ctr, api, plan, peers, crashed>>

SelectTimeout(t) ==
  /\ At(t, "sleep") /\ scb[t].sem = 0 /\ Args(t).timed
  /\ th' = [th EXCEPT ![t].pc = "dec", ![t].timed = TRUE]
  /\ UNCHANGED <<sock, conn, work, cb, scb, list, ctr, api, plan, peers, crashed>>

(* The select_cb leaves the list; its semaphore and its frame go. *)
SelectRemove(t) ==
  /\ At(t, "remove")
  /\ list' = SelectSeq(list, LAMBDA u : u # t)
  /\ ctr' = ctr + 1
  /\ scb' = [scb EXCEPT ![t] = NoScb]
  /\ IF th[t].timed THEN Return(t) ELSE Goto(t, "scan3")
  /\ UNCHANGED <<sock, conn, work, cb, api, plan, peers, crashed>>

-----------------------------------------------------------------------------
(* The tcpip thread: messages of the threads. *)

(* err_tcp: the pcb is gone, the events come before the NULL in the mailbox. *)
Broken(k, e) == [k EXCEPT !.pcb = FALSE, !.up = FALSE, !.err = e, !.state = "NONE",
                          !.inconnect = FALSE]
BrokenWork(c) ==
  <<Event(c, "ERROR"), Event(c, "RCVPLUS"), Event(c, "SENDPLUS"), PostItem(c, EOF)>>
  \o IF conn[c].state \in {"WRITE", "CONNECT"} /\ ~conn[c].inconnect THEN <<Signal(c)>> ELSE <<>>

(* do_delconn and do_close_internal report these, in this order. *)
ClosedWork(c) ==
  (IF conn[c].type = "tcp" /\ conn[c].pcb THEN <<Event(c, "ERROR")>> ELSE <<>>)
  \o <<Event(c, "RCVPLUS"), Event(c, "SENDPLUS"), Signal(c)>>

(* netconn_drain: a listener's connections that nobody accepted go too. *)
Drained(c) ==
  LET gone == {conn[c].mbox[i].first : i \in {j \in 1 .. Len(conn[c].mbox) : conn[c].mbox[j].k = "conn"}}
  IN  [d \in Netconns |->
        IF d \in gone THEN NoConn
        ELSE IF d = c THEN [conn[d] EXCEPT !.mbox = <<>>, !.valid = FALSE] ELSE conn[d]]

(* sys_sem_signal of op_completed, with nothing else to do. *)
Acknowledge(g) == conn' = [conn EXCEPT ![g.c].op = 1] /\ UNCHANGED work
do_newconn(g) == conn' = [conn EXCEPT ![g.c].pcb = TRUE, ![g.c].op = 1] /\ UNCHANGED work
do_listen(g) ==
  IF conn[g.c].type = "tcp" /\ conn[g.c].pcb /\ conn[g.c].state = "NONE" /\ ~conn[g.c].up
  THEN conn' = [conn EXCEPT ![g.c].state = "LISTEN", ![g.c].mbox = <<>>, ![g.c].op = 1] /\ UNCHANGED work
  ELSE Acknowledge(g)
do_connect(g) ==
  IF conn[g.c].type # "tcp" \/ ~conn[g.c].pcb \/ conn[g.c].state # "NONE" \/ conn[g.c].up
  THEN conn' = [conn EXCEPT ![g.c].up = @ \/ conn[g.c].type # "tcp", ![g.c].op = 1] /\ UNCHANGED work
  ELSE conn' = [conn EXCEPT ![g.c].state = "CONNECT", ![g.c].inconnect = conn[g.c].nonblock,
                            ![g.c].op = IF conn[g.c].nonblock THEN 1 ELSE @] /\ UNCHANGED work
do_bind(g) ==
  conn' = [conn EXCEPT ![g.c].up = @ \/ conn[g.c].type = "udp", ![g.c].op = 1] /\ UNCHANGED work

(* do_write with do_writemore: the buffer takes the data and may be low    *)
(* after it, or is full, which a nonblocking netconn reports.              *)
do_write(g) ==
  IF IsFatal(g.c) \/ ~conn[g.c].pcb \/ ~conn[g.c].up \/ conn[g.c].state # "NONE"
  THEN Acknowledge(g)
  ELSE IF conn[g.c].room
  THEN \/ Acknowledge(g)
       \/ /\ conn' = [conn EXCEPT ![g.c].room = FALSE]
          /\ Does(TCPIP, <<Event(g.c, "SENDMINUS"), Signal(g.c)>>)
  ELSE IF conn[g.c].nonblock
  THEN /\ conn' = [conn EXCEPT ![g.c].check = TRUE]
       /\ Does(TCPIP, <<Event(g.c, "SENDMINUS"), Signal(g.c)>>)
  ELSE /\ conn' = [conn EXCEPT ![g.c].state = "WRITE"]
       /\ Does(TCPIP, <<Event(g.c, "SENDMINUS")>>)

do_recv(g) ==
  /\ conn' = [conn EXCEPT ![g.c].recved = IF conn[g.c].pcb THEN @ + th[g.t].off ELSE @, ![g.c].op = 1]
  /\ UNCHANGED work

(* do_close after a shutdown of one direction. *)
do_shutdown(g) ==
  IF conn[g.c].state # "NONE" \/ ~conn[g.c].pcb \/ ~conn[g.c].up \/ conn[g.c].type # "tcp"
  THEN Acknowledge(g)
  ELSE IF g.fn = "shut_rd"
  THEN /\ conn' = Drained(g.c)
       /\ Does(TCPIP, <<Event(g.c, "RCVPLUS"), Signal(g.c)>>)
  ELSE UNCHANGED conn /\ Does(TCPIP, <<Event(g.c, "SENDPLUS"), Signal(g.c)>>)

do_delconn(g) ==
  IF conn[g.c].state \in {"WRITE", "CLOSE"}
  THEN Acknowledge(g)
  ELSE /\ conn' = [Drained(g.c) EXCEPT ![g.c].pcb = FALSE, ![g.c].up = FALSE, ![g.c].state = "NONE"]
       /\ Does(TCPIP, ClosedWork(g.c))

(* An option kept in the pcb is reached through conn->pcb, whatever became *)
(* of it; a null pointer ends the program.                                 *)
NullPcb(g) == th[g.t].flag # "SO_RCVTIMEO" /\ ~conn[g.c].pcb
getsockopt_internal(g) == crashed' = NullPcb(g) /\ Acknowledge(g)
setsockopt_internal(g) ==
  /\ crashed' = NullPcb(g) /\ UNCHANGED work
  /\ conn' = [conn EXCEPT ![g.c].options = @ \cup {th[g.t].flag}, ![g.c].op = 1]

(* What the caller learns: only lwip_accept asks whether it failed. *)
Reply(g) ==
  th' = IF g.fn = "getaddr" /\ th[g.t].next = "named"
        THEN [th EXCEPT ![g.t].failed = ~conn[g.c].pcb] ELSE th

tcpip_thread ==
  /\ Ready(TCPIP) /\ api # <<>>
  /\ \E g \in {Head(api)} :
       /\ CASE g.fn = "newconn" -> do_newconn(g)
            [] g.fn = "listen" -> do_listen(g)
            [] g.fn = "connect" -> do_connect(g)
            [] g.fn = "bind" -> do_bind(g)
            [] g.fn = "write" -> do_write(g)
            [] g.fn = "recved" -> do_recv(g)
            [] g.fn \in {"shut_rd", "shut_wr"} -> do_shutdown(g)
            [] g.fn = "delconn" -> do_delconn(g)
            [] g.fn = "getopt" -> getsockopt_internal(g)
            [] g.fn = "setopt" -> setsockopt_internal(g)
            [] OTHER -> Acknowledge(g)
       /\ Reply(g)
       /\ g.fn \notin {"getopt", "setopt"} => UNCHANGED crashed
  /\ api' = Tail(api)
  /\ UNCHANGED <<sock, cb, scb, list, ctr, plan, peers>>

-----------------------------------------------------------------------------
(* The tcpip thread: what the network does. *)

Net(c) == Ready(TCPIP) /\ conn[c].pcb
NetOnly == UNCHANGED <<sock, th, cb, scb, list, ctr, api, plan, crashed>>

(* recv_tcp with data.  Byte numbers start at 1.  A full mailbox refuses:  *)
(* TCP keeps the segment as refused_data, which module Netconn has, and    *)
(* offers it again when there is room.                                     *)
recv_tcp(c, push) ==
  /\ Net(c) /\ conn[c].type = "tcp" /\ conn[c].up /\ ~conn[c].fin /\ conn[c].segs < plan.segs
  /\ conn[c].valid /\ Len(conn[c].mbox) < MboxSize
  /\ conn' = [conn EXCEPT ![c].segs = @ + 1,
                ![c].mbox = Append(@, Data(conn[c].segs * SegLen + 1, SegLen, push))]
  /\ Does(TCPIP, <<Avail(c, SegLen), Event(c, "RCVPLUS")>>)
  /\ UNCHANGED peers /\ NetOnly

(* recv_tcp with the peer's FIN.  Its NULL is not offered again when the   *)
(* mailbox is full: the end of the stream is lost.                         *)
RecvFin(c) ==
  /\ Net(c) /\ conn[c].type = "tcp" /\ conn[c].up /\ ~conn[c].fin
  /\ IF conn[c].valid /\ Len(conn[c].mbox) < MboxSize
     THEN /\ conn' = [conn EXCEPT ![c].fin = TRUE, ![c].mbox = Append(@, EOF)]
          /\ Does(TCPIP, <<Event(c, "RCVPLUS")>>)
     ELSE conn' = [conn EXCEPT ![c].fin = TRUE] /\ UNCHANGED work
  /\ UNCHANGED peers /\ NetOnly

(* recv_udp and recv_raw: a datagram, from a RAW pcb's first moment on. *)
recv_udp(c) ==
  /\ Net(c) /\ (conn[c].type = "raw" \/ (conn[c].type = "udp" /\ conn[c].up)) /\ conn[c].segs < plan.segs
  /\ conn[c].valid
  /\ IF Len(conn[c].mbox) < MboxSize
     THEN /\ conn' = [conn EXCEPT ![c].segs = @ + 1,
                        ![c].mbox = Append(@, Data(conn[c].segs + 1, SegLen, FALSE))]
          /\ Does(TCPIP, <<Avail(c, SegLen), Event(c, "RCVPLUS")>>)
     ELSE conn' = [conn EXCEPT ![c].segs = @ + 1] /\ UNCHANGED work
  /\ UNCHANGED peers /\ NetOnly

err_tcp(c) ==
  /\ Net(c) /\ plan.resets /\ conn[c].type = "tcp" /\ (conn[c].up \/ conn[c].state = "CONNECT")
  /\ conn' = [conn EXCEPT ![c] = Broken(@, "RST")]
  /\ Does(TCPIP, BrokenWork(c))
  /\ UNCHANGED peers /\ NetOnly

(* accept_function: a connection for a listener. *)
accept_function(c) ==
  /\ Net(c) /\ conn[c].state = "LISTEN" /\ peers < plan.peers /\ FreeConns # {}
  /\ Len(conn[c].mbox) < MboxSize
  /\ \E d \in {Least(FreeConns)} :
       conn' = [conn EXCEPT ![d] = [FreshConn("tcp") EXCEPT !.pcb = TRUE, !.up = TRUE],
                            ![c].mbox = Append(@, Newcomer(d))]
  /\ Does(TCPIP, <<Event(c, "RCVPLUS")>>)
  /\ peers' = peers + 1 /\ NetOnly

do_connected(c) ==
  /\ Net(c) /\ conn[c].state = "CONNECT"
  /\ conn' = [conn EXCEPT ![c].state = "NONE", ![c].up = TRUE, ![c].inconnect = FALSE]
  /\ Does(TCPIP, IF conn[c].inconnect THEN <<Event(c, "SENDPLUS")>>
                                      ELSE <<Event(c, "SENDPLUS"), Signal(c)>>)
  /\ UNCHANGED peers /\ NetOnly

(* sent_tcp: acknowledged data makes room; a blocked write finishes first. *)
sent_tcp(c) ==
  /\ Net(c) /\ ~conn[c].room
  /\ conn' = [conn EXCEPT ![c].room = TRUE, ![c].check = FALSE,
                          ![c].state = IF @ = "WRITE" THEN "NONE" ELSE @]
  /\ Does(TCPIP, IF conn[c].state = "WRITE" THEN <<Signal(c), Event(c, "SENDPLUS")>>
                                            ELSE <<Event(c, "SENDPLUS")>>)
  /\ UNCHANGED peers /\ NetOnly

-----------------------------------------------------------------------------
ThreadStep(t) ==
  \/ Answered(t) \/ AllocScan(t) \/ AllocFields(t) \/ SocketNamed(t)
  \/ AcceptAdopt(t) \/ Discard(t) \/ NetconnFree(t) \/ free_socket(t)
  \/ AcceptFetch(t) \/ AcceptPeer(t) \/ AcceptNamed(t)
  \/ RecvTop(t) \/ RecvFetch(t) \/ RecvEnded(t) \/ RecvClosed(t) \/ RecvGot(t)
  \/ lwip_selscan(t) \/ SelectInsert(t) \/ SelectWaiting(t) \/ SelectNotWaiting(t)
  \/ SelectWoken(t) \/ SelectTimeout(t) \/ SelectRemove(t)

ThreadCall(t) ==
  \/ \E type \in plan.kinds : lwip_socket(t, type)
  \/ \E s \in Fds : \/ lwip_bind(t, s) \/ lwip_connect(t, s) \/ lwip_listen(t, s)
                    \/ lwip_send(t, s) \/ lwip_sendto(t, s)
                    \/ lwip_shutdown(t, s) \/ lwip_getaddrname(t, s)
  \/ \E s \in Fds, opt \in Options : lwip_getsockopt(t, s, opt) \/ lwip_setsockopt(t, s, opt)
  \/ \E s \in Fds : SetNonblocking(t, s) \/ lwip_close(t, s) \/ lwip_accept(t, s)
  \/ \E s \in Fds, p \in plan.recvs : lwip_recvfrom(t, s, p[1], p[2])
  \/ \E q \in plan.selects : lwip_select(t, q)

Network ==
  \E c \in Netconns :
    \/ \E push \in plan.push : recv_tcp(c, push)
    \/ RecvFin(c) \/ recv_udp(c) \/ err_tcp(c) \/ accept_function(c) \/ do_connected(c) \/ sent_tcp(c)

EventStep(a) == EventLookup(a) \/ EventCount(a) \/ EventApply(a) \/ EventLoop(a) \/ Post(a)

Next ==
  \/ \E t \in Threads : ThreadStep(t) \/ ThreadCall(t)
  \/ \E a \in Actors : EventStep(a)
  \/ tcpip_thread
  \/ Network

(* An event_callback that runs goes on, and a signalled semaphore wakes. *)
Spec == Init /\ [][Next]_vars
          /\ \A a \in Actors : WF_vars(EventCount(a) \/ EventApply(a) \/ EventLoop(a))
          /\ \A t \in Threads : WF_vars(SelectWoken(t))

-----------------------------------------------------------------------------
(* Properties. *)

(* How often event e of netconn c is on its way but not yet in the count:  *)
(* the event an actor is applying is first in its hands until it is done.  *)
Applied1(a) == IF cb[a] # NULL /\ cb[a].pc = "loop" THEN 2 ELSE 1
OnTheWay(c, e) ==
  Cardinality({<<a, i>> \in Actors \X (1 .. 4) :
     i \in Applied1(a) .. Len(work[a]) /\ work[a][i] = Event(c, e)})
(* A reader that has fetched the end and has not yet reported it. *)
Ending(c) == Cardinality({t \in Threads : th[t].c = c /\ (th[t].pc = "ended" \/ (th[t].next = "ended" /\ th[t].pc = "api"))})

Alive(c) == conn[c].type # "free" /\ conn[c].valid /\ ~IsFatal(c)

(* Whether the arrivals are counted in conn->socket, below -1, or in       *)
(* rcvevent, whoever posts, fetches or adopts meanwhile: the count, the    *)
(* events on their way included, is the number of things in the mailbox,   *)
(* and recv_avail, which FIONREAD reports, their bytes.  Only a RAW        *)
(* netconn, which receives from raw_new on, loses arrivals: those counted  *)
(* before lwip_socket wrote its name over them (sockets.c:999), and all of *)
(* them when the decrement of event_callback wrote over the name.          *)
Count(c) == IF conn[c].socket < 0 THEN -1 - conn[c].socket ELSE sock[conn[c].socket].rcvevent
(* The bytes in the mailbox, and those recv_avail has yet to learn of. *)
Bytes(q) == FoldLeft(LAMBDA n, b : n + b.n, 0, q)
InHand(a, c) ==
  FoldLeft(LAMBDA n, w : n + w.x, 0, SelectSeq(work[a], LAMBDA w : w.op = "avail" /\ w.c = c))
Unlearned(c) == FoldFunction(LAMBDA x, n : x + n, 0, [a \in Actors |-> InHand(a, c)])
Misnamed(c) == conn[c].given >= 0 /\ conn[c].socket # conn[c].given
ArrivalsCounted ==
  \A c \in Netconns : Alive(c) /\ ~crashed =>
      /\ \/ Count(c) + conn[c].missed + OnTheWay(c, "RCVPLUS") - OnTheWay(c, "RCVMINUS") - Ending(c)
               = Len(conn[c].mbox)
         \/ Misnamed(c)
      /\ conn[c].missed > 0 \/ Misnamed(c) => conn[c].type = "raw"
      /\ conn[c].state # "LISTEN" => conn[c].avail + Unlearned(c) = Bytes(conn[c].mbox)

(* A call that may not wait never waits: when lwip_recvfrom or lwip_accept *)
(* goes to the mailbox of a nonblocking socket, something is there.        *)
NonblockingNeverWaits ==
  \A t \in Threads : th[t].pc \in {"fetch", "accept"} /\ ~crashed
      /\ (conn[th[t].c].nonblock \/ th[t].flag = "DONTWAIT") =>
    conn[th[t].c].mbox # <<>>

(* Between TCP and the reader no byte is lost, repeated or reordered,      *)
(* wherever a read stops: what is in a reader's hands, in lastdata and in  *)
(* the mailbox is what has arrived and has not been read.                  *)
Held(c) ==
  SelectSeq((IF Adopted(conn[c].socket) THEN <<sock[conn[c].socket].lastdata>> ELSE <<>>)
            \o SetToSeq({th[t].buf : t \in {u \in Threads : th[u].c = c /\ th[u].pc = "got"}})
            \o conn[c].mbox, LAMBDA b : b # NULL /\ b # EOF)
BytesInOrder ==
  \A c \in Netconns : Alive(c) /\ conn[c].type = "tcp" /\ conn[c].socket >= 0
                      /\ conn[c].state # "LISTEN" =>
    LET q == Held(c) IN
    /\ \A i \in 1 .. Len(q) : q[i].n > 0 /\ q[i].first = 1 +
         IF i = 1 THEN conn[c].read ELSE q[i-1].first + q[i-1].n - 1
    /\ conn[c].segs * SegLen = IF q = <<>> THEN conn[c].read ELSE Last(q).first + Last(q).n - 1

(* No sleeper is forgotten: a thread that sleeps in lwip_select while a    *)
(* count says one of its descriptors is ready has its semaphore signalled, *)
(* or an event_callback for that descriptor has yet to come to it.         *)
ToVisit(a, t) ==
  cb[a].pc = "loop" /\ (cb[a].ctr # ctr \/ \E i \in After(cb[a].at) .. Len(list) : list[i] = t)
SelectNotForgotten ==
  \A t \in Threads : th[t].pc = "sleep" /\ scb[t].sem = 0 /\ ~crashed =>
    \A s \in Wanted(t) : WantsSignal([scb[t] EXCEPT !.signalled = FALSE], s, sock[s]) =>
      \E a \in Actors : cb[a] # NULL /\ cb[a].s = s /\ ToVisit(a, t)

(* select_waiting is the number of threads that wait on the socket. *)
Counted(t, s) ==
  \/ th[t].pc = "inc" /\ s \notin th[t].rest
  \/ th[t].pc \in {"scan2", "sleep"}
  \/ th[t].pc = "dec" /\ s \in th[t].rest
WaitingCounts ==
  \A s \in Fds : sock[s].conn # 0 /\ ~crashed =>
    sock[s].waiting = Cardinality({t \in Threads : th[t].arg # NULL /\ s \in Wanted(t) /\ Counted(t, s)})

(* The counts of a socket are true at every moment: rcvevent and           *)
(* recv_avail to the mailbox, select_waiting to the threads in lwip_select,*)
(* so that a nonblocking read never waits (event_callback, alloc_socket).  *)
CountsTrue == ArrivalsCounted /\ WaitingCounts /\ NonblockingNeverWaits

(* "Just count down (or up) if that's the case and we will use the data    *)
(* later" (sockets.c:1265): no early arrival is forgotten.                 *)
EarlyArrivalsUsed == \A c \in Netconns : conn[c].missed = 0 /\ ~Misnamed(c)

(* A thread that sleeps on a descriptor the counts call ready wakes up. *)
SelectReturns ==
  \A t \in Threads :
    (th[t].pc = "sleep" /\ \E s \in Wanted(t) : WantsSignal([scb[t] EXCEPT !.signalled = FALSE], s, sock[s]))
      ~> (th[t].pc # "sleep" \/ crashed)

(* The end of a stream that no read has returned is ready for read. *)
EndIsReadable ==
  \A s \in Fds : Adopted(s) /\ conn[sock[s].conn].err = "CLSD" /\ ~conn[sock[s].conn].told =>
    \/ sock[s].rcvevent > 0
    \/ \E t \in Threads : th[t].s = s /\ th[t].pc # "idle"

(* The options of a socket can be read whatever became of its connection. *)
NoNullPcb == ~crashed

(* The window that is given back is of data the application has taken. *)
WindowOwed == \A c \in Netconns : conn[c].type = "tcp" => conn[c].recved <= conn[c].read
=============================================================================
