------------------------------ MODULE Netconn -------------------------------
(***************************************************************************)
(* TCP netconns (api/api_lib.c, api/api_msg.c) on top of TCP's protocol    *)
(* control blocks (core/tcp.c, core/tcp_in.c).                             *)
(*                                                                         *)
(* A call of an application thread posts a message to the tcpip thread and *)
(* waits on the netconn's op_completed.  The tcpip thread runs the lower   *)
(* half of the call, at once or in pieces: a blocking connect,             *)
(* write or close stays in conn->current_msg and is finished by a callback *)
(* of TCP (connected, sent, poll, err).  Segments, timers and resets reach *)
(* the netconn through the same callbacks at any moment in between.        *)
(*                                                                         *)
(* Errors are told apart as the code does with ERR_IS_FATAL.  Received     *)
(* segments carry one byte each; the send buffer is counted in bytes.  A   *)
(* handler of the tcpip thread is one step, up to the tail that poll_tcp   *)
(* and sent_tcp execute after they may have released the caller.           *)
(***************************************************************************)
EXTENDS Integers, Sequences, FiniteSets, SequencesExt, FiniteSetsExt

CONSTANTS
  Conns,        \* MEMP_NUM_NETCONN structures
  Pcbs,         \* MEMP_NUM_TCP_PCB structures
  ListenPcbs,   \* MEMP_NUM_TCP_PCB_LISTEN structures, the smaller pcbs of listeners
  Threads,      \* application threads
  None,         \* the null pointer
  RecvMbox,     \* DEFAULT_TCP_RECVMBOX_SIZE
  AcceptMbox,   \* DEFAULT_ACCEPTMBOX_SIZE
  SndBuf,       \* TCP_SND_BUF
  SndLowat,     \* TCP_SNDLOWAT
  Wnd,          \* TCP_WND
  Lens,         \* lengths of the writes
  Shuts,        \* the arguments of netconn_shutdown and netconn_close
  Timeouts      \* which of send_timeout ("SND") and recv_timeout ("RCV") are set

RDWR == {"RD", "WR"}
AllPcbs == Pcbs \cup ListenPcbs

ASSUME NetconnAssumption ==
  /\ None \notin Conns \cup Pcbs \cup ListenPcbs \cup Threads
  /\ Pcbs \cap ListenPcbs = {}
  /\ {RecvMbox, AcceptMbox, SndBuf, Wnd} \subseteq Nat \ {0}
  /\ SndLowat \in 0 .. SndBuf - 1
  /\ Lens \subseteq Nat \ {0}
  /\ Shuts \subseteq (SUBSET RDWR) \ {{}}
  /\ Timeouts \subseteq {"SND", "RCV"}

VARIABLES
  conn,         \* struct netconn, per structure
  pcb,          \* struct tcp_pcb, per structure
  th,           \* an application thread and the api_msg on its stack
  mbox,         \* the tcpip mailbox: the threads whose messages wait
  owned,        \* netconns the application has a pointer to
  tail          \* what poll_tcp or sent_tcp has left to do

vars == <<conn, pcb, th, mbox, owned, tail>>

Errors == {"OK", "soft", "fatal"}
ConnStates == {"NONE", "WRITE", "LISTEN", "CONNECT", "CLOSE"}
Active == {"SYN_SENT", "SYN_RCVD", "ESTABLISHED", "CLOSE_WAIT", "FIN_WAIT_1",
           "FIN_WAIT_2", "CLOSING", "LAST_ACK"}
PcbStates == Active \cup {"free", "CLOSED", "LISTEN", "TIME_WAIT"}
Calls == {"none", "new", "delete", "bind", "getaddr", "connect", "listen",
          "write", "close", "recv_eof", "recved"}

\* netconn_alloc's values.  fatal is ERR_IS_FATAL(last_err), nbc and chk are the
\* flags IN_NONBLOCKING_CONNECT and CHECK_WRITESPACE, wr the sendevent of the
\* socket, held the bytes fetched and not yet given to netconn_recved.  past is
\* history, which no code reads: "half", only the sending side was shut; "eof", the
\* NULL that ends the stream was lost at a full recvmbox; "lost", conn->pcb points
\* to a pcb that was given back to its pool (written as None here).
FreeConn ==
  [alive |-> FALSE, state |-> "NONE", pcb |-> None, fatal |-> FALSE, msg |-> None,
   offset |-> 0, nbc |-> FALSE, chk |-> FALSE, wr |-> FALSE,
   rvalid |-> FALSE, recvmbox |-> << >>, avalid |-> FALSE, acceptmbox |-> << >>,
   sem |-> 0, held |-> 0, past |-> {}]
NewConn == [FreeConn EXCEPT !.alive = TRUE, !.rvalid = TRUE]

\* recv, sent, poll, err: the callback is installed.  rx is TF_RXCLOSED, refused
\* the refused_data, snd the bytes not acknowledged, owed TCP_WND - rcv_wnd.
FreePcb ==
  [st |-> "free", arg |-> None, recv |-> FALSE, sent |-> FALSE, poll |-> FALSE,
   err |-> FALSE, rx |-> FALSE, refused |-> "none", snd |-> 0, owed |-> 0]

IdleThread ==
  [pc |-> "idle", fn |-> "none", c |-> None, shut |-> {}, len |-> 0,
   nb |-> FALSE, err |-> "OK"]

Init ==
  /\ conn = [c \in Conns |-> FreeConn] /\ pcb = [p \in AllPcbs |-> FreePcb]
  /\ th = [t \in Threads |-> IdleThread]
  /\ mbox = << >> /\ owned = {} /\ tail = None

\* A handler maps the structures it can touch to their new values.
World == [conn |-> conn, pcb |-> pcb, th |-> th]
Becomes(w) == conn' = w.conn /\ pcb' = w.pcb /\ th' = w.th

SetConn(w, c, k) == [w EXCEPT !.conn[c] = k]
SetPcb(w, p, q) == [w EXCEPT !.pcb[p] = q]
SetTh(w, t, m) == [w EXCEPT !.th[t] = m]

-----------------------------------------------------------------------------
(* TCP, as far as the netconn layer sees it *)

tcp_recved(q, n) == [q EXCEPT !.owed = IF @ > n THEN @ - n ELSE 0]

tcp_sndbuf(q) == SndBuf - q.snd

\* The low-water marks of select.  long: tcp_sndqueuelen is not below its own,
\* which takes more pbufs than the flags of an empty queue.
Writable(q, long) == tcp_sndbuf(q) > SndLowat /\ ~(long /\ q.snd > 0)

setup_tcp(q, c) ==
  [q EXCEPT !.arg = c, !.recv = TRUE, !.sent = TRUE, !.poll = TRUE, !.err = TRUE]

\* A message with its result; its arguments are not looked at again.
Answered(m, e) == [m EXCEPT !.err = e, !.shut = {}, !.len = 0, !.nb = FALSE,
                            !.fn = IF @ \in {"new", "delete", "recv_eof"} THEN @ ELSE "none"]

\* The end of an operation: current_msg->err, current_msg, state, op_completed.
Complete(w, c, e) ==
  LET k == w.conn[c]
  IN SetTh(SetConn(w, c, [k EXCEPT !.msg = None, !.state = "NONE", !.sem = @ + 1]),
           k.msg, Answered(w.th[k.msg], e))

Trypost(box, valid, size, m) ==
  IF valid /\ Len(box) < size THEN Append(box, m) ELSE box

Busy(k) == k.state \in {"WRITE", "CLOSE", "CONNECT"}

\* The netconn whose pcb is gone: the error, the state, the events and the NULL
\* messages of err_tcp.
Broken(k) ==
  [k EXCEPT !.pcb = None, !.fatal = TRUE, !.state = "NONE", !.wr = TRUE, !.nbc = @ /\ ~Busy(k), !.past = {},
            !.recvmbox = Trypost(@, k.rvalid, RecvMbox, "null"),
            !.acceptmbox = Trypost(@, k.avalid, AcceptMbox, None)]

err_tcp(w, c) ==
  LET k == w.conn[c]
      w1 == SetConn(w, c, Broken(k))
  IN IF Busy(k) /\ ~k.nbc THEN Complete(w1, c, "fatal") ELSE w1

\* The pcb is given back to its pool and no callback hears of it.
Lost(k) == [k EXCEPT !.pcb = None, !.past = @ \cup {"lost"}]
Released(w, p) ==
  LET q == w.pcb[p]
      w1 == SetPcb(w, p, FreePcb)
  IN IF q.err THEN SetConn(w1, q.arg, Lost(w.conn[q.arg])) ELSE w1

\* The pcb goes and its err callback hears of it, but not in TIME_WAIT: tcp_abort, a
\* reset received, and the removals of tcp_slowtmr.
tcp_abandon(w, p) ==
  LET q == w.pcb[p]
      w1 == SetPcb(w, p, FreePcb)
  IN IF q.st = "TIME_WAIT" THEN Released(w, p)
     ELSE IF q.err THEN err_tcp(w1, q.arg) ELSE w1

\* The pcbs tcp_alloc may take: a free one, else one in TIME_WAIT, else a
\* connection it kills.
Available(w) ==
  LET In(S) == {p \in Pcbs : w.pcb[p].st \in S}
  IN IF In({"free"}) # {} THEN In({"free"})
     ELSE IF In({"TIME_WAIT"}) # {} THEN In({"TIME_WAIT"})
     ELSE In(Active)

tcp_alloc(w, p) ==
  SetPcb(IF w.pcb[p].st = "free" THEN w ELSE tcp_abandon(w, p), p, [FreePcb EXCEPT !.st = "CLOSED"])

Unread(q) == q.refused # "none" \/ q.owed # 0

\* tcp_close_shutdown: fin says whether tcp_send_fin gets its memory.
CloseErr(q, rst, fin) ==
  IF ~fin /\ q.st \in {"SYN_RCVD", "ESTABLISHED", "CLOSE_WAIT"} /\ ~(rst /\ Unread(q))
  THEN "soft" ELSE "OK"

tcp_close_shutdown(q, rst) ==
  LET reset == rst /\ Unread(q)
      To(s) == [q EXCEPT !.st = s]
  IN CASE q.st \in {"CLOSED", "LISTEN", "SYN_SENT"} -> FreePcb
       [] q.st = "SYN_RCVD" -> To("FIN_WAIT_1")
       [] q.st = "ESTABLISHED" ->
            IF reset THEN [To("TIME_WAIT") EXCEPT !.refused = "none", !.snd = 0]
            ELSE To("FIN_WAIT_1")
       [] q.st = "CLOSE_WAIT" -> IF reset THEN FreePcb ELSE To("LAST_ACK")
       [] OTHER -> q

\* tcp_close when both sides are shut, tcp_shutdown otherwise.
ShutErr(q, shut, fin) ==
  IF shut = RDWR THEN CloseErr(q, TRUE, fin)
  ELSE IF shut = {"RD"} THEN "OK"
  ELSE IF q.st \in {"SYN_RCVD", "ESTABLISHED", "CLOSE_WAIT"} THEN CloseErr(q, FALSE, fin)
  ELSE "fatal"

tcp_shutdown(q, shut, fin) ==
  LET q1 == [q EXCEPT !.rx = @ \/ ("RD" \in shut /\ q.st # "LISTEN")]
  IN IF ShutErr(q, shut, fin) # "OK" THEN q1
     ELSE IF shut = {"RD"} THEN [q1 EXCEPT !.refused = "none"]
     ELSE tcp_close_shutdown(q1, shut = RDWR)

-----------------------------------------------------------------------------
(* api_msg.c: the helpers of the lower halves *)

Data(box) == Cardinality({i \in DOMAIN box : box[i] = "data"})

\* Mutant: the pcbs of connections nobody accepted are not aborted.
netconn_drain_no_abort(w, c) ==
  [w EXCEPT !.conn = [n \in Conns |->
     IF n \in ToSet(w.conn[c].acceptmbox) THEN FreeConn
     ELSE IF n = c THEN [w.conn[c] EXCEPT !.rvalid = FALSE, !.recvmbox = << >>,
                                          !.avalid = FALSE, !.acceptmbox = << >>]
     ELSE w.conn[n]]]

\* netconn_drain: the receive window gets back what recvmbox holds; connections
\* nobody accepted are aborted and freed.
netconn_drain(w, c) ==
  LET k == w.conn[c]
      pending == ToSet(k.acceptmbox)
      lost == {w.conn[n].pcb : n \in pending}
  IN [w EXCEPT
       !.conn = [n \in Conns |->
          IF n \in pending THEN FreeConn
          ELSE IF n = c THEN [k EXCEPT !.rvalid = FALSE, !.recvmbox = << >>,
                                       !.avalid = FALSE, !.acceptmbox = << >>]
          ELSE w.conn[n]],
       !.pcb = [p \in AllPcbs |->
          IF p \in lost THEN FreePcb
          ELSE IF p = k.pcb THEN tcp_recved(w.pcb[p], Data(k.recvmbox))
          ELSE w.pcb[p]]]

\* Mutant: the poll callback is not put back.
RestoreCallbacks_no_poll(q, c) == [q EXCEPT !.arg = c, !.sent = TRUE, !.err = TRUE]

\* A close that failed gives the pcb its callbacks back, except recv.
RestoreCallbacks(q, c) == [q EXCEPT !.arg = c, !.sent = TRUE, !.poll = TRUE, !.err = TRUE]

do_close_internal(w, c, fin) ==
  LET k == w.conn[c]
      p == k.pcb
      shut == w.th[k.msg].shut
      close == shut = RDWR
      q == w.pcb[p]
      reset == [q EXCEPT !.arg = IF close THEN None ELSE @,
                         !.recv = @ /\ "RD" \notin shut,
                         !.sent = @ /\ "WR" \notin shut,
                         !.poll = @ /\ ~close, !.err = @ /\ ~close]
      q1 == tcp_shutdown(reset, shut, fin)
  IN IF ShutErr(reset, shut, fin) = "OK"
     THEN Complete(SetConn(SetPcb(w, p, q1), c,
                           [k EXCEPT !.pcb = IF close THEN None ELSE @, !.wr = @ \/ "WR" \in shut,
                                     !.past = IF close THEN {} ELSE @ \cup (IF shut = {"WR"} THEN {"half"} ELSE {})]),
                   c, "OK")
     ELSE SetPcb(w, p, RestoreCallbacks(q1, c))

\* SENDMINUS after a nonblocking write that fell short or one that filled the
\* queue; after the first, poll_tcp is to look for space.
CheckSpace(k, short, full) == [k EXCEPT !.wr = @ /\ ~(short \/ full), !.chk = @ \/ short]

\* One attempt of a write.  late: send_timeout has passed; mem: tcp_write finds
\* memory; long: see Writable.
do_writemore(w, c, late, mem, long) ==
  LET k == w.conn[c]
      m == w.th[k.msg]
      q == w.pcb[k.pcb]
      len == IF m.len - k.offset <= tcp_sndbuf(q) THEN m.len - k.offset ELSE tcp_sndbuf(q)
      err == IF m.nb /\ len = 0 THEN "WOULDBLOCK"
             ELSE IF q.st \notin {"ESTABLISHED", "CLOSE_WAIT", "SYN_SENT", "SYN_RCVD"}
             THEN "CONN"
             ELSE IF len # 0 /\ ~mem THEN "MEM" ELSE "OK"
      q1 == [q EXCEPT !.snd = IF err = "OK" THEN @ + len ELSE @]
      short == m.nb /\ len < m.len
      finished == IF err = "OK" THEN k.offset + len = m.len \/ m.nb
                  ELSE err # "MEM" \/ m.nb
      k1 == [(IF err = "CONN" THEN k ELSE CheckSpace(k, short, ~Writable(q1, long)))
               EXCEPT !.offset = IF err # "OK" THEN @ ELSE IF finished THEN 0 ELSE @ + len]
      w1 == SetConn(SetPcb(w, k.pcb, q1), c, k1)
  IN IF late THEN Complete(w, c, IF k.offset = 0 THEN "soft" ELSE "OK")
     ELSE IF ~finished THEN w1
     ELSE Complete(w1, c, IF err = "OK" THEN "OK" ELSE IF err = "CONN" THEN "fatal" ELSE "soft")

Late == {FALSE, "SND" \in Timeouts}

-----------------------------------------------------------------------------
(* The lower halves, run by the tcpip thread for the message of thread t *)

\* TCPIP_APIMSG_ACK with msg->err = e.
Ack(w, t, e) ==
  LET c == w.th[t].c
  IN SetTh(SetConn(w, c, [w.conn[c] EXCEPT !.sem = @ + 1]), t, Answered(w.th[t], e))

pcb_new(w, c, p) ==
  SetConn(SetPcb(w, p, setup_tcp(w.pcb[p], c)), c, [w.conn[c] EXCEPT !.pcb = p])

do_newconn(w, t) ==
  {Ack(pcb_new(tcp_alloc(w, p), w.th[t].c, p), t, "OK") : p \in Available(w)}
  \cup (IF Available(w) = {} THEN {Ack(w, t, "soft")} ELSE {})

\* A close begins: its message stays until the pcb is gone.
Closing(w, c, t, shut) ==
  SetTh(SetConn(w, c, [w.conn[c] EXCEPT !.state = "CLOSE", !.msg = t]), t, [w.th[t] EXCEPT !.shut = shut])

do_delconn(w, t) ==
  LET c == w.th[t].c
      w1 == netconn_drain(w, c)
  IN IF w.conn[c].state \notin {"NONE", "LISTEN", "CONNECT"} THEN {Ack(w, t, "soft")}
     ELSE IF w.conn[c].pcb = None THEN {Ack(w1, t, "OK")}
     ELSE {do_close_internal(Closing(w1, c, t, RDWR), c, fin) : fin \in BOOLEAN}

do_close(w, t) ==
  LET c == w.th[t].c
      k == w.conn[c]
      w1 == IF "RD" \in w.th[t].shut THEN netconn_drain(w, c) ELSE w
  IN IF k.state \notin {"NONE", "LISTEN"} \/ k.pcb = None THEN {Ack(w, t, "soft")}
     ELSE IF w.th[t].shut # RDWR /\ k.state = "LISTEN" THEN {Ack(w, t, "fatal")}
     ELSE {do_close_internal(Closing(w1, c, t, w.th[t].shut), c, fin) : fin \in BOOLEAN}

do_bind(w, t) ==
  LET k == w.conn[w.th[t].c]
  IN {Ack(w, t, e) : e \in IF k.fatal THEN {"fatal"}
                           ELSE IF k.pcb = None \/ w.pcb[k.pcb].st # "CLOSED" THEN {"soft"}
                           ELSE {"OK", "soft"}}

do_getaddr(w, t) ==
  {Ack(w, t, IF w.conn[w.th[t].c].pcb = None THEN "fatal" ELSE "OK")}

\* The route, the port and the memory of the SYN can all be missing.
do_connect(w, t) ==
  LET c == w.th[t].c
      k == w.conn[c]
      p == k.pcb
      nb == w.th[t].nb
      w1 == SetPcb(w, p, setup_tcp(w.pcb[p], c))
      w2 == SetConn(SetPcb(w, p, [setup_tcp(w.pcb[p], c) EXCEPT !.st = "SYN_SENT", !.owed = 0]), c,
                    [k EXCEPT !.state = "CONNECT", !.nbc = nb, !.msg = IF nb THEN @ ELSE t])
  IN IF p = None THEN {Ack(w, t, "fatal")}
     ELSE IF k.state # "NONE" THEN {Ack(w, t, "soft")}
     ELSE {Ack(w1, t, "soft")}
          \cup (IF w.pcb[p].st # "CLOSED" THEN {}
                ELSE IF nb THEN {Ack(w2, t, "soft")} ELSE {w2})

\* tcp_listen needs a pcb in state CLOSED and memory for the smaller one; then
\* the acceptmbox may not be created.
do_listen(w, t) ==
  LET c == w.th[t].c
      k == w.conn[c]
      k1 == [k EXCEPT !.rvalid = FALSE, !.recvmbox = << >>, !.pcb = None]
      w1 == SetConn(SetPcb(w, k.pcb, FreePcb), c, k1)
      unused == {l \in ListenPcbs : w.pcb[l].st = "free"}
  IN IF k.fatal \/ k.pcb = None \/ k.state # "NONE" THEN {Ack(w, t, "fatal")}
     ELSE {Ack(w, t, "soft")}
          \cup (IF w.pcb[k.pcb].st # "CLOSED" THEN {}
                ELSE {Ack(w1, t, "soft") : l \in unused}
                     \cup
                     {Ack(SetConn(SetPcb(w1, l, [FreePcb EXCEPT !.st = "LISTEN", !.arg = c]), c,
                                  [k1 EXCEPT !.state = "LISTEN", !.pcb = l, !.avalid = TRUE]),
                          t, "OK") : l \in unused})

do_recv(w, t) ==
  LET p == w.conn[w.th[t].c].pcb
      w1 == IF p = None THEN w ELSE SetPcb(w, p, tcp_recved(w.pcb[p], w.th[t].len))
  IN {Ack(w1, t, "OK")}

do_write(w, t) ==
  LET c == w.th[t].c
      k == w.conn[c]
  IN IF k.fatal THEN {Ack(w, t, "fatal")}
     ELSE IF k.state # "NONE" THEN {Ack(w, t, "soft")}
     ELSE IF k.pcb = None THEN {Ack(w, t, "fatal")}
     ELSE {do_writemore(SetConn(w, c, [k EXCEPT !.state = "WRITE", !.msg = t, !.offset = 0]),
                        c, late, mem, long)
             : late \in Late, mem \in BOOLEAN, long \in BOOLEAN}

LowerHalf(w, t) ==
  CASE w.th[t].fn = "new" -> do_newconn(w, t)
    [] w.th[t].fn = "delete" -> do_delconn(w, t)
    [] w.th[t].fn = "close" -> do_close(w, t)
    [] w.th[t].fn = "bind" -> do_bind(w, t)
    [] w.th[t].fn = "getaddr" -> do_getaddr(w, t)
    [] w.th[t].fn = "connect" -> do_connect(w, t)
    [] w.th[t].fn = "listen" -> do_listen(w, t)
    [] w.th[t].fn = "write" -> do_write(w, t)
    [] OTHER -> do_recv(w, t)

\* tcpip_thread takes an API message.
Execute ==
  /\ tail = None /\ mbox # << >>
  /\ \E w \in LowerHalf(World, Head(mbox)) : Becomes(w)
  /\ mbox' = Tail(mbox)
  /\ UNCHANGED <<owned, tail>>

-----------------------------------------------------------------------------
(* The callbacks, and the segments and timers that lead to them *)

\* m is "data" or, for the end of the stream, "null".  A full recvmbox refuses;
\* refused data is offered again, a refused NULL is not.
Takes(w, p) ==
  LET q == w.pcb[p]
  IN ~q.recv \/ ~w.conn[q.arg].rvalid \/ Len(w.conn[q.arg].recvmbox) < RecvMbox

recv_tcp(w, p, m) ==
  LET c == w.pcb[p].arg
  IN IF w.conn[c].rvalid
     THEN SetConn(w, c, [w.conn[c] EXCEPT !.recvmbox = Trypost(@, TRUE, RecvMbox, m),
                           !.past = @ \cup (IF m = "null" /\ Len(w.conn[c].recvmbox) >= RecvMbox THEN {"eof"} ELSE {})])
     ELSE IF m = "data" THEN SetPcb(w, p, tcp_recved(w.pcb[p], 1)) ELSE w

TCP_EVENT_RECV(w, p) ==
  IF w.pcb[p].recv THEN recv_tcp(w, p, "data")
  ELSE SetPcb(w, p, tcp_recved(w.pcb[p], 1))

\* Before it rcv_wnd takes back the sequence number of the FIN.
TCP_EVENT_CLOSED(w, p) ==
  LET w1 == SetPcb(w, p, tcp_recved(w.pcb[p], 1))
  IN IF w.pcb[p].recv THEN recv_tcp(w1, p, "null") ELSE w1

\* Mutant: data refused once more is forgotten.
tcp_process_refused_data_drops(w, p) ==
  LET w1 == SetPcb(w, p, [w.pcb[p] EXCEPT !.refused = "none"])
      w2 == TCP_EVENT_RECV(w1, p)
  IN IF w.pcb[p].refused = "none" \/ ~Takes(w, p) THEN w1
     ELSE IF w.pcb[p].refused = "datafin" THEN TCP_EVENT_CLOSED(w2, p) ELSE w2

tcp_process_refused_data(w, p) ==
  LET fin == w.pcb[p].refused = "datafin"
      w1 == TCP_EVENT_RECV(SetPcb(w, p, [w.pcb[p] EXCEPT !.refused = "none"]), p)
  IN IF w.pcb[p].refused = "none" \/ ~Takes(w, p) THEN w
     ELSE IF fin THEN TCP_EVENT_CLOSED(w1, p) ELSE w1

\* The states a FIN leads to; acked: the segment acknowledges our own FIN.
AfterFin(q, acked) ==
  CASE q.st = "ESTABLISHED" -> "CLOSE_WAIT"
    [] q.st = "FIN_WAIT_1" -> IF acked /\ q.snd = 0 THEN "TIME_WAIT" ELSE "CLOSING"
    [] OTHER -> "TIME_WAIT"

tcplen(seg) == IF seg = "datafin" THEN 2 ELSE 1

\* tcp_input for a segment with data, a FIN, or both.  tcp_process moves the
\* window and the state before the callbacks run; TIME_WAIT purges the pcb.
Input(w, p, seg, acked) ==
  LET data == seg \in {"data", "datafin"}
      fin == seg \in {"fin", "datafin"}
      w1 == SetPcb(w, p, [w.pcb[p] EXCEPT !.st = IF fin THEN AfterFin(w.pcb[p], acked) ELSE @,
                                          !.owed = @ + tcplen(seg)])
      refuse == data /\ ~Takes(w1, p)
      w2 == IF data /\ ~refuse THEN TCP_EVENT_RECV(w1, p) ELSE w1
  IN IF w.pcb[p].refused # "none" THEN w
     ELSE IF data /\ w.pcb[p].rx THEN tcp_abandon(w1, p)
     ELSE IF refuse THEN SetPcb(w1, p, [w1.pcb[p] EXCEPT !.refused = seg])
     ELSE IF fin THEN TCP_EVENT_CLOSED(w2, p) ELSE w2

SegmentArrives(p) ==
  /\ pcb[p].st \in {"ESTABLISHED", "FIN_WAIT_1", "FIN_WAIT_2"}
  /\ \E seg \in {"data", "fin", "datafin"}, acked \in BOOLEAN :
       /\ pcb[p].owed + tcplen(seg) <= Wnd
       /\ Becomes(Input(tcp_process_refused_data(World, p), p, seg, acked))
  /\ UNCHANGED <<mbox, owned, tail>>

\* tcp_fasttmr
FastTimer(p) ==
  /\ pcb[p].st \in Active /\ pcb[p].refused # "none"
  /\ Becomes(tcp_process_refused_data(World, p))
  /\ UNCHANGED <<mbox, owned, tail>>

\* What poll_tcp and sent_tcp do first: go on with a write or a close.
Resume(w, c) ==
  CASE w.conn[c].state = "WRITE" ->
         {do_writemore(w, c, late, mem, long) : late \in Late, mem \in BOOLEAN, long \in BOOLEAN}
    [] w.conn[c].state = "CLOSE" -> {do_close_internal(w, c, fin) : fin \in BOOLEAN}
    [] OTHER -> {w}

poll_tcp(p) ==
  /\ pcb[p].st \in Active /\ pcb[p].poll
  /\ \E w \in Resume(World, pcb[p].arg) : Becomes(w)
  /\ tail' = [by |-> "poll", c |-> pcb[p].arg]
  /\ UNCHANGED <<mbox, owned>>

\* Data is acknowledged.
sent_tcp(p) ==
  /\ pcb[p].st \in Active /\ pcb[p].snd > 0
  /\ \E n \in 1 .. pcb[p].snd :
       LET w == SetPcb(World, p, [pcb[p] EXCEPT !.snd = @ - n])
       IN IF pcb[p].sent
          THEN /\ \E w1 \in Resume(w, pcb[p].arg) : Becomes(w1)
               /\ tail' = [by |-> "sent", c |-> pcb[p].arg]
          ELSE Becomes(w) /\ tail' = tail
  /\ UNCHANGED <<mbox, owned>>

\* The end of poll_tcp and sent_tcp, after op_completed may have been signalled.
CheckWritespace ==
  /\ tail # None
  /\ LET k == conn[tail.c]
     IN \E long \in BOOLEAN :
          conn' = IF k.pcb # None /\ Writable(pcb[k.pcb], long) /\ (tail.by = "poll" => k.chk)
                  THEN [conn EXCEPT ![tail.c] = [k EXCEPT !.chk = FALSE, !.wr = TRUE]]
                  ELSE conn
  /\ tail' = None
  /\ UNCHANGED <<pcb, th, mbox, owned>>

\* Our FIN is acknowledged.  TF_CLOSED calls the err callback only when the
\* receive side is still open.
FinAcked(p) ==
  /\ pcb[p].st \in {"FIN_WAIT_1", "CLOSING", "LAST_ACK"} /\ pcb[p].snd = 0
  /\ Becomes(IF pcb[p].st = "LAST_ACK"
             THEN IF pcb[p].rx THEN Released(World, p) ELSE tcp_abandon(World, p)
             ELSE SetPcb(World, p, [pcb[p] EXCEPT !.st =
                                      IF @ = "CLOSING" THEN "TIME_WAIT" ELSE "FIN_WAIT_2"]))
  /\ UNCHANGED <<mbox, owned, tail>>

\* A reset arrives; or tcp_slowtmr removes the pcb, which in FIN_WAIT_2 it does
\* only when the receive side is closed.
ConnectionDies(p) ==
  /\ pcb[p].st \in Active
  /\ Becomes(tcp_abandon(World, p))
  /\ UNCHANGED <<mbox, owned, tail>>

TimeWaitEnds(p) ==
  /\ pcb[p].st = "TIME_WAIT"
  /\ Becomes(Released(World, p))
  /\ UNCHANGED <<mbox, owned, tail>>

do_connected(p) ==
  /\ pcb[p].st = "SYN_SENT"
  /\ LET c == pcb[p].arg
         w == SetConn(SetPcb(World, p, [setup_tcp(pcb[p], c) EXCEPT !.st = "ESTABLISHED"]), c,
                      [conn[c] EXCEPT !.state = "NONE", !.nbc = FALSE, !.wr = TRUE])
     IN Becomes(IF conn[c].nbc THEN w ELSE Complete(w, c, "OK"))
  /\ UNCHANGED <<mbox, owned, tail>>

\* tcp_listen_input: the new pcb inherits callback_arg and accept.
tcp_listen_input(l) ==
  /\ pcb[l].st = "LISTEN"
  /\ \E p \in Available(World) :
       Becomes(SetPcb(tcp_alloc(World, p), p, [FreePcb EXCEPT !.st = "SYN_RCVD", !.arg = pcb[l].arg]))
  /\ UNCHANGED <<mbox, owned, tail>>

\* The handshake's last ACK.  Any error of the callback aborts the pcb.  The callback
\* reads the netconn that listened when the SYN came.  If that was deleted since, its
\* block of MEMP_NETCONN is free, and netconn_drain left its acceptmbox invalid
\* (FreeConn), or it is another netconn by now, whatever that is in.
accept_function(p) ==
  /\ pcb[p].st = "SYN_RCVD"
  /\ LET c == pcb[p].arg
     IN \/ /\ conn[c].avalid /\ Len(conn[c].acceptmbox) < AcceptMbox
           /\ \E n \in {n \in Conns : ~conn[n].alive} :
                \E w \in {SetConn(SetPcb(World, p, [setup_tcp(pcb[p], n) EXCEPT !.st = "ESTABLISHED"]),
                                   n, [NewConn EXCEPT !.pcb = p, !.wr = TRUE])} :
                  Becomes(SetConn(w, c, [conn[c] EXCEPT !.acceptmbox = Append(@, n)]))
        \/ Becomes(tcp_abandon(World, p))
  /\ UNCHANGED <<mbox, owned, tail>>

-----------------------------------------------------------------------------
(* api_lib.c: the application's side *)

Msg(fn, c, shut, len, nb) ==
  [pc |-> "wait", fn |-> fn, c |-> c, shut |-> shut, len |-> len, nb |-> nb, err |-> "OK"]

tcpip_apimsg(t, m) ==
  /\ th' = [th EXCEPT ![t] = m]
  /\ mbox' = Append(mbox, t)

\* A netconn has one op_completed, so it is in one call at a time.
Free(t, c) ==
  /\ th[t].pc = "idle" /\ c \in owned
  /\ \A u \in Threads : th[u].c # c

netconn_new(t) ==
  /\ th[t].pc = "idle"
  /\ \E c \in {c \in Conns : ~conn[c].alive} :
       /\ conn' = [conn EXCEPT ![c] = NewConn]
       /\ tcpip_apimsg(t, Msg("new", c, {}, 0, FALSE))
  /\ UNCHANGED <<pcb, owned, tail>>

\* The calls that only pass a message.  nb is the netconn's O_NONBLOCK.
netconn_call(t, c) ==
  /\ Free(t, c)
  /\ \/ \E fn \in {"bind", "getaddr", "listen"} : tcpip_apimsg(t, Msg(fn, c, {}, 0, FALSE))
     \/ \E nb \in BOOLEAN : tcpip_apimsg(t, Msg("connect", c, {}, 0, nb))
     \/ \E len \in Lens, nb \in BOOLEAN : tcpip_apimsg(t, Msg("write", c, {}, len, nb))
     \/ \E shut \in Shuts : tcpip_apimsg(t, Msg("close", c, shut, 0, FALSE))
  /\ UNCHANGED <<conn, pcb, owned, tail>>

netconn_delete(t, c) ==
  /\ Free(t, c)
  /\ tcpip_apimsg(t, Msg("delete", c, RDWR, 0, FALSE))
  /\ owned' = owned \ {c}
  /\ UNCHANGED <<conn, pcb, tail>>

netconn_recved(t, c) ==
  /\ Free(t, c) /\ conn[c].held > 0
  /\ tcpip_apimsg(t, Msg("recved", c, {}, conn[c].held, FALSE))
  /\ conn' = [conn EXCEPT ![c] = [@ EXCEPT !.held = 0]]
  /\ UNCHANGED <<pcb, owned, tail>>

\* netconn_recv_data and netconn_accept, up to sys_arch_mbox_fetch: they return
\* at once when the mailbox is not valid or the last error is fatal.
netconn_wait(t, c) ==
  /\ Free(t, c) /\ ~conn[c].fatal
  /\ \/ /\ conn[c].rvalid
        /\ th' = [th EXCEPT ![t] = [@ EXCEPT !.pc = "recv", !.c = c]]
     \/ /\ conn[c].avalid
        /\ th' = [th EXCEPT ![t] = [@ EXCEPT !.pc = "accept", !.c = c]]
  /\ UNCHANGED <<conn, pcb, mbox, owned, tail>>

netconn_recv_data(t) ==
  LET c == th[t].c
  IN /\ th[t].pc = "recv" /\ conn[c].recvmbox # << >>
     /\ IF Head(conn[c].recvmbox) = "data"
        THEN /\ conn' = [conn EXCEPT ![c] = [conn[c] EXCEPT !.recvmbox = Tail(@), !.held = @ + 1]]
             /\ th' = [th EXCEPT ![t] = IdleThread] /\ mbox' = mbox
        ELSE /\ conn' = [conn EXCEPT ![c] = [conn[c] EXCEPT !.recvmbox = Tail(@)]]
             /\ tcpip_apimsg(t, Msg("recv_eof", c, {}, 1, FALSE))
     /\ UNCHANGED <<pcb, owned, tail>>

netconn_accept(t) ==
  LET c == th[t].c
      n == Head(conn[c].acceptmbox)
  IN /\ th[t].pc = "accept" /\ conn[c].acceptmbox # << >>
     /\ conn' = [conn EXCEPT ![c] = [conn[c] EXCEPT !.acceptmbox = Tail(@), !.fatal = @ \/ n = None]]
     /\ owned' = owned \cup ({n} \ {None})
     /\ th' = [th EXCEPT ![t] = IdleThread]
     /\ UNCHANGED <<pcb, mbox, tail>>

\* recv_timeout has passed.
netconn_timeout(t) ==
  /\ "RCV" \in Timeouts /\ th[t].pc \in {"recv", "accept"}
  /\ th' = [th EXCEPT ![t] = IdleThread]
  /\ UNCHANGED <<conn, pcb, mbox, owned, tail>>

\* op_completed lets the caller go on: NETCONN_SET_SAFE_ERR, or netconn_free.
Return(t) ==
  LET m == th[t]
      c == m.c
      dead == m.fn = "delete" \/ (m.fn = "new" /\ m.err # "OK")
  IN /\ m.pc = "wait" /\ conn[c].sem > 0
     /\ conn' = [conn EXCEPT ![c] =
                   IF dead THEN FreeConn
                   ELSE [conn[c] EXCEPT !.sem = @ - 1,
                                        !.fatal = @ \/ m.fn = "recv_eof" \/ m.err = "fatal"]]
     /\ owned' = IF m.fn = "new" /\ ~dead THEN owned \cup {c} ELSE owned
     /\ th' = [th EXCEPT ![t] = IdleThread]
     /\ UNCHANGED <<pcb, mbox, tail>>

Tcp(p) ==
  /\ tail = None
  /\ \/ SegmentArrives(p) \/ FastTimer(p) \/ poll_tcp(p) \/ sent_tcp(p)
     \/ FinAcked(p) \/ ConnectionDies(p) \/ TimeWaitEnds(p)
     \/ do_connected(p) \/ accept_function(p)

App(t) ==
  \/ netconn_new(t) \/ netconn_recv_data(t) \/ netconn_accept(t)
  \/ netconn_timeout(t) \/ Return(t)
  \/ \E c \in Conns : netconn_call(t, c) \/ netconn_delete(t, c)
                      \/ netconn_recved(t, c) \/ netconn_wait(t, c)

\* A netconn has a pcb that is no longer its own: what the program does from here on,
\* on a free block or on another connection, is not modelled.
Astray == \E c \in Conns : "lost" \in conn[c].past

Running ==
  \/ Execute \/ CheckWritespace
  \/ \E p \in Pcbs : Tcp(p)
  \/ \E l \in ListenPcbs : tail = None /\ tcp_listen_input(l)
  \/ \E t \in Threads : App(t)
Next == ~Astray /\ Running

Spec == Init /\ [][Next]_vars

-----------------------------------------------------------------------------
Waiting(t) == th[t].pc = "wait"
Queued(t) == t \in ToSet(mbox)

TypeOK ==
  /\ conn \in [Conns ->
       [alive : BOOLEAN, state : ConnStates, pcb : AllPcbs \cup {None}, fatal : BOOLEAN,
        msg : Threads \cup {None}, offset : Nat, nbc : BOOLEAN, chk : BOOLEAN,
        wr : BOOLEAN, rvalid : BOOLEAN, recvmbox : Seq({"data", "null"}),
        avalid : BOOLEAN, acceptmbox : Seq(Conns), sem : Nat, held : Nat,
        past : SUBSET {"half", "eof", "lost"}]]
  /\ pcb \in [AllPcbs ->
       [st : PcbStates, arg : Conns \cup {None}, recv : BOOLEAN, sent : BOOLEAN,
        poll : BOOLEAN, err : BOOLEAN, rx : BOOLEAN,
        refused : {"none", "data", "datafin"}, snd : 0 .. SndBuf, owed : 0 .. Wnd]]
  /\ th \in [Threads ->
       [pc : {"idle", "wait", "recv", "accept"}, fn : Calls, c : Conns \cup {None},
        shut : SUBSET RDWR, len : Nat, nb : BOOLEAN, err : Errors]]
  /\ mbox \in Seq(Threads) /\ owned \subseteq Conns
  /\ tail = None \/ tail \in [by : {"poll", "sent"}, c : Conns]

\* Every message is answered exactly once: op_completed holds a signal just when
\* the message of the caller is neither in the mailbox nor in current_msg.
CompletedOnce ==
  \A c \in Conns :
    conn[c].sem = Cardinality({t \in Threads :
                     Waiting(t) /\ th[t].c = c /\ ~Queued(t) /\ conn[c].msg # t})

\* What the assertions of do_writemore, do_close_internal, do_connected and err_tcp
\* rely on: an operation in progress has a pcb and, unless it is a nonblocking
\* connect, the message of a caller that still waits.
PendingOp ==
  \A c \in Conns :
    LET k == conn[c]
    IN /\ k.state \in {"WRITE", "CLOSE", "CONNECT"} => k.pcb # None \/ "lost" \in k.past
       /\ k.msg # None <=> k.state \in {"WRITE", "CLOSE"} \/ (k.state = "CONNECT" /\ ~k.nbc)
       /\ k.msg # None => Waiting(k.msg) /\ th[k.msg].c = c /\ ~Queued(k.msg)
       /\ k.state = "WRITE" => k.offset < th[k.msg].len

\* A netconn and its pcb refer to each other: the pcb of a netconn is allocated and
\* its callbacks get this netconn; a pcb with a recv, sent, poll or err callback belongs
\* to a live netconn.  The accept callback that a pcb in SYN_RCVD has from its listener
\* (tcp_in.c:490-492) may find that netconn gone, but never a mailbox that is gone with
\* it: where it finds one it is that of a listener.  A netconn can lose its pcb
\* unawares only after its sending side alone was shut.
PcbBound ==
  /\ \A c \in Conns : conn[c].pcb # None =>
       pcb[conn[c].pcb].st # "free" /\ pcb[conn[c].pcb].arg = c
  /\ \A p \in AllPcbs : pcb[p].recv \/ pcb[p].sent \/ pcb[p].poll \/ pcb[p].err =>
       pcb[p].arg # None /\ conn[pcb[p].arg].alive /\ conn[pcb[p].arg].pcb = p
  /\ \A p \in AllPcbs : pcb[p].st = "SYN_RCVD" =>
       pcb[p].arg # None
         /\ (conn[pcb[p].arg].avalid => conn[pcb[p].arg].alive /\ conn[pcb[p].arg].state = "LISTEN")
  /\ \A c \in Conns : "lost" \in conn[c].past => "half" \in conn[c].past

\* A close that could not be finished is retried: its pcb is one tcp_slowtmr polls.
\* Only a shutdown of the sending side of a pcb that is not connected, or has sent its
\* FIN, is not: tcp_shutdown returns ERR_CONN for it each time (tcp.c:342), and once
\* the pcb is in no list that is polled nobody asks again.
CloseRetried ==
  \A c \in Conns : conn[c].state = "CLOSE" =>
    \/ th[conn[c].msg].shut = {"WR"} /\ ("lost" \in conn[c].past \/ pcb[conn[c].pcb].st \in {"CLOSED", "TIME_WAIT"})
    \/ pcb[conn[c].pcb].st \in Active /\ pcb[conn[c].pcb].poll

\* A thread that waits on an empty mailbox has a pcb that can still bring it something.
\* A listener listens.  A reader's pcb is to be connected or its stream has not ended, or
\* what ends it was refused and is offered again by tcp_fasttmr; errors find the sleeper
\* at once.  Left out are the readers nothing can wake: of a netconn that is not
\* connected, of one whose NULL met a full recvmbox (tcp_in.c:374 ignores the error of
\* recv_tcp), and of one in TIME_WAIT whose last data was refused, which tcp_fasttmr
\* does not look at.
ReaderWoken ==
  \A t \in Threads :
    LET k == conn[th[t].c]
        q == pcb[k.pcb]
    IN /\ th[t].pc = "accept" /\ k.acceptmbox = << >> => k.pcb # None /\ q.st = "LISTEN"
       /\ th[t].pc = "recv" /\ k.recvmbox = << >> /\ k.past \cap {"eof", "lost"} = {} =>
            /\ k.pcb # None /\ q.recv
            /\ \/ q.st \in {"CLOSED", "SYN_SENT", "ESTABLISHED", "FIN_WAIT_1", "FIN_WAIT_2"}
               \/ q.refused # "none" /\ q.st \in {"CLOSE_WAIT", "CLOSING", "LAST_ACK", "TIME_WAIT"}

\* Until the peer's FIN, the part of the receive window that is closed is exactly
\* the data on its way to the application: refused, in recvmbox, fetched but not yet
\* acknowledged with netconn_recved, or in such a call.
WindowReturned ==
  \A c \in owned :
    LET k == conn[c]
        q == pcb[k.pcb]
        credit(t) == IF Queued(t) /\ th[t].c = c /\ th[t].fn = "recved" THEN th[t].len ELSE 0
    IN k.pcb # None /\ q.st \in {"ESTABLISHED", "FIN_WAIT_1", "FIN_WAIT_2"} /\ ~q.rx
         => q.owed = Data(k.recvmbox) + k.held + (IF q.refused = "none" THEN 0 ELSE 1)
                       + MapThenSumSet(credit, Threads)

\* A connected netconn that select holds to be not writable will be found writable
\* again: the poll callback looks for it, or data is out whose acknowledgement does.
WritableAgain ==
  \A c \in owned :
    LET k == conn[c]
        q == pcb[k.pcb]
    IN k.pcb # None /\ q.st \in {"ESTABLISHED", "CLOSE_WAIT"} /\ ~k.wr
         => k.chk \/ (q.snd > 0 /\ q.sent) \/ (tail # None /\ tail.c = c)

\* Every call gets its answer, and gets it once, whatever happens to the connection in
\* the meantime: no signal without a call, no call without a pcb that will see to it
\* (tcpip_apimsg, err_tcp, do_writemore, do_close_internal).
CallsAnswered == TypeOK /\ CompletedOnce /\ PendingOp /\ CloseRetried

\* Nobody is stranded: a reader is woken by an error, a writer by room, and the peer by
\* the window that a read gives back (recv_tcp, sent_tcp, poll_tcp, do_recv).
NobodyStranded == ReaderWoken /\ WindowReturned /\ WritableAgain

\* do_write, do_close and do_delconn assert that no write is left half done.
WriteOffsetReset ==
  \A c \in Conns : conn[c].pcb # None /\ conn[c].state # "WRITE" => conn[c].offset = 0

\* "it is presented to us later again from tcp_fasttmr!" (api_msg.c:252): what
\* recv_tcp cannot post is not lost.
EofKept == \A c \in Conns : "eof" \notin conn[c].past

\* "If closing didn't succeed, we get called again either from poll_tcp or from
\* sent_tcp" (api_msg.c:820): its pcb is in the list that is polled.
CloseAlwaysRetried == \A c \in Conns : conn[c].state = "CLOSE" => pcb[conn[c].pcb].st \in Active

\* The accept callback gets the netconn that listens.
AcceptBound == \A p \in Pcbs : pcb[p].st = "SYN_RCVD" => conn[pcb[p].arg].state = "LISTEN"

\* "This doesn't deallocate the PCB unless shutting down both sides!" (tcp.c:302): a
\* netconn whose sending side was shut keeps its pcb until it is closed or hears an error.
NeverAstray == ~Astray
=============================================================================
