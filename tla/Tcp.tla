--------------------------------- MODULE Tcp --------------------------------
(***************************************************************************)
(* One TCP connection between two hosts that both run core/tcp.c,          *)
(* core/tcp_in.c and core/tcp_out.c, over links that lose, duplicate and   *)
(* reorder packets.                                                        *)
(*                                                                         *)
(* pcb[e] is the struct tcp_pcb of endpoint e together with what its       *)
(* application sees through the callbacks.  A byte of the stream is its    *)
(* index, so that a delivered byte that is out of place is seen.  Sequence *)
(* numbers are modulo SeqSpace and compared with a sign, as u32_t ones are.  *)
(* A handler of the tcpip thread is one step: a function on pcb records    *)
(* that collects the packets it sends in the field out.                    *)
(*                                                                         *)
(* The round-trip estimate (sa, sv, rto, rttest) is abstracted: a timer    *)
(* that runs may expire at any moment, early ones at the cost of a fault.  *)
(***************************************************************************)
EXTENDS Integers, Sequences, FiniteSets, SequencesExt, FiniteSetsExt

CONSTANTS
  SeqSpace,           \* 2^32
  Iss,                \* tcp_next_iss of the two endpoints
  TCP_MSS, TCP_WND, TCP_SND_BUF, TCP_SND_QUEUELEN,
  TCP_MAXRTX, TCP_SYNMAXRTX,
  TCP_KEEPCNT,        \* probes that may stay unanswered
  MaxCwnd,            \* the largest u16_t
  Mbox,               \* DEFAULT_TCP_RECVMBOX_SIZE
  Bytes,              \* bytes each application writes
  Chunks,             \* lengths of its writes
  Keepalive,          \* endpoints with SO_KEEPALIVE
  Closers,            \* endpoints that may close before they have seen the end
  MaxFaults           \* bound: lost, duplicated and overtaken packets, early timers and closes

End == {"a", "b"}     \* a connects, b listens
Peer(e) == IF e = "a" THEN "b" ELSE "a"

ASSUME TcpAssumption ==
  /\ SeqSpace \in Nat /\ SeqSpace % 2 = 0 /\ SeqSpace > 4 * (TCP_WND + TCP_SND_BUF)
  /\ {TCP_MSS, TCP_WND, TCP_SND_BUF, TCP_SND_QUEUELEN, MaxCwnd, Mbox} \subseteq Nat \ {0}
  /\ {TCP_MAXRTX, TCP_SYNMAXRTX, TCP_KEEPCNT, MaxFaults} \subseteq Nat
  /\ Iss \in [End -> 0 .. SeqSpace - 1] /\ Bytes \in [End -> Nat]
  /\ Chunks \subseteq Nat \ {0} /\ Keepalive \subseteq End /\ Closers \subseteq End

VARIABLES
  pcb,        \* the endpoints
  net,        \* packets on their way to an endpoint, in the order they were sent
  faults      \* faults so far

vars == <<pcb, net, faults>>

-----------------------------------------------------------------------------
(* Sequence numbers *)

Plus(s, n) == (s + n) % SeqSpace
Minus(s, t) == (s - t) % SeqSpace

TCP_SEQ_LT(s, t) == Minus(s, t) >= SeqSpace \div 2
TCP_SEQ_LEQ(s, t) == s = t \/ TCP_SEQ_LT(s, t)
TCP_SEQ_GT(s, t) == ~TCP_SEQ_LEQ(s, t)
TCP_SEQ_GEQ(s, t) == ~TCP_SEQ_LT(s, t)
TCP_SEQ_BETWEEN(s, lo, hi) == TCP_SEQ_GEQ(s, lo) /\ TCP_SEQ_LEQ(s, hi)

Least(x, y) == IF x < y THEN x ELSE y
Most(x, y) == IF x > y THEN x ELSE y

\* TCP_TCPLEN.  len is a field of its own: it should be the length of the data.
TcpLen(s) == s.len + IF s.syn \/ s.fin THEN 1 ELSE 0
SegEnd(s) == Plus(s.seq, TcpLen(s))

\* A struct tcp_seg; clen is pbuf_clen of its chain.
Seg(seq, data, syn, fin) ==
  [seq |-> seq, data |-> data, len |-> Len(data), syn |-> syn, fin |-> fin, clen |-> 1]

-----------------------------------------------------------------------------
(* Protocol control blocks *)

Nothing == [data |-> << >>, fin |-> FALSE]
Receiving == {"ESTABLISHED", "FIN_WAIT_1", "FIN_WAIT_2"}
Active == Receiving \cup {"SYN_SENT", "SYN_RCVD", "CLOSE_WAIT", "CLOSING", "LAST_ACK"}
States == Active \cup {"CLOSED", "LISTEN", "TIME_WAIT"}

\* tcp_alloc.  rtime: the retransmission timer runs; persist: persist_backoff > 0.
\* attached: the callbacks are the netconn's; mbox is its recvmbox (the empty chunk is
\* the NULL of the end), got what the application has read, wrote what it has written.
tcp_alloc(e) ==
  [state |-> "CLOSED", flags |-> {},
   rcv_nxt |-> 0, rcv_wnd |-> TCP_WND, ann_wnd |-> TCP_WND, ann_edge |-> 0,
   snd_nxt |-> Iss[e], lastack |-> Iss[e], snd_lbb |-> Iss[e], snd_wnd |-> 0, snd_wnd_max |-> 0,
   wl1 |-> 0, wl2 |-> Iss[e], cwnd |-> 1, ssthresh |-> 0,
   snd_buf |-> TCP_SND_BUF, queuelen |-> 0, oversize |-> 0,
   unsent |-> << >>, unacked |-> << >>, ooseq |-> << >>,
   rtime |-> FALSE, nrtx |-> 0, dupacks |-> 0, persist |-> FALSE, keep |-> 0,
   acked |-> 0, refused |-> Nothing, recv_data |-> << >>, recv_flags |-> {},
   out |-> << >>, asserts |-> {},
   attached |-> TRUE, mbox |-> << >>, got |-> << >>, wrote |-> 0, eof |-> FALSE, err |-> FALSE]

\* LWIP_ASSERT: a failed one is remembered by name.
LwipAssert(p, name, cond) == IF cond THEN p ELSE [p EXCEPT !.asserts = @ \cup {name}]

\* tcp_pcb_purge
Purged(p) == [p EXCEPT !.refused = Nothing, !.unsent = << >>, !.unacked = << >>,
                       !.ooseq = << >>, !.rtime = FALSE, !.oversize = 0]

\* memp_free of the pcb, once it has left its list; the application keeps its part.
Freed(p) ==
  [Purged(p) EXCEPT !.state = "CLOSED", !.flags = {}, !.queuelen = 0, !.acked = 0, !.persist = FALSE,
                    !.nrtx = 0, !.dupacks = 0, !.keep = 0, !.cwnd = 1, !.ssthresh = 0]

\* TCP_EVENT_ERR: err_tcp of a netconn.
EventErr(p) ==
  [p EXCEPT !.err = @ \/ p.attached,
            !.mbox = IF p.attached /\ Len(@) < Mbox THEN Append(@, << >>) ELSE @]

-----------------------------------------------------------------------------
(* Output *)

Packet(p, seq, data, syn, fin) ==
  [seq |-> seq, data |-> data, len |-> Len(data), syn |-> syn, fin |-> fin, rst |-> FALSE,
   ack |-> p.state # "SYN_SENT", ackno |-> p.rcv_nxt, wnd |-> p.ann_wnd]

\* A header that announces the window, and its way into ip_output.
Announce(p, seq, data, syn, fin) ==
  [p EXCEPT !.out = Append(@, Packet(p, seq, data, syn, fin)),
            !.ann_edge = Plus(p.rcv_nxt, p.ann_wnd)]

RstPacket(seq, ackno) ==
  [seq |-> seq, data |-> << >>, len |-> 0, syn |-> FALSE, fin |-> FALSE, rst |-> TRUE,
   ack |-> TRUE, ackno |-> ackno, wnd |-> TCP_WND]
tcp_rst(p, seq, ackno) == [p EXCEPT !.out = Append(@, RstPacket(seq, ackno))]

tcp_send_empty_ack(p) ==
  [Announce(p, p.snd_nxt, << >>, FALSE, FALSE) EXCEPT !.flags = @ \ {"ACK_DELAY", "ACK_NOW"}]

tcp_ack(p) ==
  IF "ACK_DELAY" \in p.flags
  THEN [p EXCEPT !.flags = (@ \ {"ACK_DELAY"}) \cup {"ACK_NOW"}]
  ELSE [p EXCEPT !.flags = @ \cup {"ACK_DELAY"}]
tcp_ack_now(p) == [p EXCEPT !.flags = @ \cup {"ACK_NOW"}]

tcp_do_output_nagle(p) ==
  \/ p.unacked = << >> \/ "INFR" \in p.flags
  \/ Len(p.unsent) > 1 \/ (p.unsent # << >> /\ Head(p.unsent).len >= TCP_MSS)
  \/ p.snd_buf = 0 \/ p.queuelen >= TCP_SND_QUEUELEN

\* Where a segment goes in a queue sorted by sequence number.
Sorted(q, s) ==
  LET i == Cardinality({j \in DOMAIN q : \A k \in 1 .. j : TCP_SEQ_LT(q[k].seq, s.seq)})
  IN  InsertAt(q, i + 1, s)

Requeued(q, s) == IF q # << >> /\ TCP_SEQ_LT(s.seq, Last(q).seq) THEN Sorted(q, s) ELSE Append(q, s)

\* tcp_output_segment, and what tcp_output does with the segment.  snd_nxt never goes back.
Sent(p, s) ==
  LET nxt == SegEnd(s) IN
  [Announce(p, s.seq, s.data, s.syn, s.fin) EXCEPT
     !.flags = IF p.state # "SYN_SENT" THEN @ \ {"ACK_DELAY", "ACK_NOW"} ELSE @,
     !.rtime = TRUE, !.snd_nxt = IF TCP_SEQ_LT(@, nxt) THEN nxt ELSE @,
     !.unacked = IF TcpLen(s) > 0 THEN Requeued(@, s) ELSE @]

\* Does the first unsent segment fit the windows?  The sum is one of u32_t.
InWnd(p) == (Head(p.unsent).seq - p.lastack + Head(p.unsent).len) % SeqSpace <= Least(p.snd_wnd, p.cwnd)

RECURSIVE SendWhile(_)
SendWhile(p) ==
  IF /\ p.unsent # << >> /\ InWnd(p)
     /\ tcp_do_output_nagle(p) \/ p.flags \cap {"NAGLEMEMERR", "FIN"} # {}
  THEN SendWhile(Sent([p EXCEPT !.unsent = Tail(@)], Head(p.unsent)))
  ELSE [p EXCEPT !.flags = @ \ {"NAGLEMEMERR"}, !.oversize = IF p.unsent = << >> THEN 0 ELSE @]

\* Not while the pcb's own input is processed: its callers there leave it to tcp_input.
tcp_output(p) ==
  IF "ACK_NOW" \in p.flags /\ (p.unsent = << >> \/ ~InWnd(p))
  THEN tcp_send_empty_ack(p)
  ELSE SendWhile(p)

\* The first unacknowledged segment goes back to the unsent ones.
tcp_rexmit(p) ==
  IF p.unacked = << >> THEN p
  ELSE LET q == Sorted(p.unsent, Head(p.unacked)) IN
       [p EXCEPT !.unacked = Tail(@), !.unsent = q, !.nrtx = @ + 1,
                 !.oversize = IF Last(q) = Head(p.unacked) THEN 0 ELSE @]

tcp_rexmit_fast(p) ==
  IF p.unacked = << >> \/ "INFR" \in p.flags THEN p
  ELSE LET thresh == Most(Least(p.cwnd, p.snd_wnd) \div 2, 2 * TCP_MSS) IN
       [tcp_rexmit(p) EXCEPT !.ssthresh = thresh, !.cwnd = thresh + 3 * TCP_MSS,
                             !.flags = @ \cup {"INFR"}]

\* Mutant: what is sent again queues up behind what was never sent.
tcp_rexmit_rto_behind(p) ==
  IF p.unacked = << >> THEN p
  ELSE tcp_output([p EXCEPT !.unsent = @ \o p.unacked, !.unacked = << >>, !.nrtx = @ + 1])

tcp_rexmit_rto(p) ==
  IF p.unacked = << >> THEN p
  ELSE tcp_output([p EXCEPT !.unsent = p.unacked \o @, !.unacked = << >>, !.nrtx = @ + 1])

\* One byte of the first segment not acknowledged, or its FIN.
tcp_zero_window_probe(p) ==
  LET q == p.unacked \o p.unsent IN
  IF q = << >> THEN p
  ELSE LET s == IF p.unacked # << >> THEN Head(p.unacked) ELSE Head(p.unsent)
           only_fin == s.fin /\ s.len = 0
       IN  Announce(p, s.seq, IF only_fin THEN << >> ELSE SubSeq(s.data, 1, 1), FALSE, only_fin)

tcp_keepalive(p) == Announce(p, Minus(p.snd_nxt, 1), << >>, FALSE, FALSE)

-----------------------------------------------------------------------------
(* Queueing: tcp_write, tcp_enqueue_flags, tcp_send_fin *)

\* tcp_pbuf_prealloc: room left behind a copied piece for later writes.
Oversize(p, n, max, first) ==
  IF n < max /\ (~first \/ p.unsent # << >> \/ p.unacked # << >>) THEN max - n ELSE 0

\* The pieces of d, each of at most n bytes.
Pieces(d, n) ==
  [i \in 1 .. (Len(d) + n - 1) \div n |-> SubSeq(d, (i - 1) * n + 1, Least(i * n, Len(d)))]

NewSegs(seq, fill, ps, mss) ==
  [i \in DOMAIN ps |-> Seg(Plus(seq, fill + (i - 1) * mss), ps[i], FALSE, FALSE)]

\* The last unsent segment with more bytes, in the pbuf it has or in one more.
Filled(last, d, more) == [last EXCEPT !.data = @ \o d, !.len = @ + Len(d), !.clen = @ + more]

\* The new bytes first fill the space left in the last unsent segment (in the pbuf it has
\* if oversize allows, else in one more), then form new segments.
tcp_write(p, d) ==
  LET mss == Least(TCP_MSS, p.snd_wnd_max \div 2)
      last == IF p.unsent # << >> THEN Last(p.unsent) ELSE Seg(0, << >>, FALSE, FALSE)
      room == IF last.len > 0 THEN mss - last.len ELSE 0
      over == Least(p.oversize, Len(d))
      fill == Least(room, Len(d))
      rest == SubSeq(d, fill + 1, Len(d))
      segs == NewSegs(p.snd_lbb, fill, Pieces(rest, mss), mss)
      more == IF fill > over THEN 1 ELSE 0
      queue == IF fill > 0 THEN Front(p.unsent) \o << Filled(last, SubSeq(d, 1, fill), more) >>
               ELSE p.unsent
      left == IF segs # << >> THEN Oversize(p, Last(segs).len, mss, Len(segs) = 1)
              ELSE IF more = 1 THEN Oversize(p, fill - over, room - over, TRUE)
              ELSE p.oversize - over
  IN  [p EXCEPT !.unsent = queue \o segs, !.oversize = left, !.snd_lbb = Plus(@, Len(d)),
                !.snd_buf = @ - Len(d), !.queuelen = @ + more + Len(segs)]

\* A segment without data for a SYN or a FIN.
EnqueueFails(p) == p.queuelen >= TCP_SND_QUEUELEN \/ p.snd_buf = 0
tcp_enqueue_flags(p, syn, fin) ==
  [p EXCEPT !.unsent = Append(@, Seg(p.snd_lbb, << >>, syn, fin)), !.oversize = 0,
            !.snd_lbb = Plus(@, 1), !.snd_buf = @ - 1, !.queuelen = @ + 1,
            !.flags = IF fin THEN @ \cup {"FIN"} ELSE @]

\* The FIN rides on the last unsent segment, for which nothing is counted.
FinRides(p) == p.unsent # << >> /\ ~Last(p.unsent).syn /\ ~Last(p.unsent).fin
tcp_send_fin(p) ==
  IF FinRides(p)
  THEN [p EXCEPT !.unsent[Len(p.unsent)].fin = TRUE, !.flags = @ \cup {"FIN"}]
  ELSE tcp_enqueue_flags(p, FALSE, TRUE)

-----------------------------------------------------------------------------
(* Window of the receiver *)

\* Mutant: a window that grew too little to be worth a segment is announced as closed.
ann_wnd_closed(p) ==
  LET edge == Plus(p.rcv_nxt, p.rcv_wnd) IN
  [p EXCEPT !.ann_wnd =
     IF TCP_SEQ_GEQ(edge, Plus(p.ann_edge, Least(TCP_WND \div 2, TCP_MSS))) THEN p.rcv_wnd ELSE 0]

\* Announce more only when it is worth a segment; never take back what was announced.
tcp_update_rcv_ann_wnd(p) ==
  LET edge == Plus(p.rcv_nxt, p.rcv_wnd) IN
  [p EXCEPT !.ann_wnd =
     IF TCP_SEQ_GEQ(edge, Plus(p.ann_edge, Least(TCP_WND \div 2, TCP_MSS))) THEN p.rcv_wnd
     ELSE IF TCP_SEQ_GT(p.rcv_nxt, p.ann_edge) THEN 0
     ELSE Minus(p.ann_edge, p.rcv_nxt)]

\* How far the right edge moves that way: what the function returns.
Inflation(p) ==
  LET edge == Plus(p.rcv_nxt, p.rcv_wnd) IN
  IF TCP_SEQ_GEQ(edge, Plus(p.ann_edge, Least(TCP_WND \div 2, TCP_MSS)))
  THEN Minus(edge, p.ann_edge) ELSE 0

TCP_WND_UPDATE_THRESHOLD == TCP_WND \div 4

tcp_recved(p, n) ==
  LET q == [p EXCEPT !.rcv_wnd = Least(@ + n, TCP_WND)]
      r == tcp_update_rcv_ann_wnd(q)
  IN  IF Inflation(q) >= TCP_WND_UPDATE_THRESHOLD THEN tcp_output(tcp_ack_now(r)) ELSE r

-----------------------------------------------------------------------------
(* tcp_receive: the acknowledgement *)

\* Which segments may change the send window.
NewerWindow(p, s) ==
  \/ TCP_SEQ_LT(p.wl1, s.seq)
  \/ p.wl1 = s.seq /\ TCP_SEQ_LT(p.wl2, s.ackno)
  \/ p.wl2 = s.ackno /\ s.wnd > p.snd_wnd

UpdateWindow(p, s) ==
  IF ~NewerWindow(p, s) THEN p
  ELSE [p EXCEPT !.snd_wnd = s.wnd, !.snd_wnd_max = Most(@, s.wnd),
                 !.wl1 = s.seq, !.wl2 = s.ackno, !.persist = s.wnd = 0]

\* A duplicate acknowledgement: nothing new, no data, the same right edge (edge is the one
\* before the update) and something in flight.
DuplicateAck(p, s, edge) ==
  TcpLen(s) = 0 /\ Plus(p.wl2, p.snd_wnd) = edge /\ p.rtime /\ p.lastack = s.ackno

\* A congestion window that would overflow stays what it is.
NoOverflow(old, new) == IF new > MaxCwnd THEN old ELSE new

\* (Only 3 and more than 3 duplicates are told apart.)
OldAck(p, s, edge) ==
  LET q == [p EXCEPT !.acked = 0, !.dupacks = IF DuplicateAck(p, s, edge) THEN Least(@ + 1, 4) ELSE 0] IN
  IF q.dupacks > 3 THEN [q EXCEPT !.cwnd = NoOverflow(@, @ + TCP_MSS)]
  ELSE IF q.dupacks = 3 THEN tcp_rexmit_fast(q) ELSE q

\* Frees the first segment of a queue: its pbufs are no longer counted, and an
\* acknowledged FIN is not reported to the application.
Release(p, s) ==
  LwipAssert([p EXCEPT !.queuelen = @ - s.clen, !.acked = IF s.fin /\ @ # 0 THEN @ - 1 ELSE @],
         "snd_queuelen", p.queuelen >= s.clen)

RECURSIVE FreeUnacked(_, _), FreeUnsent(_, _)
FreeUnacked(p, ackno) ==
  IF p.unacked # << >> /\ TCP_SEQ_LEQ(SegEnd(Head(p.unacked)), ackno)
  THEN FreeUnacked(Release([p EXCEPT !.unacked = Tail(@)], Head(p.unacked)), ackno)
  ELSE p
\* Segments put back for retransmission that the other side had after all.
FreeUnsent(p, ackno) ==
  IF p.unsent # << >> /\ TCP_SEQ_BETWEEN(ackno, SegEnd(Head(p.unsent)), p.snd_nxt)
  THEN FreeUnsent(Release([p EXCEPT !.unsent = Tail(@),
                                    !.oversize = IF Len(p.unsent) = 1 THEN 0 ELSE @],
                          Head(p.unsent)), ackno)
  ELSE p

Grown(p) ==
  NoOverflow(p.cwnd, p.cwnd + IF p.cwnd < p.ssthresh THEN TCP_MSS ELSE (TCP_MSS * TCP_MSS) \div p.cwnd)

\* Mutant: any new acknowledgement stops the retransmission timer.
Timed_off(p) == [p EXCEPT !.rtime = FALSE]

\* The retransmission timer runs on for what is left.
Timed(p) == [p EXCEPT !.rtime = p.unacked # << >>]

NewAck(p, s) ==
  LET n == Minus(s.ackno, p.lastack)
      q == [p EXCEPT !.cwnd = IF "INFR" \in p.flags THEN p.ssthresh ELSE @,
                     !.flags = @ \ {"INFR"}, !.nrtx = 0, !.acked = n, !.snd_buf = @ + n,
                     !.dupacks = 0, !.lastack = s.ackno]
  IN  Timed(FreeUnacked([q EXCEPT !.cwnd = Grown(q)], s.ackno))

\* The acknowledgement of a segment with the window already updated; edge is the right
\* edge before that.
Acknowledged(p, s, edge) ==
  IF TCP_SEQ_LEQ(s.ackno, p.lastack) THEN OldAck(p, s, edge)
  ELSE IF TCP_SEQ_BETWEEN(s.ackno, Plus(p.lastack, 1), p.snd_nxt) THEN NewAck(p, s)
  ELSE [p EXCEPT !.acked = 0]

ValidQueueLength(p) ==
  LwipAssert(p, "valid queue length", p.queuelen # 0 => p.unacked # << >> \/ p.unsent # << >>)

ReceiveAck(p, s) ==
  IF ~s.ack THEN p
  ELSE ValidQueueLength(
         FreeUnsent(Acknowledged(UpdateWindow(p, s), s, Plus(p.wl2, p.snd_wnd)), s.ackno))

-----------------------------------------------------------------------------
(* tcp_receive: the data *)

\* The first n bytes of a segment: its pbufs can be cut, never extended.
Cut(s, n) == [s EXCEPT !.data = SubSeq(@, 1, Least(n, Len(@))), !.len = n]

\* Mutant: a segment that begins before the next byte is taken whole.
TrimLeft_whole(p, s) ==
  IF TCP_SEQ_BETWEEN(p.rcv_nxt, Plus(s.seq, 1), Plus(s.seq, TcpLen(s) - 1))
  THEN [s EXCEPT !.seq = p.rcv_nxt] ELSE s

\* Bytes received before are cut off at the front.
TrimLeft(p, s) ==
  LET off == Minus(p.rcv_nxt, s.seq) IN
  IF TCP_SEQ_BETWEEN(p.rcv_nxt, Plus(s.seq, 1), Plus(s.seq, TcpLen(s) - 1))
  THEN [s EXCEPT !.seq = p.rcv_nxt, !.data = SubSeq(@, off + 1, Len(@)), !.len = @ - off]
  ELSE s

\* The end of a segment that exceeds the window, its FIN first.
TrimToWindow(p, s) ==
  IF TcpLen(s) > p.rcv_wnd THEN Cut([s EXCEPT !.fin = FALSE], p.rcv_wnd) ELSE s

\* The queued segments that a segment from seq on covers up to its end, whose FIN it takes
\* over, and the overlap with the first one it does not cover.  (Nothing is queued behind a
\* FIN, so whether the comparisons count a FIN just taken over makes no difference.)
RECURSIVE Swallow(_, _)
Swallow(s, q) ==
  IF q # << >> /\ TCP_SEQ_GEQ(Plus(s.seq, s.len), Plus(q[1].seq, q[1].len))
  THEN Swallow([s EXCEPT !.fin = @ \/ q[1].fin], Tail(q))
  ELSE << IF q # << >> /\ TCP_SEQ_GT(Plus(s.seq, s.len), q[1].seq)
          THEN Cut(s, Minus(q[1].seq, s.seq)) ELSE s, q >>

\* tcp_oos_insert_segment: s in front of the segments q.
tcp_oos_insert_segment(s, q) ==
  IF s.fin THEN << s >> ELSE LET w == Swallow(s, q) IN << w[1] >> \o w[2]

\* What a segment in front of s keeps.
Before(prev, s) ==
  IF TCP_SEQ_GT(Plus(prev.seq, prev.len), s.seq) THEN Cut(prev, Minus(s.seq, prev.seq)) ELSE prev

\* The overrun test at the end of the queue compares u32_t values without a sign.
AtEnd(p, s) ==
  IF Plus(s.seq, TcpLen(s)) > Plus(p.rcv_nxt, p.rcv_wnd)
  THEN Cut([s EXCEPT !.fin = FALSE], Minus(Plus(p.rcv_nxt, p.rcv_wnd), s.seq))
  ELSE s

\* The loop over the out-of-order queue, from its i-th segment on.
RECURSIVE OosInsert(_, _, _, _)
OosInsert(p, q, s, i) ==
  LET front == SubSeq(q, 1, i - 1)
      rest == SubSeq(q, i, Len(q))
      insert == i = 1 /\ TCP_SEQ_LT(s.seq, q[i].seq)
      between == i > 1 /\ TCP_SEQ_BETWEEN(s.seq, Plus(q[i - 1].seq, 1), Minus(q[i].seq, 1))
  IN
  IF i > Len(q) THEN q
  ELSE IF s.seq = q[i].seq
       THEN IF s.len > q[i].len THEN front \o tcp_oos_insert_segment(s, rest) ELSE q
  ELSE IF insert THEN tcp_oos_insert_segment(s, q)
  ELSE IF between
       THEN Front(front) \o << Before(q[i - 1], s) >> \o tcp_oos_insert_segment(s, rest)
  ELSE IF i = Len(q) /\ TCP_SEQ_GT(s.seq, q[i].seq)
       THEN IF q[i].fin THEN q ELSE front \o << Before(q[i], s), AtEnd(p, s) >>
  ELSE OosInsert(p, q, s, i + 1)

Queued(p, s) ==
  LET c == Seg(s.seq, s.data, s.syn, s.fin) IN       \* tcp_seg_copy
  [p EXCEPT !.ooseq = IF @ = << >> THEN << c >> ELSE OosInsert(p, @, c, 1)]

\* The next bytes of the stream have come: number, window, announcement, data and FIN.
Accept(p, s, name) ==
  LET q == LwipAssert(p, name, p.rcv_wnd >= TcpLen(s)) IN
  tcp_update_rcv_ann_wnd(
    [q EXCEPT !.rcv_nxt = SegEnd(s), !.rcv_wnd = @ - TcpLen(s), !.recv_data = @ \o s.data,
              !.recv_flags = IF s.fin THEN @ \cup {"GOT_FIN"} ELSE @])

\* The segments of the queue that have become the next ones.
RECURSIVE TakeQueued(_)
TakeQueued(p) ==
  IF p.ooseq # << >> /\ p.ooseq[1].seq = p.rcv_nxt
  THEN LET s == p.ooseq[1] IN
       TakeQueued([Accept([p EXCEPT !.ooseq = Tail(@)], s, "ooseq tcplen > rcv_wnd") EXCEPT
                     !.state = IF s.fin /\ @ = "ESTABLISHED" THEN "CLOSE_WAIT" ELSE @])
  ELSE p

InOrder(p, s0) ==
  LET s == TrimToWindow(p, s0)
      w == IF s.fin THEN << s, << >> >> ELSE Swallow(s, p.ooseq)
  IN  tcp_ack(TakeQueued(Accept([p EXCEPT !.ooseq = w[2]], w[1], "tcplen > rcv_wnd")))

\* A segment whose old bytes are gone: in order, out of order, or of no use.
InWindow(p, seq) == TCP_SEQ_BETWEEN(seq, p.rcv_nxt, Plus(p.rcv_nxt, p.rcv_wnd - 1))
Trimmed(p, s) ==
  IF ~InWindow(p, s.seq) THEN tcp_send_empty_ack(p)
  ELSE IF s.seq = p.rcv_nxt THEN InOrder(p, s)
  ELSE Queued(tcp_send_empty_ack(p), s)

ReceiveData(p, s) ==
  Trimmed(IF TCP_SEQ_LT(TrimLeft(p, s).seq, p.rcv_nxt) THEN tcp_ack_now(p) ELSE p, TrimLeft(p, s))

ReceiveRest(p, s) ==
  IF TcpLen(s) > 0 /\ p.state \in Receiving THEN ReceiveData(p, s)
  ELSE IF InWindow(p, s.seq) THEN p
  ELSE tcp_ack_now(p)

tcp_receive(p, s) == ReceiveRest(ReceiveAck(p, s), s)

-----------------------------------------------------------------------------
(* tcp_process *)

RstAcceptable(p, s) ==
  IF p.state = "SYN_SENT" THEN s.ackno = p.snd_nxt
  ELSE TCP_SEQ_BETWEEN(s.seq, p.rcv_nxt, Plus(p.rcv_nxt, p.rcv_wnd))

ProcessSynSent(p, s) ==
  IF s.ack /\ s.syn /\ s.ackno = Plus(Head(p.unacked).seq, 1)
  THEN [p EXCEPT
          !.state = "ESTABLISHED", !.snd_buf = @ + 1, !.rcv_nxt = Plus(s.seq, 1),
          !.ann_edge = Plus(s.seq, 1), !.lastack = s.ackno,
          !.snd_wnd = s.wnd, !.snd_wnd_max = s.wnd, !.wl1 = Minus(s.seq, 1),
          !.ssthresh = 10 * TCP_MSS, !.cwnd = IF @ = 1 THEN 2 * TCP_MSS ELSE TCP_MSS,
          !.queuelen = @ - 1, !.unacked = Tail(@), !.rtime = Len(p.unacked) > 1,
          !.nrtx = IF Len(p.unacked) > 1 THEN 0 ELSE @, !.flags = @ \cup {"ACK_NOW"}]
  ELSE IF s.ack THEN tcp_rst(p, s.ackno, SegEnd(s))
  ELSE p

\* tcp_abort: the peer gets a reset, the application the error.
tcp_abort(p) == EventErr(Freed(tcp_rst(p, p.snd_nxt, p.rcv_nxt)))

GotFin(p) == "GOT_FIN" \in p.recv_flags
CloseWait(p) == IF GotFin(p) THEN [tcp_ack_now(p) EXCEPT !.state = "CLOSE_WAIT"] ELSE p
TimeWait(p) == [Purged(p) EXCEPT !.state = "TIME_WAIT"]

\* A SYN_RCVD pcb becomes ESTABLISHED by the acknowledgement of its SYN (and goes on to
\* tcp_receive) if the application takes the connection; otherwise it is aborted.
Established(p, s) == s.ack /\ TCP_SEQ_BETWEEN(s.ackno, Plus(p.lastack, 1), p.snd_nxt)
ProcessSynRcvd(p, s) ==
  IF s.ack THEN IF Established(p, s) THEN tcp_abort([p EXCEPT !.attached = FALSE])
                ELSE tcp_rst(p, s.ackno, SegEnd(s))
  ELSE IF s.syn /\ s.seq = Minus(p.rcv_nxt, 1) THEN tcp_rexmit(p)
  ELSE p

\* Everything sent so far is acknowledged.
AllAcked(p, s) == s.ack /\ s.ackno = p.snd_nxt

\* What follows tcp_receive in each state: p is the pcb after it, old the one before.
AfterReceive(p, old, s) ==
  CASE old.state = "SYN_RCVD" ->
         CloseWait([p EXCEPT !.acked = IF @ # 0 THEN @ - 1 ELSE 0,
                             !.cwnd = IF old.cwnd = 1 THEN 2 * TCP_MSS ELSE TCP_MSS])
    [] old.state \in {"ESTABLISHED", "CLOSE_WAIT"} -> CloseWait(p)
    [] old.state = "FIN_WAIT_1" ->
         IF GotFin(p) THEN IF AllAcked(p, s) THEN TimeWait(tcp_ack_now(p))
                           ELSE [tcp_ack_now(p) EXCEPT !.state = "CLOSING"]
         ELSE IF AllAcked(p, s) THEN [p EXCEPT !.state = "FIN_WAIT_2"] ELSE p
    [] old.state = "FIN_WAIT_2" -> IF GotFin(p) THEN TimeWait(tcp_ack_now(p)) ELSE p
    [] old.state = "CLOSING" -> IF AllAcked(p, s) THEN TimeWait(p) ELSE p
    [] old.state = "LAST_ACK" ->
         IF AllAcked(p, s) THEN [p EXCEPT !.recv_flags = @ \cup {"CLOSED"}] ELSE p

\* accepted: the application has room for one more connection.
ProcessState(p, s, accepted) ==
  CASE p.state = "SYN_SENT" -> ProcessSynSent(p, s)
    [] p.state = "SYN_RCVD" /\ ~(accepted /\ Established(p, s)) -> ProcessSynRcvd(p, s)
    [] OTHER -> AfterReceive(
         tcp_receive([p EXCEPT !.state = IF @ = "SYN_RCVD" THEN "ESTABLISHED" ELSE @], s), p, s)

tcp_process(p, s, accepted) ==
  CASE s.rst -> IF RstAcceptable(p, s) THEN [p EXCEPT !.recv_flags = @ \cup {"RESET"}] ELSE p
    [] ~s.rst /\ s.syn /\ p.state \notin {"SYN_SENT", "SYN_RCVD"} -> tcp_ack_now(p)
    [] OTHER -> ProcessState([p EXCEPT !.keep = 0], s, accepted)

-----------------------------------------------------------------------------
(* tcp_input *)

\* TCP_EVENT_RECV: recv_tcp takes the data if its mailbox has room; without a netconn
\* tcp_recv_null drops it.
RecvRefused(p) == p.attached /\ Len(p.mbox) >= Mbox
EventRecv(p, d) ==
  IF p.attached THEN [p EXCEPT !.mbox = Append(@, d)] ELSE tcp_recved(p, Len(d))

\* The FIN of the peer reaches the application.  A full mailbox takes no NULL message.
EventClosed(p) ==
  [p EXCEPT !.rcv_wnd = IF @ # TCP_WND THEN @ + 1 ELSE @,
            !.mbox = IF p.attached /\ Len(@) < Mbox THEN Append(@, << >>) ELSE @]

tcp_process_refused_data(p) ==
  IF p.refused = Nothing \/ RecvRefused(p) THEN p
  ELSE LET q == EventRecv([p EXCEPT !.refused = Nothing], p.refused.data) IN
       IF p.refused.fin THEN EventClosed(q) ELSE q

DeliverFin(p) ==
  IF ~GotFin(p) THEN p
  ELSE IF p.refused # Nothing THEN [p EXCEPT !.refused.fin = TRUE]
  ELSE EventClosed(p)

\* What tcp_process has collected for the application.
Deliver(p) ==
  CASE "RESET" \in p.recv_flags -> EventErr(Freed(p))
    [] "CLOSED" \in p.recv_flags -> IF "RXCLOSED" \in p.flags THEN Freed(p) ELSE EventErr(Freed(p))
    [] p.state = "CLOSED" -> p
    [] p.recv_data # << >> /\ "RXCLOSED" \in p.flags -> tcp_abort(p)
    [] OTHER ->
       LET q == IF p.recv_data = << >> THEN p
                ELSE IF RecvRefused(p) THEN [p EXCEPT !.refused.data = p.recv_data]
                ELSE EventRecv(p, p.recv_data)
       IN  tcp_output(DeliverFin(q))

\* A segment for an active pcb.  Nothing new is taken while data is refused.
Unrefused(p, s, accepted) ==
  IF p.refused # Nothing /\ TcpLen(s) > 0 THEN p
  ELSE Deliver(tcp_process(p, s, accepted))
ActiveInput(p, s, accepted) == Unrefused(tcp_process_refused_data(p), s, accepted)

\* A SYN creates the connection; TCP knows no half-open entry without a pcb.
tcp_listen_input(p, e, s) ==
  IF s.rst THEN p
  ELSE IF s.ack THEN tcp_rst(p, s.ackno, SegEnd(s))
  ELSE IF s.syn
  THEN tcp_output(tcp_enqueue_flags(
         [tcp_alloc(e) EXCEPT
            !.state = "SYN_RCVD", !.rcv_nxt = Plus(s.seq, 1), !.ann_edge = Plus(s.seq, 1),
            !.snd_wnd = s.wnd, !.snd_wnd_max = s.wnd, !.ssthresh = s.wnd, !.wl1 = Minus(s.seq, 1)],
         TRUE, FALSE))
  ELSE p

tcp_timewait_input(p, s) ==
  IF s.rst THEN p
  ELSE IF s.syn /\ TCP_SEQ_BETWEEN(s.seq, p.rcv_nxt, Plus(p.rcv_nxt, p.rcv_wnd))
  THEN tcp_rst(p, s.ackno, SegEnd(s))
  ELSE IF TcpLen(s) > 0 THEN tcp_output(tcp_ack_now(p)) ELSE p

tcp_input(p, e, s, accepted) ==
  CASE p.state \in Active -> ActiveInput(p, s, accepted)
    [] p.state = "TIME_WAIT" -> tcp_timewait_input(p, s)
    [] p.state = "LISTEN" -> tcp_listen_input(p, e, s)
    [] OTHER -> IF s.rst THEN p ELSE tcp_rst(p, s.ackno, SegEnd(s))

-----------------------------------------------------------------------------
(* The steps *)

tcp_connect(e) ==
  tcp_output([tcp_enqueue_flags(
    [tcp_alloc(e) EXCEPT !.lastack = Minus(Iss[e], 1), !.snd_lbb = Minus(Iss[e], 1),
                         !.snd_wnd = TCP_WND, !.ssthresh = 10 * TCP_MSS],
    TRUE, FALSE) EXCEPT !.state = "SYN_SENT"])

Clean(p) == [p EXCEPT !.out = << >>, !.recv_data = << >>, !.recv_flags = {}]

Init ==
  /\ pcb = [a |-> Clean(tcp_connect("a")), b |-> [tcp_alloc("b") EXCEPT !.state = "LISTEN"]]
  /\ net = [a |-> << >>, b |-> tcp_connect("a").out]
  /\ faults = 0

\* A failed LWIP_ASSERT calls abort().
Running(e) == pcb[e].asserts = {}

\* The result of a handler of e: its pcb, and its packets on the link.
Commit(e, p) ==
  /\ Running(e) /\ pcb' = [pcb EXCEPT ![e] = Clean(p)]
  /\ net' = [net EXCEPT ![Peer(e)] = @ \o p.out]

Fault == faults < MaxFaults /\ faults' = faults + 1
Quiet == \A e \in End : net[e] = << >>
\* Timers are long against the way of a packet: before all have arrived they are early.
Expires == (Quiet /\ UNCHANGED faults) \/ Fault

Handled(e, i, p) ==
  /\ pcb' = [pcb EXCEPT ![e] = Clean(p)]
  /\ net' = [net EXCEPT ![e] = RemoveAt(@, i), ![Peer(e)] = @ \o p.out]

\* The i-th packet arrives; it overtakes those before it.
Receive(e, i, accepted) ==
  /\ i \in DOMAIN net[e] /\ Running(e)
  /\ IF i = 1 /\ accepted THEN UNCHANGED faults ELSE Fault
  /\ Handled(e, i, tcp_input(pcb[e], e, net[e][i], accepted))

Lose(e) == net[e] # << >> /\ Fault /\ net' = [net EXCEPT ![e] = Tail(@)] /\ UNCHANGED pcb
Duplicate(e) ==
  net[e] # << >> /\ Fault /\ net' = [net EXCEPT ![e] = Append(@, Head(@))] /\ UNCHANGED pcb

tcp_fasttmr(e) ==
  LET p == pcb[e]
      q == IF "ACK_DELAY" \notin p.flags THEN p
           ELSE [tcp_output(tcp_ack_now(p)) EXCEPT !.flags = @ \ {"ACK_DELAY", "ACK_NOW"}]
      r == tcp_process_refused_data(q)
  IN  p.state \in Active /\ r # p /\ Commit(e, r) /\ UNCHANGED faults

MaxRtx(p) == IF p.state = "SYN_SENT" THEN TCP_SYNMAXRTX ELSE TCP_MAXRTX

\* tcp_slowtmr, one action for each thing it finds due.  The congestion window shrinks, all
\* unacknowledged segments are sent again.
Retransmit(e) ==
  LET p == pcb[e] IN
  /\ p.state \in Active /\ p.nrtx < MaxRtx(p) /\ ~p.persist /\ p.rtime /\ p.unacked # << >>
  /\ Expires
  /\ Commit(e, tcp_rexmit_rto(
       [p EXCEPT !.ssthresh = Most(Least(p.cwnd, p.snd_wnd) \div 2, 2 * TCP_MSS), !.cwnd = TCP_MSS]))

Probe(e) ==
  /\ pcb[e].state \in Active /\ pcb[e].nrtx < MaxRtx(pcb[e]) /\ pcb[e].persist /\ Quiet
  /\ Commit(e, tcp_zero_window_probe(pcb[e])) /\ UNCHANGED faults

GiveUp(e) ==
  /\ pcb[e].state \in Active /\ pcb[e].nrtx >= MaxRtx(pcb[e]) /\ Quiet
  /\ Commit(e, EventErr(Freed(pcb[e]))) /\ UNCHANGED faults

KeepaliveTimer(e) ==
  /\ e \in Keepalive /\ pcb[e].state \in {"ESTABLISHED", "CLOSE_WAIT"} /\ Fault
  /\ Commit(e, IF pcb[e].keep >= TCP_KEEPCNT THEN tcp_abort(pcb[e])
               ELSE [tcp_keepalive(pcb[e]) EXCEPT !.keep = @ + 1])

\* The states that do not last: FIN_WAIT_2 of a closed connection, SYN_RCVD, LAST_ACK.
StateTimeout(e) ==
  /\ \/ pcb[e].state \in {"SYN_RCVD", "LAST_ACK"}
     \/ pcb[e].state = "FIN_WAIT_2" /\ "RXCLOSED" \in pcb[e].flags
  /\ Fault /\ Commit(e, EventErr(Freed(pcb[e])))

TimeWaitEnds(e) ==
  pcb[e].state = "TIME_WAIT" /\ Quiet /\ Commit(e, Freed(pcb[e])) /\ UNCHANGED faults

DropOoseq(e) ==
  pcb[e].ooseq # << >> /\ Fault /\ Commit(e, [pcb[e] EXCEPT !.ooseq = << >>])

-----------------------------------------------------------------------------
(* The application, through its netconn *)

Writing(e) == pcb[e].state \in {"ESTABLISHED", "CLOSE_WAIT"} /\ "FIN" \notin pcb[e].flags
Left(e) == Bytes[e] - pcb[e].wrote

\* netconn_write with a length that fits; do_writemore sends what Nagle allows.
Write(e) ==
  \E n \in Chunks :
    /\ Writing(e) /\ n <= Left(e) /\ n <= pcb[e].snd_buf
    /\ \E q \in {tcp_write([pcb[e] EXCEPT !.wrote = @ + n], [i \in 1 .. n |-> pcb[e].wrote + i])} :
         /\ q.queuelen <= TCP_SND_QUEUELEN
         /\ Commit(e, IF tcp_do_output_nagle(q) THEN tcp_output(q) ELSE q)
    /\ UNCHANGED faults

\* tcp_write finds no memory for a pbuf or a segment.
WriteFails(e) ==
  /\ Writing(e) /\ Left(e) > 0 /\ Fault
  /\ Commit(e, tcp_output([pcb[e] EXCEPT !.flags = @ \cup {"NAGLEMEMERR"}]))

\* netconn_recv: one message, and the window for it.
Read(e) ==
  LET p == pcb[e]
      q == [p EXCEPT !.mbox = Tail(@), !.got = @ \o Head(p.mbox), !.eof = @ \/ Head(p.mbox) = << >>]
      n == Len(Head(p.mbox))
  IN  /\ p.mbox # << >> /\ p.attached /\ ~p.eof /\ UNCHANGED faults
      /\ Commit(e, IF n > 0 /\ p.state # "CLOSED" THEN tcp_recved(q, n) ELSE q)

\* tcp_close_shutdown.  Data the application has not read turns the close into a reset.
Unread(p) == p.refused # Nothing \/ p.rcv_wnd # TCP_WND
CloseShutdown(p, rst) ==
  IF rst /\ p.state \in {"ESTABLISHED", "CLOSE_WAIT"} /\ Unread(p)
  THEN LET q == tcp_rst(p, p.snd_nxt, p.rcv_nxt) IN
       IF p.state = "ESTABLISHED" THEN TimeWait(q) ELSE Freed(q)
  ELSE CASE p.state = "SYN_SENT" -> Freed(p)
         [] p.state \in {"SYN_RCVD", "ESTABLISHED"} ->
              tcp_output([tcp_send_fin(p) EXCEPT !.state = "FIN_WAIT_1"])
         [] p.state = "CLOSE_WAIT" -> tcp_output([tcp_send_fin(p) EXCEPT !.state = "LAST_ACK"])
         [] OTHER -> p

FinPossible(p) == FinRides(p) \/ ~EnqueueFails(p)

Shutdown(e) ==
  /\ pcb[e].attached /\ Writing(e) /\ Left(e) = 0 /\ FinPossible(pcb[e])
  /\ (Bytes[e] > 0 /\ UNCHANGED faults) \/ (e \in Closers /\ Fault)
  /\ Commit(e, CloseShutdown(pcb[e], FALSE))

\* The application closes when it has written all and seen the end, or at any time.
Close(e) ==
  LET p == pcb[e] IN
  /\ p.attached /\ p.state \in Active \cup {"TIME_WAIT"} /\ FinPossible(p)
  /\ (p.eof /\ Left(e) = 0 /\ UNCHANGED faults) \/ (e \in Closers /\ Fault)
  /\ Commit(e, CloseShutdown([p EXCEPT !.flags = @ \cup {"RXCLOSED"}, !.attached = FALSE,
                                       !.mbox = << >>], TRUE))

Next ==
  \E e \in End :
    \/ \E i \in 1 .. 2, accepted \in BOOLEAN : Receive(e, i, accepted)
    \/ Lose(e) \/ Duplicate(e)
    \/ tcp_fasttmr(e) \/ Retransmit(e) \/ Probe(e) \/ GiveUp(e) \/ KeepaliveTimer(e)
    \/ StateTimeout(e) \/ TimeWaitEnds(e) \/ DropOoseq(e)
    \/ Write(e) \/ WriteFails(e) \/ Read(e) \/ Shutdown(e) \/ Close(e)

Spec == Init /\ [][Next]_vars

-----------------------------------------------------------------------------
(* Properties *)

Synchronized(p) == p.state \in Active \ {"SYN_SENT"}

TypeOK ==
  \A e \in End :
    LET p == pcb[e] IN
    /\ p.state \in States /\ faults \in 0 .. MaxFaults
    /\ {p.rcv_nxt, p.snd_nxt, p.lastack, p.snd_lbb, p.ann_edge} \subseteq 0 .. SeqSpace - 1
    /\ Running(e) => p.rcv_wnd \in 0 .. TCP_WND /\ p.ann_wnd \in 0 .. TCP_WND
    /\ p.snd_buf \in 0 .. TCP_SND_BUF + 1 /\ Len(p.mbox) <= Mbox

\* What the application of one side has been given, in its hands, its mailbox or refused, is
\* the beginning of what the other has written, whatever the links did to the segments
\* (tcp_receive); and the end is reported only after all of it and after a FIN.
StreamInOrder ==
  \A e \in End :
    LET p == pcb[e]
        q == pcb[Peer(e)]
        all == p.got \o FlattenSeq(p.mbox) \o p.refused.data
    IN  p.attached =>
        /\ Len(all) <= q.wrote /\ \A i \in DOMAIN all : all[i] = i
        /\ (p.eof /\ ~p.err) => Len(p.got) = q.wrote /\ ~Writing(Peer(e))

\* What was announced is there: the window really open reaches as far as any announcement
\* did (tcp_update_rcv_ann_wnd).
WindowHonoured ==
  \A e \in End :
    Synchronized(pcb[e]) /\ Running(e) => TCP_SEQ_GEQ(Plus(pcb[e].rcv_nxt, pcb[e].rcv_wnd), pcb[e].ann_edge)

\* Every byte not acknowledged is in exactly one segment of the two send queues, each queue
\* is in order; snd_buf and snd_queuelen count what is in them; no assertion of the code
\* has failed.
QueuesCoherent ==
  \A e \in End :
    LET p == pcb[e]
        covers(n, s) == Minus(n, s.seq) < TcpLen(s)
        ordered(q) == \A i \in 2 .. Len(q) : TCP_SEQ_LEQ(SegEnd(q[i - 1]), q[i].seq)
        queues == << p.unacked, p.unsent >>
    IN  /\ TypeOK /\ WindowHonoured /\ p.asserts \subseteq {"ooseq tcplen > rcv_wnd"}
        /\ p.state \in Active =>
             /\ ordered(p.unacked) /\ ordered(p.unsent)
             /\ \A k \in 0 .. Minus(p.snd_lbb, p.lastack) - 1 :
                  TCP_SEQ_LT(p.lastack, p.snd_lbb) =>
                  Cardinality({<< j, i >> \in {1, 2} \X (1 .. TCP_SND_QUEUELEN) :
                    i \in DOMAIN queues[j] /\ covers(Plus(p.lastack, k), queues[j][i])}) = 1
             /\ Plus(p.snd_buf, p.snd_lbb - p.lastack) = TCP_SND_BUF
             /\ p.queuelen = FoldSeq(LAMBDA s, n : s.clen + n, 0, p.unacked \o p.unsent)

\* An announced right edge is never taken back.
WindowNeverShrinks ==
  [][\A e \in End : Synchronized(pcb[e]) /\ Synchronized(pcb'[e]) =>
       TCP_SEQ_GEQ(pcb'[e].ann_edge, pcb[e].ann_edge)]_vars

\* The sender waits for a window that is open, but not wide enough for its next segment:
\* only the receiver can end this, and the code has no timer for it.
WaitsForRoom(p) ==
  p.unacked = << >> /\ p.unsent # << >> /\ p.snd_wnd > 0 /\ ~p.persist /\ ~InWnd(p)

\* The pcb went to TIME_WAIT with data not acknowledged: in FIN_WAIT_1 and CLOSING an
\* acknowledgement of everything sent so far is taken for that of the FIN.
Forgotten(p) == p.state = "TIME_WAIT" /\ "FIN" \in p.flags /\ TCP_SEQ_LT(p.lastack, p.snd_lbb)

\* Acknowledged data that the application refused is gone: tcp_pcb_purge frees it on the way
\* to TIME_WAIT, and what is refused on that way is never offered again by tcp_fasttmr.
Stranded(p) == p.state = "TIME_WAIT" /\ p.rcv_wnd # TCP_WND

\* Closing in order loses nothing: "unsent data is sent from tcp timer functions, also"
\* (tcp_close_shutdown).
NothingForgotten == \A e \in End : ~Forgotten(pcb[e])

\* The window is never overrun by what waits out of order (LWIP_ASSERT of tcp_receive).
NoOverrun == \A e \in End : "ooseq tcplen > rcv_wnd" \notin pcb[e].asserts

\* No packet is on its way, no timer runs that has something to do, and neither
\* application can go on.
Stopped ==
  /\ Quiet
  /\ \A e \in End :
       LET p == pcb[e] IN
       /\ p.mbox = << >> \/ p.eof \/ ~p.attached
       /\ p.state \in Active =>
            /\ "ACK_DELAY" \notin p.flags /\ (p.refused = Nothing \/ RecvRefused(p))
            /\ ~p.persist /\ (p.unacked = << >> \/ ~p.rtime)
       /\ Writing(e) => IF Left(e) > 0 THEN p.snd_buf < Max(Chunks) ELSE ~FinPossible(p)

Broken(e) == pcb[e].err \/ pcb[Peer(e)].err \/ pcb[e].state = "CLOSED" \/ pcb[Peer(e)].state = "CLOSED"

\* The connection never stalls: whatever was lost, whenever nothing more would happen by
\* itself, all that was written has arrived (tcp_slowtmr, tcp_fasttmr, tcp_recved), unless the
\* connection broke, was closed by the reader, or is one of the cases named above.
NoStall ==
  Stopped => \A e \in End :
    \/ Len(pcb[Peer(e)].got) = Bytes[e] \/ Broken(e) \/ WaitsForRoom(pcb[e])
    \/ ~pcb[Peer(e)].attached \/ Forgotten(pcb[e]) \/ Stranded(pcb[Peer(e)])
    \/ ~Running("a") \/ ~Running("b")
=============================================================================
