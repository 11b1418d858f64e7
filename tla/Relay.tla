------------------------------- MODULE Relay --------------------------------
(***************************************************************************)
(* The relay of the proxy examples (examples/src/relay.c): two threads,    *)
(* one that serves the native sockets and one that serves the lwIP         *)
(* sockets, pass connections to each other through two crossbars.          *)
(*                                                                         *)
(* A connection has two directions, one per agent that reads.  A direction *)
(* with an empty buffer is in the hands of the reading agent; with a full  *)
(* one it is in the hands of the other agent, which writes.  Each          *)
(* direction ends in one relay_conn_close, and the second of the two       *)
(* destroys the connection.                                                *)
(*                                                                         *)
(* The bytes of a direction are numbered.  The arrays are sequences; the   *)
(* length a crossbar hands over with a buffer is the length of its content *)
(* here.  A pass over the descriptors moves the entries of an array one by *)
(* one, those that stay to the front of the same array.                    *)
(***************************************************************************)
EXTENDS Integers, Sequences, Counting

CONSTANTS
  Conns,        \* relay_conn structures
  NoConn,
  FirstAgent,   \* the agent whose crossbar the accepting thread fills first
  BufLen,       \* bytes a buffer holds
  MaxBytes      \* bound: MaxBytes[a], bytes a peer on a's side sends

Agents == {"lwip", "native"}
other(a) == IF a = "lwip" THEN "native" ELSE "lwip"

ASSUME RelayAssumption ==
  /\ NoConn \notin Conns /\ FirstAgent \in Agents
  /\ BufLen \in Nat \ {0} /\ MaxBytes \in [Agents -> Nat]

VARIABLES
  incoming_r, incoming_w, \* ready_for_reading, ready_for_writing of a's crossbar
  relay_read, relay_write,\* a's arrays; in a pass, the entries that stay
  todo_r, todo_w,         \* the entries the current pass has not come to
  ready_r, ready_w,       \* read_fds, write_fds after select
  pc, cur,                \* where a's thread is, and the connection it closes
  how,                    \* SHUT_WR or SHUT_RD, for that close
  bufs,                   \* bufs[c][a]: what a has read and is not yet written
  close_count, destroyed, \* per connection
  accepting,              \* the accepting thread: the half-introduced connection
  created,                \* connections that exist or existed
  sent, fin, broken,      \* per connection and agent: the peer behind the socket
  out,                    \* out[c][a]: bytes read by a that reached the other peer
  eof                     \* eof[c][a]: a's end of stream was passed on (SHUT_WR)

fds == <<ready_r, ready_w>>
arrays == <<incoming_r, incoming_w, relay_read, relay_write, todo_r, todo_w, fds>>
threads == <<pc, cur, how>>
life == <<close_count, destroyed, accepting, created>>
peers == <<sent, fin, broken>>
vars == <<arrays, threads, life, peers, bufs, out, eof>>

(***************************************************************************)
(*   collect   at the top of the loop, before the crossbar's mutex         *)
(*   sleep     in pthread_cond_wait                                        *)
(*   select    has built its descriptor sets                               *)
(*   serve     going through the descriptors select reported               *)
(*   shutdown, close, destroy   in the three calls that end a direction    *)
(***************************************************************************)

PerAgent(x) == [a \in Agents |-> x]
PerBoth(x) == [c \in Conns |-> PerAgent(x)]

Init ==
  /\ incoming_r = PerAgent(<< >>) /\ incoming_w = PerAgent(<< >>)
  /\ relay_read = PerAgent(<< >>) /\ relay_write = PerAgent(<< >>)
  /\ todo_r = PerAgent(<< >>) /\ todo_w = PerAgent(<< >>)
  /\ ready_r = PerAgent({}) /\ ready_w = PerAgent({})
  /\ pc = PerAgent("collect") /\ cur = PerAgent(NoConn) /\ how = PerAgent("none")
  /\ bufs = PerBoth(<< >>)
  /\ close_count = [c \in Conns |-> 0] /\ destroyed = [c \in Conns |-> FALSE]
  /\ accepting = NoConn /\ created = {}
  /\ sent = PerBoth(0) /\ fin = PerBoth(FALSE) /\ broken = PerBoth(FALSE)
  /\ out = PerBoth(<< >>) /\ eof = PerBoth(FALSE)

\* How many bytes of direction a of c the relay has read.
Got(c, a) == Len(out[c][a]) + Len(bufs[c][a])

-----------------------------------------------------------------------------
(* The peers *)

PeerSends(c, a) ==
  /\ c \in created /\ ~destroyed[c]
  /\ sent[c][a] < MaxBytes[a] /\ ~fin[c][a] /\ ~broken[c][a]
  /\ sent' = [sent EXCEPT ![c][a] = @ + 1]
  /\ UNCHANGED <<arrays, threads, life, fin, broken, bufs, out, eof>>

PeerCloses(c, a) ==
  /\ c \in created /\ ~destroyed[c]
  /\ ~fin[c][a] /\ ~broken[c][a]
  /\ fin' = [fin EXCEPT ![c][a] = TRUE]
  /\ UNCHANGED <<arrays, threads, life, sent, broken, bufs, out, eof>>

\* The connection to the peer is reset: reads and writes fail from now on.
PeerResets(c, a) ==
  /\ c \in created /\ ~destroyed[c]
  /\ ~broken[c][a]
  /\ broken' = [broken EXCEPT ![c][a] = TRUE]
  /\ UNCHANGED <<arrays, threads, life, sent, fin, bufs, out, eof>>

-----------------------------------------------------------------------------
(* Crossbars *)

Awoken_Unsignalled(l) == l
\* pthread_cond_signal, under the mutex of the crossbar.
Awoken(l) == IF l = "sleep" THEN "collect" ELSE l

\* crossbar_add_for_reading to the crossbar of agent b.
crossbar_add_for_reading(b, c) ==
  /\ incoming_r' = [incoming_r EXCEPT ![b] = Append(@, c)]
  /\ UNCHANGED incoming_w

crossbar_add_for_writing(b, c) ==
  /\ incoming_w' = [incoming_w EXCEPT ![b] = Append(@, c)]
  /\ UNCHANGED incoming_r

\* The accepting thread creates a connection and introduces it to one relay
\* thread, then to the other.
Accept(c) ==
  /\ accepting = NoConn
  /\ c \notin created
  /\ created' = created \cup {c}
  /\ accepting' = c
  /\ crossbar_add_for_reading(FirstAgent, c)
  /\ pc' = [pc EXCEPT ![FirstAgent] = Awoken(@)]
  /\ UNCHANGED <<relay_read, relay_write, todo_r, todo_w, fds, cur, how, bufs,
                 close_count, destroyed, peers, out, eof>>

Introduce ==
  /\ accepting # NoConn
  /\ crossbar_add_for_reading(other(FirstAgent), accepting)
  /\ pc' = [pc EXCEPT ![other(FirstAgent)] = Awoken(@)]
  /\ accepting' = NoConn
  /\ UNCHANGED <<relay_read, relay_write, todo_r, todo_w, fds, cur, how, bufs,
                 close_count, destroyed, created, peers, out, eof>>

-----------------------------------------------------------------------------
(* relay: one pass of the loop of agent a's thread *)

\* Nothing at hand and nothing in the crossbar: sleep on its condition.
Sleep(a) ==
  /\ pc[a] = "collect"
  /\ relay_read[a] = << >> /\ relay_write[a] = << >>
  /\ incoming_r[a] = << >> /\ incoming_w[a] = << >>
  /\ pc' = [pc EXCEPT ![a] = "sleep"]
  /\ UNCHANGED <<arrays, cur, how, life, peers, bufs, out, eof>>

SpuriousWake(a) ==
  /\ pc[a] = "sleep"
  /\ pc' = [pc EXCEPT ![a] = "collect"]
  /\ UNCHANGED <<arrays, cur, how, life, peers, bufs, out, eof>>

\* Take over the crossbar's content, under its mutex; then FD_ZERO.
Collect(a) ==
  /\ pc[a] = "collect"
  /\ relay_read[a] \o relay_write[a] \o incoming_r[a] \o incoming_w[a] # << >>
  /\ relay_read' = [relay_read EXCEPT ![a] = @ \o incoming_r[a]]
  /\ relay_write' = [relay_write EXCEPT ![a] = @ \o incoming_w[a]]
  /\ incoming_r' = [incoming_r EXCEPT ![a] = << >>]
  /\ incoming_w' = [incoming_w EXCEPT ![a] = << >>]
  /\ ready_r' = [ready_r EXCEPT ![a] = {}]
  /\ ready_w' = [ready_w EXCEPT ![a] = {}]
  /\ pc' = [pc EXCEPT ![a] = "select"]
  /\ UNCHANGED <<todo_r, todo_w, cur, how, life, peers, bufs, out, eof>>

Readable(c, a) == broken[c][a] \/ fin[c][a] \/ Got(c, a) < sent[c][a]

Entries(q) == {q[i] : i \in 1 .. Len(q)}

\* select reports what is readable, and those of the writable sockets W whose
\* peer has room; or it times out (or fails) and the loop starts over.
Select(a, W) ==
  /\ pc[a] = "select"
  /\ ready_r' = [ready_r EXCEPT ![a] = {c \in Entries(relay_read[a]) : Readable(c, a)}]
  /\ ready_w' = [ready_w EXCEPT ![a] = Entries(relay_write[a]) \cap W]
  /\ IF ready_r'[a] \cup ready_w'[a] = {}
     THEN /\ pc' = [pc EXCEPT ![a] = "collect"]
          /\ UNCHANGED <<relay_read, relay_write, todo_r, todo_w>>
     ELSE /\ pc' = [pc EXCEPT ![a] = "serve"]
          /\ todo_r' = [todo_r EXCEPT ![a] = relay_read[a]]
          /\ todo_w' = [todo_w EXCEPT ![a] = relay_write[a]]
          /\ relay_read' = [relay_read EXCEPT ![a] = << >>]
          /\ relay_write' = [relay_write EXCEPT ![a] = << >>]
  /\ UNCHANGED <<incoming_r, incoming_w, cur, how, life, peers, bufs, out, eof>>

\* Where the thread goes when it has served one entry.
Onward(a, rest) == IF rest = << >> THEN "collect" ELSE "serve"

\* The pass has come to an entry of relay_read, or to one of relay_write.
AtRead(a) == pc[a] = "serve" /\ todo_r[a] # << >>
AtWrite(a) == pc[a] = "serve" /\ todo_r[a] = << >> /\ todo_w[a] # << >>

\* The entry stays in the array, for the next pass.
KeepRead(a) ==
  /\ relay_read' = [relay_read EXCEPT ![a] = Append(@, Head(todo_r[a]))]
  /\ todo_r' = [todo_r EXCEPT ![a] = Tail(@)]
  /\ pc' = [pc EXCEPT ![a] = Onward(a, Tail(todo_r[a]) \o todo_w[a])]
  /\ UNCHANGED <<incoming_r, incoming_w, relay_write, todo_w, fds, cur, how, life, peers, bufs, out, eof>>

KeepWrite(a) ==
  /\ relay_write' = [relay_write EXCEPT ![a] = Append(@, Head(todo_w[a]))]
  /\ todo_w' = [todo_w EXCEPT ![a] = Tail(@)]
  /\ pc' = [pc EXCEPT ![a] = Onward(a, Tail(todo_w[a]))]
  /\ UNCHANGED <<incoming_r, incoming_w, relay_read, todo_r, fds, cur, how, life, peers, bufs, out, eof>>

\* Not in the descriptor set that select left.
NotReady(a) ==
  \/ AtRead(a) /\ Head(todo_r[a]) \notin ready_r[a] /\ KeepRead(a)
  \/ AtWrite(a) /\ Head(todo_w[a]) \notin ready_w[a] /\ KeepWrite(a)

\* read returned n > 0 bytes: pass the full buffer to the other thread.
ReadData(a, n) ==
  /\ AtRead(a) /\ Head(todo_r[a]) \in ready_r[a]
  /\ LET c == Head(todo_r[a]) IN
       /\ ~broken[c][a]
       /\ n <= BufLen /\ Got(c, a) + n <= sent[c][a]
       /\ bufs' = [bufs EXCEPT ![c][a] = [i \in 1 .. n |-> Got(c, a) + i]]
       /\ crossbar_add_for_writing(other(a), c)
  /\ todo_r' = [todo_r EXCEPT ![a] = Tail(@)]
  /\ pc' = [pc EXCEPT ![a] = Onward(a, Tail(todo_r[a]) \o todo_w[a]), ![other(a)] = Awoken(@)]
  /\ UNCHANGED <<relay_read, relay_write, todo_w, fds, cur, how, life, peers, out, eof>>

\* read returned 0, or failed for good: the direction ends.
ReadEnds(a) ==
  /\ AtRead(a) /\ Head(todo_r[a]) \in ready_r[a]
  /\ LET c == Head(todo_r[a]) IN
       /\ broken[c][a] \/ (fin[c][a] /\ Got(c, a) = sent[c][a])
       /\ cur' = [cur EXCEPT ![a] = c]
  /\ how' = [how EXCEPT ![a] = "WR"]
  /\ todo_r' = [todo_r EXCEPT ![a] = Tail(@)]
  /\ pc' = [pc EXCEPT ![a] = "shutdown"]
  /\ UNCHANGED <<incoming_r, incoming_w, relay_read, relay_write, todo_w, fds, life, peers, bufs, out, eof>>

\* The reads come first; then each ready buffer is written, in whole ...
WriteAll(a) ==
  /\ AtWrite(a) /\ Head(todo_w[a]) \in ready_w[a]
  /\ LET c == Head(todo_w[a]) IN
       /\ ~broken[c][a]
       /\ out' = [out EXCEPT ![c][other(a)] = @ \o bufs[c][other(a)]]
       /\ bufs' = [bufs EXCEPT ![c][other(a)] = << >>]
       /\ crossbar_add_for_reading(other(a), c)
  /\ todo_w' = [todo_w EXCEPT ![a] = Tail(@)]
  /\ pc' = [pc EXCEPT ![a] = Onward(a, Tail(todo_w[a])), ![other(a)] = Awoken(@)]
  /\ UNCHANGED <<relay_read, relay_write, todo_r, fds, cur, how, life, peers, eof>>

\* What memmove leaves in the buffer after n bytes were written.
Remaining(buf, n) == SubSeq(buf, n + 1, Len(buf))

WritePart_PassesBack(a, n) ==
  /\ AtWrite(a) /\ Head(todo_w[a]) \in ready_w[a]
  /\ LET c == Head(todo_w[a]) IN
       /\ ~broken[c][a]
       /\ n < Len(bufs[c][other(a)])
       /\ out' = [out EXCEPT ![c][other(a)] = @ \o SubSeq(bufs[c][other(a)], 1, n)]
       /\ bufs' = [bufs EXCEPT ![c][other(a)] = Remaining(@, n)]
       /\ crossbar_add_for_reading(other(a), c)
  /\ todo_w' = [todo_w EXCEPT ![a] = Tail(@)]
  /\ pc' = [pc EXCEPT ![a] = Onward(a, Tail(todo_w[a])), ![other(a)] = Awoken(@)]
  /\ UNCHANGED <<relay_read, relay_write, todo_r, fds, cur, how, life, peers, eof>>

\* ... or in part, and the rest stays for the next pass ...
WritePart(a, n) ==
  /\ AtWrite(a) /\ Head(todo_w[a]) \in ready_w[a]
  /\ LET c == Head(todo_w[a]) IN
       /\ ~broken[c][a]
       /\ n < Len(bufs[c][other(a)])
       /\ out' = [out EXCEPT ![c][other(a)] = @ \o SubSeq(bufs[c][other(a)], 1, n)]
       /\ bufs' = [bufs EXCEPT ![c][other(a)] = Remaining(@, n)]
       /\ relay_write' = [relay_write EXCEPT ![a] = Append(@, c)]
  /\ todo_w' = [todo_w EXCEPT ![a] = Tail(@)]
  /\ pc' = [pc EXCEPT ![a] = Onward(a, Tail(todo_w[a]))]
  /\ UNCHANGED <<incoming_r, incoming_w, relay_read, todo_r, fds, cur, how, life, peers, eof>>

\* ... or not at all: EAGAIN, which only a native socket's errno can tell, puts
\* a read or a write off to the next pass.
TryAgain ==
  \E a \in {"native"} :
    \/ AtRead(a) /\ Head(todo_r[a]) \in ready_r[a] /\ ~broken[Head(todo_r[a])][a] /\ KeepRead(a)
    \/ AtWrite(a) /\ Head(todo_w[a]) \in ready_w[a] /\ ~broken[Head(todo_w[a])][a] /\ KeepWrite(a)

\* write returned 0, or failed for good; on an lwIP socket, whose errno reads
\* as 0, every failure is one.
WriteEnds(a) ==
  /\ AtWrite(a) /\ Head(todo_w[a]) \in ready_w[a]
  /\ LET c == Head(todo_w[a]) IN
       /\ broken[c][a] \/ a = "lwip"
       /\ cur' = [cur EXCEPT ![a] = c]
  /\ how' = [how EXCEPT ![a] = "RD"]
  /\ todo_w' = [todo_w EXCEPT ![a] = Tail(@)]
  /\ pc' = [pc EXCEPT ![a] = "shutdown"]
  /\ UNCHANGED <<incoming_r, incoming_w, relay_read, relay_write, todo_r, fds, life, peers, bufs, out, eof>>

-----------------------------------------------------------------------------
(* The end of a direction *)

\* relay->other_shutdown: after SHUT_WR the other side's peer sees the end of
\* the stream; after SHUT_RD nothing more is read, which nobody would do.
other_shutdown(a) ==
  /\ pc[a] = "shutdown"
  /\ eof' = IF how[a] = "WR" THEN [eof EXCEPT ![cur[a]][a] = TRUE] ELSE eof
  /\ pc' = [pc EXCEPT ![a] = "close"]
  /\ UNCHANGED <<arrays, cur, how, life, peers, bufs, out>>

relay_conn_close_Unchecked(a) ==
  /\ pc[a] = "close"
  /\ close_count' = [close_count EXCEPT ![cur[a]] = 1]
  /\ pc' = [pc EXCEPT ![a] = "destroy"]
  /\ UNCHANGED <<arrays, cur, how, destroyed, accepting, created, peers, bufs, out, eof>>

\* relay_conn_close: the compare-and-swap from 0 to 1; whoever finds a 1 is
\* the second and collects the connection.
relay_conn_close(a) ==
  /\ pc[a] = "close"
  /\ IF close_count[cur[a]] = 0
     THEN /\ close_count' = [close_count EXCEPT ![cur[a]] = 1]
          /\ pc' = [pc EXCEPT ![a] = Onward(a, todo_r[a] \o todo_w[a])]
          /\ cur' = [cur EXCEPT ![a] = NoConn]
     ELSE pc' = [pc EXCEPT ![a] = "destroy"] /\ UNCHANGED <<close_count, cur>>
  /\ how' = [how EXCEPT ![a] = "none"]
  /\ UNCHANGED <<arrays, destroyed, accepting, created, peers, bufs, out, eof>>

\* relay_conn_destroy: buffers, descriptors and structure are freed.
relay_conn_destroy(a) ==
  /\ pc[a] = "destroy"
  /\ destroyed' = [destroyed EXCEPT ![cur[a]] = TRUE]
  /\ cur' = [cur EXCEPT ![a] = NoConn]
  /\ pc' = [pc EXCEPT ![a] = Onward(a, todo_r[a] \o todo_w[a])]
  /\ UNCHANGED <<arrays, how, close_count, accepting, created, peers, bufs, out, eof>>

-----------------------------------------------------------------------------

SelectAny(a) == \E W \in SUBSET Conns : Select(a, W)

Serve(a) ==
  \/ \E n \in 1 .. BufLen : ReadData(a, n)
  \/ ReadEnds(a)
  \/ WriteAll(a)
  \/ \E n \in 1 .. BufLen - 1 : WritePart(a, n)
  \/ WriteEnds(a)
  \/ NotReady(a)
  \/ other_shutdown(a) \/ relay_conn_close(a) \/ relay_conn_destroy(a)

ThreadStep(a) == Sleep(a) \/ Collect(a) \/ SelectAny(a) \/ Serve(a)

Next ==
  \/ \E c \in Conns, a \in Agents : PeerSends(c, a) \/ PeerCloses(c, a) \/ PeerResets(c, a)
  \/ \E c \in Conns : Accept(c)
  \/ Introduce
  \/ \E a \in Agents : ThreadStep(a) \/ SpuriousWake(a)
  \/ TryAgain

Spec == Init /\ [][Next]_vars

\* The threads run; a peer with a buffer to fill takes something now and then,
\* so that select reports the socket and a write succeeds again and again.
Fairness ==
  /\ \A a \in Agents :
       /\ WF_vars(ThreadStep(a))
       /\ \A c \in Conns : SF_vars(\E W \in SUBSET Conns : c \in W /\ Select(a, W))
       /\ SF_vars(ReadEnds(a) \/ \E n \in 1 .. BufLen : ReadData(a, n))
       /\ SF_vars(WriteAll(a))
  /\ WF_vars(Introduce)

FairSpec == Spec /\ Fairness

-----------------------------------------------------------------------------
(* Properties *)

TypeOK ==
  /\ \A s \in {incoming_r, incoming_w, relay_read, relay_write, todo_r, todo_w} :
       s \in [Agents -> Seq(Conns)]
  /\ \A x \in {ready_r, ready_w} : x \in [Agents -> SUBSET Conns]
  /\ pc \in [Agents -> {"collect", "sleep", "select", "serve", "shutdown", "close", "destroy"}]
  /\ cur \in [Agents -> Conns \cup {NoConn}]
  /\ how \in [Agents -> {"none", "WR", "RD"}]
  /\ close_count \in [Conns -> {0, 1}] /\ destroyed \in [Conns -> BOOLEAN]
  /\ accepting \in Conns \cup {NoConn} /\ created \subseteq Conns
  /\ \A x \in {fin, broken, eof} : x \in [Conns -> [Agents -> BOOLEAN]]
  /\ \A c \in Conns, a \in Agents : sent[c][a] \in 0 .. MaxBytes[a]
  /\ \A x \in {bufs, out} : x \in [Conns -> [Agents -> Seq(Nat)]]

\* How often agent a's thread, or its crossbar, has connection c at hand, to
\* read it and to write it.
ToRead(a, c) == Times(incoming_r[a], c) + Times(relay_read[a], c) + Times(todo_r[a], c)
ToWrite(a, c) == Times(incoming_w[a], c) + Times(relay_write[a], c) + Times(todo_w[a], c)
HandsOn(a, c) == ToRead(a, c) + ToWrite(a, c) + (IF cur[a] = c THEN 1 ELSE 0)

\* Every connection is at hand once per direction that still runs, twice at
\* most, and a destroyed one nowhere: no thread, crossbar or array of relay
\* keeps a pointer to a relay_conn that relay_conn_destroy has freed.
ConnsAccounted ==
  \A c \in created :
    HandsOn("lwip", c) + HandsOn("native", c) + (IF accepting = c THEN 1 ELSE 0)
      = IF destroyed[c] THEN 0 ELSE 2 - close_count[c]

\* What was delivered, followed by what is buffered, is what was read, in
\* order and without gaps, however the writes were cut.
InOrder ==
  \A c \in Conns, a \in Agents :
    \A i \in 1 .. Got(c, a) : (out[c][a] \o bufs[c][a])[i] = i

\* The end of a stream does not overtake its data: when relay shuts down the
\* other side for writing, every byte read before has been delivered, and if
\* the peer was not reset that is every byte it sent.
EndAfterData ==
  \A c \in Conns, a \in Agents :
    eof[c][a] => bufs[c][a] = << >> /\ (broken[c][a] \/ Len(out[c][a]) = sent[c][a])

\* Each direction of a relayed connection is a stream: in order, and its end last
\* (relay_conn_read, relay_conn_write).
StreamsKept == TypeOK /\ InOrder /\ EndAfterData

\* A connection whose peers have both finished is collected, whatever is still
\* in its buffers: none is stuck in a crossbar whose thread sleeps.
ConnCollected ==
  \A c \in Conns :
    (c \in created /\ \A a \in Agents : fin[c][a] \/ broken[c][a]) ~> destroyed[c]

=============================================================================
