----------------------------- MODULE RelayProofs -----------------------------
(***************************************************************************)
(* ConnsAccounted and StreamsKept for any number of connections, any       *)
(* buffer and any traffic.                                                 *)
(***************************************************************************)
EXTENDS Relay, CountingProofs

Arrays == [Agents -> Seq(Conns)]
Flags == [Conns -> [Agents -> BOOLEAN]]

Idle == {"collect", "sleep", "select", "serve"}
Stations == Idle \cup {"shutdown", "close", "destroy"}

ArrayTypes ==
  /\ incoming_r \in Arrays /\ incoming_w \in Arrays
  /\ relay_read \in Arrays /\ relay_write \in Arrays
  /\ todo_r \in Arrays /\ todo_w \in Arrays
FdTypes == ready_r \in [Agents -> SUBSET Conns] /\ ready_w \in [Agents -> SUBSET Conns]
ThreadTypes ==
  /\ pc \in [Agents -> Stations]
  /\ cur \in [Agents -> Conns \cup {NoConn}]
  /\ how \in [Agents -> {"none", "WR", "RD"}]
LifeTypes ==
  /\ close_count \in [Conns -> {0, 1}] /\ destroyed \in [Conns -> BOOLEAN]
  /\ accepting \in Conns \cup {NoConn} /\ created \in SUBSET Conns
PeerTypes ==
  /\ fin \in Flags /\ broken \in Flags
  /\ sent \in [Conns -> [Agents -> Nat]] /\ \A c \in Conns, a \in Agents : sent[c][a] <= MaxBytes[a]
StreamTypes ==
  /\ bufs \in [Conns -> [Agents -> Seq(Nat)]] /\ out \in [Conns -> [Agents -> Seq(Nat)]]
  /\ eof \in Flags
RelayTypes == ArrayTypes /\ FdTypes /\ ThreadTypes /\ LifeTypes /\ PeerTypes /\ StreamTypes

(* Outside a pass no entries are left from one. *)
PassDone ==
  \A a \in Agents :
    pc[a] \in {"collect", "sleep", "select"} => todo_r[a] = << >> /\ todo_w[a] = << >>

(* A thread has a connection to close just while it is closing one; who    *)
(* comes to destroy one has found its count at 1.                          *)
Closing ==
  \A a \in Agents :
    /\ cur[a] # NoConn <=> pc[a] \in {"shutdown", "close", "destroy"}
    /\ how[a] # "none" <=> pc[a] \in {"shutdown", "close"}
    /\ pc[a] = "destroy" => close_count[cur[a]] = 1

(* ConnsAccounted for the structures that do not exist yet, too. *)
Hands(c) == HandsOn("lwip", c) + HandsOn("native", c) + (IF accepting = c THEN 1 ELSE 0)
Due(c) == IF c \notin created \/ destroyed[c] THEN 0 ELSE 2 - close_count[c]
Accounted ==
  \A c \in Conns : /\ Hands(c) = Due(c)
                   /\ c \notin created => close_count[c] = 0 /\ ~destroyed[c]

(* Direction a of a connection is introduced to its reader, read, written, *)
(* or ended: never two of these, and by one thread.                        *)
Introducing(c, a) == accepting = c /\ a = other(FirstAgent)
Ends(c, a, h) == cur[a] = c /\ how[a] = h
Holders(c, a) ==
  ToRead(a, c) + ToWrite(other(a), c)
    + (IF Introducing(c, a) THEN 1 ELSE 0)
    + (IF Ends(c, a, "WR") THEN 1 ELSE 0) + (IF Ends(c, other(a), "RD") THEN 1 ELSE 0)
OneHolder == \A c \in Conns, a \in Agents : Holders(c, a) <= 1

(* The reader of a direction has an empty buffer. *)
ReaderEmpty ==
  \A c \in Conns, a \in Agents :
    (ToRead(a, c) > 0 \/ Introducing(c, a) \/ Ends(c, a, "WR") \/ c \notin created) => bufs[c][a] = << >>

(* A stream ends when all its bytes were delivered, and stays ended. *)
Finished(c, a) == broken[c][a] \/ (fin[c][a] /\ Len(out[c][a]) = sent[c][a])
EndsFinished == \A a \in Agents : pc[a] = "shutdown" /\ how[a] = "WR" => Finished(cur[a], a)
EofFinal ==
  \A c \in Conns, a \in Agents :
    eof[c][a] => /\ bufs[c][a] = << >> /\ Finished(c, a) /\ c \in created
                 /\ ToRead(a, c) = 0 /\ ToWrite(other(a), c) = 0 /\ ~Introducing(c, a)

(* InOrder, apart for what was delivered and what is buffered. *)
From(k, s) == \A i \in 1 .. Len(s) : s[i] = k + i
Numbered ==
  \A c \in Conns, a \in Agents : From(0, out[c][a]) /\ From(Len(out[c][a]), bufs[c][a])

Stream == ReaderEmpty /\ EndsFinished /\ EofFinal /\ Numbered

RelayInv == RelayTypes /\ PassDone /\ Closing /\ Accounted /\ OneHolder /\ Stream

LEMMA OtherAgent == \A a \in Agents : other(a) \in Agents /\ other(a) # a /\ other(other(a)) = a
  BY DEF Agents, other

LEMMA RelayTypesInit == Init => RelayTypes
<1> SUFFICES ASSUME Init PROVE RelayTypes
  OBVIOUS
<1> USE RelayAssumption
<1>1. << >> \in Seq(Conns) /\ << >> \in Seq(Nat)
  OBVIOUS
<1>2. ArrayTypes
  BY <1>1 DEF Init, PerAgent, Arrays, ArrayTypes
<1>3. bufs \in [Conns -> [Agents -> Seq(Nat)]] /\ out \in [Conns -> [Agents -> Seq(Nat)]]
  BY <1>1 DEF Init, PerAgent, PerBoth
<1>4. fin \in Flags /\ broken \in Flags /\ eof \in Flags /\ destroyed \in [Conns -> BOOLEAN]
  BY Zenon DEF Init, PerAgent, PerBoth, Flags
<1>5. PeerTypes
  BY <1>4 DEF Init, PerAgent, PerBoth, PeerTypes
<1>6. FdTypes
  BY DEF Init, PerAgent, FdTypes
<1>7. ThreadTypes
  BY DEF Init, PerAgent, ThreadTypes, Idle, Stations
<1>8. LifeTypes
  BY <1>4 DEF Init, LifeTypes
<1> QED
  BY <1>2, <1>3, <1>4, <1>5, <1>6, <1>7, <1>8 DEF RelayTypes, StreamTypes

-----------------------------------------------------------------------------
(* What an action does to the arrays *)

LEMMA Counted ==
  ASSUME RelayTypes
  PROVE  \A a \in Agents, c \in Conns :
           /\ Times(incoming_r[a], c) \in Nat /\ Times(incoming_w[a], c) \in Nat
           /\ Times(relay_read[a], c) \in Nat /\ Times(relay_write[a], c) \in Nat
           /\ Times(todo_r[a], c) \in Nat /\ Times(todo_w[a], c) \in Nat
  BY PlacesFinite DEF RelayTypes, ArrayTypes, Arrays

LEMMA HandsNat ==
  RelayTypes => \A a \in Agents, c \in Conns : ToRead(a, c) \in Nat /\ ToWrite(a, c) \in Nat
  BY Counted DEF ToRead, ToWrite

(* n entries for c more (or fewer) with a, to read or to write. *)
Reads(a, c, n) ==
  \A b \in Agents, d \in Conns : ToRead(b, d)' = ToRead(b, d) + (IF b = a /\ d = c THEN n ELSE 0)
Writes(a, c, n) ==
  \A b \in Agents, d \in Conns : ToWrite(b, d)' = ToWrite(b, d) + (IF b = a /\ d = c THEN n ELSE 0)
SameReads == \A b \in Agents, d \in Conns : ToRead(b, d)' = ToRead(b, d)
SameWrites == \A b \in Agents, d \in Conns : ToWrite(b, d)' = ToWrite(b, d)

LEMMA Unmoved ==
  /\ UNCHANGED <<incoming_r, relay_read, todo_r>> => SameReads
  /\ UNCHANGED <<incoming_w, relay_write, todo_w>> => SameWrites
  BY DEF ToRead, ToWrite, SameReads, SameWrites

(* The six ways in which entries come and go. *)
LEMMA AddsRead ==
  ASSUME RelayTypes, NEW b \in Agents, NEW c \in Conns, crossbar_add_for_reading(b, c),
         UNCHANGED <<relay_read, todo_r>>
  PROVE  incoming_r' \in Arrays /\ Reads(b, c, 1)
<1>1. incoming_r \in Arrays /\ incoming_r' = [incoming_r EXCEPT ![b] = Append(@, c)]
  BY DEF RelayTypes, ArrayTypes, crossbar_add_for_reading
<1>2. incoming_r[b] \in Seq(Conns) /\ Append(incoming_r[b], c) \in Seq(Conns)
  BY <1>1 DEF Arrays
<1>3. incoming_r' \in Arrays
  BY <1>1, <1>2 DEF Arrays
<1>4. incoming_r'[b] = Append(incoming_r[b], c)
  BY <1>1 DEF Arrays
<1>5. \A e \in Agents : e # b => incoming_r'[e] = incoming_r[e]
  BY <1>1 DEF Arrays
<1>6. \A d \in Conns : Times(incoming_r'[b], d) = Times(incoming_r[b], d) + (IF c = d THEN 1 ELSE 0)
  BY <1>2, <1>4, TimesAppend
<1>7. ASSUME NEW e \in Agents, NEW d \in Conns
      PROVE  ToRead(e, d)' = ToRead(e, d) + (IF e = b /\ d = c THEN 1 ELSE 0)
  <2>1. CASE e = b
    BY <1>6, <2>1, Counted DEF ToRead
  <2>2. CASE e # b
    BY <1>5, <2>2, Counted DEF ToRead
  <2> QED
    BY <2>1, <2>2
<1> QED
  BY <1>3, <1>7 DEF Reads

LEMMA AddsWrite ==
  ASSUME RelayTypes, NEW b \in Agents, NEW c \in Conns, crossbar_add_for_writing(b, c),
         UNCHANGED <<relay_write, todo_w>>
  PROVE  incoming_w' \in Arrays /\ Writes(b, c, 1)
<1>1. incoming_w \in Arrays /\ incoming_w' = [incoming_w EXCEPT ![b] = Append(@, c)]
  BY DEF RelayTypes, ArrayTypes, crossbar_add_for_writing
<1>2. incoming_w[b] \in Seq(Conns) /\ Append(incoming_w[b], c) \in Seq(Conns)
  BY <1>1 DEF Arrays
<1>3. incoming_w' \in Arrays
  BY <1>1, <1>2 DEF Arrays
<1>4. incoming_w'[b] = Append(incoming_w[b], c)
  BY <1>1 DEF Arrays
<1>5. \A e \in Agents : e # b => incoming_w'[e] = incoming_w[e]
  BY <1>1 DEF Arrays
<1>6. \A d \in Conns : Times(incoming_w'[b], d) = Times(incoming_w[b], d) + (IF c = d THEN 1 ELSE 0)
  BY <1>2, <1>4, TimesAppend
<1>7. ASSUME NEW e \in Agents, NEW d \in Conns
      PROVE  ToWrite(e, d)' = ToWrite(e, d) + (IF e = b /\ d = c THEN 1 ELSE 0)
  <2>1. CASE e = b
    BY <1>6, <2>1, Counted DEF ToWrite
  <2>2. CASE e # b
    BY <1>5, <2>2, Counted DEF ToWrite
  <2> QED
    BY <2>1, <2>2
<1> QED
  BY <1>3, <1>7 DEF Writes

LEMMA DropsRead ==
  ASSUME RelayTypes, NEW a \in Agents, todo_r[a] # << >>,
         todo_r' = [todo_r EXCEPT ![a] = Tail(@)], UNCHANGED <<incoming_r, relay_read>>
  PROVE  todo_r' \in Arrays /\ Head(todo_r[a]) \in Conns /\ Reads(a, Head(todo_r[a]), -1)
<1> DEFINE c == Head(todo_r[a])
<1>1. todo_r \in Arrays /\ todo_r[a] \in Seq(Conns) /\ Tail(todo_r[a]) \in Seq(Conns)
  BY DEF RelayTypes, ArrayTypes, Arrays
<1>2. c \in Conns
  BY <1>1
<1>3. todo_r' \in Arrays
  BY <1>1 DEF Arrays
<1>4. todo_r'[a] = Tail(todo_r[a])
  BY <1>1 DEF Arrays
<1>5. \A e \in Agents : e # a => todo_r'[e] = todo_r[e]
  BY <1>1 DEF Arrays
<1>6. \A d \in Conns : /\ Times(todo_r[a], d) = Times(todo_r'[a], d) + (IF c = d THEN 1 ELSE 0)
                      /\ Times(todo_r'[a], d) \in Nat
  BY <1>1, <1>4, TimesHeadTail, PlacesFinite
<1> HIDE DEF c
<1>7. ASSUME NEW e \in Agents, NEW d \in Conns
      PROVE  ToRead(e, d)' = ToRead(e, d) + (IF e = a /\ d = c THEN -1 ELSE 0)
  <2>1. CASE e = a
    <3>1. Times(incoming_r[a], d) \in Nat /\ Times(relay_read[a], d) \in Nat /\ Times(todo_r[a], d) \in Nat
      BY Counted
    <3>2. Times(incoming_r[a], d)' = Times(incoming_r[a], d) /\ Times(relay_read[a], d)' = Times(relay_read[a], d)
      OBVIOUS
    <3>3. Times(todo_r'[a], d) = Times(todo_r[a], d) + (IF d = c THEN -1 ELSE 0)
      BY <1>6, <3>1
    <3> QED
      BY <2>1, <3>1, <3>2, <3>3 DEF ToRead
  <2>2. CASE e # a
    BY <1>5, <2>2, Counted DEF ToRead
  <2> QED
    BY <2>1, <2>2
<1>8. Reads(a, c, -1)
  BY <1>7 DEF Reads
<1> QED
  BY <1>2, <1>3, <1>8 DEF c

LEMMA DropsWrite ==
  ASSUME RelayTypes, NEW a \in Agents, todo_w[a] # << >>,
         todo_w' = [todo_w EXCEPT ![a] = Tail(@)], UNCHANGED <<incoming_w, relay_write>>
  PROVE  todo_w' \in Arrays /\ Head(todo_w[a]) \in Conns /\ Writes(a, Head(todo_w[a]), -1)
<1> DEFINE c == Head(todo_w[a])
<1>1. todo_w \in Arrays /\ todo_w[a] \in Seq(Conns) /\ Tail(todo_w[a]) \in Seq(Conns)
  BY DEF RelayTypes, ArrayTypes, Arrays
<1>2. c \in Conns
  BY <1>1
<1>3. todo_w' \in Arrays
  BY <1>1 DEF Arrays
<1>4. todo_w'[a] = Tail(todo_w[a])
  BY <1>1 DEF Arrays
<1>5. \A e \in Agents : e # a => todo_w'[e] = todo_w[e]
  BY <1>1 DEF Arrays
<1>6. \A d \in Conns : /\ Times(todo_w[a], d) = Times(todo_w'[a], d) + (IF c = d THEN 1 ELSE 0)
                      /\ Times(todo_w'[a], d) \in Nat
  BY <1>1, <1>4, TimesHeadTail, PlacesFinite
<1> HIDE DEF c
<1>7. ASSUME NEW e \in Agents, NEW d \in Conns
      PROVE  ToWrite(e, d)' = ToWrite(e, d) + (IF e = a /\ d = c THEN -1 ELSE 0)
  <2>1. CASE e = a
    <3>1. Times(incoming_w[a], d) \in Nat /\ Times(relay_write[a], d) \in Nat /\ Times(todo_w[a], d) \in Nat
      BY Counted
    <3>2. Times(incoming_w[a], d)' = Times(incoming_w[a], d) /\ Times(relay_write[a], d)' = Times(relay_write[a], d)
      OBVIOUS
    <3>3. Times(todo_w'[a], d) = Times(todo_w[a], d) + (IF d = c THEN -1 ELSE 0)
      BY <1>6, <3>1
    <3> QED
      BY <2>1, <3>1, <3>2, <3>3 DEF ToWrite
  <2>2. CASE e # a
    BY <1>5, <2>2, Counted DEF ToWrite
  <2> QED
    BY <2>1, <2>2
<1>8. Writes(a, c, -1)
  BY <1>7 DEF Writes
<1> QED
  BY <1>2, <1>3, <1>8 DEF c

LEMMA KeepsRead ==
  ASSUME RelayTypes, NEW a \in Agents, todo_r[a] # << >>, UNCHANGED incoming_r,
         todo_r' = [todo_r EXCEPT ![a] = Tail(@)],
         relay_read' = [relay_read EXCEPT ![a] = Append(@, Head(todo_r[a]))]
  PROVE  /\ todo_r' \in Arrays /\ relay_read' \in Arrays /\ Head(todo_r[a]) \in Conns
         /\ SameReads
<1> DEFINE c == Head(todo_r[a])
<1>1. todo_r \in Arrays /\ todo_r[a] \in Seq(Conns) /\ Tail(todo_r[a]) \in Seq(Conns)
  BY DEF RelayTypes, ArrayTypes, Arrays
<1>2. c \in Conns
  BY <1>1
<1>3. todo_r' \in Arrays
  BY <1>1 DEF Arrays
<1>4. todo_r'[a] = Tail(todo_r[a])
  BY <1>1 DEF Arrays
<1>5. \A e \in Agents : e # a => todo_r'[e] = todo_r[e]
  BY <1>1 DEF Arrays
<1>6. \A d \in Conns : /\ Times(todo_r[a], d) = Times(todo_r'[a], d) + (IF c = d THEN 1 ELSE 0)
                      /\ Times(todo_r'[a], d) \in Nat
  BY <1>1, <1>4, TimesHeadTail, PlacesFinite
<1> HIDE DEF c
<1>7. relay_read \in Arrays /\ relay_read' = [relay_read EXCEPT ![a] = Append(@, c)]
  BY DEF RelayTypes, ArrayTypes, c
<1>8. relay_read[a] \in Seq(Conns) /\ Append(relay_read[a], c) \in Seq(Conns)
  BY <1>2, <1>7 DEF Arrays
<1>9. relay_read' \in Arrays
  BY <1>7, <1>8 DEF Arrays
<1>10. relay_read'[a] = Append(relay_read[a], c)
  BY <1>7 DEF Arrays
<1>11. \A e \in Agents : e # a => relay_read'[e] = relay_read[e]
  BY <1>7 DEF Arrays
<1>12. \A d \in Conns : Times(relay_read'[a], d) = Times(relay_read[a], d) + (IF c = d THEN 1 ELSE 0)
  BY <1>2, <1>8, <1>10, TimesAppend
<1>13. ASSUME NEW e \in Agents, NEW d \in Conns
       PROVE  ToRead(e, d)' = ToRead(e, d)
  <2>1. CASE e = a
    <3>1. Times(incoming_r[a], d) \in Nat /\ Times(relay_read[a], d) \in Nat /\ Times(todo_r[a], d) \in Nat
      BY Counted
    <3>2. Times(relay_read'[a], d) = Times(relay_read[a], d) + (IF c = d THEN 1 ELSE 0)
      BY <1>12
    <3>3. Times(todo_r[a], d) = Times(todo_r'[a], d) + (IF c = d THEN 1 ELSE 0) /\ Times(todo_r'[a], d) \in Nat
      BY <1>6
    <3>4. Times(incoming_r[a], d)' = Times(incoming_r[a], d)
      OBVIOUS
    <3> QED
      BY <2>1, <3>1, <3>2, <3>3, <3>4 DEF ToRead
  <2>2. CASE e # a
    BY <1>5, <1>11, <2>2, Counted DEF ToRead
  <2> QED
    BY <2>1, <2>2
<1> QED
  BY <1>2, <1>3, <1>9, <1>13 DEF SameReads, c

LEMMA KeepsWrite ==
  ASSUME RelayTypes, NEW a \in Agents, todo_w[a] # << >>, UNCHANGED incoming_w,
         todo_w' = [todo_w EXCEPT ![a] = Tail(@)],
         relay_write' = [relay_write EXCEPT ![a] = Append(@, Head(todo_w[a]))]
  PROVE  /\ todo_w' \in Arrays /\ relay_write' \in Arrays /\ Head(todo_w[a]) \in Conns
         /\ SameWrites
<1> DEFINE c == Head(todo_w[a])
<1>1. todo_w \in Arrays /\ todo_w[a] \in Seq(Conns) /\ Tail(todo_w[a]) \in Seq(Conns)
  BY DEF RelayTypes, ArrayTypes, Arrays
<1>2. c \in Conns
  BY <1>1
<1>3. todo_w' \in Arrays
  BY <1>1 DEF Arrays
<1>4. todo_w'[a] = Tail(todo_w[a])
  BY <1>1 DEF Arrays
<1>5. \A e \in Agents : e # a => todo_w'[e] = todo_w[e]
  BY <1>1 DEF Arrays
<1>6. \A d \in Conns : /\ Times(todo_w[a], d) = Times(todo_w'[a], d) + (IF c = d THEN 1 ELSE 0)
                      /\ Times(todo_w'[a], d) \in Nat
  BY <1>1, <1>4, TimesHeadTail, PlacesFinite
<1> HIDE DEF c
<1>7. relay_write \in Arrays /\ relay_write' = [relay_write EXCEPT ![a] = Append(@, c)]
  BY DEF RelayTypes, ArrayTypes, c
<1>8. relay_write[a] \in Seq(Conns) /\ Append(relay_write[a], c) \in Seq(Conns)
  BY <1>2, <1>7 DEF Arrays
<1>9. relay_write' \in Arrays
  BY <1>7, <1>8 DEF Arrays
<1>10. relay_write'[a] = Append(relay_write[a], c)
  BY <1>7 DEF Arrays
<1>11. \A e \in Agents : e # a => relay_write'[e] = relay_write[e]
  BY <1>7 DEF Arrays
<1>12. \A d \in Conns : Times(relay_write'[a], d) = Times(relay_write[a], d) + (IF c = d THEN 1 ELSE 0)
  BY <1>2, <1>8, <1>10, TimesAppend
<1>13. ASSUME NEW e \in Agents, NEW d \in Conns
       PROVE  ToWrite(e, d)' = ToWrite(e, d)
  <2>1. CASE e = a
    <3>1. Times(incoming_w[a], d) \in Nat /\ Times(relay_write[a], d) \in Nat /\ Times(todo_w[a], d) \in Nat
      BY Counted
    <3>2. Times(relay_write'[a], d) = Times(relay_write[a], d) + (IF c = d THEN 1 ELSE 0)
      BY <1>12
    <3>3. Times(todo_w[a], d) = Times(todo_w'[a], d) + (IF c = d THEN 1 ELSE 0) /\ Times(todo_w'[a], d) \in Nat
      BY <1>6
    <3>4. Times(incoming_w[a], d)' = Times(incoming_w[a], d)
      OBVIOUS
    <3> QED
      BY <2>1, <3>1, <3>2, <3>3, <3>4 DEF ToWrite
  <2>2. CASE e # a
    BY <1>5, <1>11, <2>2, Counted DEF ToWrite
  <2> QED
    BY <2>1, <2>2
<1> QED
  BY <1>2, <1>3, <1>9, <1>13 DEF SameWrites, c

-----------------------------------------------------------------------------
(* The steps that only move entries within a thread's own arrays *)

Streams == <<bufs, out, eof>>

Quiet ==
  /\ SameReads /\ SameWrites /\ UNCHANGED <<cur, how, life, peers, Streams>>
  /\ \E a \in Agents, l \in Idle : pc[a] \in Idle /\ pc' = [pc EXCEPT ![a] = l]

LEMMA QuietTypes ==
  ASSUME RelayTypes, ArrayTypes', FdTypes', UNCHANGED <<cur, how, life, peers, Streams>>,
         NEW a \in Agents, NEW l \in Idle, pc' = [pc EXCEPT ![a] = l]
  PROVE  RelayTypes'
<1>1. ThreadTypes'
  BY DEF RelayTypes, ThreadTypes, Stations
<1>2. LifeTypes' /\ PeerTypes' /\ StreamTypes'
  BY DEF RelayTypes, LifeTypes, PeerTypes, StreamTypes, life, peers, Streams
<1> QED
  BY <1>1, <1>2 DEF RelayTypes

LEMMA OnwardIdle == \A a, s : Onward(a, s) \in Idle
  BY DEF Onward, Idle

LEMMA SleepQuiet ==
  ASSUME RelayTypes, NEW a \in Agents, Sleep(a) \/ SpuriousWake(a)
  PROVE  RelayTypes' /\ Quiet
<1>1. /\ UNCHANGED <<arrays, cur, how, life, peers, Streams>>
      /\ \E l \in Idle : pc[a] \in Idle /\ pc' = [pc EXCEPT ![a] = l]
  BY DEF Sleep, SpuriousWake, Idle, Streams
<1>2. ArrayTypes' /\ FdTypes'
  BY <1>1 DEF RelayTypes, ArrayTypes, FdTypes, arrays, fds
<1>3. SameReads /\ SameWrites
  BY <1>1, Unmoved DEF arrays
<1> QED
  BY <1>1, <1>2, <1>3, QuietTypes DEF Quiet

LEMMA KeepQuiet ==
  ASSUME RelayTypes, NEW a \in Agents, (AtRead(a) /\ KeepRead(a)) \/ (AtWrite(a) /\ KeepWrite(a))
  PROVE  RelayTypes' /\ Quiet
<1>1. CASE AtRead(a) /\ KeepRead(a)
  <2>1. /\ UNCHANGED <<incoming_w, relay_write, todo_w, fds, cur, how, life, peers, Streams>>
        /\ \E l \in Idle : pc[a] \in Idle /\ pc' = [pc EXCEPT ![a] = l]
    BY <1>1, OnwardIdle DEF AtRead, KeepRead, Idle, Streams
  <2>2. /\ todo_r[a] # << >> /\ UNCHANGED incoming_r
        /\ todo_r' = [todo_r EXCEPT ![a] = Tail(@)]
        /\ relay_read' = [relay_read EXCEPT ![a] = Append(@, Head(todo_r[a]))]
    BY <1>1 DEF AtRead, KeepRead
  <2>3. todo_r' \in Arrays /\ relay_read' \in Arrays /\ SameReads
    BY <2>2, KeepsRead
  <2>4. ArrayTypes' /\ FdTypes'
    BY <2>1, <2>2, <2>3 DEF RelayTypes, ArrayTypes, FdTypes, fds
  <2>5. SameWrites
    BY <2>1, Unmoved
  <2> QED
    BY <2>1, <2>3, <2>4, <2>5, QuietTypes DEF Quiet
<1>2. CASE AtWrite(a) /\ KeepWrite(a)
  <2>1. /\ UNCHANGED <<incoming_r, relay_read, todo_r, fds, cur, how, life, peers, Streams>>
        /\ \E l \in Idle : pc[a] \in Idle /\ pc' = [pc EXCEPT ![a] = l]
    BY <1>2, OnwardIdle DEF AtWrite, KeepWrite, Idle, Streams
  <2>2. /\ todo_w[a] # << >> /\ UNCHANGED incoming_w
        /\ todo_w' = [todo_w EXCEPT ![a] = Tail(@)]
        /\ relay_write' = [relay_write EXCEPT ![a] = Append(@, Head(todo_w[a]))]
    BY <1>2 DEF AtWrite, KeepWrite
  <2>3. todo_w' \in Arrays /\ relay_write' \in Arrays /\ SameWrites
    BY <2>2, KeepsWrite
  <2>4. ArrayTypes' /\ FdTypes'
    BY <2>1, <2>2, <2>3 DEF RelayTypes, ArrayTypes, FdTypes, fds
  <2>5. SameReads
    BY <2>1, Unmoved
  <2> QED
    BY <2>1, <2>3, <2>4, <2>5, QuietTypes DEF Quiet
<1> QED
  BY <1>1, <1>2

LEMMA CollectQuiet ==
  ASSUME RelayTypes, NEW a \in Agents, Collect(a)
  PROVE  RelayTypes' /\ Quiet
<1>1. /\ incoming_r[a] \in Seq(Conns) /\ incoming_w[a] \in Seq(Conns) /\ << >> \in Seq(Conns)
      /\ relay_read[a] \in Seq(Conns) /\ relay_write[a] \in Seq(Conns)
      /\ relay_read[a] \o incoming_r[a] \in Seq(Conns) /\ relay_write[a] \o incoming_w[a] \in Seq(Conns)
  BY DEF RelayTypes, ArrayTypes, Arrays
<1>2. /\ UNCHANGED <<cur, how, life, peers, Streams>>
      /\ \E l \in Idle : pc[a] \in Idle /\ pc' = [pc EXCEPT ![a] = l]
  BY DEF Collect, Idle, Streams
<1>3. relay_read' \in Arrays /\ relay_write' \in Arrays
  BY <1>1 DEF Collect, RelayTypes, ArrayTypes, Arrays
<1>4. incoming_r' \in Arrays /\ incoming_w' \in Arrays /\ todo_r' \in Arrays /\ todo_w' \in Arrays
  BY <1>1 DEF Collect, RelayTypes, ArrayTypes, Arrays
<1>5. FdTypes'
  BY DEF Collect, RelayTypes, FdTypes
<1>6. ASSUME NEW e \in Agents, NEW d \in Conns PROVE ToRead(e, d)' = ToRead(e, d)
  <2>1. CASE e = a
    <3>1. relay_read'[a] = relay_read[a] \o incoming_r[a] /\ incoming_r'[a] = << >> /\ todo_r' = todo_r
      BY <1>1 DEF Collect, RelayTypes, ArrayTypes, Arrays
    <3>2. Times(relay_read'[a], d) = Times(relay_read[a], d) + Times(incoming_r[a], d)
      BY <1>1, <3>1, TimesConcat
    <3>3. Times(incoming_r'[a], d) = 0
      BY <3>1, TimesEmpty
    <3>4. Times(incoming_r[a], d) \in Nat /\ Times(relay_read[a], d) \in Nat /\ Times(todo_r[a], d) \in Nat
      BY Counted
    <3> QED
      BY <2>1, <3>1, <3>2, <3>3, <3>4 DEF ToRead
  <2>2. CASE e # a
    BY <2>2 DEF Collect, RelayTypes, ArrayTypes, Arrays, ToRead
  <2> QED
    BY <2>1, <2>2
<1>7. ASSUME NEW e \in Agents, NEW d \in Conns PROVE ToWrite(e, d)' = ToWrite(e, d)
  <2>1. CASE e = a
    <3>1. relay_write'[a] = relay_write[a] \o incoming_w[a] /\ incoming_w'[a] = << >> /\ todo_w' = todo_w
      BY <1>1 DEF Collect, RelayTypes, ArrayTypes, Arrays
    <3>2. Times(relay_write'[a], d) = Times(relay_write[a], d) + Times(incoming_w[a], d)
      BY <1>1, <3>1, TimesConcat
    <3>3. Times(incoming_w'[a], d) = 0
      BY <3>1, TimesEmpty
    <3>4. Times(incoming_w[a], d) \in Nat /\ Times(relay_write[a], d) \in Nat /\ Times(todo_w[a], d) \in Nat
      BY Counted
    <3> QED
      BY <2>1, <3>1, <3>2, <3>3, <3>4 DEF ToWrite
  <2>2. CASE e # a
    BY <2>2 DEF Collect, RelayTypes, ArrayTypes, Arrays, ToWrite
  <2> QED
    BY <2>1, <2>2
<1>8. SameReads /\ SameWrites
  BY <1>6, <1>7 DEF SameReads, SameWrites
<1> QED
  BY <1>2, <1>3, <1>4, <1>5, <1>8, QuietTypes DEF Quiet, ArrayTypes

LEMMA EntriesIn == ASSUME NEW q \in Seq(Conns) PROVE Entries(q) \in SUBSET Conns
  BY DEF Entries

LEMMA SelectQuiet ==
  ASSUME RelayTypes, PassDone, NEW a \in Agents, NEW W, Select(a, W)
  PROVE  RelayTypes' /\ Quiet
<1>1. /\ UNCHANGED <<incoming_r, incoming_w, cur, how, life, peers, Streams>>
      /\ \E l \in Idle : pc[a] \in Idle /\ pc' = [pc EXCEPT ![a] = l]
  BY DEF Select, Idle, Streams
<1>2. todo_r[a] = << >> /\ todo_w[a] = << >>
  BY DEF Select, PassDone
<1>3. FdTypes'
  <2>1. Entries(relay_read[a]) \in SUBSET Conns /\ Entries(relay_write[a]) \in SUBSET Conns
    BY EntriesIn DEF RelayTypes, ArrayTypes, Arrays
  <2>2. /\ {c \in Entries(relay_read[a]) : Readable(c, a)} \in SUBSET Conns
        /\ Entries(relay_write[a]) \cap W \in SUBSET Conns
    BY <2>1
  <2>3. /\ ready_r' = [ready_r EXCEPT ![a] = {c \in Entries(relay_read[a]) : Readable(c, a)}]
        /\ ready_w' = [ready_w EXCEPT ![a] = Entries(relay_write[a]) \cap W]
    BY DEF Select
  <2> QED
    BY <2>2, <2>3 DEF RelayTypes, FdTypes
<1>4. CASE UNCHANGED <<relay_read, relay_write, todo_r, todo_w>>
  <2>1. SameReads /\ SameWrites
    BY <1>1, <1>4, Unmoved
  <2>2. ArrayTypes'
    BY <1>1, <1>4 DEF RelayTypes, ArrayTypes
  <2> QED
    BY <1>1, <1>3, <2>1, <2>2, QuietTypes DEF Quiet
<1>5. CASE /\ todo_r' = [todo_r EXCEPT ![a] = relay_read[a]]
           /\ todo_w' = [todo_w EXCEPT ![a] = relay_write[a]]
           /\ relay_read' = [relay_read EXCEPT ![a] = << >>]
           /\ relay_write' = [relay_write EXCEPT ![a] = << >>]
  <2>1. /\ todo_r' = [todo_r EXCEPT ![a] = relay_read[a]] /\ relay_read' = [relay_read EXCEPT ![a] = << >>]
        /\ todo_w' = [todo_w EXCEPT ![a] = relay_write[a]] /\ relay_write' = [relay_write EXCEPT ![a] = << >>]
        /\ UNCHANGED <<incoming_r, incoming_w>>
    BY <1>1, <1>5
  <2>2. ASSUME NEW e \in Agents, NEW d \in Conns PROVE ToRead(e, d)' = ToRead(e, d)
    <3>1. CASE e = a
      <4>1. relay_read'[a] = << >> /\ todo_r[a] = << >> /\ todo_r'[a] = relay_read[a] /\ incoming_r' = incoming_r
        BY <1>2, <2>1 DEF RelayTypes, ArrayTypes, Arrays
      <4>2. Times(relay_read'[a], d) = 0 /\ Times(todo_r[a], d) = 0
        BY <4>1, TimesEmpty
      <4>3. Times(incoming_r[a], d) \in Nat /\ Times(relay_read[a], d) \in Nat
        BY Counted
      <4> QED
        BY <3>1, <4>1, <4>2, <4>3 DEF ToRead
    <3>2. CASE e # a
      BY <1>1, <2>1, <3>2 DEF RelayTypes, ArrayTypes, Arrays, ToRead
    <3> QED
      BY <3>1, <3>2
  <2>3. ASSUME NEW e \in Agents, NEW d \in Conns PROVE ToWrite(e, d)' = ToWrite(e, d)
    <3>1. CASE e = a
      <4>1. relay_write'[a] = << >> /\ todo_w[a] = << >> /\ todo_w'[a] = relay_write[a] /\ incoming_w' = incoming_w
        BY <1>2, <2>1 DEF RelayTypes, ArrayTypes, Arrays
      <4>2. Times(relay_write'[a], d) = 0 /\ Times(todo_w[a], d) = 0
        BY <4>1, TimesEmpty
      <4>3. Times(incoming_w[a], d) \in Nat /\ Times(relay_write[a], d) \in Nat
        BY Counted
      <4> QED
        BY <3>1, <4>1, <4>2, <4>3 DEF ToWrite
    <3>2. CASE e # a
      BY <1>1, <2>1, <3>2 DEF RelayTypes, ArrayTypes, Arrays, ToWrite
    <3> QED
      BY <3>1, <3>2
  <2>4. SameReads /\ SameWrites
    BY <2>2, <2>3 DEF SameReads, SameWrites
  <2>5. ArrayTypes'
    <3>1. << >> \in Seq(Conns)
      OBVIOUS
    <3> QED
      BY <2>1, <3>1 DEF RelayTypes, ArrayTypes, Arrays
  <2> QED
    BY <1>1, <1>3, <2>4, <2>5, QuietTypes DEF Quiet
<1> QED
  BY <1>4, <1>5 DEF Select

(* What depends on the arrays only through the two counts is as before. *)
LEMMA SameHolders ==
  ASSUME SameReads, SameWrites, UNCHANGED <<cur, how, accepting>>
  PROVE  /\ \A c \in Conns : Hands(c)' = Hands(c)
         /\ \A c \in Conns, a \in Agents : Holders(c, a)' = Holders(c, a)
<1>1. "lwip" \in Agents /\ "native" \in Agents
  BY DEF Agents
<1>2. \A c \in Conns, a \in Agents : HandsOn(a, c)' = HandsOn(a, c)
  BY DEF SameReads, SameWrites, HandsOn
<1>3. \A c \in Conns, a \in Agents :
        /\ ToRead(a, c)' = ToRead(a, c) /\ ToWrite(other(a), c)' = ToWrite(other(a), c)
        /\ Introducing(c, a)' = Introducing(c, a)
        /\ \A b \in Agents : \A h : Ends(c, b, h)' = Ends(c, b, h)
  BY OtherAgent DEF SameReads, SameWrites, Introducing, Ends
<1> QED
  BY <1>1, <1>2, <1>3, OtherAgent DEF Hands, Holders

LEMMA QuietStep ==
  ASSUME RelayInv, Quiet, RelayTypes'
  PROVE  Closing' /\ Accounted' /\ OneHolder' /\ Stream'
<1>1. SameReads /\ SameWrites /\ UNCHANGED <<cur, how, life, peers, Streams>>
  BY DEF Quiet
<1>2. UNCHANGED <<cur, how, close_count, destroyed, accepting, created, sent, fin, broken, bufs, out, eof>>
  BY <1>1 DEF life, peers, Streams
<1>3. PICK a \in Agents, l \in Idle : pc[a] \in Idle /\ pc' = [pc EXCEPT ![a] = l]
  BY DEF Quiet
<1>4. \A b \in Agents : pc'[b] = pc[b] \/ (pc[b] \in Idle /\ pc'[b] \in Idle)
  BY <1>3 DEF RelayInv, RelayTypes, ThreadTypes
<1>5. Closing'
  BY <1>2, <1>4 DEF RelayInv, Closing, Idle
<1>6. Accounted' /\ OneHolder'
  BY <1>1, <1>2, SameHolders DEF RelayInv, Accounted, OneHolder, Due
<1>7. EndsFinished'
  BY <1>2, <1>4 DEF RelayInv, Stream, EndsFinished, Finished, Idle
<1>8. ReaderEmpty'
  BY <1>1, <1>2 DEF RelayInv, Stream, ReaderEmpty, Introducing, Ends, SameReads
<1>9. EofFinal'
  BY <1>1, <1>2, OtherAgent DEF RelayInv, Stream, EofFinal, Finished, Introducing, SameReads, SameWrites
<1>10. Numbered'
  BY <1>2 DEF RelayInv, Stream, Numbered
<1> QED
  BY <1>5, <1>6, <1>7, <1>8, <1>9, <1>10 DEF Stream

-----------------------------------------------------------------------------
(* The peers: what a stream that has ended needs of them stays true. *)

LEMMA PeerStep ==
  ASSUME RelayInv, NEW c \in Conns, NEW a \in Agents,
         PeerSends(c, a) \/ PeerCloses(c, a) \/ PeerResets(c, a)
  PROVE  RelayInv'
<1>1. UNCHANGED <<arrays, threads, life, bufs, out, eof>>
  BY DEF PeerSends, PeerCloses, PeerResets
<1>2. /\ UNCHANGED <<incoming_r, incoming_w, relay_read, relay_write, todo_r, todo_w, ready_r, ready_w>>
      /\ UNCHANGED <<pc, cur, how, close_count, destroyed, accepting, created, bufs, out, eof>>
  BY <1>1 DEF arrays, fds, threads, life
<1>3. PeerTypes'
  <2>1. CASE PeerSends(c, a)
    <3>1. /\ sent' = [sent EXCEPT ![c][a] = sent[c][a] + 1]
          /\ sent[c][a] < MaxBytes[a] /\ UNCHANGED <<fin, broken>>
      BY <2>1 DEF PeerSends
    <3>2. sent \in [Conns -> [Agents -> Nat]] /\ MaxBytes \in [Agents -> Nat]
      BY RelayAssumption DEF RelayInv, RelayTypes, PeerTypes
    <3>3. sent' \in [Conns -> [Agents -> Nat]]
      BY <3>1, <3>2
    <3>4. \A d \in Conns, b \in Agents : sent'[d][b] = IF d = c /\ b = a THEN sent[c][a] + 1 ELSE sent[d][b]
      BY <3>1, <3>2
    <3>5. \A d \in Conns, b \in Agents : sent'[d][b] <= MaxBytes[b]
      BY <3>1, <3>2, <3>4 DEF RelayInv, RelayTypes, PeerTypes
    <3> QED
      BY <3>1, <3>3, <3>5 DEF RelayInv, RelayTypes, PeerTypes
  <2>2. CASE PeerCloses(c, a)
    BY <2>2, Zenon DEF PeerCloses, RelayInv, RelayTypes, PeerTypes, Flags
  <2>3. CASE PeerResets(c, a)
    BY <2>3, Zenon DEF PeerResets, RelayInv, RelayTypes, PeerTypes, Flags
  <2> QED
    BY <2>1, <2>2, <2>3
<1>4. RelayTypes'
  BY <1>2, <1>3 DEF RelayInv, RelayTypes, ArrayTypes, FdTypes, ThreadTypes, LifeTypes, StreamTypes
<1>5. SameReads /\ SameWrites
  BY <1>2, Unmoved
<1>6. PassDone' /\ Closing'
  BY <1>2 DEF RelayInv, PassDone, Closing
<1>7. Accounted' /\ OneHolder'
  BY <1>2, <1>5, SameHolders DEF RelayInv, Accounted, OneHolder, Due
<1>8. \A d \in Conns, b \in Agents : Finished(d, b) => Finished(d, b)'
  <2> SUFFICES ASSUME NEW d \in Conns, NEW b \in Agents, Finished(d, b) PROVE Finished(d, b)'
    OBVIOUS
  <2>0. /\ sent \in [Conns -> [Agents -> Nat]] /\ fin \in [Conns -> [Agents -> BOOLEAN]]
        /\ broken \in [Conns -> [Agents -> BOOLEAN]]
    BY DEF RelayInv, RelayTypes, PeerTypes, Flags
  <2>1. /\ broken[d][b] => broken'[d][b]
        /\ fin[d][b] => fin'[d][b]
    <3>1. CASE PeerSends(c, a)
      BY <3>1 DEF PeerSends
    <3>2. CASE PeerCloses(c, a)
      BY <2>0, <3>2, Zenon DEF PeerCloses
    <3>3. CASE PeerResets(c, a)
      BY <2>0, <3>3, Zenon DEF PeerResets
    <3> QED
      BY <3>1, <3>2, <3>3
  <2>2. sent'[d][b] = sent[d][b] \/ (~broken[d][b] /\ ~fin[d][b])
    <3>1. CASE PeerSends(c, a)
      BY <2>0, <3>1 DEF PeerSends
    <3>2. CASE PeerCloses(c, a) \/ PeerResets(c, a)
      BY <3>2 DEF PeerCloses, PeerResets
    <3> QED
      BY <3>1, <3>2
  <2> QED
    BY <1>2, <2>1, <2>2 DEF Finished
<1>9. EndsFinished'
  <2> SUFFICES ASSUME NEW b \in Agents, pc[b] = "shutdown", how[b] = "WR" PROVE Finished(cur[b], b)'
    BY <1>2 DEF EndsFinished
  <2>1. Finished(cur[b], b) /\ cur[b] \in Conns
    BY DEF RelayInv, Stream, EndsFinished, Closing, RelayTypes, ThreadTypes
  <2>2. PICK d \in Conns : d = cur[b]
    BY <2>1
  <2>3. Finished(d, b)' /\ cur' = cur
    BY <1>2, <1>8, <2>1, <2>2
  <2> QED
    BY <2>2, <2>3 DEF Finished
<1>10. ReaderEmpty'
  BY <1>2, <1>5 DEF RelayInv, Stream, ReaderEmpty, Introducing, Ends, SameReads
<1>11. EofFinal'
  BY <1>2, <1>5, <1>8, OtherAgent DEF RelayInv, Stream, EofFinal, Introducing, SameReads, SameWrites
<1>12. Numbered'
  BY <1>2 DEF RelayInv, Stream, Numbered
<1> QED
  BY <1>4, <1>6, <1>7, <1>9, <1>10, <1>11, <1>12 DEF RelayInv, Stream

-----------------------------------------------------------------------------
(* The accepting thread *)

(* What is not due is nowhere at hand; what is at hand exists. *)
LEMMA NoHands ==
  ASSUME RelayTypes, Accounted, NEW c \in Conns, Due(c) = 0
  PROVE  /\ \A a \in Agents : ToRead(a, c) = 0 /\ ToWrite(a, c) = 0 /\ cur[a] # c
         /\ accepting # c
<1>1. \A a \in Agents : ToRead(a, c) \in Nat /\ ToWrite(a, c) \in Nat
  BY HandsNat
<1>2. Hands(c) = 0
  BY DEF Accounted
<1>3. /\ HandsOn("lwip", c) = 0 /\ HandsOn("native", c) = 0 /\ accepting # c
  BY <1>1, <1>2 DEF Hands, HandsOn, Agents
<1> QED
  BY <1>1, <1>3 DEF HandsOn, Agents

LEMMA AtHand ==
  ASSUME RelayTypes, Accounted, NEW c \in Conns, NEW a \in Agents,
         ToRead(a, c) # 0 \/ ToWrite(a, c) # 0 \/ cur[a] = c \/ accepting = c
  PROVE  c \in created /\ ~destroyed[c]
  BY NoHands DEF Due

(* Only idle threads move, from one idle place to another, and without     *)
(* forgetting entries of a pass.                                           *)
IdleMoves == \A b \in Agents : pc'[b] = pc[b] \/ (pc[b] \in Idle /\ pc'[b] \in Idle)

LEMMA Wakes ==
  ASSUME RelayTypes, PassDone, NEW a \in Agents, pc' = [pc EXCEPT ![a] = Awoken(@)],
         UNCHANGED <<todo_r, todo_w>>
  PROVE  IdleMoves /\ pc' \in [Agents -> Stations] /\ PassDone'
<1>1. pc \in [Agents -> Stations]
  BY DEF RelayTypes, ThreadTypes
<1>2. Awoken(pc[a]) \in Stations /\ (Awoken(pc[a]) = pc[a] \/ (pc[a] = "sleep" /\ Awoken(pc[a]) = "collect"))
  BY <1>1 DEF Awoken, Stations, Idle
<1>3. \A b \in Agents : pc'[b] = pc[b] \/ (pc[b] = "sleep" /\ pc'[b] = "collect")
  BY <1>1, <1>2
<1> QED
  BY <1>1, <1>2, <1>3 DEF IdleMoves, Idle, PassDone

LEMMA AcceptStep ==
  ASSUME RelayInv, NEW c \in Conns, Accept(c)
  PROVE  RelayInv'
<1> USE RelayAssumption
<1>1. /\ accepting = NoConn /\ accepting' = c /\ c \notin created /\ created' = created \cup {c}
      /\ UNCHANGED <<relay_read, relay_write, todo_r, todo_w, ready_r, ready_w, incoming_w>>
      /\ UNCHANGED <<cur, how, close_count, destroyed, sent, fin, broken, bufs, out, eof>>
      /\ pc' = [pc EXCEPT ![FirstAgent] = Awoken(@)] /\ crossbar_add_for_reading(FirstAgent, c)
  BY DEF Accept, fds, peers, crossbar_add_for_reading
<1>2. incoming_r' \in Arrays /\ Reads(FirstAgent, c, 1) /\ SameWrites
  BY <1>1, AddsRead, Unmoved DEF RelayInv
<1>3. IdleMoves /\ pc' \in [Agents -> Stations] /\ PassDone'
  BY <1>1, Wakes DEF RelayInv
<1>4. RelayTypes'
  BY <1>1, <1>2, <1>3 DEF RelayInv, RelayTypes, ArrayTypes, FdTypes, ThreadTypes, LifeTypes, PeerTypes, StreamTypes
<1>5. /\ \A a \in Agents : ToRead(a, c) = 0 /\ ToWrite(a, c) = 0 /\ cur[a] # c
      /\ close_count[c] = 0 /\ ~destroyed[c] /\ Hands(c) = 0
  BY <1>1, NoHands DEF Due, RelayInv, Accounted
<1>6. Closing'
  BY <1>1, <1>3 DEF RelayInv, Closing, IdleMoves, Idle
<1>7. Accounted'
  <2> SUFFICES ASSUME NEW d \in Conns
               PROVE  Hands(d)' = Due(d)' /\ (d \notin created' => close_count'[d] = 0 /\ ~destroyed'[d])
    BY DEF Accounted
  <2>1. \A b \in Agents : HandsOn(b, d) \in Int /\ HandsOn(b, d)' = HandsOn(b, d) + (IF b = FirstAgent /\ d = c THEN 1 ELSE 0)
    BY <1>1, <1>2, HandsNat DEF RelayInv, Reads, SameWrites, HandsOn
  <2>2. CASE d = c
    BY <1>1, <1>5, <2>1, <2>2 DEF Hands, Due, Agents
  <2>3. CASE d # c
    BY <1>1, <2>1, <2>3 DEF Hands, Due, Agents, RelayInv, Accounted
  <2> QED
    BY <2>2, <2>3
<1>8. OneHolder'
  <2> SUFFICES ASSUME NEW d \in Conns, NEW a \in Agents PROVE Holders(d, a)' <= 1
    BY DEF OneHolder
  <2>0. /\ ToRead(a, d)' = ToRead(a, d) + (IF a = FirstAgent /\ d = c THEN 1 ELSE 0)
        /\ ToWrite(other(a), d)' = ToWrite(other(a), d) /\ ToRead(a, d) \in Nat /\ ToWrite(other(a), d) \in Nat
        /\ Ends(d, a, "WR")' = Ends(d, a, "WR") /\ Ends(d, other(a), "RD")' = Ends(d, other(a), "RD")
    BY <1>1, <1>2, HandsNat, OtherAgent DEF RelayInv, Reads, SameWrites, Ends
  <2>1. CASE d = c
    <3>1. ToRead(a, d) = 0 /\ ToWrite(other(a), d) = 0 /\ ~Ends(d, a, "WR") /\ ~Ends(d, other(a), "RD")
      BY <1>5, <2>1, OtherAgent DEF Ends
    <3>2. a = FirstAgent => ~Introducing(d, a)'
      BY OtherAgent DEF Introducing
    <3>3. ToRead(a, d)' = (IF a = FirstAgent THEN 1 ELSE 0) /\ ToWrite(other(a), d)' = 0
      BY <2>0, <2>1, <3>1
    <3>4. ~Ends(d, a, "WR")' /\ ~Ends(d, other(a), "RD")'
      BY <2>0, <3>1
    <3>5. CASE a = FirstAgent
      BY <3>2, <3>3, <3>4, <3>5 DEF Holders
    <3>6. CASE a # FirstAgent
      BY <3>3, <3>4, <3>6 DEF Holders
    <3> QED
      BY <3>5, <3>6
  <2>2. CASE d # c
    <3>1. Introducing(d, a)' = Introducing(d, a)
      BY <1>1, <2>2 DEF Introducing
    <3>2. ToRead(a, d)' = ToRead(a, d)
      BY <2>0, <2>2
    <3>3. Holders(d, a)' = Holders(d, a)
      BY <2>0, <3>1, <3>2 DEF Holders
    <3> QED
      BY <3>3 DEF RelayInv, OneHolder
  <2> QED
    BY <2>1, <2>2
<1>9. ReaderEmpty'
  <2> SUFFICES ASSUME NEW d \in Conns, NEW a \in Agents,
                      (ToRead(a, d) > 0 \/ Introducing(d, a) \/ Ends(d, a, "WR") \/ d \notin created)'
               PROVE  bufs[d][a] = << >>
    BY <1>1 DEF ReaderEmpty
  <2>1. CASE d = c
    BY <1>1, <2>1 DEF RelayInv, Stream, ReaderEmpty
  <2>2. CASE d # c
    <3>1. ToRead(a, d)' = ToRead(a, d)
      BY <1>2, <2>2, HandsNat DEF RelayInv, Reads
    <3> QED
      BY <1>1, <2>2, <3>1 DEF RelayInv, Stream, ReaderEmpty, Introducing, Ends
  <2> QED
    BY <2>1, <2>2
<1>10. EndsFinished'
  BY <1>1, <1>3 DEF RelayInv, Stream, EndsFinished, Finished, IdleMoves, Idle
<1>11. EofFinal'
  <2> SUFFICES ASSUME NEW d \in Conns, NEW a \in Agents, eof[d][a]
               PROVE  /\ bufs[d][a] = << >> /\ Finished(d, a)' /\ d \in created'
                      /\ ToRead(a, d)' = 0 /\ ToWrite(other(a), d)' = 0 /\ ~Introducing(d, a)'
    BY <1>1 DEF EofFinal
  <2>1. /\ bufs[d][a] = << >> /\ Finished(d, a) /\ d \in created
        /\ ToRead(a, d) = 0 /\ ToWrite(other(a), d) = 0 /\ ~Introducing(d, a)
    BY DEF RelayInv, Stream, EofFinal
  <2>2. d # c
    BY <1>1, <2>1
  <2>3. ToRead(a, d)' = 0 /\ ToWrite(other(a), d)' = 0
    BY <1>2, <2>1, <2>2, OtherAgent DEF Reads, SameWrites
  <2> QED
    BY <1>1, <2>1, <2>2, <2>3 DEF Finished, Introducing
<1>12. Numbered'
  BY <1>1 DEF RelayInv, Stream, Numbered
<1> QED
  BY <1>3, <1>4, <1>6, <1>7, <1>8, <1>9, <1>10, <1>11, <1>12 DEF RelayInv, Stream

LEMMA IntroduceStep ==
  ASSUME RelayInv, Introduce
  PROVE  RelayInv'
<1> USE RelayAssumption
<1> DEFINE o == other(FirstAgent)
<1>0. PICK c \in Conns : c = accepting
  BY DEF Introduce, RelayInv, RelayTypes, LifeTypes
<1>o. o \in Agents /\ o # FirstAgent
  BY OtherAgent
<1>1. /\ accepting = c /\ accepting' = NoConn
      /\ UNCHANGED <<relay_read, relay_write, todo_r, todo_w, ready_r, ready_w, incoming_w>>
      /\ UNCHANGED <<cur, how, created, close_count, destroyed, sent, fin, broken, bufs, out, eof>>
      /\ pc' = [pc EXCEPT ![o] = Awoken(@)] /\ crossbar_add_for_reading(o, c)
  BY <1>0 DEF Introduce, fds, peers, crossbar_add_for_reading
<1> HIDE DEF o
<1>2. incoming_r' \in Arrays /\ Reads(o, c, 1) /\ SameWrites
  BY <1>o, <1>1, AddsRead, Unmoved DEF RelayInv
<1>3. IdleMoves /\ pc' \in [Agents -> Stations] /\ PassDone'
  BY <1>o, <1>1, Wakes DEF RelayInv
<1>4. RelayTypes'
  BY <1>1, <1>2, <1>3 DEF RelayInv, RelayTypes, ArrayTypes, FdTypes, ThreadTypes, LifeTypes, PeerTypes, StreamTypes
<1>5. c # NoConn /\ c \in created
  BY <1>o, <1>1, AtHand DEF RelayInv
<1>6. Closing'
  BY <1>1, <1>3 DEF RelayInv, Closing, IdleMoves, Idle
<1>7. Accounted'
  <2> SUFFICES ASSUME NEW d \in Conns
               PROVE  Hands(d)' = Due(d)' /\ (d \notin created' => close_count'[d] = 0 /\ ~destroyed'[d])
    BY DEF Accounted
  <2>1. \A b \in Agents : HandsOn(b, d) \in Int /\ HandsOn(b, d)' = HandsOn(b, d) + (IF b = o /\ d = c THEN 1 ELSE 0)
    BY <1>1, <1>2, HandsNat DEF RelayInv, Reads, SameWrites, HandsOn
  <2>2. Hands(d)' = Hands(d)
    BY <1>o, <1>1, <1>5, <2>1 DEF Hands, Agents
  <2> QED
    BY <1>1, <2>2 DEF Due, RelayInv, Accounted
<1>8. OneHolder'
  <2> SUFFICES ASSUME NEW d \in Conns, NEW a \in Agents PROVE Holders(d, a)' <= 1
    BY DEF OneHolder
  <2>0. /\ ToRead(a, d)' = ToRead(a, d) + (IF a = o /\ d = c THEN 1 ELSE 0)
        /\ ToWrite(other(a), d)' = ToWrite(other(a), d) /\ ToRead(a, d) \in Nat /\ ToWrite(other(a), d) \in Nat
        /\ Ends(d, a, "WR")' = Ends(d, a, "WR") /\ Ends(d, other(a), "RD")' = Ends(d, other(a), "RD")
    BY <1>1, <1>2, HandsNat, OtherAgent DEF RelayInv, Reads, SameWrites, Ends
  <2>1. /\ Introducing(d, a) <=> a = o /\ d = c
        /\ ~Introducing(d, a)'
    BY <1>1, <1>5 DEF Introducing, o
  <2>2. Holders(d, a)' = Holders(d, a)
    <3>1. CASE a = o /\ d = c
      BY <2>0, <2>1, <3>1 DEF Holders
    <3>2. CASE ~(a = o /\ d = c)
      BY <2>0, <2>1, <3>2 DEF Holders
    <3> QED
      BY <3>1, <3>2
  <2> QED
    BY <2>2 DEF RelayInv, OneHolder
<1>9. ReaderEmpty'
  <2> SUFFICES ASSUME NEW d \in Conns, NEW a \in Agents,
                      (ToRead(a, d) > 0 \/ Introducing(d, a) \/ Ends(d, a, "WR") \/ d \notin created)'
               PROVE  bufs[d][a] = << >>
    BY <1>1 DEF ReaderEmpty
  <2>1. CASE d = c /\ a = o
    BY <1>1, <2>1 DEF RelayInv, Stream, ReaderEmpty, Introducing, o
  <2>2. CASE ~(d = c /\ a = o)
    <3>1. ToRead(a, d)' = ToRead(a, d)
      BY <1>2, <2>2, HandsNat DEF RelayInv, Reads
    <3>2. ~Introducing(d, a)'
      BY <1>1 DEF Introducing
    <3> QED
      BY <1>1, <3>1, <3>2 DEF RelayInv, Stream, ReaderEmpty, Ends
  <2> QED
    BY <2>1, <2>2
<1>10. EndsFinished'
  BY <1>1, <1>3 DEF RelayInv, Stream, EndsFinished, Finished, IdleMoves, Idle
<1>11. EofFinal'
  <2> SUFFICES ASSUME NEW d \in Conns, NEW a \in Agents, eof[d][a]
               PROVE  /\ bufs[d][a] = << >> /\ Finished(d, a)' /\ d \in created'
                      /\ ToRead(a, d)' = 0 /\ ToWrite(other(a), d)' = 0 /\ ~Introducing(d, a)'
    BY <1>1 DEF EofFinal
  <2>1. /\ bufs[d][a] = << >> /\ Finished(d, a) /\ d \in created
        /\ ToRead(a, d) = 0 /\ ToWrite(other(a), d) = 0 /\ ~Introducing(d, a)
    BY DEF RelayInv, Stream, EofFinal
  <2>2. ~(a = o /\ d = c)
    BY <1>1, <2>1 DEF Introducing, o
  <2>3. ToRead(a, d)' = 0 /\ ToWrite(other(a), d)' = 0
    BY <1>2, <2>1, <2>2, OtherAgent DEF Reads, SameWrites
  <2> QED
    BY <1>1, <2>1, <2>3 DEF Finished, Introducing
<1>12. Numbered'
  BY <1>1 DEF RelayInv, Stream, Numbered
<1> QED
  BY <1>3, <1>4, <1>6, <1>7, <1>8, <1>9, <1>10, <1>11, <1>12 DEF RelayInv, Stream

-----------------------------------------------------------------------------
(* Where a thread is after it has served an entry *)

LEMMA Emptied ==
  ASSUME NEW S, NEW s \in Seq(S), NEW t \in Seq(S), s \o t = << >>
  PROVE  s = << >> /\ t = << >>
<1>1. Len(s \o t) = Len(s) + Len(t) /\ Len(s \o t) = 0 /\ Len(s) \in Nat /\ Len(t) \in Nat
  OBVIOUS
<1>2. Len(s) = 0 /\ Len(t) = 0
  BY <1>1
<1> QED
  BY <1>2

Goes(a, s) == pc' = [pc EXCEPT ![a] = Onward(a, s)]
GoesOn(a, s) == pc' = [pc EXCEPT ![a] = Onward(a, s), ![other(a)] = Awoken(@)]

LEMMA Passes ==
  ASSUME RelayTypes, PassDone, NEW a \in Agents, NEW s, Goes(a, s) \/ GoesOn(a, s),
         s = << >> => todo_r'[a] = << >> /\ todo_w'[a] = << >>,
         \A b \in Agents : b # a => todo_r'[b] = todo_r[b] /\ todo_w'[b] = todo_w[b]
  PROVE  pc' \in [Agents -> Stations] /\ PassDone' /\ (pc[a] = "serve" => IdleMoves)
<1>1. pc \in [Agents -> Stations]
  BY DEF RelayTypes, ThreadTypes
<1>2. Onward(a, s) \in Stations /\ Onward(a, s) \in Idle /\ (Onward(a, s) = "serve" \/ s = << >>)
  BY DEF Onward, Stations, Idle
<1>3. \A b \in Agents : /\ Awoken(pc[b]) \in Stations
                        /\ Awoken(pc[b]) = pc[b] \/ (pc[b] = "sleep" /\ Awoken(pc[b]) = "collect")
  BY <1>1 DEF Awoken, Stations, Idle
<1>4. /\ pc' \in [Agents -> Stations] /\ pc'[a] = Onward(a, s)
      /\ \A b \in Agents : b # a => pc'[b] = pc[b] \/ (pc[b] = "sleep" /\ pc'[b] = "collect")
  <2>1. CASE Goes(a, s)
    BY <1>1, <1>2, <2>1 DEF Goes
  <2>2. CASE GoesOn(a, s)
    <3>1. other(a) \in Agents /\ other(a) # a
      BY OtherAgent
    <3>2. pc' = [pc EXCEPT ![a] = Onward(a, s), ![other(a)] = Awoken(pc[other(a)])]
      BY <1>1, <2>2, <3>1 DEF GoesOn
    <3>3. /\ pc' \in [Agents -> Stations] /\ pc'[a] = Onward(a, s)
          /\ \A b \in Agents : b # a => pc'[b] = pc[b] \/ pc'[b] = Awoken(pc[b])
      BY <1>1, <1>2, <1>3, <3>1, <3>2
    <3> QED
      BY <1>3, <3>3
  <2> QED
    BY <2>1, <2>2
<1>5. PassDone'
  BY <1>2, <1>4 DEF PassDone
<1>6. pc[a] = "serve" => IdleMoves
  BY <1>2, <1>4 DEF IdleMoves, Idle
<1> QED
  BY <1>4, <1>5, <1>6

(* The same when the thread turns to closing a connection. *)
LEMMA Turns ==
  ASSUME RelayTypes, PassDone, NEW a \in Agents, NEW l \in {"shutdown", "close", "destroy"},
         pc' = [pc EXCEPT ![a] = l],
         \A b \in Agents : b # a => todo_r'[b] = todo_r[b] /\ todo_w'[b] = todo_w[b]
  PROVE  /\ pc' \in [Agents -> Stations] /\ PassDone' /\ pc'[a] = l
         /\ \A b \in Agents : b # a => pc'[b] = pc[b]
<1>1. /\ pc' \in [Agents -> Stations] /\ pc'[a] = l
      /\ \A b \in Agents : b # a => pc'[b] = pc[b]
  BY DEF RelayTypes, ThreadTypes, Stations
<1> QED
  BY <1>1 DEF PassDone

LEMMA KeepPass ==
  ASSUME RelayTypes, PassDone, NEW a \in Agents, (AtRead(a) /\ KeepRead(a)) \/ (AtWrite(a) /\ KeepWrite(a))
  PROVE  PassDone'
<1>0. todo_r \in Arrays /\ todo_w \in Arrays /\ todo_r[a] \in Seq(Conns) /\ todo_w[a] \in Seq(Conns)
  BY DEF RelayTypes, ArrayTypes, Arrays
<1>1. CASE AtRead(a) /\ KeepRead(a)
  <2>1. /\ todo_r[a] # << >> /\ todo_r' = [todo_r EXCEPT ![a] = Tail(todo_r[a])] /\ todo_w' = todo_w
        /\ Goes(a, Tail(todo_r[a]) \o todo_w[a])
    BY <1>1 DEF AtRead, KeepRead, Goes
  <2>2. Tail(todo_r[a]) \in Seq(Conns)
    BY <1>0, <2>1
  <2>3. Tail(todo_r[a]) \o todo_w[a] = << >> => todo_r'[a] = << >> /\ todo_w'[a] = << >>
    BY <1>0, <2>1, <2>2, Emptied DEF Arrays
  <2>4. \A b \in Agents : b # a => todo_r'[b] = todo_r[b] /\ todo_w'[b] = todo_w[b]
    BY <1>0, <2>1 DEF Arrays
  <2> QED
    BY <2>1, <2>3, <2>4, Passes
<1>2. CASE AtWrite(a) /\ KeepWrite(a)
  <2>1. /\ todo_r[a] = << >> /\ todo_w' = [todo_w EXCEPT ![a] = Tail(todo_w[a])] /\ todo_r' = todo_r
        /\ Goes(a, Tail(todo_w[a]))
    BY <1>2 DEF AtWrite, KeepWrite, Goes
  <2>3. Tail(todo_w[a]) = << >> => todo_r'[a] = << >> /\ todo_w'[a] = << >>
    BY <1>0, <2>1 DEF Arrays
  <2>4. \A b \in Agents : b # a => todo_r'[b] = todo_r[b] /\ todo_w'[b] = todo_w[b]
    BY <1>0, <2>1 DEF Arrays
  <2> QED
    BY <2>1, <2>3, <2>4, Passes
<1> QED
  BY <1>1, <1>2

-----------------------------------------------------------------------------
(* Reading *)

(* The holder of a direction is its only one. *)
LEMMA Reader ==
  ASSUME RelayTypes, OneHolder, NEW c \in Conns, NEW a \in Agents, ToRead(a, c) > 0
  PROVE  /\ ToRead(a, c) = 1 /\ ToWrite(other(a), c) = 0 /\ ~Introducing(c, a)
         /\ ~Ends(c, a, "WR") /\ ~Ends(c, other(a), "RD")
<1>1. ToRead(a, c) \in Nat /\ ToWrite(other(a), c) \in Nat /\ Holders(c, a) <= 1
  BY HandsNat, OtherAgent DEF OneHolder
<1> QED
  BY <1>1 DEF Holders

LEMMA Writer ==
  ASSUME RelayTypes, OneHolder, NEW c \in Conns, NEW a \in Agents, ToWrite(other(a), c) > 0
  PROVE  /\ ToRead(a, c) = 0 /\ ToWrite(other(a), c) = 1 /\ ~Introducing(c, a)
         /\ ~Ends(c, a, "WR") /\ ~Ends(c, other(a), "RD")
<1>1. ToRead(a, c) \in Nat /\ ToWrite(other(a), c) \in Nat /\ Holders(c, a) <= 1
  BY HandsNat, OtherAgent DEF OneHolder
<1> QED
  BY <1>1 DEF Holders

LEMMA ReadDataStep ==
  ASSUME RelayInv, NEW a \in Agents, NEW n \in 1 .. BufLen, ReadData(a, n)
  PROVE  RelayInv'
<1> USE RelayAssumption
<1> DEFINE c == Head(todo_r[a])
           o == other(a)
           new == [i \in 1 .. n |-> Got(c, a) + i]
<1>o. o \in Agents /\ o # a /\ other(o) = a
  BY OtherAgent
<1>0. todo_r \in Arrays /\ todo_r[a] \in Seq(Conns) /\ todo_w[a] \in Seq(Conns) /\ todo_r[a] # << >>
  BY DEF ReadData, AtRead, RelayInv, RelayTypes, ArrayTypes, Arrays
<1>1. /\ pc[a] = "serve" /\ todo_r' = [todo_r EXCEPT ![a] = Tail(@)]
      /\ UNCHANGED <<incoming_r, relay_read, relay_write, todo_w, ready_r, ready_w>>
      /\ UNCHANGED <<cur, how, close_count, destroyed, accepting, created, sent, fin, broken, out, eof>>
      /\ bufs' = [bufs EXCEPT ![c][a] = new]
      /\ GoesOn(a, Tail(todo_r[a]) \o todo_w[a]) /\ crossbar_add_for_writing(o, c)
  BY DEF ReadData, AtRead, fds, life, peers, crossbar_add_for_writing, GoesOn
<1>2. todo_r' \in Arrays /\ c \in Conns /\ Reads(a, c, -1)
  BY <1>0, <1>1, DropsRead DEF RelayInv
<1>3. incoming_w' \in Arrays /\ Writes(o, c, 1)
  BY <1>o, <1>1, <1>2, AddsWrite DEF RelayInv
<1>4. pc' \in [Agents -> Stations] /\ PassDone' /\ IdleMoves
  <2>1. todo_r'[a] = Tail(todo_r[a]) /\ Tail(todo_r[a]) \in Seq(Conns)
    BY <1>0, <1>1 DEF Arrays
  <2>2. Tail(todo_r[a]) \o todo_w[a] = << >> => todo_r'[a] = << >> /\ todo_w'[a] = << >>
    BY <1>0, <1>1, <2>1, Emptied
  <2>3. \A b \in Agents : b # a => todo_r'[b] = todo_r[b] /\ todo_w'[b] = todo_w[b]
    BY <1>0, <1>1 DEF Arrays
  <2> QED
    BY <1>1, <2>2, <2>3, Passes DEF RelayInv
<1>5. ToRead(a, c) > 0
  <2>1. ToRead(a, c) \in Nat /\ Times(todo_r[a], c) > 0
    <3>1. 1 \in 1 .. Len(todo_r[a]) /\ todo_r[a][1] = c
      BY <1>0
    <3> QED
      BY <1>0, <1>2, <3>1, HandsNat, TimesOccurs DEF RelayInv
  <2> QED
    BY <1>2, <2>1, Counted DEF ToRead, RelayInv
<1> HIDE DEF c, o
<1>6. /\ ToRead(a, c) = 1 /\ ToWrite(o, c) = 0 /\ ~Introducing(c, a) /\ ~Ends(c, a, "WR")
      /\ c \in created /\ bufs[c][a] = << >>
  <2>1. c \in created
    BY <1>2, <1>5, AtHand DEF RelayInv
  <2>2. bufs[c][a] = << >>
    BY <1>2, <1>5 DEF RelayInv, Stream, ReaderEmpty
  <2> QED
    BY <1>2, <1>5, <2>1, <2>2, Reader DEF RelayInv, o
<1>7. bufs' \in [Conns -> [Agents -> Seq(Nat)]]
  <2>1. Len(out[c][a]) \in Nat /\ Got(c, a) = Len(out[c][a]) /\ n \in Nat
    BY <1>2, <1>6 DEF Got, RelayInv, RelayTypes, StreamTypes
  <2>2. new \in Seq(Nat)
    BY <2>1
  <2> QED
    BY <1>1, <1>2, <2>2 DEF RelayInv, RelayTypes, StreamTypes
<1>8. \A d \in Conns, b \in Agents : bufs'[d][b] = IF d = c /\ b = a THEN new ELSE bufs[d][b]
  BY <1>1, <1>2 DEF RelayInv, RelayTypes, StreamTypes
<1>9. From(Len(out[c][a]), new)
  <2>1. Len(out[c][a]) \in Nat /\ Got(c, a) = Len(out[c][a]) /\ n \in Nat
    BY <1>2, <1>6 DEF Got, RelayInv, RelayTypes, StreamTypes
  <2> QED
    BY <2>1 DEF From
<1> HIDE DEF new
<1>10. RelayTypes'
  BY <1>1, <1>2, <1>3, <1>4, <1>7
  DEF RelayInv, RelayTypes, ArrayTypes, FdTypes, ThreadTypes, LifeTypes, PeerTypes, StreamTypes
<1>11. Closing'
  BY <1>1, <1>4 DEF RelayInv, Closing, IdleMoves, Idle
<1>12. Accounted'
  <2> SUFFICES ASSUME NEW d \in Conns
               PROVE  Hands(d)' = Due(d)' /\ (d \notin created' => close_count'[d] = 0 /\ ~destroyed'[d])
    BY DEF Accounted
  <2>1. \A b \in Agents : HandsOn(b, d) \in Int
    BY HandsNat DEF RelayInv, HandsOn
  <2>2. /\ HandsOn(a, d)' = HandsOn(a, d) - (IF d = c THEN 1 ELSE 0)
        /\ HandsOn(o, d)' = HandsOn(o, d) + (IF d = c THEN 1 ELSE 0)
    <3>1. /\ ToRead(a, d) \in Nat /\ ToRead(o, d) \in Nat /\ ToWrite(a, d) \in Nat /\ ToWrite(o, d) \in Nat
          /\ cur' = cur
      BY <1>o, <1>1, HandsNat DEF RelayInv
    <3>2. /\ ToRead(a, d)' = ToRead(a, d) - (IF d = c THEN 1 ELSE 0) /\ ToRead(o, d)' = ToRead(o, d)
      BY <1>o, <1>2, <3>1 DEF Reads
    <3>3. /\ ToWrite(a, d)' = ToWrite(a, d) /\ ToWrite(o, d)' = ToWrite(o, d) + (IF d = c THEN 1 ELSE 0)
      BY <1>o, <1>3, <3>1 DEF Writes
    <3> QED
      BY <3>1, <3>2, <3>3 DEF HandsOn
  <2>3. Hands(d)' = Hands(d)
    BY <1>o, <1>1, <2>1, <2>2 DEF Hands, Agents
  <2> QED
    BY <1>1, <2>3 DEF Due, RelayInv, Accounted
<1>13. OneHolder'
  <2> SUFFICES ASSUME NEW d \in Conns, NEW b \in Agents PROVE Holders(d, b)' <= 1
    BY DEF OneHolder
  <2>1. /\ ToRead(b, d)' = ToRead(b, d) + (IF b = a /\ d = c THEN -1 ELSE 0)
        /\ ToWrite(other(b), d)' = ToWrite(other(b), d) + (IF b = a /\ d = c THEN 1 ELSE 0)
        /\ ToRead(b, d) \in Nat /\ ToWrite(other(b), d) \in Nat
    BY <1>o, <1>2, <1>3, HandsNat, OtherAgent DEF RelayInv, Reads, Writes
  <2>2. ToRead(b, d)' + ToWrite(other(b), d)' = ToRead(b, d) + ToWrite(other(b), d)
    BY <2>1
  <2>3. /\ Ends(d, b, "WR")' = Ends(d, b, "WR") /\ Ends(d, other(b), "RD")' = Ends(d, other(b), "RD")
        /\ Introducing(d, b)' = Introducing(d, b)
    BY <1>1 DEF Ends, Introducing
  <2>4. Holders(d, b)' = Holders(d, b)
    BY <2>2, <2>3 DEF Holders
  <2> QED
    BY <2>4 DEF RelayInv, OneHolder
<1>14. ReaderEmpty'
  <2> SUFFICES ASSUME NEW d \in Conns, NEW b \in Agents,
                      (ToRead(b, d) > 0 \/ Introducing(d, b) \/ Ends(d, b, "WR") \/ d \notin created)'
               PROVE  bufs'[d][b] = << >>
    BY DEF ReaderEmpty
  <2>1. ~(d = c /\ b = a)
    BY <1>1, <1>2, <1>6 DEF Reads, Introducing, Ends
  <2>2. ToRead(b, d)' = ToRead(b, d) /\ bufs'[d][b] = bufs[d][b]
    BY <1>2, <1>8, <2>1, HandsNat DEF RelayInv, Reads
  <2> QED
    BY <1>1, <2>2 DEF RelayInv, Stream, ReaderEmpty, Introducing, Ends
<1>15. EndsFinished'
  BY <1>1, <1>4 DEF RelayInv, Stream, EndsFinished, Finished, IdleMoves, Idle
<1>16. EofFinal'
  <2> SUFFICES ASSUME NEW d \in Conns, NEW b \in Agents, eof[d][b]
               PROVE  /\ bufs'[d][b] = << >> /\ Finished(d, b)' /\ d \in created'
                      /\ ToRead(b, d)' = 0 /\ ToWrite(other(b), d)' = 0 /\ ~Introducing(d, b)'
    BY <1>1 DEF EofFinal
  <2>1. /\ bufs[d][b] = << >> /\ Finished(d, b) /\ d \in created
        /\ ToRead(b, d) = 0 /\ ToWrite(other(b), d) = 0 /\ ~Introducing(d, b)
    BY DEF RelayInv, Stream, EofFinal
  <2>2. ~(d = c /\ b = a)
    BY <1>6, <2>1
  <2>3. ToRead(b, d)' = 0 /\ ToWrite(other(b), d)' = 0
    BY <1>o, <1>2, <1>3, <2>1, <2>2, OtherAgent DEF Reads, Writes
  <2> QED
    BY <1>1, <1>8, <2>1, <2>2, <2>3 DEF Finished, Introducing
<1>17. Numbered'
  <2> SUFFICES ASSUME NEW d \in Conns, NEW b \in Agents
               PROVE  From(0, out[d][b]) /\ From(Len(out[d][b]), bufs'[d][b])
    BY <1>1 DEF Numbered
  <2>1. CASE d = c /\ b = a
    BY <1>8, <1>9, <2>1 DEF RelayInv, Stream, Numbered
  <2>2. CASE ~(d = c /\ b = a)
    BY <1>8, <2>2 DEF RelayInv, Stream, Numbered
  <2> QED
    BY <2>1, <2>2
<1> QED
  BY <1>4, <1>10, <1>11, <1>12, <1>13, <1>14, <1>15, <1>16, <1>17 DEF RelayInv, Stream

-----------------------------------------------------------------------------
(* Writing *)

(* What is written continues what was written. *)
LEMMA Joined ==
  ASSUME NEW s \in Seq(Nat), NEW t \in Seq(Nat), From(0, s), From(Len(s), t)
  PROVE  s \o t \in Seq(Nat) /\ From(0, s \o t)
<1>1. s \o t \in Seq(Nat) /\ Len(s \o t) = Len(s) + Len(t)
  OBVIOUS
<1> SUFFICES ASSUME NEW i \in 1 .. Len(s) + Len(t) PROVE (s \o t)[i] = 0 + i
  BY <1>1 DEF From
<1>2. CASE i <= Len(s)
  <2>1. (s \o t)[i] = s[i]
    BY <1>2
  <2> QED
    BY <1>2, <2>1 DEF From
<1>3. CASE i > Len(s)
  <2>1. (s \o t)[i] = t[i - Len(s)] /\ i - Len(s) \in 1 .. Len(t)
    BY <1>3
  <2> QED
    BY <1>3, <2>1 DEF From
<1> QED
  BY <1>2, <1>3

LEMMA Cut ==
  ASSUME NEW s \in Seq(Nat), NEW t \in Seq(Nat), NEW n \in Nat, n < Len(t), From(0, s), From(Len(s), t)
  PROVE  LET u == s \o SubSeq(t, 1, n)
             v == SubSeq(t, n + 1, Len(t))
         IN  u \in Seq(Nat) /\ v \in Seq(Nat) /\ From(0, u) /\ From(Len(u), v)
<1> DEFINE u == SubSeq(t, 1, n)
           v == SubSeq(t, n + 1, Len(t))
<1>1. /\ u \in Seq(Nat) /\ Len(u) = n
      /\ \A i \in 1 .. n : u[i] = t[i]
  OBVIOUS
<1>2. /\ v \in Seq(Nat) /\ Len(v) = Len(t) - n
      /\ \A i \in 1 .. Len(t) - n : v[i] = t[n + i]
  OBVIOUS
<1> HIDE DEF u, v
<1>3. From(Len(s), u)
  <2> SUFFICES ASSUME NEW i \in 1 .. n PROVE u[i] = Len(s) + i
    BY <1>1 DEF From
  <2>1. i \in 1 .. Len(t) /\ u[i] = t[i]
    BY <1>1
  <2> QED
    BY <2>1 DEF From
<1>4. s \o u \in Seq(Nat) /\ Len(s \o u) = Len(s) + n /\ From(0, s \o u)
  BY <1>1, <1>3, Joined
<1>5. From(Len(s \o u), v)
  <2> SUFFICES ASSUME NEW i \in 1 .. Len(t) - n PROVE v[i] = Len(s) + n + i
    BY <1>2, <1>4 DEF From
  <2>1. n + i \in 1 .. Len(t) /\ v[i] = t[n + i]
    BY <1>2
  <2>2. t[n + i] = Len(s) + (n + i)
    BY <2>1 DEF From
  <2> QED
    BY <2>1, <2>2
<1> QED
  BY <1>2, <1>4, <1>5 DEF u, v

LEMMA WriteAllStep ==
  ASSUME RelayInv, NEW a \in Agents, WriteAll(a)
  PROVE  RelayInv'
<1> USE RelayAssumption
<1> DEFINE c == Head(todo_w[a])
           o == other(a)
           out2 == out[c][o] \o bufs[c][o]
           buf2 == << >>
<1>o. o \in Agents /\ o # a /\ other(o) = a
  BY OtherAgent
<1>0. todo_w \in Arrays /\ todo_w[a] \in Seq(Conns) /\ todo_r[a] = << >> /\ todo_w[a] # << >>
  BY DEF WriteAll, AtWrite, RelayInv, RelayTypes, ArrayTypes, Arrays
<1>1. /\ pc[a] = "serve" /\ todo_w' = [todo_w EXCEPT ![a] = Tail(@)]
      /\ UNCHANGED <<incoming_w, relay_read, relay_write, todo_r, ready_r, ready_w>>
      /\ UNCHANGED <<cur, how, close_count, destroyed, accepting, created, sent, fin, broken, eof>>
      /\ out' = [out EXCEPT ![c][o] = out2] /\ bufs' = [bufs EXCEPT ![c][o] = buf2]
      /\ GoesOn(a, Tail(todo_w[a])) /\ crossbar_add_for_reading(o, c)
  BY SMTT(30) DEF WriteAll, AtWrite, fds, life, peers, crossbar_add_for_reading, GoesOn
<1>2. todo_w' \in Arrays /\ c \in Conns /\ Writes(a, c, -1)
  BY <1>0, <1>1, DropsWrite DEF RelayInv
<1>3. incoming_r' \in Arrays /\ Reads(o, c, 1)
  BY <1>o, <1>1, <1>2, AddsRead DEF RelayInv
<1>4. pc' \in [Agents -> Stations] /\ PassDone' /\ IdleMoves
  <2>1. Tail(todo_w[a]) = << >> => todo_r'[a] = << >> /\ todo_w'[a] = << >>
    BY <1>0, <1>1 DEF Arrays
  <2>2. \A b \in Agents : b # a => todo_r'[b] = todo_r[b] /\ todo_w'[b] = todo_w[b]
    BY <1>0, <1>1 DEF Arrays
  <2> QED
    BY <1>1, <2>1, <2>2, Passes DEF RelayInv
<1>5. ToWrite(a, c) > 0
  <2>1. ToWrite(a, c) \in Nat /\ Times(todo_w[a], c) > 0
    <3>1. 1 \in 1 .. Len(todo_w[a]) /\ todo_w[a][1] = c
      BY <1>0
    <3> QED
      BY <1>0, <1>2, <3>1, HandsNat, TimesOccurs DEF RelayInv
  <2> QED
    BY <1>2, <2>1, Counted DEF ToWrite, RelayInv
<1> HIDE DEF c, o
<1>6. /\ ToRead(o, c) = 0 /\ ToWrite(a, c) = 1 /\ ~Introducing(c, o) /\ ~Ends(c, o, "WR")
      /\ c \in created
  <2>1. c \in created
    BY <1>2, <1>5, AtHand DEF RelayInv
  <2> QED
    BY <1>o, <1>2, <1>5, <2>1, Writer DEF RelayInv
<1>7. /\ out2 \in Seq(Nat) /\ buf2 \in Seq(Nat)
      /\ From(0, out2) /\ From(Len(out2), buf2)
  <2>1. /\ out[c][o] \in Seq(Nat) /\ bufs[c][o] \in Seq(Nat)
        /\ From(0, out[c][o]) /\ From(Len(out[c][o]), bufs[c][o])
    BY <1>o, <1>2 DEF RelayInv, RelayTypes, StreamTypes, Stream, Numbered
  <2>2. out2 \in Seq(Nat) /\ From(0, out2)
    BY <2>1, Joined
  <2>3. buf2 \in Seq(Nat) /\ From(Len(out2), buf2)
    BY DEF From
  <2> QED
    BY <2>2, <2>3
<1> HIDE DEF out2, buf2
<1>8. \A d \in Conns, b \in Agents : /\ bufs'[d][b] = IF d = c /\ b = o THEN buf2 ELSE bufs[d][b]
                                     /\ out'[d][b] = IF d = c /\ b = o THEN out2 ELSE out[d][b]
  BY <1>1, <1>2 DEF RelayInv, RelayTypes, StreamTypes
<1>9. out' \in [Conns -> [Agents -> Seq(Nat)]] /\ bufs' \in [Conns -> [Agents -> Seq(Nat)]]
  BY <1>1, <1>2, <1>7 DEF RelayInv, RelayTypes, StreamTypes
<1>10. RelayTypes'
  BY <1>1, <1>2, <1>3, <1>4, <1>9
  DEF RelayInv, RelayTypes, ArrayTypes, FdTypes, ThreadTypes, LifeTypes, PeerTypes, StreamTypes
<1>11. Closing'
  BY <1>1, <1>4 DEF RelayInv, Closing, IdleMoves, Idle
<1>12. Accounted'
  <2> SUFFICES ASSUME NEW d \in Conns
               PROVE  Hands(d)' = Due(d)' /\ (d \notin created' => close_count'[d] = 0 /\ ~destroyed'[d])
    BY DEF Accounted
  <2>1. \A b \in Agents : HandsOn(b, d) \in Int
    BY HandsNat DEF RelayInv, HandsOn
  <2>2. /\ HandsOn(a, d)' = HandsOn(a, d) - (IF d = c THEN 1 ELSE 0)
        /\ HandsOn(o, d)' = HandsOn(o, d) + (IF d = c THEN 1 ELSE 0)
    <3>1. /\ ToRead(a, d) \in Nat /\ ToRead(o, d) \in Nat /\ ToWrite(a, d) \in Nat /\ ToWrite(o, d) \in Nat
          /\ cur' = cur
      BY <1>o, <1>1, HandsNat DEF RelayInv
    <3>2. /\ ToWrite(a, d)' = ToWrite(a, d) - (IF d = c THEN 1 ELSE 0) /\ ToWrite(o, d)' = ToWrite(o, d)
      BY <1>o, <1>2, <3>1 DEF Writes
    <3>3. /\ ToRead(a, d)' = ToRead(a, d) /\ ToRead(o, d)' = ToRead(o, d) + (IF d = c THEN 1 ELSE 0)
      BY <1>o, <1>3, <3>1 DEF Reads
    <3> QED
      BY <3>1, <3>2, <3>3 DEF HandsOn
  <2>3. Hands(d)' = Hands(d)
    BY <1>o, <1>1, <2>1, <2>2 DEF Hands, Agents
  <2> QED
    BY <1>1, <2>3 DEF Due, RelayInv, Accounted
<1>13. OneHolder'
  <2> SUFFICES ASSUME NEW d \in Conns, NEW b \in Agents PROVE Holders(d, b)' <= 1
    BY DEF OneHolder
  <2>1. /\ ToRead(b, d)' = ToRead(b, d) + (IF b = o /\ d = c THEN 1 ELSE 0)
        /\ ToWrite(other(b), d)' = ToWrite(other(b), d) + (IF b = o /\ d = c THEN -1 ELSE 0)
        /\ ToRead(b, d) \in Nat /\ ToWrite(other(b), d) \in Nat
    BY <1>o, <1>2, <1>3, HandsNat, OtherAgent DEF RelayInv, Reads, Writes
  <2>2. ToRead(b, d)' + ToWrite(other(b), d)' = ToRead(b, d) + ToWrite(other(b), d)
    BY <2>1
  <2>3. /\ Ends(d, b, "WR")' = Ends(d, b, "WR") /\ Ends(d, other(b), "RD")' = Ends(d, other(b), "RD")
        /\ Introducing(d, b)' = Introducing(d, b)
    BY <1>1 DEF Ends, Introducing
  <2>4. Holders(d, b)' = Holders(d, b)
    BY <2>2, <2>3 DEF Holders
  <2> QED
    BY <2>4 DEF RelayInv, OneHolder
<1>14. ReaderEmpty'
  <2> SUFFICES ASSUME NEW d \in Conns, NEW b \in Agents,
                      (ToRead(b, d) > 0 \/ Introducing(d, b) \/ Ends(d, b, "WR") \/ d \notin created)'
               PROVE  bufs'[d][b] = << >>
    BY DEF ReaderEmpty
  <2>1. CASE d = c /\ b = o
    BY <1>8, <2>1 DEF buf2
  <2>2. CASE ~(d = c /\ b = o)
    <3>1. ToRead(b, d)' = ToRead(b, d) /\ bufs'[d][b] = bufs[d][b]
      BY <1>3, <1>8, <2>2, HandsNat DEF RelayInv, Reads
    <3> QED
      BY <1>1, <3>1 DEF RelayInv, Stream, ReaderEmpty, Introducing, Ends
  <2> QED
    BY <2>1, <2>2
<1>15. EndsFinished'
  <2> SUFFICES ASSUME NEW b \in Agents, pc'[b] = "shutdown", how[b] = "WR" PROVE Finished(cur[b], b)'
    BY <1>1 DEF EndsFinished
  <2>1. pc[b] = "shutdown" /\ cur[b] \in Conns
    BY <1>4 DEF IdleMoves, Idle, RelayInv, Closing, RelayTypes, ThreadTypes
  <2>2. Finished(cur[b], b)
    BY <2>1 DEF RelayInv, Stream, EndsFinished
  <2>3. ~(cur[b] = c /\ b = o)
    BY <1>6 DEF Ends
  <2>4. out'[cur[b]][b] = out[cur[b]][b]
    BY <1>8, <2>1, <2>3
  <2> QED
    BY <1>1, <2>2, <2>4 DEF Finished
<1>16. EofFinal'
  <2> SUFFICES ASSUME NEW d \in Conns, NEW b \in Agents, eof[d][b]
               PROVE  /\ bufs'[d][b] = << >> /\ Finished(d, b)' /\ d \in created'
                      /\ ToRead(b, d)' = 0 /\ ToWrite(other(b), d)' = 0 /\ ~Introducing(d, b)'
    BY <1>1 DEF EofFinal
  <2>1. /\ bufs[d][b] = << >> /\ Finished(d, b) /\ d \in created
        /\ ToRead(b, d) = 0 /\ ToWrite(other(b), d) = 0 /\ ~Introducing(d, b)
    BY DEF RelayInv, Stream, EofFinal
  <2>2. ~(d = c /\ b = o)
    BY <1>o, <1>6, <2>1
  <2>3. ToRead(b, d)' = 0 /\ ToWrite(other(b), d)' = 0
    BY <1>o, <1>2, <1>3, <2>1, <2>2, OtherAgent DEF Reads, Writes
  <2> QED
    BY <1>1, <1>8, <2>1, <2>2, <2>3 DEF Finished, Introducing
<1>17. Numbered'
  <2> SUFFICES ASSUME NEW d \in Conns, NEW b \in Agents
               PROVE  From(0, out'[d][b]) /\ From(Len(out'[d][b]), bufs'[d][b])
    BY DEF Numbered
  <2>1. CASE d = c /\ b = o
    BY <1>7, <1>8, <2>1
  <2>2. CASE ~(d = c /\ b = o)
    BY <1>8, <2>2 DEF RelayInv, Stream, Numbered
  <2> QED
    BY <2>1, <2>2
<1> QED
  BY <1>4, <1>10, <1>11, <1>12, <1>13, <1>14, <1>15, <1>16, <1>17 DEF RelayInv, Stream

LEMMA WritePartStep ==
  ASSUME RelayInv, NEW a \in Agents, NEW n \in 1 .. BufLen - 1, WritePart(a, n)
  PROVE  RelayInv'
<1> USE RelayAssumption
<1> DEFINE c == Head(todo_w[a])
           o == other(a)
           out2 == out[c][o] \o SubSeq(bufs[c][o], 1, n)
           buf2 == SubSeq(bufs[c][o], n + 1, Len(bufs[c][o]))
<1>o. o \in Agents /\ o # a /\ other(o) = a
  BY OtherAgent
<1>0. todo_w \in Arrays /\ todo_w[a] \in Seq(Conns) /\ todo_r[a] = << >> /\ todo_w[a] # << >>
  BY DEF WritePart, AtWrite, RelayInv, RelayTypes, ArrayTypes, Arrays
<1>1. /\ pc[a] = "serve" /\ todo_w' = [todo_w EXCEPT ![a] = Tail(@)]
      /\ relay_write' = [relay_write EXCEPT ![a] = Append(@, c)]
      /\ UNCHANGED <<incoming_r, incoming_w, relay_read, todo_r, ready_r, ready_w>>
      /\ UNCHANGED <<cur, how, close_count, destroyed, accepting, created, sent, fin, broken, eof>>
      /\ out' = [out EXCEPT ![c][o] = out2] /\ bufs' = [bufs EXCEPT ![c][o] = buf2]
      /\ n < Len(bufs[c][o]) /\ Goes(a, Tail(todo_w[a]))
  BY SMTT(30) DEF WritePart, Remaining, AtWrite, fds, life, peers, Goes
<1>2. /\ todo_w' \in Arrays /\ relay_write' \in Arrays /\ c \in Conns /\ SameWrites
  BY <1>0, <1>1, KeepsWrite DEF RelayInv
<1>3. SameReads
  BY <1>1, Unmoved
<1>4. pc' \in [Agents -> Stations] /\ PassDone' /\ IdleMoves
  <2>1. Tail(todo_w[a]) = << >> => todo_r'[a] = << >> /\ todo_w'[a] = << >>
    BY <1>0, <1>1 DEF Arrays
  <2>2. \A b \in Agents : b # a => todo_r'[b] = todo_r[b] /\ todo_w'[b] = todo_w[b]
    BY <1>0, <1>1 DEF Arrays
  <2> QED
    BY <1>1, <2>1, <2>2, Passes DEF RelayInv
<1>5. ToWrite(a, c) > 0
  <2>1. ToWrite(a, c) \in Nat /\ Times(todo_w[a], c) > 0
    <3>1. 1 \in 1 .. Len(todo_w[a]) /\ todo_w[a][1] = c
      BY <1>0
    <3> QED
      BY <1>0, <1>2, <3>1, HandsNat, TimesOccurs DEF RelayInv
  <2> QED
    BY <1>2, <2>1, Counted DEF ToWrite, RelayInv
<1> HIDE DEF c, o
<1>6. /\ ToRead(o, c) = 0 /\ ToWrite(a, c) = 1 /\ ~Introducing(c, o) /\ ~Ends(c, o, "WR")
      /\ c \in created
  <2>1. c \in created
    BY <1>2, <1>5, AtHand DEF RelayInv
  <2> QED
    BY <1>o, <1>2, <1>5, <2>1, Writer DEF RelayInv
<1>7. /\ out2 \in Seq(Nat) /\ buf2 \in Seq(Nat)
      /\ From(0, out2) /\ From(Len(out2), buf2)
  <2>1. /\ out[c][o] \in Seq(Nat) /\ bufs[c][o] \in Seq(Nat)
        /\ From(0, out[c][o]) /\ From(Len(out[c][o]), bufs[c][o])
    BY <1>o, <1>2 DEF RelayInv, RelayTypes, StreamTypes, Stream, Numbered
  <2>2. n \in Nat /\ n < Len(bufs[c][o])
    BY <1>1
  <2> DEFINE s == out[c][o]
             t == bufs[c][o]
  <2>3. s \in Seq(Nat) /\ t \in Seq(Nat) /\ From(0, s) /\ From(Len(s), t) /\ n < Len(t)
    BY <2>1, <2>2
  <2>4. out2 = s \o SubSeq(t, 1, n) /\ buf2 = SubSeq(t, n + 1, Len(t))
    OBVIOUS
  <2> HIDE DEF s, t, out2, buf2
  <2> QED
    BY <2>2, <2>3, <2>4, Cut
<1> HIDE DEF out2, buf2
<1>8. \A d \in Conns, b \in Agents : /\ bufs'[d][b] = IF d = c /\ b = o THEN buf2 ELSE bufs[d][b]
                                     /\ out'[d][b] = IF d = c /\ b = o THEN out2 ELSE out[d][b]
  BY <1>1, <1>2 DEF RelayInv, RelayTypes, StreamTypes
<1>9. out' \in [Conns -> [Agents -> Seq(Nat)]] /\ bufs' \in [Conns -> [Agents -> Seq(Nat)]]
  BY <1>1, <1>2, <1>7 DEF RelayInv, RelayTypes, StreamTypes
<1>10. RelayTypes'
  BY <1>1, <1>2, <1>3, <1>4, <1>9
  DEF RelayInv, RelayTypes, ArrayTypes, FdTypes, ThreadTypes, LifeTypes, PeerTypes, StreamTypes
<1>11. Closing'
  BY <1>1, <1>4 DEF RelayInv, Closing, IdleMoves, Idle
<1>12. Accounted' /\ OneHolder'
  BY <1>1, <1>2, <1>3, SameHolders DEF RelayInv, Accounted, OneHolder, Due
<1>14. ReaderEmpty'
  <2> SUFFICES ASSUME NEW d \in Conns, NEW b \in Agents,
                      (ToRead(b, d) > 0 \/ Introducing(d, b) \/ Ends(d, b, "WR") \/ d \notin created)'
               PROVE  bufs'[d][b] = << >>
    BY DEF ReaderEmpty
  <2>1. ~(d = c /\ b = o)
    BY <1>1, <1>3, <1>6 DEF SameReads, Introducing, Ends
  <2>2. ToRead(b, d)' = ToRead(b, d) /\ bufs'[d][b] = bufs[d][b]
    BY <1>3, <1>8, <2>1 DEF SameReads
  <2> QED
    BY <1>1, <2>2 DEF RelayInv, Stream, ReaderEmpty, Introducing, Ends
<1>15. EndsFinished'
  <2> SUFFICES ASSUME NEW b \in Agents, pc'[b] = "shutdown", how[b] = "WR" PROVE Finished(cur[b], b)'
    BY <1>1 DEF EndsFinished
  <2>1. pc[b] = "shutdown" /\ cur[b] \in Conns
    BY <1>4 DEF IdleMoves, Idle, RelayInv, Closing, RelayTypes, ThreadTypes
  <2>2. Finished(cur[b], b)
    BY <2>1 DEF RelayInv, Stream, EndsFinished
  <2>3. ~(cur[b] = c /\ b = o)
    BY <1>6 DEF Ends
  <2>4. out'[cur[b]][b] = out[cur[b]][b]
    BY <1>8, <2>1, <2>3
  <2> QED
    BY <1>1, <2>2, <2>4 DEF Finished
<1>16. EofFinal'
  <2> SUFFICES ASSUME NEW d \in Conns, NEW b \in Agents, eof[d][b]
               PROVE  /\ bufs'[d][b] = << >> /\ Finished(d, b)' /\ d \in created'
                      /\ ToRead(b, d)' = 0 /\ ToWrite(other(b), d)' = 0 /\ ~Introducing(d, b)'
    BY <1>1 DEF EofFinal
  <2>1. /\ bufs[d][b] = << >> /\ Finished(d, b) /\ d \in created
        /\ ToRead(b, d) = 0 /\ ToWrite(other(b), d) = 0 /\ ~Introducing(d, b)
    BY DEF RelayInv, Stream, EofFinal
  <2>2. ~(d = c /\ b = o)
    BY <1>o, <1>6, <2>1
  <2>3. ToRead(b, d)' = 0 /\ ToWrite(other(b), d)' = 0
    BY <1>o, <1>2, <1>3, <2>1, <2>2, OtherAgent DEF SameReads, SameWrites
  <2> QED
    BY <1>1, <1>8, <2>1, <2>2, <2>3 DEF Finished, Introducing
<1>17. Numbered'
  <2> SUFFICES ASSUME NEW d \in Conns, NEW b \in Agents
               PROVE  From(0, out'[d][b]) /\ From(Len(out'[d][b]), bufs'[d][b])
    BY DEF Numbered
  <2>1. CASE d = c /\ b = o
    BY <1>7, <1>8, <2>1
  <2>2. CASE ~(d = c /\ b = o)
    BY <1>8, <2>2 DEF RelayInv, Stream, Numbered
  <2> QED
    BY <2>1, <2>2
<1> QED
  BY <1>4, <1>10, <1>11, <1>12, <1>14, <1>15, <1>16, <1>17 DEF RelayInv, Stream

-----------------------------------------------------------------------------
(* The end of a direction *)

LEMMA ReadEndsStep ==
  ASSUME RelayInv, NEW a \in Agents, ReadEnds(a)
  PROVE  RelayInv'
<1> USE RelayAssumption
<1> DEFINE c == Head(todo_r[a])
           o == other(a)
<1>o. o \in Agents /\ o # a /\ other(o) = a
  BY OtherAgent
<1>0. todo_r \in Arrays /\ todo_r[a] \in Seq(Conns) /\ todo_r[a] # << >>
  BY DEF ReadEnds, AtRead, RelayInv, RelayTypes, ArrayTypes, Arrays
<1>1. /\ pc[a] = "serve" /\ todo_r' = [todo_r EXCEPT ![a] = Tail(@)]
      /\ UNCHANGED <<incoming_r, incoming_w, relay_read, relay_write, todo_w, ready_r, ready_w>>
      /\ UNCHANGED <<close_count, destroyed, accepting, created, sent, fin, broken, bufs, out, eof>>
      /\ cur' = [cur EXCEPT ![a] = c] /\ how' = [how EXCEPT ![a] = "WR"] /\ pc' = [pc EXCEPT ![a] = "shutdown"]
  BY DEF ReadEnds, AtRead, fds, life, peers
<1>2. todo_r' \in Arrays /\ c \in Conns /\ Reads(a, c, -1)
  BY <1>0, <1>1, DropsRead DEF RelayInv
<1>3. SameWrites
  BY <1>1, Unmoved
<1>4. /\ pc' \in [Agents -> Stations] /\ PassDone' /\ pc'[a] = "shutdown"
      /\ \A b \in Agents : b # a => pc'[b] = pc[b]
  <2>1. \A b \in Agents : b # a => todo_r'[b] = todo_r[b] /\ todo_w'[b] = todo_w[b]
    BY <1>0, <1>1 DEF Arrays
  <2> QED
    BY <1>1, <2>1, Turns DEF RelayInv
<1>5. ToRead(a, c) > 0
  <2>1. ToRead(a, c) \in Nat /\ Times(todo_r[a], c) > 0
    <3>1. 1 \in 1 .. Len(todo_r[a]) /\ todo_r[a][1] = c
      BY <1>0
    <3> QED
      BY <1>0, <1>2, <3>1, HandsNat, TimesOccurs DEF RelayInv
  <2> QED
    BY <1>2, <2>1, Counted DEF ToRead, RelayInv
<1>g. broken[c][a] \/ (fin[c][a] /\ Got(c, a) = sent[c][a])
  BY DEF ReadEnds
<1> HIDE DEF c, o
<1>6. /\ cur[a] = NoConn /\ cur'[a] = c /\ how[a] = "none" /\ how'[a] = "WR"
      /\ \A b \in Agents : b # a => cur'[b] = cur[b] /\ how'[b] = how[b]
      /\ cur' \in [Agents -> Conns \cup {NoConn}] /\ how' \in [Agents -> {"none", "WR", "RD"}]
  BY <1>1, <1>2 DEF RelayInv, Closing, RelayTypes, ThreadTypes
<1>7. ToRead(a, c) = 1 /\ c \in created /\ bufs[c][a] = << >>
  <2>1. c \in created
    BY <1>2, <1>5, AtHand DEF RelayInv
  <2>2. bufs[c][a] = << >>
    BY <1>2, <1>5 DEF RelayInv, Stream, ReaderEmpty
  <2> QED
    BY <1>2, <1>5, <2>1, <2>2, Reader DEF RelayInv
<1>10. RelayTypes'
  BY <1>1, <1>2, <1>4, <1>6
  DEF RelayInv, RelayTypes, ArrayTypes, FdTypes, ThreadTypes, LifeTypes, PeerTypes, StreamTypes
<1>11. Closing'
  <2> SUFFICES ASSUME NEW b \in Agents
               PROVE  /\ cur'[b] # NoConn <=> pc'[b] \in {"shutdown", "close", "destroy"}
                      /\ how'[b] # "none" <=> pc'[b] \in {"shutdown", "close"}
                      /\ pc'[b] = "destroy" => close_count'[cur'[b]] = 1
    BY DEF Closing
  <2>1. CASE b = a
    BY <1>2, <1>4, <1>6, <2>1
  <2>2. CASE b # a
    BY <1>1, <1>4, <1>6, <2>2 DEF RelayInv, Closing
  <2> QED
    BY <2>1, <2>2
<1>12. Accounted'
  <2> SUFFICES ASSUME NEW d \in Conns
               PROVE  Hands(d)' = Due(d)' /\ (d \notin created' => close_count'[d] = 0 /\ ~destroyed'[d])
    BY DEF Accounted
  <2>1. /\ ToRead(a, d) \in Nat /\ ToRead(o, d) \in Nat /\ ToWrite(a, d) \in Nat /\ ToWrite(o, d) \in Nat
    BY <1>o, HandsNat DEF RelayInv
  <2>2. /\ ToRead(a, d)' = ToRead(a, d) - (IF d = c THEN 1 ELSE 0) /\ ToRead(o, d)' = ToRead(o, d)
    BY <1>o, <1>2, <2>1 DEF Reads
  <2>3. /\ ToWrite(a, d)' = ToWrite(a, d) /\ ToWrite(o, d)' = ToWrite(o, d)
    BY <1>o, <1>3 DEF SameWrites
  <2>4. cur[a] # d /\ (cur'[a] = d <=> d = c) /\ cur'[o] = cur[o]
    BY <1>o, <1>6
  <2>5. HandsOn(a, d)' = HandsOn(a, d) /\ HandsOn(o, d)' = HandsOn(o, d)
    <3>1. CASE d = c
      BY <2>1, <2>2, <2>3, <2>4, <3>1 DEF HandsOn
    <3>2. CASE d # c
      BY <2>1, <2>2, <2>3, <2>4, <3>2 DEF HandsOn
    <3> QED
      BY <3>1, <3>2
  <2>6. Hands(d)' = Hands(d)
    BY <1>o, <1>1, <2>5 DEF Hands, Agents
  <2> QED
    BY <1>1, <2>6 DEF Due, RelayInv, Accounted
<1>13. OneHolder'
  <2> SUFFICES ASSUME NEW d \in Conns, NEW b \in Agents PROVE Holders(d, b)' <= 1
    BY DEF OneHolder
  <2>1. /\ ToRead(b, d) \in Nat /\ ToWrite(other(b), d) \in Nat
        /\ Introducing(d, b)' = Introducing(d, b)
    BY <1>1, HandsNat, OtherAgent DEF RelayInv, Introducing
  <2>2. CASE d = c /\ b = a
    <3>1. ToRead(b, d)' = ToRead(b, d) - 1 /\ ToWrite(other(b), d)' = ToWrite(other(b), d)
      BY <1>2, <1>3, <2>1, <2>2, OtherAgent DEF Reads, SameWrites
    <3>2. ~Ends(d, b, "WR") /\ Ends(d, b, "WR")' /\ Ends(d, other(b), "RD")' = Ends(d, other(b), "RD")
      BY <1>6, <2>2, OtherAgent DEF Ends
    <3> QED
      BY <2>1, <3>1, <3>2 DEF Holders, RelayInv, OneHolder
  <2>3. CASE ~(d = c /\ b = a)
    <3>1. ToRead(b, d)' = ToRead(b, d) /\ ToWrite(other(b), d)' = ToWrite(other(b), d)
      BY <1>2, <1>3, <2>1, <2>3, OtherAgent DEF Reads, SameWrites
    <3>2. Ends(d, b, "WR")' = Ends(d, b, "WR")
      BY <1>6, <2>3 DEF Ends
    <3>3. Ends(d, other(b), "RD")' = Ends(d, other(b), "RD")
      BY <1>6, OtherAgent DEF Ends
    <3> QED
      BY <2>1, <3>1, <3>2, <3>3 DEF Holders, RelayInv, OneHolder
  <2> QED
    BY <2>2, <2>3
<1>14. ReaderEmpty'
  <2> SUFFICES ASSUME NEW d \in Conns, NEW b \in Agents,
                      (ToRead(b, d) > 0 \/ Introducing(d, b) \/ Ends(d, b, "WR") \/ d \notin created)'
               PROVE  bufs[d][b] = << >>
    BY <1>1 DEF ReaderEmpty
  <2>1. CASE d = c /\ b = a
    BY <1>7, <2>1
  <2>2. CASE ~(d = c /\ b = a)
    <3>1. ToRead(b, d)' = ToRead(b, d)
      BY <1>2, <2>2, HandsNat DEF RelayInv, Reads
    <3>2. Ends(d, b, "WR")' = Ends(d, b, "WR")
      BY <1>6, <2>2 DEF Ends
    <3> QED
      BY <1>1, <3>1, <3>2 DEF RelayInv, Stream, ReaderEmpty, Introducing
  <2> QED
    BY <2>1, <2>2
<1>15. EndsFinished'
  <2> SUFFICES ASSUME NEW b \in Agents, pc'[b] = "shutdown", how'[b] = "WR" PROVE Finished(cur[b], b)'
    BY DEF EndsFinished
  <2>1. CASE b = a
    <3>1. Len(out[c][a]) \in Nat /\ Got(c, a) = Len(out[c][a])
      BY <1>2, <1>7 DEF Got, RelayInv, RelayTypes, StreamTypes
    <3> QED
      BY <1>1, <1>6, <1>g, <2>1, <3>1 DEF Finished
  <2>2. CASE b # a
    BY <1>1, <1>4, <1>6, <2>2 DEF RelayInv, Stream, EndsFinished, Finished
  <2> QED
    BY <2>1, <2>2
<1>16. EofFinal'
  <2> SUFFICES ASSUME NEW d \in Conns, NEW b \in Agents, eof[d][b]
               PROVE  /\ bufs[d][b] = << >> /\ Finished(d, b)' /\ d \in created'
                      /\ ToRead(b, d)' = 0 /\ ToWrite(other(b), d)' = 0 /\ ~Introducing(d, b)'
    BY <1>1 DEF EofFinal
  <2>1. /\ bufs[d][b] = << >> /\ Finished(d, b) /\ d \in created
        /\ ToRead(b, d) = 0 /\ ToWrite(other(b), d) = 0 /\ ~Introducing(d, b)
    BY DEF RelayInv, Stream, EofFinal
  <2>2. ~(d = c /\ b = a)
    BY <1>7, <2>1
  <2>3. ToRead(b, d)' = 0 /\ ToWrite(other(b), d)' = 0
    BY <1>2, <1>3, <2>1, <2>2, OtherAgent DEF Reads, SameWrites
  <2> QED
    BY <1>1, <2>1, <2>3 DEF Finished, Introducing
<1>17. Numbered'
  BY <1>1 DEF RelayInv, Stream, Numbered
<1> QED
  BY <1>4, <1>10, <1>11, <1>12, <1>13, <1>14, <1>15, <1>16, <1>17 DEF RelayInv, Stream

LEMMA WriteEndsStep ==
  ASSUME RelayInv, NEW a \in Agents, WriteEnds(a)
  PROVE  RelayInv'
<1> USE RelayAssumption
<1> DEFINE c == Head(todo_w[a])
           o == other(a)
<1>o. o \in Agents /\ o # a /\ other(o) = a
  BY OtherAgent
<1>0. todo_w \in Arrays /\ todo_w[a] \in Seq(Conns) /\ todo_w[a] # << >>
  BY DEF WriteEnds, AtWrite, RelayInv, RelayTypes, ArrayTypes, Arrays
<1>1. /\ pc[a] = "serve" /\ todo_w' = [todo_w EXCEPT ![a] = Tail(@)]
      /\ UNCHANGED <<incoming_r, incoming_w, relay_read, relay_write, todo_r, ready_r, ready_w>>
      /\ UNCHANGED <<close_count, destroyed, accepting, created, sent, fin, broken, bufs, out, eof>>
      /\ cur' = [cur EXCEPT ![a] = c] /\ how' = [how EXCEPT ![a] = "RD"] /\ pc' = [pc EXCEPT ![a] = "shutdown"]
  BY DEF WriteEnds, AtWrite, fds, life, peers
<1>2. todo_w' \in Arrays /\ c \in Conns /\ Writes(a, c, -1)
  BY <1>0, <1>1, DropsWrite DEF RelayInv
<1>3. SameReads
  BY <1>1, Unmoved
<1>4. /\ pc' \in [Agents -> Stations] /\ PassDone' /\ pc'[a] = "shutdown"
      /\ \A b \in Agents : b # a => pc'[b] = pc[b]
  <2>1. \A b \in Agents : b # a => todo_r'[b] = todo_r[b] /\ todo_w'[b] = todo_w[b]
    BY <1>0, <1>1 DEF Arrays
  <2> QED
    BY <1>1, <2>1, Turns DEF RelayInv
<1>5. ToWrite(a, c) > 0
  <2>1. ToWrite(a, c) \in Nat /\ Times(todo_w[a], c) > 0
    <3>1. 1 \in 1 .. Len(todo_w[a]) /\ todo_w[a][1] = c
      BY <1>0
    <3> QED
      BY <1>0, <1>2, <3>1, HandsNat, TimesOccurs DEF RelayInv
  <2> QED
    BY <1>2, <2>1, Counted DEF ToWrite, RelayInv
<1> HIDE DEF c, o
<1>6. /\ cur[a] = NoConn /\ cur'[a] = c /\ how[a] = "none" /\ how'[a] = "RD"
      /\ \A b \in Agents : b # a => cur'[b] = cur[b] /\ how'[b] = how[b]
      /\ cur' \in [Agents -> Conns \cup {NoConn}] /\ how' \in [Agents -> {"none", "WR", "RD"}]
  BY <1>1, <1>2 DEF RelayInv, Closing, RelayTypes, ThreadTypes
<1>7. ToWrite(a, c) = 1 /\ ToRead(o, c) = 0
  BY <1>o, <1>2, <1>5, Writer DEF RelayInv
<1>10. RelayTypes'
  BY <1>1, <1>2, <1>4, <1>6
  DEF RelayInv, RelayTypes, ArrayTypes, FdTypes, ThreadTypes, LifeTypes, PeerTypes, StreamTypes
<1>11. Closing'
  <2> SUFFICES ASSUME NEW b \in Agents
               PROVE  /\ cur'[b] # NoConn <=> pc'[b] \in {"shutdown", "close", "destroy"}
                      /\ how'[b] # "none" <=> pc'[b] \in {"shutdown", "close"}
                      /\ pc'[b] = "destroy" => close_count'[cur'[b]] = 1
    BY DEF Closing
  <2>1. CASE b = a
    BY <1>2, <1>4, <1>6, <2>1
  <2>2. CASE b # a
    BY <1>1, <1>4, <1>6, <2>2 DEF RelayInv, Closing
  <2> QED
    BY <2>1, <2>2
<1>12. Accounted'
  <2> SUFFICES ASSUME NEW d \in Conns
               PROVE  Hands(d)' = Due(d)' /\ (d \notin created' => close_count'[d] = 0 /\ ~destroyed'[d])
    BY DEF Accounted
  <2>1. /\ ToRead(a, d) \in Nat /\ ToRead(o, d) \in Nat /\ ToWrite(a, d) \in Nat /\ ToWrite(o, d) \in Nat
    BY <1>o, HandsNat DEF RelayInv
  <2>2. /\ ToWrite(a, d)' = ToWrite(a, d) - (IF d = c THEN 1 ELSE 0) /\ ToWrite(o, d)' = ToWrite(o, d)
    BY <1>o, <1>2, <2>1 DEF Writes
  <2>3. /\ ToRead(a, d)' = ToRead(a, d) /\ ToRead(o, d)' = ToRead(o, d)
    BY <1>o, <1>3 DEF SameReads
  <2>4. cur[a] # d /\ (cur'[a] = d <=> d = c) /\ cur'[o] = cur[o]
    BY <1>o, <1>6
  <2>5. HandsOn(a, d)' = HandsOn(a, d) /\ HandsOn(o, d)' = HandsOn(o, d)
    <3>1. CASE d = c
      BY <2>1, <2>2, <2>3, <2>4, <3>1 DEF HandsOn
    <3>2. CASE d # c
      BY <2>1, <2>2, <2>3, <2>4, <3>2 DEF HandsOn
    <3> QED
      BY <3>1, <3>2
  <2>6. Hands(d)' = Hands(d)
    BY <1>o, <1>1, <2>5 DEF Hands, Agents
  <2> QED
    BY <1>1, <2>6 DEF Due, RelayInv, Accounted
<1>13. OneHolder'
  <2> SUFFICES ASSUME NEW d \in Conns, NEW b \in Agents PROVE Holders(d, b)' <= 1
    BY DEF OneHolder
  <2>1. /\ ToRead(b, d) \in Nat /\ ToWrite(other(b), d) \in Nat
        /\ Introducing(d, b)' = Introducing(d, b)
    BY <1>1, HandsNat, OtherAgent DEF RelayInv, Introducing
  <2>2. CASE d = c /\ b = o
    <3>1. ToRead(b, d)' = ToRead(b, d) /\ ToWrite(other(b), d)' = ToWrite(other(b), d) - 1
      BY <1>o, <1>2, <1>3, <2>1, <2>2, OtherAgent DEF Writes, SameReads
    <3>2. ~Ends(d, other(b), "RD") /\ Ends(d, other(b), "RD")' /\ Ends(d, b, "WR")' = Ends(d, b, "WR")
      BY <1>o, <1>6, <2>2 DEF Ends
    <3> QED
      BY <2>1, <3>1, <3>2 DEF Holders, RelayInv, OneHolder
  <2>3. CASE ~(d = c /\ b = o)
    <3>1. ToRead(b, d)' = ToRead(b, d) /\ ToWrite(other(b), d)' = ToWrite(other(b), d)
      BY <1>o, <1>2, <1>3, <2>1, <2>3, OtherAgent DEF Writes, SameReads
    <3>2. Ends(d, b, "WR")' = Ends(d, b, "WR")
      BY <1>6 DEF Ends
    <3>3. Ends(d, other(b), "RD")' = Ends(d, other(b), "RD")
      BY <1>o, <1>6, <2>3, OtherAgent DEF Ends
    <3> QED
      BY <2>1, <3>1, <3>2, <3>3 DEF Holders, RelayInv, OneHolder
  <2> QED
    BY <2>2, <2>3
<1>14. ReaderEmpty'
  <2> SUFFICES ASSUME NEW d \in Conns, NEW b \in Agents,
                      (ToRead(b, d) > 0 \/ Introducing(d, b) \/ Ends(d, b, "WR") \/ d \notin created)'
               PROVE  bufs[d][b] = << >>
    BY <1>1 DEF ReaderEmpty
  <2>1. ToRead(b, d)' = ToRead(b, d)
    BY <1>3 DEF SameReads
  <2>2. Ends(d, b, "WR")' = Ends(d, b, "WR")
    BY <1>6 DEF Ends
  <2> QED
    BY <1>1, <2>1, <2>2 DEF RelayInv, Stream, ReaderEmpty, Introducing
<1>15. EndsFinished'
  <2> SUFFICES ASSUME NEW b \in Agents, pc'[b] = "shutdown", how'[b] = "WR" PROVE Finished(cur[b], b)'
    BY DEF EndsFinished
  <2>1. b # a
    BY <1>6
  <2> QED
    BY <1>1, <1>4, <1>6, <2>1 DEF RelayInv, Stream, EndsFinished, Finished
<1>16. EofFinal'
  <2> SUFFICES ASSUME NEW d \in Conns, NEW b \in Agents, eof[d][b]
               PROVE  /\ bufs[d][b] = << >> /\ Finished(d, b)' /\ d \in created'
                      /\ ToRead(b, d)' = 0 /\ ToWrite(other(b), d)' = 0 /\ ~Introducing(d, b)'
    BY <1>1 DEF EofFinal
  <2>1. /\ bufs[d][b] = << >> /\ Finished(d, b) /\ d \in created
        /\ ToRead(b, d) = 0 /\ ToWrite(other(b), d) = 0 /\ ~Introducing(d, b)
    BY DEF RelayInv, Stream, EofFinal
  <2>2. ~(d = c /\ b = o)
    BY <1>o, <1>7, <2>1
  <2>3. ToRead(b, d)' = 0 /\ ToWrite(other(b), d)' = 0
    BY <1>o, <1>2, <1>3, <2>1, <2>2, OtherAgent DEF Writes, SameReads
  <2> QED
    BY <1>1, <2>1, <2>3 DEF Finished, Introducing
<1>17. Numbered'
  BY <1>1 DEF RelayInv, Stream, Numbered
<1> QED
  BY <1>4, <1>10, <1>11, <1>12, <1>13, <1>14, <1>15, <1>16, <1>17 DEF RelayInv, Stream

LEMMA ShutdownStep ==
  ASSUME RelayInv, NEW a \in Agents, other_shutdown(a)
  PROVE  RelayInv'
<1>1. /\ pc[a] = "shutdown" /\ pc' = [pc EXCEPT ![a] = "close"]
      /\ eof' = IF how[a] = "WR" THEN [eof EXCEPT ![cur[a]][a] = TRUE] ELSE eof
      /\ UNCHANGED <<incoming_r, incoming_w, relay_read, relay_write, todo_r, todo_w, ready_r, ready_w>>
      /\ UNCHANGED <<cur, how, close_count, destroyed, accepting, created, sent, fin, broken, bufs, out>>
  BY DEF other_shutdown, arrays, fds, life, peers
<1>2. PICK c \in Conns : c = cur[a]
  BY <1>1 DEF RelayInv, Closing, RelayTypes, ThreadTypes
<1>3. SameReads /\ SameWrites
  BY <1>1, Unmoved
<1>4. /\ pc' \in [Agents -> Stations] /\ PassDone' /\ pc'[a] = "close"
      /\ \A b \in Agents : b # a => pc'[b] = pc[b]
  BY <1>1, Turns DEF RelayInv
<1>5. eof' \in Flags
  <2>1. eof \in [Conns -> [Agents -> BOOLEAN]]
    BY DEF RelayInv, RelayTypes, StreamTypes, Flags
  <2>2. [eof EXCEPT ![c][a] = TRUE] \in [Conns -> [Agents -> BOOLEAN]]
    BY <2>1, Zenon
  <2> QED
    BY <1>1, <1>2, <2>1, <2>2 DEF Flags
<1>6. \A d \in Conns, b \in Agents : eof'[d][b] => eof[d][b] \/ (d = c /\ b = a /\ how[a] = "WR")
  <2>1. eof \in [Conns -> [Agents -> BOOLEAN]]
    BY DEF RelayInv, RelayTypes, StreamTypes, Flags
  <2>2. \A d \in Conns, b \in Agents : [eof EXCEPT ![c][a] = TRUE][d][b] => eof[d][b] \/ (d = c /\ b = a)
    BY <2>1, Zenon
  <2> QED
    BY <1>1, <1>2, <2>2
<1>7. RelayTypes'
  BY <1>1, <1>4, <1>5
  DEF RelayInv, RelayTypes, ArrayTypes, FdTypes, ThreadTypes, LifeTypes, PeerTypes, StreamTypes
<1>8. Closing'
  BY <1>1, <1>4 DEF RelayInv, Closing
<1>9. Accounted' /\ OneHolder'
  BY <1>1, <1>3, SameHolders DEF RelayInv, Accounted, OneHolder, Due
<1>10. ReaderEmpty'
  BY <1>1, <1>3 DEF RelayInv, Stream, ReaderEmpty, Introducing, Ends, SameReads
<1>11. EndsFinished'
  <2> SUFFICES ASSUME NEW b \in Agents, pc'[b] = "shutdown", how[b] = "WR" PROVE Finished(cur[b], b)'
    BY <1>1 DEF EndsFinished
  <2>1. pc[b] = "shutdown"
    BY <1>4
  <2> QED
    BY <1>1, <2>1 DEF RelayInv, Stream, EndsFinished, Finished
<1>12. EofFinal'
  <2> SUFFICES ASSUME NEW d \in Conns, NEW b \in Agents, eof'[d][b]
               PROVE  /\ bufs[d][b] = << >> /\ Finished(d, b)' /\ d \in created'
                      /\ ToRead(b, d)' = 0 /\ ToWrite(other(b), d)' = 0 /\ ~Introducing(d, b)'
    BY <1>1 DEF EofFinal
  <2>1. /\ bufs[d][b] = << >> /\ Finished(d, b) /\ d \in created
        /\ ToRead(b, d) = 0 /\ ToWrite(other(b), d) = 0 /\ ~Introducing(d, b)
    <3>1. CASE eof[d][b]
      BY <3>1 DEF RelayInv, Stream, EofFinal
    <3>2. CASE d = c /\ b = a /\ how[a] = "WR"
      <4>1. Ends(c, a, "WR")
        BY <1>2, <3>2 DEF Ends
      <4>2. c \in created
        BY <1>2, AtHand DEF RelayInv
      <4>3. bufs[c][a] = << >> /\ Finished(c, a)
        BY <1>1, <1>2, <3>2, <4>1 DEF RelayInv, Stream, ReaderEmpty, EndsFinished
      <4>4. ToRead(a, c) = 0 /\ ToWrite(other(a), c) = 0 /\ ~Introducing(c, a)
        <5>1. ToRead(a, c) \in Nat /\ ToWrite(other(a), c) \in Nat /\ Holders(c, a) <= 1
          BY HandsNat, OtherAgent DEF RelayInv, OneHolder
        <5> QED
          BY <4>1, <5>1 DEF Holders
      <4> QED
        BY <3>2, <4>2, <4>3, <4>4
    <3> QED
      BY <1>6, <3>1, <3>2
  <2>2. ToRead(b, d)' = 0 /\ ToWrite(other(b), d)' = 0
    BY <1>3, <2>1, OtherAgent DEF SameReads, SameWrites
  <2> QED
    BY <1>1, <2>1, <2>2 DEF Finished, Introducing
<1>13. Numbered'
  BY <1>1 DEF RelayInv, Stream, Numbered
<1> QED
  BY <1>4, <1>7, <1>8, <1>9, <1>10, <1>11, <1>12, <1>13 DEF RelayInv, Stream

(* relay_conn_close and relay_conn_destroy leave the streams alone: they   *)
(* let go of an end.                                                       *)
LEMMA LetsGo ==
  ASSUME RelayInv, NEW a \in Agents, SameReads, SameWrites,
         UNCHANGED <<accepting, created, sent, fin, broken, bufs, out, eof>>,
         how'[a] = "none", \A b \in Agents : b # a => pc'[b] = pc[b] /\ cur'[b] = cur[b] /\ how'[b] = how[b]
  PROVE  OneHolder' /\ Stream'
<1>1. \A d \in Conns, b \in Agents, h \in {"WR", "RD"} : Ends(d, b, h)' => Ends(d, b, h)
  BY DEF Ends
<1>2. OneHolder'
  <2> SUFFICES ASSUME NEW d \in Conns, NEW b \in Agents PROVE Holders(d, b)' <= 1
    BY DEF OneHolder
  <2>1. /\ ToRead(b, d)' = ToRead(b, d) /\ ToWrite(other(b), d)' = ToWrite(other(b), d)
        /\ ToRead(b, d) \in Nat /\ ToWrite(other(b), d) \in Nat /\ Introducing(d, b)' = Introducing(d, b)
    BY HandsNat, OtherAgent DEF RelayInv, SameReads, SameWrites, Introducing
  <2>2. (Ends(d, b, "WR")' => Ends(d, b, "WR")) /\ (Ends(d, other(b), "RD")' => Ends(d, other(b), "RD"))
    BY <1>1, OtherAgent
  <2>3. Holders(d, b) <= 1
    BY DEF RelayInv, OneHolder
  <2> QED
    BY <2>1, <2>2, <2>3 DEF Holders
<1>3. ReaderEmpty'
  BY <1>1 DEF RelayInv, Stream, ReaderEmpty, Introducing, SameReads
<1>4. EndsFinished'
  <2> SUFFICES ASSUME NEW b \in Agents, pc'[b] = "shutdown", how'[b] = "WR" PROVE Finished(cur[b], b)'
    BY DEF EndsFinished
  <2>1. b # a
    OBVIOUS
  <2> QED
    BY <2>1 DEF RelayInv, Stream, EndsFinished, Finished
<1>5. EofFinal'
  BY OtherAgent DEF RelayInv, Stream, EofFinal, Finished, Introducing, SameReads, SameWrites
<1>6. Numbered'
  BY DEF RelayInv, Stream, Numbered
<1> QED
  BY <1>2, <1>3, <1>4, <1>5, <1>6 DEF Stream

(* One end fewer is at hand. *)
LEMMA OneLess ==
  ASSUME RelayInv, NEW a \in Agents, NEW c \in Conns, cur[a] = c, cur'[a] = NoConn, SameReads, SameWrites,
         accepting' = accepting, \A b \in Agents : b # a => cur'[b] = cur[b]
  PROVE  \A d \in Conns : Hands(d) \in Int /\ Hands(d)' = Hands(d) - (IF d = c THEN 1 ELSE 0)
<1> SUFFICES ASSUME NEW d \in Conns
             PROVE  Hands(d) \in Int /\ Hands(d)' = Hands(d) - (IF d = c THEN 1 ELSE 0)
  OBVIOUS
<1>0. NoConn # d /\ other(a) \in Agents /\ other(a) # a
  BY RelayAssumption, OtherAgent
<1>1. \A b \in Agents : ToRead(b, d) \in Nat /\ ToWrite(b, d) \in Nat
  BY HandsNat DEF RelayInv
<1>2. \A b \in Agents : HandsOn(b, d) \in Int
  BY <1>1 DEF HandsOn
<1>3. HandsOn(a, d)' = HandsOn(a, d) - (IF d = c THEN 1 ELSE 0)
  BY <1>0, <1>1 DEF HandsOn, SameReads, SameWrites
<1>4. HandsOn(other(a), d)' = HandsOn(other(a), d)
  BY <1>0, <1>1 DEF HandsOn, SameReads, SameWrites
<1> QED
  BY <1>0, <1>2, <1>3, <1>4 DEF Hands, Agents

LEMMA LastEntries ==
  ASSUME RelayInv, NEW a \in Agents, UNCHANGED <<todo_r, todo_w>>, Goes(a, todo_r[a] \o todo_w[a])
  PROVE  /\ pc' \in [Agents -> Stations] /\ PassDone' /\ pc'[a] \in Idle
         /\ \A b \in Agents : b # a => pc'[b] = pc[b]
<1>1. todo_r[a] \in Seq(Conns) /\ todo_w[a] \in Seq(Conns) /\ pc \in [Agents -> Stations]
  BY DEF RelayInv, RelayTypes, ArrayTypes, ThreadTypes, Arrays
<1>2. todo_r[a] \o todo_w[a] = << >> => todo_r'[a] = << >> /\ todo_w'[a] = << >>
  BY <1>1, Emptied
<1>3. pc'[a] \in Idle /\ \A b \in Agents : b # a => pc'[b] = pc[b]
  BY <1>1, OnwardIdle DEF Goes
<1>4. pc' \in [Agents -> Stations] /\ PassDone'
  BY <1>2, Passes DEF RelayInv
<1> QED
  BY <1>3, <1>4

LEMMA CloseStep ==
  ASSUME RelayInv, NEW a \in Agents, relay_conn_close(a)
  PROVE  RelayInv'
<1>1. /\ pc[a] = "close" /\ how' = [how EXCEPT ![a] = "none"]
      /\ UNCHANGED <<incoming_r, incoming_w, relay_read, relay_write, todo_r, todo_w, ready_r, ready_w>>
      /\ UNCHANGED <<destroyed, accepting, created, sent, fin, broken, bufs, out, eof>>
  BY DEF relay_conn_close, arrays, fds, peers
<1>2. PICK c \in Conns : c = cur[a]
  BY <1>1 DEF RelayInv, Closing, RelayTypes, ThreadTypes
<1>3. SameReads /\ SameWrites
  BY <1>1, Unmoved
<1>4. /\ how' \in [Agents -> {"none", "WR", "RD"}] /\ how'[a] = "none"
      /\ \A b \in Agents : b # a => how'[b] = how[b]
  BY <1>1 DEF RelayInv, RelayTypes, ThreadTypes
<1>5. c \in created /\ ~destroyed[c] /\ close_count[c] \in {0, 1}
  BY <1>2, AtHand DEF RelayInv, RelayTypes, LifeTypes
<1>6. CASE close_count[c] = 0
  <2>1. /\ close_count' = [close_count EXCEPT ![c] = 1] /\ cur' = [cur EXCEPT ![a] = NoConn]
        /\ Goes(a, todo_r[a] \o todo_w[a])
    BY <1>2, <1>6 DEF relay_conn_close, Goes
  <2>2. /\ close_count' \in [Conns -> {0, 1}] /\ close_count'[c] = 1
        /\ \A d \in Conns : d # c => close_count'[d] = close_count[d]
        /\ cur' \in [Agents -> Conns \cup {NoConn}] /\ cur'[a] = NoConn
        /\ \A b \in Agents : b # a => cur'[b] = cur[b]
    BY <2>1 DEF RelayInv, RelayTypes, ThreadTypes, LifeTypes
  <2>3. /\ pc' \in [Agents -> Stations] /\ PassDone' /\ pc'[a] \in Idle
        /\ \A b \in Agents : b # a => pc'[b] = pc[b]
    BY <1>1, <2>1, LastEntries
  <2>4. RelayTypes'
    BY <1>1, <1>4, <2>2, <2>3
    DEF RelayInv, RelayTypes, ArrayTypes, FdTypes, ThreadTypes, LifeTypes, PeerTypes, StreamTypes
  <2>5. Closing'
    <3> SUFFICES ASSUME NEW b \in Agents
                 PROVE  /\ cur'[b] # NoConn <=> pc'[b] \in {"shutdown", "close", "destroy"}
                        /\ how'[b] # "none" <=> pc'[b] \in {"shutdown", "close"}
                        /\ pc'[b] = "destroy" => close_count'[cur'[b]] = 1
      BY DEF Closing
    <3>1. CASE b = a
      BY <1>4, <2>2, <2>3, <3>1 DEF Idle
    <3>2. CASE b # a
      <4>1. /\ cur'[b] = cur[b] /\ how'[b] = how[b] /\ pc'[b] = pc[b]
            /\ pc[b] = "destroy" => cur[b] \in Conns
        BY <1>4, <2>2, <2>3, <3>2 DEF RelayInv, Closing, RelayTypes, ThreadTypes
      <4>2. pc[b] = "destroy" => close_count'[cur[b]] = 1
        BY <2>2, <4>1 DEF RelayInv, Closing
      <4> QED
        BY <4>1, <4>2 DEF RelayInv, Closing
    <3> QED
      BY <3>1, <3>2
  <2>6. Accounted'
    <3> SUFFICES ASSUME NEW d \in Conns
                 PROVE  Hands(d)' = Due(d)' /\ (d \notin created' => close_count'[d] = 0 /\ ~destroyed'[d])
      BY DEF Accounted
    <3>1. Hands(d) \in Int /\ Hands(d)' = Hands(d) - (IF d = c THEN 1 ELSE 0)
      BY <1>1, <1>2, <1>3, <2>2, OneLess
    <3>2. Hands(d) = Due(d) /\ (d \notin created => close_count[d] = 0 /\ ~destroyed[d])
      BY DEF RelayInv, Accounted
    <3>3. CASE d = c
      BY <1>1, <1>5, <1>6, <2>2, <3>1, <3>2, <3>3 DEF Due
    <3>4. CASE d # c
      BY <1>1, <2>2, <3>1, <3>2, <3>4 DEF Due
    <3> QED
      BY <3>3, <3>4
  <2>7. OneHolder' /\ Stream'
    BY <1>1, <1>3, <1>4, <2>2, <2>3, LetsGo
  <2> QED
    BY <2>3, <2>4, <2>5, <2>6, <2>7 DEF RelayInv
<1>7. CASE close_count[c] # 0
  <2>1. pc' = [pc EXCEPT ![a] = "destroy"] /\ UNCHANGED <<close_count, cur>> /\ close_count[c] = 1
    BY <1>2, <1>5, <1>7 DEF relay_conn_close
  <2>2. /\ pc' \in [Agents -> Stations] /\ PassDone' /\ pc'[a] = "destroy"
        /\ \A b \in Agents : b # a => pc'[b] = pc[b]
    BY <1>1, <2>1, Turns DEF RelayInv
  <2>3. RelayTypes'
    BY <1>1, <1>4, <2>1, <2>2
    DEF RelayInv, RelayTypes, ArrayTypes, FdTypes, ThreadTypes, LifeTypes, PeerTypes, StreamTypes
  <2>4. Closing'
    <3> SUFFICES ASSUME NEW b \in Agents
                 PROVE  /\ cur'[b] # NoConn <=> pc'[b] \in {"shutdown", "close", "destroy"}
                        /\ how'[b] # "none" <=> pc'[b] \in {"shutdown", "close"}
                        /\ pc'[b] = "destroy" => close_count'[cur'[b]] = 1
      BY DEF Closing
    <3>1. CASE b = a
      BY <1>2, <1>4, <2>1, <2>2, <3>1, RelayAssumption
    <3>2. CASE b # a
      BY <1>4, <2>1, <2>2, <3>2 DEF RelayInv, Closing
    <3> QED
      BY <3>1, <3>2
  <2>5. Accounted'
    <3>1. \A d \in Conns : Hands(d)' = Hands(d)
      <4>1. \A d \in Conns, b \in Agents : HandsOn(b, d)' = HandsOn(b, d)
        BY <1>3, <2>1 DEF HandsOn, SameReads, SameWrites
      <4> QED
        BY <1>1, <4>1 DEF Hands, Agents
    <3> QED
      BY <1>1, <2>1, <3>1 DEF RelayInv, Accounted, Due
  <2>6. OneHolder' /\ Stream'
    BY <1>1, <1>3, <1>4, <2>1, <2>2, LetsGo
  <2> QED
    BY <2>2, <2>3, <2>4, <2>5, <2>6 DEF RelayInv
<1> QED
  BY <1>6, <1>7

LEMMA DestroyStep ==
  ASSUME RelayInv, NEW a \in Agents, relay_conn_destroy(a)
  PROVE  RelayInv'
<1>1. /\ pc[a] = "destroy" /\ cur' = [cur EXCEPT ![a] = NoConn] /\ destroyed' = [destroyed EXCEPT ![cur[a]] = TRUE]
      /\ UNCHANGED <<incoming_r, incoming_w, relay_read, relay_write, todo_r, todo_w, ready_r, ready_w>>
      /\ UNCHANGED <<how, close_count, accepting, created, sent, fin, broken, bufs, out, eof>>
      /\ Goes(a, todo_r[a] \o todo_w[a])
  BY DEF relay_conn_destroy, arrays, fds, peers, Goes
<1>2. PICK c \in Conns : c = cur[a]
  BY <1>1 DEF RelayInv, Closing, RelayTypes, ThreadTypes
<1>3. SameReads /\ SameWrites
  BY <1>1, Unmoved
<1>4. c \in created /\ ~destroyed[c] /\ close_count[c] = 1 /\ how[a] = "none"
  BY <1>1, <1>2, AtHand DEF RelayInv, Closing
<1>5. /\ cur' \in [Agents -> Conns \cup {NoConn}] /\ cur'[a] = NoConn
      /\ \A b \in Agents : b # a => cur'[b] = cur[b]
  BY <1>1 DEF RelayInv, RelayTypes, ThreadTypes
<1>6. /\ destroyed' \in [Conns -> BOOLEAN] /\ destroyed'[c]
      /\ \A d \in Conns : d # c => destroyed'[d] = destroyed[d]
  BY <1>1, <1>2, Zenon DEF RelayInv, RelayTypes, LifeTypes
<1>7. /\ pc' \in [Agents -> Stations] /\ PassDone' /\ pc'[a] \in Idle
      /\ \A b \in Agents : b # a => pc'[b] = pc[b]
  BY <1>1, LastEntries
<1>8. RelayTypes'
  BY <1>1, <1>5, <1>6, <1>7
  DEF RelayInv, RelayTypes, ArrayTypes, FdTypes, ThreadTypes, LifeTypes, PeerTypes, StreamTypes
<1>9. Closing'
  <2> SUFFICES ASSUME NEW b \in Agents
               PROVE  /\ cur'[b] # NoConn <=> pc'[b] \in {"shutdown", "close", "destroy"}
                      /\ how'[b] # "none" <=> pc'[b] \in {"shutdown", "close"}
                      /\ pc'[b] = "destroy" => close_count'[cur'[b]] = 1
    BY DEF Closing
  <2>1. CASE b = a
    BY <1>1, <1>4, <1>5, <1>7, <2>1 DEF Idle
  <2>2. CASE b # a
    BY <1>1, <1>5, <1>7, <2>2 DEF RelayInv, Closing
  <2> QED
    BY <2>1, <2>2
<1>10. Accounted'
  <2> SUFFICES ASSUME NEW d \in Conns
               PROVE  Hands(d)' = Due(d)' /\ (d \notin created' => close_count'[d] = 0 /\ ~destroyed'[d])
    BY DEF Accounted
  <2>1. Hands(d) \in Int /\ Hands(d)' = Hands(d) - (IF d = c THEN 1 ELSE 0)
    BY <1>1, <1>2, <1>3, <1>5, OneLess
  <2>2. Hands(d) = Due(d) /\ (d \notin created => close_count[d] = 0 /\ ~destroyed[d])
    BY DEF RelayInv, Accounted
  <2>3. CASE d = c
    BY <1>1, <1>4, <1>6, <2>1, <2>2, <2>3 DEF Due
  <2>4. CASE d # c
    <3>1. destroyed'[d] = destroyed[d] /\ close_count' = close_count /\ created' = created
      BY <1>1, <1>6, <2>4
    <3>2. Due(d)' = Due(d)
      BY <3>1 DEF Due
    <3> QED
      BY <2>1, <2>2, <2>4, <3>1, <3>2
  <2> QED
    BY <2>3, <2>4
<1>11. OneHolder' /\ Stream'
  BY <1>1, <1>3, <1>4, <1>5, <1>7, LetsGo
<1> QED
  BY <1>7, <1>8, <1>9, <1>10, <1>11 DEF RelayInv

-----------------------------------------------------------------------------
(* Together *)

LEMMA RelayInitially == Init => RelayInv
<1> SUFFICES ASSUME Init PROVE RelayInv
  OBVIOUS
<1> USE RelayAssumption
<1>1. RelayTypes
  BY RelayTypesInit
<1>2. PassDone /\ Closing
  BY DEF Init, PerAgent, PassDone, Closing
<1>3. \A a \in Agents, c \in Conns : ToRead(a, c) = 0 /\ ToWrite(a, c) = 0 /\ cur[a] # c /\ accepting # c
  BY TimesEmpty DEF Init, PerAgent, ToRead, ToWrite
<1>4. Accounted
  <2> SUFFICES ASSUME NEW c \in Conns
               PROVE  Hands(c) = Due(c) /\ (c \notin created => close_count[c] = 0 /\ ~destroyed[c])
    BY DEF Accounted
  <2>1. HandsOn("lwip", c) = 0 /\ HandsOn("native", c) = 0 /\ accepting # c
    BY <1>3 DEF HandsOn, Agents
  <2>2. c \notin created /\ close_count[c] = 0 /\ ~destroyed[c]
    BY DEF Init
  <2> QED
    BY <2>1, <2>2 DEF Hands, Due
<1>5. OneHolder
  <2> SUFFICES ASSUME NEW c \in Conns, NEW a \in Agents PROVE Holders(c, a) <= 1
    BY DEF OneHolder
  <2>1. ToRead(a, c) = 0 /\ ToWrite(other(a), c) = 0 /\ ~Introducing(c, a) /\ ~Ends(c, a, "WR") /\ ~Ends(c, other(a), "RD")
    BY <1>3, OtherAgent DEF Introducing, Ends
  <2> QED
    BY <2>1 DEF Holders
<1>6. \A c \in Conns, a \in Agents : bufs[c][a] = << >> /\ out[c][a] = << >> /\ ~eof[c][a]
  BY DEF Init, PerAgent, PerBoth
<1>7. Stream
  <2>1. ReaderEmpty /\ EofFinal
    BY <1>6 DEF ReaderEmpty, EofFinal
  <2>2. EndsFinished
    BY DEF Init, PerAgent, EndsFinished
  <2>3. Numbered
    BY <1>6 DEF Numbered, From
  <2> QED
    BY <2>1, <2>2, <2>3 DEF Stream
<1> QED
  BY <1>1, <1>2, <1>4, <1>5, <1>7 DEF RelayInv

LEMMA QuietPass ==
  ASSUME RelayInv, NEW a \in Agents,
         Sleep(a) \/ SpuriousWake(a) \/ Collect(a) \/ SelectAny(a)
  PROVE  PassDone'
<1>0. /\ pc \in [Agents -> Stations] /\ todo_r \in [Agents -> Seq(Conns)] /\ todo_w \in [Agents -> Seq(Conns)]
      /\ PassDone
  BY DEF RelayInv, RelayTypes, ThreadTypes, ArrayTypes, Arrays
<1>1. CASE UNCHANGED <<todo_r, todo_w>> /\ pc[a] \in {"collect", "sleep", "select"}
           /\ \E l \in Idle : pc' = [pc EXCEPT ![a] = l]
  BY <1>0, <1>1 DEF PassDone
<1>2. CASE pc' = [pc EXCEPT ![a] = "serve"] /\ \E s, t : /\ todo_r' = [todo_r EXCEPT ![a] = s]
                                                        /\ todo_w' = [todo_w EXCEPT ![a] = t]
  BY <1>0, <1>2 DEF PassDone
<1>3. CASE Sleep(a) \/ SpuriousWake(a) \/ Collect(a)
  BY <1>1, <1>3 DEF Sleep, SpuriousWake, Collect, arrays, Idle
<1>4. CASE SelectAny(a)
  BY <1>1, <1>2, <1>4 DEF SelectAny, Select, Idle
<1> QED
  BY <1>3, <1>4

LEMMA RelayStep == RelayInv /\ [Next]_vars => RelayInv'
<1> SUFFICES ASSUME RelayInv, [Next]_vars PROVE RelayInv'
  OBVIOUS
<1>1. ASSUME RelayTypes', Quiet, PassDone' PROVE RelayInv'
  BY <1>1, QuietStep DEF RelayInv
<1>2. ASSUME NEW a \in Agents, ThreadStep(a) \/ SpuriousWake(a) PROVE RelayInv'
  <2>1. CASE Sleep(a) \/ SpuriousWake(a)
    BY <1>1, <2>1, SleepQuiet, QuietPass DEF RelayInv
  <2>2. CASE Collect(a)
    BY <1>1, <2>2, CollectQuiet, QuietPass DEF RelayInv
  <2>3. CASE SelectAny(a)
    <3>1. PICK W : Select(a, W)
      BY <2>3 DEF SelectAny
    <3> QED
      BY <1>1, <2>3, <3>1, SelectQuiet, QuietPass DEF RelayInv
  <2>4. CASE Serve(a)
    <3>1. CASE \E n \in 1 .. BufLen : ReadData(a, n)
      BY <3>1, ReadDataStep
    <3>2. CASE ReadEnds(a)
      BY <3>2, ReadEndsStep
    <3>3. CASE WriteAll(a)
      BY <3>3, WriteAllStep
    <3>4. CASE \E n \in 1 .. BufLen - 1 : WritePart(a, n)
      BY <3>4, WritePartStep
    <3>5. CASE WriteEnds(a)
      BY <3>5, WriteEndsStep
    <3>6. CASE NotReady(a)
      <4>1. (AtRead(a) /\ KeepRead(a)) \/ (AtWrite(a) /\ KeepWrite(a))
        BY <3>6, Zenon DEF NotReady
      <4> QED
        BY <1>1, <4>1, KeepQuiet, KeepPass DEF RelayInv
    <3>7. CASE other_shutdown(a)
      BY <3>7, ShutdownStep
    <3>8. CASE relay_conn_close(a)
      BY <3>8, CloseStep
    <3>9. CASE relay_conn_destroy(a)
      BY <3>9, DestroyStep
    <3> QED
      BY <2>4, <3>1, <3>2, <3>3, <3>4, <3>5, <3>6, <3>7, <3>8, <3>9 DEF Serve
  <2> QED
    BY <1>2, <2>1, <2>2, <2>3, <2>4 DEF ThreadStep
<1>3. CASE TryAgain
  <2>1. "native" \in Agents
    BY DEF Agents
  <2>2. (AtRead("native") /\ KeepRead("native")) \/ (AtWrite("native") /\ KeepWrite("native"))
    BY <1>3, Zenon DEF TryAgain
  <2> QED
    BY <1>1, <2>1, <2>2, KeepQuiet, KeepPass DEF RelayInv
<1>4. CASE Introduce
  BY <1>4, IntroduceStep
<1>5. CASE UNCHANGED vars
  <2>1. /\ UNCHANGED <<incoming_r, incoming_w, relay_read, relay_write, todo_r, todo_w, ready_r, ready_w>>
        /\ UNCHANGED <<pc, cur, how, close_count, destroyed, accepting, created, sent, fin, broken, bufs, out, eof>>
    BY <1>5 DEF vars, arrays, fds, threads, life, peers
  <2>2. SameReads /\ SameWrites
    BY <2>1, Unmoved
  <2>3. RelayTypes'
    BY <2>1 DEF RelayInv, RelayTypes, ArrayTypes, FdTypes, ThreadTypes, LifeTypes, PeerTypes, StreamTypes
  <2>4. PassDone' /\ Closing'
    BY <2>1 DEF RelayInv, PassDone, Closing
  <2>5. Accounted' /\ OneHolder'
    BY <2>1, <2>2, SameHolders DEF RelayInv, Accounted, OneHolder, Due
  <2>6. Stream'
    BY <2>1, <2>2, OtherAgent
    DEF RelayInv, Stream, ReaderEmpty, EndsFinished, EofFinal, Numbered, Finished, Introducing, Ends, SameReads, SameWrites
  <2> QED
    BY <2>3, <2>4, <2>5, <2>6 DEF RelayInv
<1> QED
  BY <1>2, <1>3, <1>4, <1>5, PeerStep, AcceptStep DEF Next

LEMMA RelayInvariant == Spec => []RelayInv
  BY RelayInitially, RelayStep, PTL DEF Spec

(* No pointer to a freed relay_conn: each connection is at hand once per   *)
(* direction that still runs, and a destroyed one nowhere, for any number  *)
(* of connections at a time (relay_conn_close, relay_conn_destroy).        *)
THEOREM RelayConnsAccounted == Spec => []ConnsAccounted
<1>1. RelayInv => ConnsAccounted
  BY DEF RelayInv, Accounted, Hands, Due, ConnsAccounted, RelayTypes, LifeTypes
<1> QED
  BY <1>1, RelayInvariant, PTL

(* Each direction of each connection is a stream: its bytes reach the      *)
(* other peer in order and without gaps, however the writes were cut, and  *)
(* its end is passed on after the last of them (relay_conn_read,           *)
(* relay_conn_write), for any buffer size and any amount of data.          *)
THEOREM RelayStreamsKept == Spec => []StreamsKept
<1>1. RelayInv => TypeOK
  <2> SUFFICES ASSUME RelayInv PROVE TypeOK
    OBVIOUS
  <2>1. /\ \A s \in {incoming_r, incoming_w, relay_read, relay_write, todo_r, todo_w} : s \in [Agents -> Seq(Conns)]
        /\ \A x \in {ready_r, ready_w} : x \in [Agents -> SUBSET Conns]
        /\ \A x \in {bufs, out} : x \in [Conns -> [Agents -> Seq(Nat)]]
        /\ \A x \in {fin, broken, eof} : x \in [Conns -> [Agents -> BOOLEAN]]
    BY DEF RelayInv, RelayTypes, ArrayTypes, FdTypes, PeerTypes, StreamTypes, Arrays, Flags
  <2>2. \A c \in Conns, a \in Agents : sent[c][a] \in 0 .. MaxBytes[a]
    BY RelayAssumption DEF RelayInv, RelayTypes, PeerTypes
  <2>3. /\ pc \in [Agents -> {"collect", "sleep", "select", "serve", "shutdown", "close", "destroy"}]
        /\ cur \in [Agents -> Conns \cup {NoConn}] /\ how \in [Agents -> {"none", "WR", "RD"}]
        /\ close_count \in [Conns -> {0, 1}] /\ destroyed \in [Conns -> BOOLEAN]
        /\ accepting \in Conns \cup {NoConn} /\ created \subseteq Conns
    BY DEF RelayInv, RelayTypes, ThreadTypes, LifeTypes, Stations, Idle
  <2> QED
    BY <2>1, <2>2, <2>3 DEF TypeOK
<1>2. RelayInv => InOrder
  <2> SUFFICES ASSUME RelayInv, NEW c \in Conns, NEW a \in Agents, NEW i \in 1 .. Got(c, a)
               PROVE  (out[c][a] \o bufs[c][a])[i] = i
    BY DEF InOrder
  <2>1. /\ out[c][a] \in Seq(Nat) /\ bufs[c][a] \in Seq(Nat)
        /\ From(0, out[c][a]) /\ From(Len(out[c][a]), bufs[c][a])
    BY DEF RelayInv, RelayTypes, StreamTypes, Stream, Numbered
  <2>2. From(0, out[c][a] \o bufs[c][a]) /\ Len(out[c][a] \o bufs[c][a]) = Got(c, a)
    BY <2>1, Joined DEF Got
  <2> DEFINE u == out[c][a] \o bufs[c][a]
  <2>3. From(0, u) /\ i \in 1 .. Len(u)
    BY <2>2
  <2> HIDE DEF u
  <2>4. u[i] = 0 + i
    BY <2>3 DEF From
  <2> QED
    BY <2>4 DEF u
<1>3. RelayInv => EndAfterData
  BY DEF RelayInv, Stream, EofFinal, Finished, EndAfterData
<1> QED
  BY <1>1, <1>2, <1>3, RelayInvariant, PTL DEF StreamsKept
=============================================================================
