---- MODULE NetconnProofs ----
(***************************************************************************)
(* CallsAnswered and PcbBound for any number of netconns, pcbs, threads    *)
(* and any sizes.                                                          *)
(***************************************************************************)
EXTENDS Netconn, CountingProofs

ConnType ==
  [alive : BOOLEAN, state : ConnStates, pcb : AllPcbs \cup {None}, fatal : BOOLEAN,
   msg : Threads \cup {None}, offset : Nat, nbc : BOOLEAN, chk : BOOLEAN,
   wr : BOOLEAN, rvalid : BOOLEAN, recvmbox : Seq({"data", "null"}),
   avalid : BOOLEAN, acceptmbox : Seq(Conns), sem : Nat, held : Nat,
   past : SUBSET {"half", "eof", "lost"}]
PcbType ==
  [st : PcbStates, arg : Conns \cup {None}, recv : BOOLEAN, sent : BOOLEAN,
   poll : BOOLEAN, err : BOOLEAN, rx : BOOLEAN,
   refused : {"none", "data", "datafin"}, snd : 0 .. SndBuf, owed : 0 .. Wnd]
ThType ==
  [pc : {"idle", "wait", "recv", "accept"}, fn : Calls, c : Conns \cup {None},
   shut : SUBSET RDWR, len : Nat, nb : BOOLEAN, err : Errors]
Worlds == [conn : [Conns -> ConnType], pcb : [AllPcbs -> PcbType], th : [Threads -> ThType]]

-----------------------------------------------------------------------------
(* The updates of a handler *)

(* SetConn replaces one netconn and nothing else. *)
LEMMA SetConnIs ==
  ASSUME NEW w \in Worlds, NEW c \in Conns, NEW k \in ConnType, NEW r, r = SetConn(w, c, k)
  PROVE  /\ r \in Worlds /\ r.pcb = w.pcb /\ r.th = w.th
         /\ r.conn[c] = k /\ \A d \in Conns : d # c => r.conn[d] = w.conn[d]
<1>1. r = [w EXCEPT !.conn = [w.conn EXCEPT ![c] = k]]
  BY DEF SetConn
<1>2. [w.conn EXCEPT ![c] = k] \in [Conns -> ConnType]
  BY DEF Worlds
<1>3. r.pcb = w.pcb /\ r.th = w.th /\ r.conn = [w.conn EXCEPT ![c] = k] /\ r \in Worlds
  BY <1>1, <1>2 DEF Worlds
<1> QED
  BY <1>3 DEF Worlds

ConnSet(w, r, c, k) ==
  /\ r \in Worlds /\ r.pcb = w.pcb /\ r.th = w.th
  /\ r.conn[c] = k /\ \A d \in Conns : d # c => r.conn[d] = w.conn[d]

(* The same, with the new world written out. *)
LEMMA ConnSetIs ==
  ASSUME NEW w \in Worlds, NEW c \in Conns, NEW k \in ConnType
  PROVE  ConnSet(w, SetConn(w, c, k), c, k)
<1> DEFINE r == SetConn(w, c, k)
<1>1. /\ r \in Worlds /\ r.pcb = w.pcb /\ r.th = w.th
      /\ r.conn[c] = k /\ \A d \in Conns : d # c => r.conn[d] = w.conn[d]
  BY SetConnIs
<1> HIDE DEF r
<1>2. ConnSet(w, r, c, k)
  BY <1>1 DEF ConnSet
<1> QED
  BY <1>2 DEF r

(* SetPcb replaces one pcb and nothing else. *)
LEMMA SetPcbIs ==
  ASSUME NEW w \in Worlds, NEW p \in AllPcbs, NEW q \in PcbType, NEW r, r = SetPcb(w, p, q)
  PROVE  /\ r \in Worlds /\ r.conn = w.conn /\ r.th = w.th
         /\ r.pcb[p] = q /\ \A x \in AllPcbs : x # p => r.pcb[x] = w.pcb[x]
<1>1. r = [w EXCEPT !.pcb = [w.pcb EXCEPT ![p] = q]]
  BY DEF SetPcb
<1>2. [w.pcb EXCEPT ![p] = q] \in [AllPcbs -> PcbType]
  BY DEF Worlds
<1>3. r.conn = w.conn /\ r.th = w.th /\ r.pcb = [w.pcb EXCEPT ![p] = q] /\ r \in Worlds
  BY <1>1, <1>2 DEF Worlds
<1> QED
  BY <1>3 DEF Worlds

PcbSet(w, r, p, q) ==
  /\ r \in Worlds /\ r.conn = w.conn /\ r.th = w.th
  /\ r.pcb[p] = q /\ \A x \in AllPcbs : x # p => r.pcb[x] = w.pcb[x]

(* The same, with the new world written out. *)
LEMMA PcbSetIs ==
  ASSUME NEW w \in Worlds, NEW p \in AllPcbs, NEW q \in PcbType
  PROVE  PcbSet(w, SetPcb(w, p, q), p, q)
<1> DEFINE r == SetPcb(w, p, q)
<1>1. /\ r \in Worlds /\ r.conn = w.conn /\ r.th = w.th
      /\ r.pcb[p] = q /\ \A x \in AllPcbs : x # p => r.pcb[x] = w.pcb[x]
  BY SetPcbIs
<1> HIDE DEF r
<1>2. PcbSet(w, r, p, q)
  BY <1>1 DEF PcbSet
<1> QED
  BY <1>2 DEF r

(* SetTh replaces one caller and nothing else. *)
LEMMA SetThIs ==
  ASSUME NEW w \in Worlds, NEW t \in Threads, NEW m \in ThType, NEW r, r = SetTh(w, t, m)
  PROVE  /\ r \in Worlds /\ r.conn = w.conn /\ r.pcb = w.pcb
         /\ r.th[t] = m /\ \A u \in Threads : u # t => r.th[u] = w.th[u]
<1>1. r = [w EXCEPT !.th = [w.th EXCEPT ![t] = m]]
  BY DEF SetTh
<1>2. [w.th EXCEPT ![t] = m] \in [Threads -> ThType]
  BY DEF Worlds
<1>3. r.conn = w.conn /\ r.pcb = w.pcb /\ r.th = [w.th EXCEPT ![t] = m] /\ r \in Worlds
  BY <1>1, <1>2 DEF Worlds
<1> QED
  BY <1>3 DEF Worlds

ThSet(w, r, t, m) ==
  /\ r \in Worlds /\ r.conn = w.conn /\ r.pcb = w.pcb
  /\ r.th[t] = m /\ \A u \in Threads : u # t => r.th[u] = w.th[u]

(* The same, with the new world written out. *)
LEMMA ThSetIs ==
  ASSUME NEW w \in Worlds, NEW t \in Threads, NEW m \in ThType
  PROVE  ThSet(w, SetTh(w, t, m), t, m)
<1> DEFINE r == SetTh(w, t, m)
<1>1. /\ r \in Worlds /\ r.conn = w.conn /\ r.pcb = w.pcb
      /\ r.th[t] = m /\ \A u \in Threads : u # t => r.th[u] = w.th[u]
  BY SetThIs
<1> HIDE DEF r
<1>2. ThSet(w, r, t, m)
  BY <1>1 DEF ThSet
<1> QED
  BY <1>2 DEF r

-----------------------------------------------------------------------------
(***************************************************************************)
(* The inductive invariant, of a world w, the set W of the threads whose   *)
(* messages the tcpip thread has not executed, and the set O of the        *)
(* netconns the application has.                                           *)
(***************************************************************************)

(* The states of a pcb that a netconn has, and those it has after only the *)
(* sending side was shut.                                                  *)
Attached == {"CLOSED", "SYN_SENT", "ESTABLISHED", "CLOSE_WAIT"}
Leaving == {"FIN_WAIT_1", "FIN_WAIT_2", "CLOSING", "LAST_ACK", "TIME_WAIT"}
Callback(q) == q.recv \/ q.sent \/ q.poll \/ q.err
InCall(m, c) == m.pc = "wait" /\ m.c = c

(* A freed netconn is as netconn_alloc finds it. *)
Dead(k) == ~k.alive => k = FreeConn

(* The pcb of a netconn tells it of an error and polls it.  It leaves, or  *)
(* is lost, only after its sending side was shut.                          *)
Bound(w, k, c) ==
  /\ k.pcb # None => /\ w.pcb[k.pcb].arg = c
                     /\ k.pcb \in Pcbs => /\ w.pcb[k.pcb].err /\ w.pcb[k.pcb].poll
                                          /\ w.pcb[k.pcb].st \in Attached \cup Leaving
                                          /\ w.pcb[k.pcb].st \in Leaving => "half" \in k.past
                     /\ k.pcb \in ListenPcbs => w.pcb[k.pcb].st = "LISTEN"
  /\ "lost" \in k.past => "half" \in k.past

(* How the state of a netconn and that of its pcb go together. *)
Stage(w, k) ==
  /\ k.state = "LISTEN" <=> k.pcb \in ListenPcbs
  /\ k.avalid => k.state = "LISTEN"
  /\ k.acceptmbox # << >> => k.avalid
  /\ k.state = "CONNECT" <=> k.pcb \in Pcbs /\ w.pcb[k.pcb].st = "SYN_SENT"
  /\ k.state \in {"WRITE", "CLOSE"} => k.pcb \in Pcbs \/ "lost" \in k.past
  /\ k.nbc => k.state = "CONNECT" \/ k.pcb = None

(* The message an operation in progress is to answer. *)
Message(w, W, k, c) ==
  /\ k.msg # None <=> k.state \in {"WRITE", "CLOSE"} \/ (k.state = "CONNECT" /\ ~k.nbc)
  /\ k.msg # None => /\ InCall(w.th[k.msg], c) /\ k.msg \notin W
                     /\ w.th[k.msg].fn # "new" /\ (w.th[k.msg].fn = "delete" => k.state = "CLOSE")
  /\ k.state = "WRITE" => k.offset < w.th[k.msg].len
  /\ k.state = "CLOSE" =>
       \/ w.th[k.msg].shut = {"WR"} /\ w.th[k.msg].fn # "delete"
       \/ /\ w.th[k.msg].shut = RDWR /\ k.pcb # None
          /\ w.pcb[k.pcb].st \in {"ESTABLISHED", "CLOSE_WAIT"}

(* op_completed is set for a caller whose message has been answered. *)
HasAnswer(w, W, k, c) == \E t \in Threads : InCall(w.th[t], c) /\ t \notin W /\ k.msg # t
Signal(w, W, k, c) == k.sem = IF HasAnswer(w, W, k, c) THEN 1 ELSE 0

ConnOK(w, W, c) ==
  /\ Dead(w.conn[c]) /\ Bound(w, w.conn[c], c) /\ Stage(w, w.conn[c])
  /\ Message(w, W, w.conn[c], c) /\ Signal(w, W, w.conn[c], c)

(* A pcb with callbacks, or one that is connecting, has its netconn. *)
PcbOK(w, p) ==
  /\ Callback(w.pcb[p]) => w.pcb[p].arg # None /\ w.conn[w.pcb[p].arg].pcb = p
  /\ p \in ListenPcbs => w.pcb[p].st \in {"free", "LISTEN"} /\ ~Callback(w.pcb[p])
  /\ p \in Pcbs => w.pcb[p].st # "LISTEN"
  /\ w.pcb[p].st \in {"LISTEN", "SYN_RCVD"} => w.pcb[p].arg # None
  /\ w.pcb[p].st = "SYN_SENT" => w.pcb[p].arg # None /\ w.conn[w.pcb[p].arg].pcb = p

(* A message that waits for the tcpip thread. *)
Fresh(w, m) ==
  /\ m.pc = "wait" /\ m.fn # "none"
  /\ m.fn = "close" => m.shut \in Shuts
  /\ m.fn = "write" => m.len > 0
  /\ m.fn = "new" => w.conn[m.c] = NewConn

(* A netconn is in one call; after an answer to netconn_delete it has      *)
(* nothing left that could refer to it.                                    *)
ThOK(w, W, O, t) ==
  /\ w.th[t].pc = "idle" <=> w.th[t].c = None
  /\ w.th[t].c # None => w.conn[w.th[t].c].alive
  /\ \A u \in Threads : w.th[t].c # None /\ w.th[u].c = w.th[t].c => u = t
  /\ t \in W => Fresh(w, w.th[t])
  /\ w.th[t].pc = "wait" /\ w.th[t].fn \in {"new", "delete"} => w.th[t].c \notin O
  /\ w.th[t].pc = "wait" /\ t \notin W /\ w.conn[w.th[t].c].msg # t
       /\ (w.th[t].fn = "delete" \/ (w.th[t].fn = "new" /\ w.th[t].err # "OK"))
       => w.conn[w.th[t].c].pcb = None /\ w.conn[w.th[t].c].acceptmbox = << >>

(* A connection nobody has accepted yet is in one acceptmbox, and nobody   *)
(* else knows it.                                                          *)
Unknown(w, O, n) ==
  /\ w.conn[n].alive /\ n \notin O /\ w.conn[n].state = "NONE"
  /\ \A t \in Threads : w.th[t].c # n
Once(w, c, i) ==
  \A d \in Conns : \A j \in 1 .. Len(w.conn[d].acceptmbox) :
    w.conn[d].acceptmbox[j] = w.conn[c].acceptmbox[i] => c = d /\ i = j
PendOK(w, O) ==
  \A c \in Conns : \A i \in 1 .. Len(w.conn[c].acceptmbox) : Unknown(w, O, w.conn[c].acceptmbox[i]) /\ Once(w, c, i)

NInv(w, W, O) ==
  /\ w \in Worlds /\ W \subseteq Threads /\ O \subseteq Conns
  /\ \A c \in Conns : ConnOK(w, W, c)
  /\ \A p \in AllPcbs : PcbOK(w, p)
  /\ \A t \in Threads : ThOK(w, W, O, t)
  /\ PendOK(w, O)
  /\ \A c \in O : w.conn[c].alive

-----------------------------------------------------------------------------
(* A step that touches one netconn, its pcb and the caller it is in a call *)
(* with has to be looked at only there.                                    *)

Elsewhere(w, r, c, p, t) ==
  /\ \A d \in Conns : d # c => r.conn[d] = w.conn[d]
  /\ \A x \in AllPcbs : x # p => r.pcb[x] = w.pcb[x]
  /\ \A u \in Threads : u # t => r.th[u] = w.th[u]

(* p is the pcb of no other netconn, and t in no other call. *)
Mine(w, c, p, t) ==
  /\ w.conn[c].pcb \in {p, None}
  /\ p # None => \A d \in Conns : w.conn[d].pcb = p => d = c
  /\ t # None => w.th[t].c \in {c, None}

SameBut(A, B, x) == \A y : y # x => (y \in A <=> y \in B)

(* The step from w to r stays with c, p and t, and leaves these in order. *)
Keeps(w, W, O, r, V, N, c, p, t) ==
  /\ r \in Worlds /\ V \subseteq Threads /\ N \subseteq Conns
  /\ c \in Conns /\ p \in AllPcbs \cup {None} /\ t \in Threads \cup {None}
  /\ Elsewhere(w, r, c, p, t) /\ Mine(w, c, p, t) /\ r.conn[c].pcb \in {p, None}
  /\ t # None => r.th[t].c \in {c, None}
  /\ SameBut(V, W, t) /\ SameBut(N, O, c)
  /\ ConnOK(r, V, c) /\ (p # None => PcbOK(r, p))
  /\ \A u \in Threads : u = t \/ r.th[u].c = c => ThOK(r, V, N, u)
  /\ PendOK(r, N) /\ (c \in N => r.conn[c].alive)

(* Such a step keeps the invariant everywhere. *)
LEMMA Local ==
  ASSUME NEW w, NEW W, NEW O, NInv(w, W, O), NEW r, NEW V, NEW N, NEW c, NEW p, NEW t,
         Keeps(w, W, O, r, V, N, c, p, t)
  PROVE  NInv(r, V, N)
<1> r \in Worlds /\ V \subseteq Threads /\ N \subseteq Conns
    /\ c \in Conns /\ p \in AllPcbs \cup {None} /\ t \in Threads \cup {None}
    /\ Elsewhere(w, r, c, p, t) /\ Mine(w, c, p, t) /\ r.conn[c].pcb \in {p, None}
    /\ (t # None => r.th[t].c \in {c, None})
    /\ SameBut(V, W, t) /\ SameBut(N, O, c)
    /\ ConnOK(r, V, c) /\ (p # None => PcbOK(r, p))
    /\ (\A u \in Threads : u = t \/ r.th[u].c = c => ThOK(r, V, N, u))
    /\ PendOK(r, N) /\ (c \in N => r.conn[c].alive)
  BY DEF Keeps
<1>0. None \notin Conns /\ None \notin AllPcbs /\ None \notin Threads /\ w \in Worlds
  BY NetconnAssumption DEF AllPcbs, NInv
<1>t. /\ \A d \in Conns : w.conn[d] \in ConnType /\ r.conn[d] \in ConnType
      /\ \A x \in AllPcbs : w.pcb[x] \in PcbType /\ r.pcb[x] \in PcbType
      /\ \A u \in Threads : w.th[u] \in ThType /\ r.th[u] \in ThType
  BY <1>0 DEF Worlds
<1>1. ASSUME NEW d \in Conns, d # c PROVE ConnOK(r, V, d)
  <2>1. ConnOK(w, W, d) /\ r.conn[d] = w.conn[d]
    BY <1>1 DEF NInv, Elsewhere
  <2> DEFINE k == w.conn[d]
  <2>2. k \in ConnType
    BY <1>t
  <2>3. k.pcb # None => k.pcb \in AllPcbs /\ k.pcb # p
    BY <1>1, <2>2 DEF ConnType, Mine
  <2>4. k.pcb # None => r.pcb[k.pcb] = w.pcb[k.pcb]
    BY <2>3 DEF Elsewhere
  <2>5. \A u \in Threads : w.th[u].c = d => u # t /\ r.th[u] = w.th[u]
    BY <1>0, <1>1 DEF Mine, Elsewhere
  <2>6. \A u \in Threads : r.th[u].c = d => u # t /\ r.th[u] = w.th[u]
    BY <1>0, <1>1 DEF Elsewhere
  <2>7. k.msg # None => k.msg \in Threads /\ w.th[k.msg].c = d
    BY <2>1, <2>2 DEF ConnType, ConnOK, Message, InCall
  <2>8. k.msg # None => r.th[k.msg] = w.th[k.msg] /\ (k.msg \in V <=> k.msg \in W)
    BY <2>5, <2>7 DEF SameBut
  <2>9. HasAnswer(r, V, k, d) <=> HasAnswer(w, W, k, d)
    BY <2>5, <2>6 DEF HasAnswer, InCall, SameBut
  <2> HIDE DEF k
  <2>10. Bound(r, k, d)
    BY <2>1, <2>4 DEF k, ConnOK, Bound
  <2>11. Stage(r, k)
    <3>1. k.pcb \in Pcbs => k.pcb # None
      BY <1>0 DEF AllPcbs
    <3>2. Stage(w, k)
      BY <2>1 DEF k, ConnOK
    <3> QED
      BY <2>4, <3>1, <3>2 DEF Stage
  <2>12. Message(r, V, k, d)
    <3>1. Message(w, W, k, d)
      BY <2>1 DEF k, ConnOK
    <3>2. k.state \in {"WRITE", "CLOSE"} => k.msg # None
      BY <3>1 DEF Message
    <3> QED
      BY <2>4, <2>8, <3>1, <3>2 DEF Message
  <2>13. Signal(r, V, k, d)
    BY <2>1, <2>9 DEF k, ConnOK, Signal
  <2> QED
    BY <2>1, <2>10, <2>11, <2>12, <2>13 DEF k, ConnOK
<1>2. ASSUME NEW x \in AllPcbs, x # p PROVE PcbOK(r, x)
  <2>1. PcbOK(w, x) /\ r.pcb[x] = w.pcb[x]
    BY <1>2 DEF NInv, Elsewhere
  <2>2. w.pcb[x].arg # None => w.pcb[x].arg \in Conns
    BY <1>t DEF PcbType
  <2>3. ASSUME NEW d \in Conns, w.conn[d].pcb = x PROVE r.conn[d].pcb = x
    <3>1. d # c
      BY <1>0, <1>2, <2>3 DEF Mine
    <3> QED
      BY <2>3, <3>1 DEF Elsewhere
  <2> QED
    BY <2>1, <2>2, <2>3 DEF PcbOK
<1>3. ASSUME NEW u \in Threads, u # t, r.th[u].c # c PROVE ThOK(r, V, N, u)
  <2>1. ThOK(w, W, O, u) /\ r.th[u] = w.th[u] /\ w.th[u].c # c
    BY <1>3 DEF NInv, Elsewhere
  <2>2. w.th[u].c # None => w.th[u].c \in Conns /\ r.conn[w.th[u].c] = w.conn[w.th[u].c]
                             /\ (w.th[u].c \in N <=> w.th[u].c \in O)
    BY <1>t, <2>1 DEF ThType, Elsewhere, SameBut
  <2>3. \A v \in Threads : w.th[u].c # None /\ r.th[v].c = w.th[u].c => v # t /\ r.th[v] = w.th[v]
    BY <1>0, <2>1 DEF Elsewhere
  <2>4. u \in V <=> u \in W
    BY <1>3 DEF SameBut
  <2>5. w.th[u].pc = "wait" => w.th[u].c # None
    BY <2>1 DEF ThOK
  <2>6. u \in V => Fresh(r, r.th[u])
    <3>1. u \in V => Fresh(w, w.th[u])
      BY <2>1, <2>4 DEF ThOK
    <3> QED
      BY <2>1, <2>2, <2>5, <3>1 DEF Fresh
  <2> QED
    BY <2>1, <2>2, <2>3, <2>4, <2>5, <2>6 DEF ThOK
<1>4. \A d \in N : r.conn[d].alive
  <2> TAKE d \in N
  <2>1. CASE d = c
    BY <2>1
  <2>2. CASE d # c
    BY <2>2 DEF NInv, Elsewhere, SameBut
  <2> QED
    BY <2>1, <2>2
<1>5. \A u \in Threads : ThOK(r, V, N, u)
  BY <1>3
<1>6. \A d \in Conns : ConnOK(r, V, d)
  BY <1>1
<1>7. \A x \in AllPcbs : PcbOK(r, x)
  BY <1>0, <1>2
<1> QED
  BY <1>4, <1>5, <1>6, <1>7 DEF NInv

(* Nothing about unaccepted connections changes. *)
LEMMA PendKept ==
  ASSUME NEW w, NEW O, PendOK(w, O), w \in Worlds, NEW r \in Worlds, NEW N, NEW c \in Conns,
         \A d \in Conns : r.conn[d].acceptmbox = w.conn[d].acceptmbox,
         \A d \in Conns : d # c => r.conn[d].alive = w.conn[d].alive /\ r.conn[d].state = w.conn[d].state,
         SameBut(N, O, c),
         \A t \in Threads : r.th[t].c \in {w.th[t].c, c, None},
         Unknown(w, O, c) => Unknown(r, N, c)
  PROVE  PendOK(r, N)
<1> SUFFICES ASSUME NEW d \in Conns, NEW i \in 1 .. Len(r.conn[d].acceptmbox)
             PROVE  Unknown(r, N, r.conn[d].acceptmbox[i]) /\ Once(r, d, i)
  BY DEF PendOK
<1> DEFINE n == w.conn[d].acceptmbox[i]
<1>1. r.conn[d].acceptmbox = w.conn[d].acceptmbox /\ i \in 1 .. Len(w.conn[d].acceptmbox)
  OBVIOUS
<1>2. n \in Conns
  <2>1. w.conn[d] \in ConnType
    BY DEF Worlds
  <2>2. w.conn[d].acceptmbox \in Seq(Conns)
    BY <2>1 DEF ConnType
  <2> QED
    BY <1>1, <2>2
<1>3. Unknown(w, O, n) /\ Once(w, d, i)
  BY <1>1 DEF PendOK
<1>4. Unknown(r, N, n)
  <2>1. CASE n = c
    BY <1>3, <2>1
  <2>2. CASE n # c
    <3>1. None \notin Conns
      BY NetconnAssumption
    <3> HIDE DEF n
    <3> QED
      BY <1>2, <1>3, <2>2, <3>1 DEF Unknown, SameBut
  <2> QED
    BY <2>1, <2>2
<1>5. Once(r, d, i)
  BY <1>1, <1>3 DEF Once
<1> QED
  BY <1>1, <1>4, <1>5

(* NULL is no object, and a pcb is a listening one or not. *)
LEMMA NoneApart ==
  /\ None \notin Conns /\ None \notin AllPcbs /\ None \notin Threads /\ None \notin Pcbs /\ None \notin ListenPcbs
  /\ Pcbs \subseteq AllPcbs /\ ListenPcbs \subseteq AllPcbs
  /\ \A p \in AllPcbs : p \in ListenPcbs <=> p \notin Pcbs
  BY NetconnAssumption DEF AllPcbs

(* The parts of a world have their types. *)
LEMMA WorldTypes ==
  ASSUME NEW w \in Worlds
  PROVE  /\ \A c \in Conns : w.conn[c] \in ConnType
         /\ \A p \in AllPcbs : w.pcb[p] \in PcbType
         /\ \A t \in Threads : w.th[t] \in ThType
  BY DEF Worlds

(* The structures as they are allocated have their types. *)
LEMMA Blank ==
  FreeConn \in ConnType /\ NewConn \in ConnType /\ FreePcb \in PcbType /\ IdleThread \in ThType
<1>1. 0 \in 0 .. SndBuf /\ 0 \in 0 .. Wnd
  BY NetconnAssumption
<1>2. << >> \in Seq(Conns) /\ << >> \in Seq({"data", "null"})
  OBVIOUS
<1>3. FreeConn \in ConnType /\ NewConn \in ConnType
  BY <1>2 DEF FreeConn, NewConn, ConnType, ConnStates
<1>4. FreePcb \in PcbType
  BY <1>1 DEF FreePcb, PcbType, PcbStates
<1>5. IdleThread \in ThType
  BY DEF IdleThread, ThType, Calls, Errors
<1> QED
  BY <1>3, <1>4, <1>5

(* A new netconn has no pcb, no operation and no token. *)
LEMMA NewIs ==
  /\ NewConn.alive /\ NewConn.pcb = None /\ NewConn.state = "NONE" /\ NewConn.msg = None /\ NewConn.sem = 0
  /\ ~NewConn.nbc /\ ~NewConn.avalid /\ NewConn.acceptmbox = << >> /\ NewConn.past = {}
  BY DEF NewConn, FreeConn

(* The pcb of a netconn is no other's. *)
LEMMA OneOwner ==
  ASSUME NEW w, NEW W, NEW O, NInv(w, W, O), NEW c \in Conns, NEW d \in Conns,
         w.conn[c].pcb # None, w.conn[c].pcb = w.conn[d].pcb
  PROVE  c = d
  BY DEF NInv, ConnOK, Bound

(* The usual step: what the application has and what is not accepted yet   *)
(* stay as they are.                                                       *)
Plain(w, W, O, r, V, c, p, t) ==
  /\ r \in Worlds /\ V \subseteq Threads
  /\ c \in Conns /\ p \in AllPcbs \cup {None} /\ t \in Threads \cup {None}
  /\ Elsewhere(w, r, c, p, t) /\ Mine(w, c, p, t) /\ r.conn[c].pcb \in {p, None}
  /\ (t # None => r.th[t].c = w.th[t].c) /\ SameBut(V, W, t)
  /\ ConnOK(r, V, c) /\ (p # None => PcbOK(r, p))
  /\ \A u \in Threads : u = t \/ r.th[u].c = c => ThOK(r, V, O, u)
  /\ r.conn[c].alive = w.conn[c].alive /\ r.conn[c].acceptmbox = w.conn[c].acceptmbox
  /\ Unknown(w, O, c) => r.conn[c].state = "NONE"

(* The usual step keeps the invariant. *)
LEMMA Step ==
  ASSUME NEW w, NEW W, NEW O, NInv(w, W, O), NEW r, NEW V, NEW c, NEW p, NEW t,
         Plain(w, W, O, r, V, c, p, t)
  PROVE  NInv(r, V, O)
<1>h. /\ r \in Worlds /\ V \subseteq Threads
      /\ c \in Conns /\ p \in AllPcbs \cup {None} /\ t \in Threads \cup {None}
      /\ Elsewhere(w, r, c, p, t) /\ Mine(w, c, p, t) /\ r.conn[c].pcb \in {p, None}
      /\ (t # None => r.th[t].c = w.th[t].c) /\ SameBut(V, W, t)
      /\ ConnOK(r, V, c) /\ (p # None => PcbOK(r, p))
      /\ \A u \in Threads : u = t \/ r.th[u].c = c => ThOK(r, V, O, u)
      /\ r.conn[c].alive = w.conn[c].alive /\ r.conn[c].acceptmbox = w.conn[c].acceptmbox
      /\ Unknown(w, O, c) => r.conn[c].state = "NONE"
  BY DEF Plain
<1>1. \A u \in Threads : r.th[u].c = w.th[u].c
  BY <1>h, NoneApart DEF Elsewhere
<1>2. PendOK(r, O)
  <2>1. \A d \in Conns : r.conn[d].acceptmbox = w.conn[d].acceptmbox
    BY <1>h DEF Elsewhere
  <2>2. \A d \in Conns : d # c => r.conn[d].alive = w.conn[d].alive /\ r.conn[d].state = w.conn[d].state
    BY <1>h DEF Elsewhere
  <2>3. Unknown(w, O, c) => Unknown(r, O, c)
    BY <1>h, <1>1 DEF Unknown
  <2>4. PendOK(w, O) /\ w \in Worlds /\ SameBut(O, O, c)
    BY DEF NInv, SameBut
  <2> QED
    BY <1>h, <1>1, <2>1, <2>2, <2>3, <2>4, PendKept
<1>3. O \subseteq Conns /\ SameBut(O, O, c) /\ (c \in O => r.conn[c].alive)
  BY <1>h DEF NInv, SameBut
<1>4. t # None => r.th[t].c \in {c, None}
  BY <1>h DEF Mine
<1>5. Keeps(w, W, O, r, V, O, c, p, t)
  BY <1>h, <1>2, <1>3, <1>4 DEF Keeps
<1> QED
  BY <1>5, Local

(* What the tcpip thread knows of the caller whose message it takes. *)
LEMMA CallOf ==
  ASSUME NEW w, NEW W, NEW O, NInv(w, W, O), NEW t \in W, NEW c, c = w.th[t].c
  PROVE  /\ t \in Threads /\ c \in Conns /\ w.conn[c].alive /\ w.conn[c].msg = None /\ w.conn[c].sem = 0
         /\ w.conn[c].state \in {"NONE", "LISTEN", "CONNECT"} /\ (w.conn[c].state = "CONNECT" => w.conn[c].nbc)
         /\ Fresh(w, w.th[t]) /\ ~Unknown(w, O, c)
         /\ \A u \in Threads : w.th[u].c = c => u = t
         /\ w.conn[c] \in ConnType /\ w.th[t] \in ThType
<1>1. t \in Threads /\ ThOK(w, W, O, t) /\ w \in Worlds
  BY DEF NInv
<1>2. Fresh(w, w.th[t]) /\ w.th[t].pc = "wait" /\ c # None
  BY <1>1 DEF ThOK, Fresh
<1>3. w.th[t] \in ThType /\ c \in Conns
  BY <1>1, <1>2, WorldTypes DEF ThType
<1>4. w.conn[c] \in ConnType /\ ConnOK(w, W, c)
  BY <1>1, <1>3, WorldTypes DEF NInv
<1>5. \A u \in Threads : w.th[u].c = c => u = t
  BY <1>1, <1>2 DEF ThOK
<1>6. w.conn[c].msg = None
  <2>1. w.conn[c].msg # None => w.conn[c].msg \in Threads
    BY <1>4 DEF ConnType
  <2> QED
    BY Zenon, <1>4, <1>5, <2>1 DEF ConnOK, Message, InCall
<1>7. w.conn[c].sem = 0
  <2>1. ~HasAnswer(w, W, w.conn[c], c)
    BY <1>5 DEF HasAnswer, InCall
  <2> QED
    BY <1>4, <2>1 DEF ConnOK, Signal
<1>8. w.conn[c].state \in {"NONE", "LISTEN", "CONNECT"} /\ (w.conn[c].state = "CONNECT" => w.conn[c].nbc)
  BY Zenon, <1>4, <1>6 DEF ConnOK, Message, ConnType, ConnStates
<1> QED
  BY <1>1, <1>2, <1>3, <1>4, <1>5, <1>6, <1>7, <1>8 DEF ThOK, Unknown

Reply(m, r, e) ==
  /\ r.pc = m.pc /\ r.c = m.c /\ r.err = e
  /\ r.fn = IF m.fn \in {"new", "delete", "recv_eof"} THEN m.fn ELSE "none"

(* msg->err is written and nothing else of the message. *)
LEMMA AnsweredIs ==
  ASSUME NEW m \in ThType, NEW e \in Errors
  PROVE  Answered(m, e) \in ThType /\ Reply(m, Answered(m, e), e)
  BY DEF Answered, ThType, Calls, RDWR, Reply

(* TCPIP_APIMSG_ACK answers the call and leaves the invariant. *)
(* A netconn whose op_completed is signalled. *)
Signalled(k) == [k EXCEPT !.sem = @ + 1]

(* k and h agree on what the invariant says of a netconn and its pcb. *)
Like(k, h) ==
  /\ k.alive = h.alive /\ k.pcb = h.pcb /\ k.state = h.state /\ k.msg = h.msg /\ k.nbc = h.nbc
  /\ k.avalid = h.avalid /\ k.acceptmbox = h.acceptmbox /\ k.offset = h.offset
  /\ ("half" \in k.past <=> "half" \in h.past) /\ ("lost" \in k.past <=> "lost" \in h.past)

(* sys_sem_signal(&conn->op_completed) adds a token and nothing else. *)
LEMMA SignalledIs ==
  ASSUME NEW h \in ConnType, NEW k, k = Signalled(h)
  PROVE  k \in ConnType /\ Like(k, h) /\ k.sem = h.sem + 1
<1>1. h.sem \in Nat
  BY DEF ConnType
<1>2. h.sem + 1 \in Nat
  BY <1>1
<1> QED
  BY <1>2 DEF ConnType, Signalled, Like

(* What TCPIP_APIMSG_ACK changes. *)
LEMMA AckIs ==
  ASSUME NEW w \in Worlds, NEW t \in Threads, NEW c \in Conns, c = w.th[t].c, NEW e \in Errors, NEW r, r = Ack(w, t, e)
  PROVE  /\ r \in Worlds /\ r.pcb = w.pcb /\ Elsewhere(w, r, c, None, t)
         /\ r.th[t] = Answered(w.th[t], e)
         /\ r.conn[c] = Signalled(w.conn[c])
<1> DEFINE k == Signalled(w.conn[c])
           m == Answered(w.th[t], e)
           s == SetConn(w, c, k)
<1>1. w.conn[c] \in ConnType /\ w.th[t] \in ThType
  BY WorldTypes
<1>2. k \in ConnType
  BY <1>1, SignalledIs
<1>3. m \in ThType
  BY <1>1, AnsweredIs
<1>4. r = SetTh(s, t, m)
  BY DEF Ack, Signalled
<1> HIDE DEF k, m, s
<1>5. /\ s \in Worlds /\ s.pcb = w.pcb /\ s.th = w.th
      /\ s.conn[c] = k /\ \A d \in Conns : d # c => s.conn[d] = w.conn[d]
  BY <1>2, SetConnIs DEF s
<1>6. /\ r \in Worlds /\ r.conn = s.conn /\ r.pcb = s.pcb
      /\ r.th[t] = m /\ \A u \in Threads : u # t => r.th[u] = s.th[u]
  BY <1>3, <1>4, <1>5, SetThIs
<1> QED
  BY <1>5, <1>6 DEF Elsewhere, k, m

(* A message that is answered at once leaves the mailbox with its answer. *)
LEMMA AckStep ==
  ASSUME NEW w, NEW W, NEW O, NInv(w, W, O), NEW t \in W, NEW e \in Errors, NEW c, c = w.th[t].c,
         w.th[t].fn = "delete" => w.conn[c].pcb = None /\ w.conn[c].acceptmbox = << >>,
         NEW r, r = Ack(w, t, e)
  PROVE  NInv(r, W \ {t}, O)
<1> DEFINE V == W \ {t}
           p == w.conn[c].pcb
           k == r.conn[c]
<1>1. /\ t \in Threads /\ c \in Conns /\ w.conn[c].alive /\ w.conn[c].msg = None /\ w.conn[c].sem = 0
      /\ Fresh(w, w.th[t]) /\ ~Unknown(w, O, c)
      /\ \A u \in Threads : w.th[u].c = c => u = t
      /\ w.conn[c] \in ConnType /\ w.th[t] \in ThType
  BY CallOf
<1>2. w \in Worlds /\ W \subseteq Threads
  BY DEF NInv
<1>3. /\ r \in Worlds /\ r.pcb = w.pcb /\ Elsewhere(w, r, c, None, t)
      /\ r.th[t] = Answered(w.th[t], e)
      /\ r.conn[c] = Signalled(w.conn[c])
  BY <1>1, <1>2, AckIs
<1>4. /\ r.th[t] \in ThType /\ r.th[t].pc = w.th[t].pc /\ r.th[t].c = c /\ r.th[t].err = e
      /\ r.th[t].fn = IF w.th[t].fn \in {"new", "delete", "recv_eof"} THEN w.th[t].fn ELSE "none"
  <2>1. r.th[t] \in ThType /\ Reply(w.th[t], r.th[t], e)
    BY <1>1, <1>3, AnsweredIs
  <2> QED
    BY <2>1 DEF Reply
<1>5. /\ k.sem = 1 /\ k.alive = w.conn[c].alive /\ k.pcb = p /\ k.state = w.conn[c].state /\ k.msg = None
      /\ k.nbc = w.conn[c].nbc /\ k.avalid = w.conn[c].avalid /\ k.acceptmbox = w.conn[c].acceptmbox
      /\ k.offset = w.conn[c].offset
      /\ ("half" \in k.past <=> "half" \in w.conn[c].past) /\ ("lost" \in k.past <=> "lost" \in w.conn[c].past)
  <2>1. Like(k, w.conn[c]) /\ k.sem = w.conn[c].sem + 1
    BY <1>1, <1>3, SignalledIs
  <2> HIDE DEF k
  <2> QED
    BY <1>1, <2>1 DEF Like
<1>6. Elsewhere(w, r, c, p, t) /\ p \in AllPcbs \cup {None}
  BY <1>1, <1>3 DEF Elsewhere, ConnType
<1>7. Mine(w, c, p, t)
  BY SMTT(40), <1>1, OneOwner DEF Mine
<1>8. ConnOK(w, W, c) /\ (p # None => PcbOK(w, p))
  BY SMTT(40), <1>1, <1>6 DEF NInv
<1> HIDE DEF k, p
<1>9. ConnOK(r, V, c)
  <2>1. Dead(k) /\ Bound(r, k, c)
    BY Zenon, <1>1, <1>3, <1>5, <1>8 DEF ConnOK, Dead, Bound, p
  <2>2. Stage(r, k)
    BY Zenon, <1>3, <1>5, <1>8 DEF ConnOK, Stage, p
  <2>3. Message(r, V, k, c)
    BY Zenon, <1>1, <1>5, <1>8 DEF ConnOK, Message
  <2>4. HasAnswer(r, V, k, c)
    <3>1. InCall(r.th[t], c) /\ t \notin V /\ k.msg # t
      BY <1>1, <1>4, <1>5, NoneApart DEF InCall, Fresh
    <3> QED
      BY <1>1, <3>1 DEF HasAnswer
  <2>5. Signal(r, V, k, c)
    BY <1>5, <2>4 DEF Signal
  <2> QED
    BY <2>1, <2>2, <2>3, <2>5 DEF ConnOK, k
<1>10. p # None => PcbOK(r, p)
  <2>1. \A d \in Conns : r.conn[d].pcb = w.conn[d].pcb
    BY <1>3, <1>5 DEF Elsewhere, k, p
  <2>2. p # None => r.pcb[p].arg \in Conns \cup {None}
    BY SMTT(40), <1>3, <1>6, WorldTypes DEF PcbType
  <2> QED
    BY <1>3, <1>8, <2>1, <2>2 DEF PcbOK
<1>11. ASSUME NEW u \in Threads, u = t \/ r.th[u].c = c PROVE ThOK(r, V, O, u)
  <2>1. u = t
    BY <1>1, <1>3, <1>11 DEF Elsewhere
  <2>2. ThOK(w, W, O, t)
    BY <1>1 DEF NInv
  <2>3. \A v \in Threads : r.th[v].c = c => v = t
    BY <1>1, <1>3 DEF Elsewhere
  <2>4. w.th[t].fn = "new" => w.conn[c].pcb = None /\ w.conn[c].acceptmbox = << >>
    BY <1>1 DEF Fresh, NewConn, FreeConn
  <2>5. k.alive /\ k.acceptmbox = w.conn[c].acceptmbox /\ k.pcb = w.conn[c].pcb
    BY <1>1, <1>5 DEF p
  <2> QED
    BY <1>1, <1>4, <2>1, <2>2, <2>3, <2>4, <2>5 DEF ThOK, k
<1> QED
  <2>1. SameBut(V, W, t) /\ V \subseteq Threads
    BY <1>2 DEF SameBut
  <2> HIDE DEF V
  <2>2. r.conn[c].pcb \in {p, None} /\ r.th[t].c = w.th[t].c
    BY <1>4, <1>5 DEF k
  <2>3. r.conn[c].alive = w.conn[c].alive /\ r.conn[c].acceptmbox = w.conn[c].acceptmbox
    BY SMTT(40), <1>5 DEF k
  <2>4. Plain(w, W, O, r, V, c, p, t)
    BY <1>1, <1>3, <1>6, <1>7, <1>9, <1>10, <1>11, <2>1, <2>2, <2>3 DEF Plain
  <2>5. NInv(r, V, O)
    BY <2>4, Step
  <2> QED
    BY <2>5 DEF V

-----------------------------------------------------------------------------
(* The callers of operations, queued or in progress *)

(* Thread t is in a call on netconn c that has not been answered. *)
Caller(w, O, c, t) ==
  /\ c \in Conns /\ t \in Threads /\ InCall(w.th[t], c)
  /\ w.conn[c].alive /\ w.conn[c].sem = 0 /\ ~Unknown(w, O, c)
  /\ \A u \in Threads : w.th[u].c = c => u = t

(* The caller of a message in the mailbox waits for an answer. *)
LEMMA TakenCaller ==
  ASSUME NEW w, NEW W, NEW O, NInv(w, W, O), NEW t \in W
  PROVE  Caller(w, O, w.th[t].c, t)
<1> DEFINE c == w.th[t].c
<1>1. /\ t \in Threads /\ c \in Conns /\ w.conn[c].alive /\ w.conn[c].sem = 0
      /\ Fresh(w, w.th[t]) /\ ~Unknown(w, O, c)
      /\ \A u \in Threads : w.th[u].c = c => u = t
  BY CallOf
<1> QED
  BY <1>1 DEF Caller, InCall, Fresh

(* So does the caller of an operation in progress, whose message was taken. *)
LEMMA PendingCaller ==
  ASSUME NEW w, NEW W, NEW O, NInv(w, W, O), NEW c \in Conns, w.conn[c].msg # None
  PROVE  Caller(w, O, c, w.conn[c].msg) /\ w.conn[c].msg \notin W
<1> DEFINE t == w.conn[c].msg
<1>1. w \in Worlds /\ ConnOK(w, W, c)
  BY DEF NInv
<1>2. t \in Threads
  BY <1>1, WorldTypes DEF ConnType
<1>3. InCall(w.th[t], c) /\ t \notin W
  BY <1>1 DEF ConnOK, Message
<1>4. ThOK(w, W, O, t)
  BY <1>2 DEF NInv
<1>5. /\ w.conn[c].alive
      /\ \A u \in Threads : w.th[u].c = c => u = t
  BY <1>3, <1>4, NoneApart DEF ThOK, InCall
<1>6. ~Unknown(w, O, c)
  BY <1>2, <1>3 DEF Unknown, InCall
<1>7. ~HasAnswer(w, W, w.conn[c], c)
  BY <1>5 DEF HasAnswer, InCall
<1>8. w.conn[c].sem = 0
  BY <1>1, <1>7 DEF ConnOK, Signal
<1> QED
  BY <1>2, <1>3, <1>5, <1>6, <1>8 DEF Caller

(* An operation ends: its netconn is idle again and the caller can go on. *)
Ends(w, O, r, c, p, t) ==
  /\ r \in Worlds /\ p \in AllPcbs \cup {None} /\ Caller(w, O, c, t)
  /\ Elsewhere(w, r, c, p, t) /\ Mine(w, c, p, t) /\ r.conn[c].pcb \in {p, None}
  /\ r.th[t].pc = "wait" /\ r.th[t].c = c /\ r.th[t].fn \in {w.th[t].fn, "none"}
  /\ r.th[t].fn = "delete" \/ (r.th[t].fn = "new" /\ r.th[t].err # "OK")
       => r.conn[c].pcb = None /\ r.conn[c].acceptmbox = << >>
  /\ r.conn[c].msg = None /\ r.conn[c].state = "NONE" /\ r.conn[c].sem = 1
  /\ r.conn[c].alive = w.conn[c].alive /\ r.conn[c].acceptmbox = w.conn[c].acceptmbox
  /\ Bound(r, r.conn[c], c) /\ Stage(r, r.conn[c]) /\ (p # None => PcbOK(r, p))

(* An operation that ends leaves the invariant. *)
LEMMA EndStep ==
  ASSUME NEW w, NEW W, NEW O, NInv(w, W, O), NEW r, NEW c, NEW p, NEW t, Ends(w, O, r, c, p, t)
  PROVE  NInv(r, W \ {t}, O)
<1> DEFINE V == W \ {t}
           k == r.conn[c]
<1>1. /\ r \in Worlds /\ p \in AllPcbs \cup {None} /\ Caller(w, O, c, t)
      /\ Elsewhere(w, r, c, p, t) /\ Mine(w, c, p, t) /\ k.pcb \in {p, None}
      /\ r.th[t].pc = "wait" /\ r.th[t].c = c /\ r.th[t].fn \in {w.th[t].fn, "none"}
      /\ (r.th[t].fn = "delete" \/ (r.th[t].fn = "new" /\ r.th[t].err # "OK")
            => k.pcb = None /\ k.acceptmbox = << >>)
      /\ k.msg = None /\ k.state = "NONE" /\ k.sem = 1
      /\ k.alive = w.conn[c].alive /\ k.acceptmbox = w.conn[c].acceptmbox
      /\ Bound(r, k, c) /\ Stage(r, k) /\ (p # None => PcbOK(r, p))
  BY DEF Ends
<1> HIDE DEF k
<1>2. /\ c \in Conns /\ t \in Threads /\ InCall(w.th[t], c)
      /\ w.conn[c].alive /\ ~Unknown(w, O, c)
      /\ \A u \in Threads : w.th[u].c = c => u = t
  BY <1>1 DEF Caller
<1>3. \A u \in Threads : r.th[u].c = c => u = t
  BY <1>1, <1>2 DEF Elsewhere
<1>4. ConnOK(r, V, c)
  <2>1. Dead(k)
    BY <1>1, <1>2 DEF Dead
  <2>2. Message(r, V, k, c)
    BY <1>1 DEF Message
  <2>3. HasAnswer(r, V, k, c)
    <3>1. InCall(r.th[t], c) /\ t \notin V /\ k.msg # t
      BY <1>1, <1>2, NoneApart DEF InCall
    <3> QED
      BY <1>2, <3>1 DEF HasAnswer
  <2>4. Signal(r, V, k, c)
    BY <1>1, <2>3 DEF Signal
  <2> QED
    BY <1>1, <2>1, <2>2, <2>4 DEF ConnOK, k
<1>5. ThOK(r, V, O, t)
  <2>1. ThOK(w, W, O, t)
    BY <1>2 DEF NInv
  <2>2. c \notin O \/ r.th[t].fn \notin {"new", "delete"}
    BY <1>1, <1>2, <2>1 DEF ThOK, InCall
  <2>3. c # None /\ k.alive
    BY <1>1, <1>2, NoneApart
  <2> QED
    BY <1>1, <1>3, <2>2, <2>3 DEF ThOK, k
<1>7. SameBut(V, W, t) /\ V \subseteq Threads
  BY DEF SameBut, NInv
<1> HIDE DEF V
<1>8. r.th[t].c = w.th[t].c
  BY SMTT(40), <1>1, <1>2 DEF InCall
<1>9. Plain(w, W, O, r, V, c, p, t)
  BY <1>1, <1>2, <1>3, <1>4, <1>5, <1>7, <1>8 DEF Plain, k
<1>10. NInv(r, V, O)
  BY <1>9, Step
<1> QED
  BY <1>10 DEF V

(* The same when the message was not in the mailbox. *)
LEMMA EndPending ==
  ASSUME NEW w, NEW W, NEW O, NInv(w, W, O), NEW r, NEW c, NEW p, NEW t, t \notin W, Ends(w, O, r, c, p, t)
  PROVE  NInv(r, W, O)
<1>1. NInv(r, W \ {t}, O)
  BY EndStep
<1>2. W \ {t} = W
  OBVIOUS
<1> QED
  BY <1>1, <1>2

(* What Complete makes of a netconn. *)
Idled(k) == [k EXCEPT !.msg = None, !.state = "NONE", !.sem = @ + 1]

BackToIdle(h, k) ==
  /\ k.msg = None /\ k.state = "NONE" /\ k.sem = h.sem + 1
  /\ k.alive = h.alive /\ k.pcb = h.pcb /\ k.nbc = h.nbc /\ k.avalid = h.avalid
  /\ k.acceptmbox = h.acceptmbox /\ k.past = h.past

(* What ends of the operation in a netconn. *)
LEMMA IdledIs ==
  ASSUME NEW h \in ConnType
  PROVE  Idled(h) \in ConnType /\ BackToIdle(h, Idled(h))
<1>1. h.sem + 1 \in Nat
  BY DEF ConnType
<1> QED
  BY <1>1 DEF ConnType, ConnStates, Idled, BackToIdle

Completed(w, r, c, t, e) ==
  /\ r \in Worlds /\ r.pcb = w.pcb /\ Elsewhere(w, r, c, None, t)
  /\ Reply(w.th[t], r.th[t], e) /\ BackToIdle(w.conn[c], r.conn[c])

(* current_msg is answered, the netconn idle, its caller can go on. *)
LEMMA CompleteIs ==
  ASSUME NEW w \in Worlds, NEW c \in Conns, NEW e \in Errors, NEW t \in Threads, t = w.conn[c].msg
  PROVE  Completed(w, Complete(w, c, e), c, t, e)
<1> DEFINE k == Idled(w.conn[c])
           m == Answered(w.th[t], e)
           s == SetConn(w, c, k)
           r == Complete(w, c, e)
<1>1. w.conn[c] \in ConnType /\ w.th[t] \in ThType
  BY WorldTypes
<1>2. k \in ConnType /\ BackToIdle(w.conn[c], k)
  BY <1>1, IdledIs
<1>3. m \in ThType /\ Reply(w.th[t], m, e)
  BY <1>1, AnsweredIs
<1>4. r = SetTh(s, t, m)
  BY DEF Complete, Idled
<1> HIDE DEF k, m, s, r
<1>5. /\ s \in Worlds /\ s.pcb = w.pcb /\ s.th = w.th
      /\ s.conn[c] = k /\ \A d \in Conns : d # c => s.conn[d] = w.conn[d]
  BY <1>2, SetConnIs DEF s
<1>6. /\ r \in Worlds /\ r.conn = s.conn /\ r.pcb = s.pcb
      /\ r.th[t] = m /\ \A u \in Threads : u # t => r.th[u] = s.th[u]
  BY <1>3, <1>4, <1>5, SetThIs
<1> QED
  BY <1>2, <1>3, <1>5, <1>6 DEF Completed, Elsewhere, r

-----------------------------------------------------------------------------
(* Pcbs that no netconn has, and those that TCP takes away *)

Unowned(w, p) == \A d \in Conns : w.conn[d].pcb # p

(* The pcbs of netconns are in these states, those of listeners in LISTEN. *)
LEMMA OwnedIs ==
  ASSUME NEW w, NEW W, NEW O, NInv(w, W, O), NEW p \in Pcbs,
         ~w.pcb[p].err \/ ~w.pcb[p].poll \/ w.pcb[p].st \notin Attached \cup Leaving
  PROVE  Unowned(w, p)
  BY NoneApart DEF NInv, ConnOK, Bound, Unowned

(* A pcb that no netconn has may change as it likes. *)
LEMMA Loose ==
  ASSUME NEW w, NEW W, NEW O, NInv(w, W, O), NEW r \in Worlds, NEW p \in AllPcbs,
         r.conn = w.conn, r.th = w.th, \A x \in AllPcbs : x # p => r.pcb[x] = w.pcb[x],
         Unowned(w, p), PcbOK(r, p)
  PROVE  NInv(r, W, O)
<1>1. ASSUME NEW d \in Conns PROVE ConnOK(r, W, d)
  <2>1. ConnOK(w, W, d) /\ r.conn[d] = w.conn[d] /\ w.conn[d].pcb # p
    BY DEF NInv, Unowned
  <2>2. w.conn[d].pcb # None => w.conn[d].pcb \in AllPcbs
    BY WorldTypes DEF NInv, ConnType
  <2>3. w.conn[d].pcb # None => r.pcb[w.conn[d].pcb] = w.pcb[w.conn[d].pcb]
    BY <2>1, <2>2
  <2>4. Bound(r, w.conn[d], d)
    BY <2>1, <2>3 DEF ConnOK, Bound
  <2>5. Stage(r, w.conn[d])
    <3>1. Stage(w, w.conn[d])
      BY <2>1 DEF ConnOK
    <3> QED
      BY <2>3, <3>1, NoneApart DEF Stage
  <2>6. Message(r, W, w.conn[d], d) /\ Signal(r, W, w.conn[d], d)
    BY <2>1, <2>3 DEF ConnOK, Message, Signal, HasAnswer
  <2> QED
    BY <2>1, <2>4, <2>5, <2>6 DEF ConnOK
<1>2. ASSUME NEW x \in AllPcbs PROVE PcbOK(r, x)
  BY <1>2 DEF NInv, PcbOK
<1>3. ASSUME NEW t \in Threads PROVE ThOK(r, W, O, t)
  BY <1>3 DEF NInv, ThOK, Fresh
<1>4. PendOK(r, O)
  BY DEF NInv, PendOK, Unknown, Once
<1> QED
  BY <1>1, <1>2, <1>3, <1>4 DEF NInv

(* What err_tcp does to a netconn. *)
LEMMA BrokenIs ==
  ASSUME NEW h \in ConnType, ~h.avalid, NEW k, k = Broken(h)
  PROVE  /\ k \in ConnType /\ k.pcb = None /\ k.state = "NONE" /\ k.alive = h.alive /\ k.msg = h.msg
         /\ k.avalid = h.avalid /\ k.acceptmbox = h.acceptmbox /\ k.sem = h.sem /\ k.past = {}
<1> DEFINE rb == Trypost(h.recvmbox, h.rvalid, RecvMbox, "null")
           ab == Trypost(h.acceptmbox, h.avalid, AcceptMbox, None)
           nb == h.nbc /\ ~Busy(h)
<1>1. h.recvmbox \in Seq({"data", "null"}) /\ h.acceptmbox \in Seq(Conns)
  BY DEF ConnType
<1>2. rb \in Seq({"data", "null"})
  BY <1>1 DEF Trypost
<1>3. ab = h.acceptmbox
  BY DEF Trypost
<1>4. nb \in BOOLEAN
  OBVIOUS
<1>5. k = [h EXCEPT !.pcb = None, !.fatal = TRUE, !.state = "NONE", !.wr = TRUE, !.nbc = nb,
                    !.past = {}, !.recvmbox = rb, !.acceptmbox = ab]
  BY DEF Broken
<1> HIDE DEF rb, ab, nb
<1>6. /\ k.pcb = None /\ k.state = "NONE" /\ k.alive = h.alive /\ k.msg = h.msg
      /\ k.avalid = h.avalid /\ k.acceptmbox = h.acceptmbox /\ k.sem = h.sem /\ k.past = {}
  BY <1>3, <1>5 DEF ConnType
<1>7. ab \in Seq(Conns) /\ None \in AllPcbs \cup {None} /\ "NONE" \in ConnStates
  BY <1>1, <1>3 DEF ConnStates
<1>9. {} \in SUBSET {"half", "eof", "lost"}
  OBVIOUS
<1>8. k \in ConnType
  BY ZenonT(60), <1>2, <1>4, <1>5, <1>7, <1>9 DEF ConnType
<1> QED
  BY <1>6, <1>8

(* The pcb is gone, its netconn and the caller know, nobody else notices. *)
Gone(w, W, r, p) ==
  /\ r.pcb[p] = FreePcb /\ Unowned(r, p)
  /\ \A x \in AllPcbs : x # p => r.pcb[x] = w.pcb[x]
  /\ \A d \in Conns : w.conn[d].pcb # p => r.conn[d] = w.conn[d]
  /\ \A u \in W : r.th[u] = w.th[u]

(* A pcb back in its pool refers to nobody. *)
LEMMA FreePcbOK ==
  ASSUME NEW r, NEW p, r.pcb[p] = FreePcb
  PROVE  PcbOK(r, p)
  BY DEF FreePcb, PcbOK, Callback

(* What becomes of a netconn whose pcb goes and says nothing. *)
LEMMA LostIs ==
  ASSUME NEW h \in ConnType, NEW k, k = Lost(h)
  PROVE  /\ k \in ConnType /\ k.pcb = None /\ k.past = h.past \cup {"lost"}
         /\ k.alive = h.alive /\ k.state = h.state /\ k.msg = h.msg /\ k.offset = h.offset /\ k.nbc = h.nbc
         /\ k.avalid = h.avalid /\ k.acceptmbox = h.acceptmbox /\ k.sem = h.sem
<1>1. h.past \cup {"lost"} \in SUBSET {"half", "eof", "lost"}
  BY DEF ConnType
<1> QED
  BY <1>1 DEF ConnType, Lost

(* A pcb that goes unnoticed is nobody's, or its netconn had shut its      *)
(* sending side, and no operation but another such shutdown depends on it. *)
LEMMA ReleasedStep ==
  ASSUME NEW w, NEW W, NEW O, NInv(w, W, O), NEW p \in Pcbs, w.pcb[p].st \in {"LAST_ACK", "TIME_WAIT"},
         NEW r, r = Released(w, p)
  PROVE  NInv(r, W, O) /\ Gone(w, W, r, p)
<1> DEFINE q == w.pcb[p]
           w1 == SetPcb(w, p, FreePcb)
<1>1. w \in Worlds /\ p \in AllPcbs /\ q \in PcbType
  BY NoneApart, WorldTypes DEF NInv
<1>2. /\ w1 \in Worlds /\ w1.conn = w.conn /\ w1.th = w.th
      /\ w1.pcb[p] = FreePcb /\ \A x \in AllPcbs : x # p => w1.pcb[x] = w.pcb[x]
  BY <1>1, Blank, SetPcbIs
<1>3. CASE ~q.err
  <2>1. r = w1
    BY <1>3 DEF Released
  <2>2. Unowned(w, p)
    BY <1>3, OwnedIs
  <2> HIDE DEF w1
  <2>3. PcbOK(w1, p)
    BY <1>2, FreePcbOK
  <2>4. NInv(w1, W, O)
    BY <1>1, <1>2, <2>2, <2>3, Loose
  <2> QED
    BY <1>2, <2>1, <2>2, <2>4 DEF Gone, Unowned
<1>4. CASE q.err
  <2> DEFINE c == q.arg
             h == w.conn[c]
             k == Lost(h)
  <2>1. c \in Conns /\ h.pcb = p /\ PcbOK(w, p) /\ r = SetConn(w1, c, k)
    BY <1>1, <1>4 DEF NInv, PcbOK, Callback, PcbType, Released
  <2>2. h \in ConnType /\ ConnOK(w, W, c)
    BY <1>1, <2>1, WorldTypes DEF NInv
  <2>3. ~h.avalid /\ h.state # "LISTEN" /\ h.state # "CONNECT" /\ ~h.nbc /\ h.acceptmbox = << >>
    <3>1. Stage(w, h) /\ p \notin ListenPcbs /\ p # None /\ w.pcb[p].st # "SYN_SENT"
      BY <2>2, NoneApart DEF ConnOK
    <3> QED
      BY Zenon, <2>1, <3>1 DEF Stage
  <2>4. "half" \in h.past
    BY <1>1, <2>1, <2>2, NoneApart DEF ConnOK, Bound, Leaving
  <2> HIDE DEF w1
  <2>5. /\ k \in ConnType /\ k.pcb = None /\ k.past = h.past \cup {"lost"}
        /\ k.alive = h.alive /\ k.state = h.state /\ k.msg = h.msg /\ k.offset = h.offset /\ k.nbc = h.nbc
        /\ k.avalid = h.avalid /\ k.acceptmbox = h.acceptmbox /\ k.sem = h.sem
    BY <2>2, LostIs
  <2> HIDE DEF k
  <2>6. /\ r \in Worlds /\ r.pcb = w1.pcb /\ r.th = w.th
        /\ r.conn[c] = k /\ \A d \in Conns : d # c => r.conn[d] = w.conn[d]
    BY <1>2, <2>1, <2>5, SetConnIs
  <2>7. PcbOK(r, p)
    BY <1>2, <2>6, FreePcbOK
  <2>8. Elsewhere(w, r, c, p, None)
    BY <1>2, <2>6 DEF Elsewhere
  <2>9. ConnOK(r, W, c)
    <3>1. Dead(k)
      <4>1. FreeConn.pcb = None /\ p # None
        BY <1>1, NoneApart DEF FreeConn
      <4>2. h.alive
        BY Zenon, <2>1, <2>2, <4>1 DEF ConnOK, Dead
      <4> QED
        BY <2>5, <4>2 DEF Dead
    <3>2. Bound(r, k, c)
      BY <2>4, <2>5, NoneApart DEF Bound
    <3>3. Stage(r, k)
      BY <2>3, <2>5, NoneApart DEF Stage
    <3>4. Message(r, W, k, c)
      <4>1. Message(w, W, h, c)
        BY <2>2 DEF ConnOK
      <4>2. h.state = "CLOSE" => w.th[h.msg].shut = {"WR"} /\ w.th[h.msg].fn # "delete"
        BY <2>1, <4>1 DEF Message
      <4> HIDE DEF h, c
      <4> QED
        BY <2>3, <2>5, <2>6, <4>1, <4>2 DEF Message
    <3>5. HasAnswer(r, W, k, c) <=> HasAnswer(w, W, h, c)
      BY SMTT(40), <2>5, <2>6 DEF HasAnswer
    <3>6. Signal(r, W, k, c)
      BY <2>2, <2>5, <3>5 DEF Signal, ConnOK
    <3> QED
      BY SMTT(40), <2>6, <3>1, <3>2, <3>3, <3>4, <3>6 DEF ConnOK
  <2>10. ASSUME NEW u \in Threads, r.th[u].c = c PROVE ThOK(r, W, O, u)
    <3>1. ThOK(w, W, O, u) /\ r.th[u] = w.th[u] /\ w.th[u].c = c
      BY <2>6, <2>10 DEF NInv
    <3>2. u \in W => Fresh(r, r.th[u])
      <4>1. u \in W => Fresh(w, w.th[u])
        BY <3>1 DEF ThOK
      <4>2. u \in W => w.th[u].fn # "new"
        BY <1>1, <2>1, <3>1, <4>1, NoneApart, NewIs DEF Fresh
      <4> QED
        BY <3>1, <4>1, <4>2 DEF Fresh
    <3>3. k.alive = h.alive /\ r.conn[c] = k /\ k.pcb = None /\ k.acceptmbox = << >> /\ c # None
      BY <2>1, <2>3, <2>5, <2>6, NoneApart
    <3> QED
      BY <2>6, <3>1, <3>2, <3>3 DEF ThOK
  <2>11. Mine(w, c, p, None)
    BY <1>1, <2>1, OneOwner, NoneApart DEF Mine
  <2>12. W \subseteq Threads /\ SameBut(W, W, None)
    BY SMTT(40) DEF NInv, SameBut
  <2>13. Plain(w, W, O, r, W, c, p, None)
    BY <1>1, <2>1, <2>3, <2>5, <2>6, <2>7, <2>8, <2>9, <2>10, <2>11, <2>12, NoneApart DEF Plain, Unknown
  <2>14. NInv(r, W, O)
    BY <2>13, Step
  <2>15. Unowned(r, p)
    <3> SUFFICES ASSUME NEW d \in Conns PROVE r.conn[d].pcb # p
      BY DEF Unowned
    <3>1. CASE d = c
      BY <1>1, <2>5, <2>6, <3>1, NoneApart
    <3>2. CASE d # c
      BY <1>1, <2>1, <2>8, <3>2, OneOwner, NoneApart DEF Elsewhere
    <3> QED
      BY <3>1, <3>2
  <2> QED
    BY <1>2, <2>1, <2>6, <2>8, <2>12, <2>14, <2>15 DEF Gone, Elsewhere
<1> QED
  BY <1>3, <1>4

(* tcp_abandon answers the operation in progress and detaches the netconn. *)
LEMMA Abandoned ==
  ASSUME NEW w, NEW W, NEW O, NInv(w, W, O), NEW p \in Pcbs, NEW r, r = tcp_abandon(w, p)
  PROVE  NInv(r, W, O) /\ Gone(w, W, r, p)
<1> DEFINE q == w.pcb[p]
           w1 == SetPcb(w, p, FreePcb)
<1>1. w \in Worlds /\ p \in AllPcbs /\ q \in PcbType
  BY NoneApart, WorldTypes DEF NInv
<1>2. /\ w1 \in Worlds /\ w1.conn = w.conn /\ w1.th = w.th
      /\ w1.pcb[p] = FreePcb /\ \A x \in AllPcbs : x # p => w1.pcb[x] = w.pcb[x]
  BY <1>1, Blank, SetPcbIs
<1>3. CASE q.st # "TIME_WAIT" /\ ~q.err
  <2>1. r = w1
    BY <1>3 DEF tcp_abandon
  <2>2. Unowned(w, p)
    BY <1>3, OwnedIs
  <2> HIDE DEF w1
  <2>3. PcbOK(w1, p)
    BY <1>2, FreePcbOK
  <2>4. NInv(w1, W, O)
    BY <1>1, <1>2, <2>2, <2>3, Loose
  <2> QED
    BY <1>2, <2>1, <2>2, <2>4 DEF Gone, Unowned
<1>4. CASE q.st # "TIME_WAIT" /\ q.err
  <2> DEFINE c == q.arg
             h == w.conn[c]
             k == Broken(h)
             w2 == SetConn(w1, c, k)
             t == h.msg
  <2>1. c \in Conns /\ h.pcb = p /\ PcbOK(w, p)
    BY <1>1, <1>4 DEF NInv, PcbOK, Callback, PcbType
  <2>2. h \in ConnType /\ ConnOK(w, W, c)
    BY <1>1, <2>1, WorldTypes DEF NInv
  <2>3. ~h.avalid /\ h.state # "LISTEN" /\ h.acceptmbox = << >>
    BY Zenon, <2>1, <2>2, NoneApart DEF ConnOK, Stage
  <2> HIDE DEF w1
  <2>4. /\ k \in ConnType /\ k.pcb = None /\ k.state = "NONE" /\ k.alive = h.alive /\ k.msg = h.msg
        /\ k.avalid = h.avalid /\ k.acceptmbox = h.acceptmbox /\ k.sem = h.sem /\ k.past = {}
    BY <2>2, <2>3, BrokenIs
  <2>5. r = IF Busy(h) /\ ~h.nbc THEN Complete(w2, c, "fatal") ELSE w2
    BY <1>2, <1>4 DEF tcp_abandon, err_tcp, w1
  <2> HIDE DEF k
  <2>6. /\ w2 \in Worlds /\ w2.pcb = w1.pcb /\ w2.th = w.th
        /\ w2.conn[c] = k /\ \A d \in Conns : d # c => w2.conn[d] = w.conn[d]
    BY <1>2, <2>1, <2>4, SetConnIs
  <2> HIDE DEF w2
  <2>7. PcbOK(w2, p)
    BY <1>2, <2>6, FreePcbOK
  <2>8. CASE Busy(h) /\ ~h.nbc
    <3>1. t # None
      BY Zenon, <2>2, <2>8 DEF ConnOK, Message, Busy
    <3>2. Caller(w, O, c, t) /\ t \notin W /\ t \in Threads
      BY <2>1, <3>1, PendingCaller DEF Caller
    <3>3. r = Complete(w2, c, "fatal") /\ w2.conn[c].msg = t /\ "fatal" \in Errors
      BY <2>4, <2>5, <2>6, <2>8 DEF Errors
    <3>4. Completed(w2, r, c, t, "fatal")
      BY <2>1, <2>6, <3>2, <3>3, CompleteIs
    <3>5. /\ r.conn[c].msg = None /\ r.conn[c].state = "NONE" /\ r.conn[c].sem = k.sem + 1
          /\ r.conn[c].alive = k.alive /\ r.conn[c].pcb = k.pcb /\ r.conn[c].avalid = k.avalid
          /\ r.conn[c].acceptmbox = k.acceptmbox /\ r.conn[c].past = k.past
      BY Zenon, <2>6, <3>4 DEF Completed, BackToIdle
    <3>6. w.th[t] \in ThType /\ w.th[t].fn # "new" /\ InCall(w.th[t], c)
      BY Zenon, <1>1, <2>2, <3>1, <3>2, WorldTypes DEF ConnOK, Message
    <3>7. /\ r.th[t].pc = w.th[t].pc /\ r.th[t].c = w.th[t].c
          /\ r.th[t].fn = IF w.th[t].fn \in {"new", "delete", "recv_eof"} THEN w.th[t].fn ELSE "none"
      BY Zenon, <2>6, <3>4 DEF Completed, Reply
    <3>8. Elsewhere(w, r, c, p, t)
      BY ZenonT(60), <1>2, <2>6, <3>4, NoneApart DEF Elsewhere, Completed
    <3>9. PcbOK(r, p) /\ r \in Worlds
      BY Zenon, <1>2, <2>6, <3>4, FreePcbOK DEF Completed
    <3>10. Bound(r, r.conn[c], c) /\ Stage(r, r.conn[c])
      BY <2>3, <2>4, <3>5, NoneApart DEF Bound, Stage
    <3>11. Ends(w, O, r, c, p, t)
      <4>1. h.sem = 0
        BY Zenon, <3>2 DEF Caller
      <4>2. /\ r.conn[c].msg = None /\ r.conn[c].state = "NONE" /\ r.conn[c].sem = 1 /\ r.conn[c].pcb = None
            /\ r.conn[c].alive = h.alive /\ r.conn[c].acceptmbox = h.acceptmbox /\ r.conn[c].acceptmbox = << >>
        BY <2>3, <2>4, <3>5, <4>1
      <4>3. r.th[t].pc = "wait" /\ r.th[t].c = c /\ r.th[t].fn \in {w.th[t].fn, "none"}
        BY Zenon, <3>6, <3>7 DEF InCall
      <4>4. Mine(w, c, p, t)
        BY Zenon, <1>1, <2>1, <3>6, OneOwner, NoneApart DEF Mine, InCall
      <4> HIDE DEF t
      <4> QED
        BY <1>1, <2>1, <3>2, <4>4, <3>8, <3>9, <3>10, <4>2, <4>3 DEF Ends
    <3>12. NInv(r, W, O)
      BY <3>2, <3>11, EndPending
    <3>13. Unowned(r, p)
      <4> SUFFICES ASSUME NEW d \in Conns PROVE r.conn[d].pcb # p
        BY DEF Unowned
      <4>1. CASE d = c
        BY <1>1, <2>4, <3>5, <4>1, NoneApart
      <4>2. CASE d # c
        BY <1>1, <2>1, <3>8, <4>2, OneOwner, NoneApart DEF Elsewhere
      <4> QED
        BY <4>1, <4>2
    <3>14. r.pcb[p] = FreePcb
      BY Zenon, <1>2, <2>6, <3>4 DEF Completed
    <3> QED
      BY <2>1, <3>2, <3>8, <3>12, <3>13, <3>14 DEF Gone, Elsewhere, NInv
  <2>9. CASE ~(Busy(h) /\ ~h.nbc)
    <3>1. r = w2
      BY <2>5, <2>9
    <3>2. t = None
      BY Zenon, <1>1, <2>1, <2>2, <2>9, NoneApart DEF ConnOK, Message, Stage, Busy
    <3>3. Elsewhere(w, r, c, p, None)
      BY <1>2, <2>6, <3>1 DEF Elsewhere
    <3>4. \A u \in Threads : r.th[u] = w.th[u]
      BY <2>6, <3>1
    <3>5. ConnOK(r, W, c)
      <4>1. Dead(k)
        BY <1>1, <2>1, <2>2, <2>4, NoneApart DEF ConnOK, Dead, FreeConn
      <4>2. Bound(r, k, c) /\ Stage(r, k) /\ Message(r, W, k, c)
        BY SMTT(40), <2>3, <2>4, <3>2, NoneApart DEF Bound, Stage, Message
      <4>3. HasAnswer(r, W, k, c) <=> HasAnswer(w, W, h, c)
        BY SMTT(40), <2>4, <3>4 DEF HasAnswer
      <4>4. Signal(r, W, k, c)
        BY <2>2, <2>4, <4>3 DEF Signal, ConnOK
      <4> QED
        BY SMTT(40), <2>6, <3>1, <4>1, <4>2, <4>4 DEF ConnOK
    <3>6. ASSUME NEW u \in Threads, r.th[u].c = c PROVE ThOK(r, W, O, u)
      <4>1. ThOK(w, W, O, u) /\ r.th[u] = w.th[u] /\ w.th[u].c = c
        BY <3>4, <3>6 DEF NInv
      <4>2. u \in W => Fresh(r, r.th[u])
        <5>1. u \in W => Fresh(w, w.th[u])
          BY <4>1 DEF ThOK
        <5>2. u \in W => w.th[u].fn # "new"
          BY <1>1, <2>1, <4>1, <5>1, NoneApart, NewIs DEF Fresh
        <5> QED
          BY <4>1, <5>1, <5>2 DEF Fresh
      <4>3. /\ k.alive = h.alive /\ r.conn[c] = k /\ k.pcb = None /\ k.acceptmbox = << >> /\ c # None
        BY <2>1, <2>3, <2>4, <2>6, <3>1, NoneApart
      <4> QED
        BY <3>4, <4>1, <4>2, <4>3 DEF ThOK
    <3>7. Mine(w, c, p, None)
      BY <1>1, <2>1, OneOwner, NoneApart DEF Mine
    <3>8. W \subseteq Threads /\ SameBut(W, W, None)
      BY SMTT(40) DEF NInv, SameBut
    <3>9. Plain(w, W, O, r, W, c, p, None)
      BY <1>1, <2>1, <2>3, <2>4, <2>6, <2>7, <3>1, <3>3, <3>5, <3>6, <3>7, <3>8, NoneApart DEF Plain
    <3>10. NInv(r, W, O)
      BY <3>9, Step
    <3>13. Unowned(r, p)
      <4> SUFFICES ASSUME NEW d \in Conns PROVE r.conn[d].pcb # p
        BY DEF Unowned
      <4>1. CASE d = c
        BY <1>1, <2>4, <2>6, <3>1, <4>1, NoneApart
      <4>2. CASE d # c
        BY <1>1, <2>1, <3>3, <4>2, OneOwner, NoneApart DEF Elsewhere
      <4> QED
        BY <4>1, <4>2
    <3>14. r.pcb[p] = FreePcb
      BY <1>2, <2>6, <3>1
    <3> QED
      BY <2>1, <3>3, <3>4, <3>8, <3>10, <3>13, <3>14 DEF Gone, Elsewhere
  <2> QED
    BY <2>8, <2>9
<1>5. CASE q.st = "TIME_WAIT"
  BY <1>5, ReleasedStep DEF tcp_abandon
<1> QED
  BY <1>3, <1>4, <1>5

(* tcp_alloc leaves a new pcb that nobody has. *)
LEMMA Allocated ==
  ASSUME NEW w, NEW W, NEW O, NInv(w, W, O), NEW p \in Available(w), NEW r, r = tcp_alloc(w, p)
  PROVE  /\ NInv(r, W, O) /\ p \in Pcbs /\ Unowned(r, p) /\ r.pcb[p] = [FreePcb EXCEPT !.st = "CLOSED"]
         /\ \A u \in W : r.th[u] = w.th[u]
<1> DEFINE w1 == IF w.pcb[p].st = "free" THEN w ELSE tcp_abandon(w, p)
           q == [FreePcb EXCEPT !.st = "CLOSED"]
<1>1. p \in Pcbs /\ p \in AllPcbs
  BY NoneApart DEF Available
<1>2. NInv(w1, W, O) /\ Unowned(w1, p) /\ \A u \in W : w1.th[u] = w.th[u]
  <2>1. CASE w.pcb[p].st = "free"
    BY <1>1, <2>1, OwnedIs DEF Attached, Leaving
  <2>2. CASE w.pcb[p].st # "free"
    <3>1. NInv(w1, W, O) /\ Gone(w, W, w1, p)
      BY <1>1, <2>2, Abandoned
    <3> QED
      BY <3>1 DEF Gone
  <2> QED
    BY <2>1, <2>2
<1>3. r = SetPcb(w1, p, q)
  BY DEF tcp_alloc
<1>4. q \in PcbType
  BY Blank DEF PcbType, FreePcb, PcbStates
<1> HIDE DEF w1
<1>5. q.st = "CLOSED" /\ ~Callback(q)
  BY DEF FreePcb, Callback
<1> HIDE DEF q
<1>6. w1 \in Worlds
  BY <1>2 DEF NInv
<1>7. /\ r \in Worlds /\ r.conn = w1.conn /\ r.th = w1.th
      /\ r.pcb[p] = q /\ \A x \in AllPcbs : x # p => r.pcb[x] = w1.pcb[x]
  BY <1>1, <1>3, <1>4, <1>6, SetPcbIs
<1>8. PcbOK(r, p)
  BY <1>1, <1>5, <1>7, NoneApart DEF PcbOK
<1>9. NInv(r, W, O)
  BY <1>1, <1>2, <1>7, <1>8, Loose
<1> QED
  BY <1>1, <1>2, <1>7, <1>9 DEF Unowned, q

-----------------------------------------------------------------------------
(* An operation is in progress: its message is the netconn's current_msg. *)
Holds(w, O, r, V, c, p, t) ==
  /\ r \in Worlds /\ p \in AllPcbs \cup {None} /\ Caller(w, O, c, t)
  /\ Elsewhere(w, r, c, p, t) /\ Mine(w, c, p, t) /\ r.conn[c].pcb \in {p, None}
  /\ r.th[t].pc = "wait" /\ r.th[t].c = c /\ r.th[t].fn = w.th[t].fn
  /\ r.conn[c].msg = t /\ r.conn[c].sem = 0
  /\ r.conn[c].alive = w.conn[c].alive /\ r.conn[c].acceptmbox = w.conn[c].acceptmbox
  /\ Bound(r, r.conn[c], c) /\ Stage(r, r.conn[c]) /\ Message(r, V, r.conn[c], c) /\ (p # None => PcbOK(r, p))

(* A lower half that does not answer leaves its message with the netconn. *)
LEMMA HoldStep ==
  ASSUME NEW w, NEW W, NEW O, NInv(w, W, O), NEW r, NEW c, NEW p, NEW t,
         NEW V, V = W \ {t}, Holds(w, O, r, V, c, p, t)
  PROVE  NInv(r, V, O)
<1> DEFINE k == r.conn[c]
<1>1. /\ r \in Worlds /\ p \in AllPcbs \cup {None} /\ Caller(w, O, c, t)
      /\ Elsewhere(w, r, c, p, t) /\ Mine(w, c, p, t) /\ k.pcb \in {p, None}
      /\ r.th[t].pc = "wait" /\ r.th[t].c = c /\ r.th[t].fn = w.th[t].fn
      /\ k.msg = t /\ k.sem = 0
      /\ k.alive = w.conn[c].alive /\ k.acceptmbox = w.conn[c].acceptmbox
      /\ Bound(r, k, c) /\ Stage(r, k) /\ Message(r, V, k, c) /\ (p # None => PcbOK(r, p))
  BY DEF Holds
<1> HIDE DEF k
<1>2. /\ c \in Conns /\ t \in Threads /\ InCall(w.th[t], c)
      /\ w.conn[c].alive /\ ~Unknown(w, O, c)
      /\ \A u \in Threads : w.th[u].c = c => u = t
  BY <1>1 DEF Caller
<1>3. \A u \in Threads : r.th[u].c = c => u = t
  BY <1>1, <1>2 DEF Elsewhere
<1>4. ConnOK(r, V, c)
  <2>1. Dead(k)
    BY <1>1, <1>2 DEF Dead
  <2>3. ~HasAnswer(r, V, k, c)
    BY <1>1, <1>3 DEF HasAnswer, InCall
  <2>4. Signal(r, V, k, c)
    BY <1>1, <2>3 DEF Signal
  <2> QED
    BY <1>1, <2>1, <2>4 DEF ConnOK, k
<1>5. ThOK(r, V, O, t)
  <2>1. ThOK(w, W, O, t)
    BY <1>2 DEF NInv
  <2>2. c \notin O \/ r.th[t].fn \notin {"new", "delete"}
    BY <1>1, <1>2, <2>1 DEF ThOK, InCall
  <2>3. c # None /\ k.alive /\ t \notin V
    BY <1>1, <1>2, NoneApart
  <2> QED
    BY <1>1, <1>3, <2>2, <2>3 DEF ThOK, k
<1>7. SameBut(V, W, t) /\ V \subseteq Threads
  BY DEF SameBut, NInv
<1>8. r.th[t].c = w.th[t].c
  BY <1>1, <1>2 DEF InCall
<1>9. Plain(w, W, O, r, V, c, p, t)
  BY Zenon, <1>1, <1>2, <1>3, <1>4, <1>5, <1>7, <1>8 DEF Plain, k
<1> QED
  BY <1>9, Step

(* The same for an operation that was in progress before. *)
LEMMA HoldPending ==
  ASSUME NEW w, NEW W, NEW O, NInv(w, W, O), NEW r, NEW c, NEW p, NEW t, t \notin W,
         Holds(w, O, r, W, c, p, t)
  PROVE  NInv(r, W, O)
<1>1. W = W \ {t}
  OBVIOUS
<1> QED
  BY <1>1, HoldStep

(* A lower half changes the netconn before it answers. *)
Prepares(w, W, r, c, p, t) ==
  /\ r \in Worlds /\ p \in AllPcbs \cup {None} /\ r.th = w.th
  /\ Elsewhere(w, r, c, p, None) /\ Mine(w, c, p, None) /\ r.conn[c].pcb \in {p, None}
  /\ w.th[t].fn \notin {"new", "delete"}
  /\ r.conn[c].msg = None /\ r.conn[c].sem = 0
  /\ r.conn[c].alive = w.conn[c].alive /\ r.conn[c].acceptmbox = w.conn[c].acceptmbox
  /\ r.conn[c].state \in {"NONE", "LISTEN"} \/ (r.conn[c].state = "CONNECT" /\ r.conn[c].nbc)
  /\ Bound(r, r.conn[c], c) /\ Stage(r, r.conn[c]) /\ (p # None => PcbOK(r, p))

(* What a lower half does first keeps the invariant. *)
LEMMA Prepared ==
  ASSUME NEW w, NEW W, NEW O, NInv(w, W, O), NEW t \in W, NEW r, NEW c, c = w.th[t].c, NEW p,
         Prepares(w, W, r, c, p, t)
  PROVE  NInv(r, W, O)
<1> DEFINE k == r.conn[c]
<1>1. /\ r \in Worlds /\ p \in AllPcbs \cup {None} /\ r.th = w.th
      /\ Elsewhere(w, r, c, p, None) /\ Mine(w, c, p, None) /\ k.pcb \in {p, None}
      /\ w.th[t].fn \notin {"new", "delete"}
      /\ k.msg = None /\ k.sem = 0
      /\ k.alive = w.conn[c].alive /\ k.acceptmbox = w.conn[c].acceptmbox
      /\ (k.state \in {"NONE", "LISTEN"} \/ (k.state = "CONNECT" /\ k.nbc))
      /\ Bound(r, k, c) /\ Stage(r, k) /\ (p # None => PcbOK(r, p))
  BY DEF Prepares
<1> HIDE DEF k
<1>2. /\ t \in Threads /\ c \in Conns /\ w.conn[c].alive /\ Fresh(w, w.th[t]) /\ ~Unknown(w, O, c)
      /\ \A u \in Threads : w.th[u].c = c => u = t
  BY CallOf
<1>4. ConnOK(r, W, c)
  <2>1. Dead(k) /\ Message(r, W, k, c)
    BY <1>1, <1>2 DEF Dead, Message
  <2>3. ~HasAnswer(r, W, k, c)
    BY <1>1, <1>2 DEF HasAnswer, InCall
  <2>4. Signal(r, W, k, c)
    BY <1>1, <2>3 DEF Signal
  <2> QED
    BY Zenon, <1>1, <2>1, <2>4 DEF ConnOK, k
<1>5. ThOK(r, W, O, t)
  <2>1. ThOK(w, W, O, t)
    BY <1>2 DEF NInv
  <2>2. Fresh(r, r.th[t])
    BY <1>1, <1>2 DEF Fresh
  <2>3. c # None /\ k.alive
    BY <1>1, <1>2, NoneApart
  <2> QED
    BY Zenon, <1>1, <1>2, <2>1, <2>2, <2>3 DEF ThOK, k
<1>7. SameBut(W, W, None) /\ W \subseteq Threads
  BY SMTT(40) DEF SameBut, NInv
<1>9. Plain(w, W, O, r, W, c, p, None)
  BY <1>1, <1>2, <1>4, <1>5, <1>7, NoneApart DEF Plain, k
<1> QED
  BY SMTT(40), <1>9, Step

-----------------------------------------------------------------------------
(* The lower halves *)

(* A netconn and a pcb get new values. *)
Both(w, r, c, p, k, q) ==
  /\ r \in Worlds /\ r.th = w.th /\ r.conn[c] = k /\ r.pcb[p] = q
  /\ Elsewhere(w, r, c, p, None)

(* SetPcb and SetConn together. *)
LEMMA BothIs ==
  ASSUME NEW w \in Worlds, NEW c \in Conns, NEW p \in AllPcbs, NEW k \in ConnType, NEW q \in PcbType
  PROVE  Both(w, SetConn(SetPcb(w, p, q), c, k), c, p, k, q)
<1> DEFINE s == SetPcb(w, p, q)
           r == SetConn(s, c, k)
<1>1. /\ s \in Worlds /\ s.conn = w.conn /\ s.th = w.th
      /\ s.pcb[p] = q /\ \A x \in AllPcbs : x # p => s.pcb[x] = w.pcb[x]
  BY SetPcbIs
<1> HIDE DEF s
<1>2. /\ r \in Worlds /\ r.pcb = s.pcb /\ r.th = s.th
      /\ r.conn[c] = k /\ \A d \in Conns : d # c => r.conn[d] = s.conn[d]
  BY <1>1, SetConnIs
<1> HIDE DEF r
<1>3. Both(w, r, c, p, k, q)
  BY <1>1, <1>2 DEF Both, Elsewhere
<1> QED
  BY <1>3 DEF r, s

Wired(s, q, c) ==
  s.arg = c /\ s.recv /\ s.sent /\ s.poll /\ s.err /\ s.st = q.st

(* setup_tcp installs the callbacks for its netconn. *)
LEMMA SetupIs ==
  ASSUME NEW q \in PcbType, NEW c \in Conns
  PROVE  setup_tcp(q, c) \in PcbType /\ Wired(setup_tcp(q, c), q, c)
  BY DEF setup_tcp, PcbType, Wired

(* The pcb of a netconn, with its callbacks and in a state of its own. *)
LEMMA OwnPcbOK ==
  ASSUME NEW r, NEW p \in Pcbs, NEW c \in Conns, r.pcb[p].arg = c, r.conn[c].pcb = p,
         r.pcb[p].st # "LISTEN"
  PROVE  PcbOK(r, p)
  BY NoneApart DEF PcbOK

(* do_newconn: the netconn gets a pcb with its callbacks, or the call fails. *)
LEMMA NewStep ==
  ASSUME NEW w, NEW W, NEW O, NInv(w, W, O), NEW t \in W, w.th[t].fn = "new", NEW r \in do_newconn(w, t)
  PROVE  NInv(r, W \ {t}, O)
<1>1. CASE r = Ack(w, t, "soft")
  BY <1>1, AckStep DEF Errors
<1>2. ASSUME NEW p \in Available(w), r = Ack(pcb_new(tcp_alloc(w, p), w.th[t].c, p), t, "OK")
      PROVE  NInv(r, W \ {t}, O)
  <2> DEFINE c == w.th[t].c
             a == tcp_alloc(w, p)
             q == setup_tcp(a.pcb[p], c)
             k == [a.conn[c] EXCEPT !.pcb = p]
             b == SetConn(SetPcb(a, p, q), c, k)
  <2>1. /\ NInv(a, W, O) /\ p \in Pcbs /\ Unowned(a, p) /\ a.pcb[p] = [FreePcb EXCEPT !.st = "CLOSED"]
        /\ \A u \in W : a.th[u] = w.th[u]
    BY Allocated
  <2>2. r = Ack(b, t, "OK")
    BY <1>2 DEF pcb_new
  <2> HIDE DEF a
  <2>3. a.th[t] = w.th[t] /\ a.th[t].fn = "new" /\ c = a.th[t].c
    BY <2>1
  <2>4. Caller(a, O, c, t)
    BY <2>1, <2>3, TakenCaller
  <2>5. c \in Conns /\ t \in Threads /\ a.conn[c].sem = 0 /\ InCall(a.th[t], c) /\ a.conn[c].alive
    BY <2>4 DEF Caller
  <2>6. a.conn[c] = NewConn
    BY <2>1, <2>3, CallOf DEF Fresh
  <2>7. a \in Worlds /\ p \in AllPcbs /\ a.pcb[p] \in PcbType /\ a.th[t] \in ThType
    BY <2>1, <2>5, NoneApart, WorldTypes DEF NInv
  <2>8. k \in ConnType /\ k.pcb = p /\ k.state = "NONE" /\ k.msg = None /\ k.sem = 0 /\ ~k.nbc
        /\ k.alive /\ ~k.avalid /\ k.acceptmbox = << >> /\ k.past = {}
    BY <2>6, <2>7, Blank, NewIs DEF ConnType
  <2>9. q \in PcbType /\ q.arg = c /\ q.poll /\ q.err /\ q.st = "CLOSED"
    <3>1. q \in PcbType /\ Wired(q, a.pcb[p], c)
      BY <2>5, <2>7, SetupIs
    <3> QED
      BY <2>1, <3>1 DEF FreePcb, Wired
  <2> HIDE DEF k, q
  <2>10. Both(a, b, c, p, k, q)
    BY <2>5, <2>7, <2>8, <2>9, BothIs
  <2> HIDE DEF b
  <2>11. b \in Worlds /\ b.th = a.th /\ b.conn[c] = k /\ b.pcb[p] = q /\ Elsewhere(a, b, c, p, None)
    BY <2>10 DEF Both
  <2>12. /\ r \in Worlds /\ r.pcb = b.pcb /\ Elsewhere(b, r, c, None, t)
         /\ r.th[t] = Answered(b.th[t], "OK")
         /\ r.conn[c] = Signalled(b.conn[c])
    BY <2>2, <2>3, <2>5, <2>11, AckIs DEF Errors
  <2>13. Reply(a.th[t], r.th[t], "OK")
    BY <2>7, <2>11, <2>12, AnsweredIs DEF Errors
  <2>14. Like(r.conn[c], k) /\ r.conn[c].sem = 1
    BY <2>8, <2>11, <2>12, SignalledIs
  <2>15. Elsewhere(a, r, c, p, t)
    BY <2>11, <2>12, NoneApart DEF Elsewhere
  <2>16. Mine(a, c, p, t)
    BY <2>1, <2>3, <2>5, <2>6, NewIs DEF Mine, Unowned
  <2>17. /\ r.conn[c].pcb = p /\ r.conn[c].msg = None /\ r.conn[c].state = "NONE"
         /\ r.conn[c].alive /\ r.conn[c].acceptmbox = << >> /\ ~r.conn[c].avalid /\ ~r.conn[c].nbc
         /\ "lost" \notin r.conn[c].past
    BY <2>8, <2>14 DEF Like
  <2>18. r.pcb[p] = q
    BY <2>11, <2>12
  <2>19. Bound(r, r.conn[c], c) /\ Stage(r, r.conn[c]) /\ PcbOK(r, p)
    BY SMTT(40), <2>1, <2>5, <2>7, <2>9, <2>17, <2>18, NoneApart, OwnPcbOK DEF Bound, Stage, Attached, Leaving
  <2>20. Ends(a, O, r, c, p, t)
    <3>1. r.th[t].pc = "wait" /\ r.th[t].c = c /\ r.th[t].fn = "new" /\ r.th[t].err = "OK"
      BY <2>3, <2>5, <2>13 DEF Reply, InCall
    <3> QED
      BY <2>3, <2>4, <2>6, <2>7, <2>12, <2>14, <2>15, <2>16, <2>17, <2>19, <3>1, NewIs DEF Ends
  <2> QED
    BY <2>1, <2>20, EndStep
<1> QED
  BY <1>1, <1>2 DEF do_newconn

(* do_bind and do_getaddr only answer. *)
LEMMA BindStep ==
  ASSUME NEW w, NEW W, NEW O, NInv(w, W, O), NEW t \in W, w.th[t].fn # "delete",
         NEW r \in do_bind(w, t) \cup do_getaddr(w, t)
  PROVE  NInv(r, W \ {t}, O)
<1>1. \E e \in Errors : r = Ack(w, t, e)
  BY Zenon DEF do_bind, do_getaddr, Errors
<1> QED
  BY <1>1, AckStep

(* The invariant looks at no more of a pcb than this. *)
SameFace(s, q) ==
  /\ s.st = q.st /\ s.arg = q.arg /\ s.recv = q.recv /\ s.sent = q.sent
  /\ s.poll = q.poll /\ s.err = q.err

(* The receive window is opened. *)
Credited(s, q) == SameFace(s, q) /\ s.owed <= q.owed /\ s.refused = q.refused /\ s.rx = q.rx

(* tcp_recved changes the window alone. *)
LEMMA RecvedIs ==
  ASSUME NEW q \in PcbType, NEW n \in Nat
  PROVE  tcp_recved(q, n) \in PcbType /\ Credited(tcp_recved(q, n), q)
<1> DEFINE o == IF q.owed > n THEN q.owed - n ELSE 0
           s == tcp_recved(q, n)
<1>1. q.owed \in 0 .. Wnd /\ Wnd \in Nat
  BY NetconnAssumption DEF PcbType
<1>2. o \in 0 .. Wnd /\ o <= q.owed
  BY <1>1
<1>3. s = [q EXCEPT !.owed = o]
  BY DEF tcp_recved
<1> HIDE DEF o, s
<1>4. s \in PcbType /\ Credited(s, q)
  BY <1>2, <1>3 DEF PcbType, Credited, SameFace
<1> QED
  BY <1>4 DEF s

(* A netconn whose pcb changes inside stays in order. *)
LEMMA FaceKept ==
  ASSUME NEW w, NEW W, NEW O, NInv(w, W, O), NEW c \in Conns, NEW p \in AllPcbs, w.conn[c].pcb = p,
         NEW r, \A d \in Conns : r.conn[d].pcb = w.conn[d].pcb, SameFace(r.pcb[p], w.pcb[p]),
         NEW k, Like(k, w.conn[c])
  PROVE  Bound(r, k, c) /\ Stage(r, k) /\ PcbOK(r, p)
<1>1. ConnOK(w, W, c) /\ PcbOK(w, p) /\ w \in Worlds
  BY DEF NInv
<1>2. r.pcb[p].arg # None => r.pcb[p].arg \in Conns
  BY <1>1, WorldTypes DEF SameFace, PcbType
<1>3. PcbOK(r, p)
  BY <1>1, <1>2 DEF PcbOK, SameFace, Callback
<1>4. Bound(r, k, c)
  BY <1>1, NoneApart DEF ConnOK, Bound, SameFace, Like
<1>5. Stage(r, k)
  <2>1. Stage(w, w.conn[c])
    BY <1>1 DEF ConnOK
  <2> QED
    BY <2>1 DEF Stage, SameFace, Like
<1> QED
  BY <1>3, <1>4, <1>5

(* The state of a netconn whose caller is being served. *)
LEMMA ServedIs ==
  ASSUME NEW w, NEW W, NEW O, NInv(w, W, O), NEW t \in W
  PROVE  LET c == w.th[t].c  p == w.conn[c].pcb
         IN /\ w \in Worlds /\ c \in Conns /\ t \in Threads /\ w.conn[c] \in ConnType /\ w.th[t] \in ThType
            /\ p \in AllPcbs \cup {None} /\ (p # None => w.pcb[p] \in PcbType)
            /\ w.conn[c].msg = None /\ w.conn[c].sem = 0 /\ w.conn[c].alive
            /\ Mine(w, c, p, None) /\ Mine(w, c, p, t) /\ ConnOK(w, W, c)
            /\ (w.conn[c].state \in {"NONE", "LISTEN"} \/ (w.conn[c].state = "CONNECT" /\ w.conn[c].nbc))
<1> DEFINE c == w.th[t].c
           p == w.conn[c].pcb
<1>1. /\ t \in Threads /\ c \in Conns /\ w.conn[c].alive /\ w.conn[c].msg = None /\ w.conn[c].sem = 0
      /\ w.conn[c].state \in {"NONE", "LISTEN", "CONNECT"} /\ (w.conn[c].state = "CONNECT" => w.conn[c].nbc)
      /\ w.conn[c] \in ConnType /\ w.th[t] \in ThType
  BY CallOf
<1>2. w \in Worlds /\ ConnOK(w, W, c)
  BY SMTT(40), <1>1 DEF NInv
<1>3. p \in AllPcbs \cup {None} /\ (p # None => w.pcb[p] \in PcbType)
  BY <1>1, <1>2, WorldTypes DEF ConnType
<1>4. Mine(w, c, p, None) /\ Mine(w, c, p, t)
  BY <1>1, OneOwner DEF Mine
<1> QED
  BY Zenon, <1>1, <1>2, <1>3, <1>4

(* Like is reflexive. *)
LEMMA LikeSelf == ASSUME NEW k PROVE Like(k, k)
  BY DEF Like

(* The pcb of the caller's netconn changes inside. *)
LEMMA PcbPrepared ==
  ASSUME NEW w, NEW W, NEW O, NInv(w, W, O), NEW t \in W, NEW c, c = w.th[t].c,
         NEW p, p = w.conn[c].pcb, p # None, w.th[t].fn \notin {"new", "delete"},
         NEW q \in PcbType, SameFace(q, w.pcb[p]), NEW r, PcbSet(w, r, p, q)
  PROVE  NInv(r, W, O)
<1>1. /\ w \in Worlds /\ c \in Conns /\ t \in Threads /\ w.conn[c] \in ConnType
      /\ p \in AllPcbs \cup {None}
      /\ w.conn[c].msg = None /\ w.conn[c].sem = 0
      /\ Mine(w, c, p, None) /\ ConnOK(w, W, c)
      /\ (w.conn[c].state \in {"NONE", "LISTEN"} \/ (w.conn[c].state = "CONNECT" /\ w.conn[c].nbc))
  BY ZenonT(60), ServedIs
<1>2. /\ r \in Worlds /\ r.conn = w.conn /\ r.th = w.th
      /\ r.pcb[p] = q /\ \A x \in AllPcbs : x # p => r.pcb[x] = w.pcb[x]
  BY Zenon DEF PcbSet
<1>3. Bound(r, r.conn[c], c) /\ Stage(r, r.conn[c]) /\ PcbOK(r, p)
  <2>1. Like(r.conn[c], w.conn[c])
    BY Zenon, <1>2, LikeSelf
  <2> QED
    BY Zenon, <1>1, <1>2, <2>1, FaceKept
<1>4. Prepares(w, W, r, c, p, t)
  BY Zenon, <1>1, <1>2, <1>3 DEF Prepares, Elsewhere
<1> QED
  BY Zenon, <1>4, Prepared

(* do_recv credits the window and answers. *)
LEMMA RecvStep ==
  ASSUME NEW w, NEW W, NEW O, NInv(w, W, O), NEW t \in W, w.th[t].fn \notin {"new", "delete"},
         NEW r \in do_recv(w, t)
  PROVE  NInv(r, W \ {t}, O)
<1> DEFINE c == w.th[t].c
           p == w.conn[c].pcb
           q == tcp_recved(w.pcb[p], w.th[t].len)
           w1 == SetPcb(w, p, q)
<1>1. CASE p = None
  <2>1. r = Ack(w, t, "OK")
    BY <1>1 DEF do_recv
  <2> QED
    BY <2>1, AckStep DEF Errors
<1>2. CASE p # None
  <2>1. r = Ack(w1, t, "OK")
    BY Zenon, <1>2 DEF do_recv
  <2>2. w.pcb[p] \in PcbType /\ w.th[t].len \in Nat
    <3>1. w.pcb[p] \in PcbType /\ w.th[t] \in ThType
      BY SMTT(40), <1>2, ServedIs
    <3> QED
      BY <3>1 DEF ThType
  <2>3. q \in PcbType /\ SameFace(q, w.pcb[p])
    BY SMTT(40), <2>2, RecvedIs DEF Credited
  <2> HIDE DEF q
  <2>4. NInv(w1, W, O) /\ w1.th = w.th
    <3>1. c = w.th[t].c /\ p = w.conn[c].pcb
      OBVIOUS
    <3>2. w \in Worlds /\ p \in AllPcbs
      BY SMTT(40), <1>2, ServedIs
    <3>3. PcbSet(w, w1, p, q)
      BY <2>3, <3>2, PcbSetIs
    <3> HIDE DEF c, p, w1
    <3>4. SameFace(q, w.pcb[p]) /\ q \in PcbType /\ p # None /\ w.th[t].fn \notin {"new", "delete"}
      BY <1>2, <2>3
    <3>5. NInv(w1, W, O)
      BY Zenon, <3>1, <3>3, <3>4, PcbPrepared
    <3> QED
      BY <3>3, <3>5 DEF PcbSet
  <2> QED
    BY <2>1, <2>4, AckStep DEF Errors
<1> QED
  BY <1>1, <1>2

(* do_connect: refused at once, answered EINPROGRESS, or left in progress. *)
LEMMA ConnectStep ==
  ASSUME NEW w, NEW W, NEW O, NInv(w, W, O), NEW t \in W, w.th[t].fn = "connect",
         NEW r \in do_connect(w, t)
  PROVE  NInv(r, W \ {t}, O)
<1> DEFINE c == w.th[t].c
           h == w.conn[c]
           p == h.pcb
           q == w.pcb[p]
           nb == w.th[t].nb
           q1 == setup_tcp(q, c)
           q2 == [setup_tcp(q, c) EXCEPT !.st = "SYN_SENT", !.owed = 0]
           k == [h EXCEPT !.state = "CONNECT", !.nbc = nb, !.msg = IF nb THEN @ ELSE t]
           w1 == SetPcb(w, p, q1)
           w2 == SetConn(SetPcb(w, p, q2), c, k)
<1>1. \/ \E e \in Errors : r = Ack(w, t, e)
      \/ p # None /\ h.state = "NONE" /\ r = Ack(w1, t, "soft")
      \/ p # None /\ h.state = "NONE" /\ q.st = "CLOSED" /\ nb /\ r = Ack(w2, t, "soft")
      \/ p # None /\ h.state = "NONE" /\ q.st = "CLOSED" /\ ~nb /\ r = w2
  BY Zenon DEF do_connect, Errors
<1>2. CASE \E e \in Errors : r = Ack(w, t, e)
  BY <1>2, AckStep
<1>3. ASSUME p # None, h.state = "NONE"
      PROVE  /\ p \in Pcbs /\ q \in PcbType /\ q.arg = c /\ q.err /\ q.poll /\ q.st \in Attached \cup Leaving
             /\ ("lost" \in h.past => "half" \in h.past)
             /\ w \in Worlds /\ c \in Conns /\ t \in Threads /\ h \in ConnType /\ w.th[t] \in ThType
             /\ h.msg = None /\ h.sem = 0 /\ ~h.avalid /\ h.acceptmbox = << >>
             /\ Mine(w, c, p, None) /\ Mine(w, c, p, t) /\ p \in AllPcbs
  <2>1. /\ w \in Worlds /\ c \in Conns /\ t \in Threads /\ h \in ConnType /\ w.th[t] \in ThType
        /\ p \in AllPcbs \cup {None} /\ (p # None => q \in PcbType)
        /\ h.msg = None /\ h.sem = 0
        /\ Mine(w, c, p, None) /\ Mine(w, c, p, t) /\ ConnOK(w, W, c)
    BY ServedIs
  <2>2. p \in Pcbs /\ q.arg = c /\ q.err /\ q.poll /\ q.st \in Attached \cup Leaving /\ ~h.avalid /\ h.acceptmbox = << >>
        /\ ("lost" \in h.past => "half" \in h.past)
    BY Zenon, <1>3, <2>1, NoneApart DEF ConnOK, Stage, Bound
  <2> QED
    BY ZenonT(60), <1>3, <2>1, <2>2
<1>4. CASE p # None /\ h.state = "NONE" /\ r = Ack(w1, t, "soft")
  <2>1. q \in PcbType /\ c \in Conns /\ q.arg = c /\ q.err /\ q.poll /\ p \in Pcbs /\ w \in Worlds
    BY Zenon, <1>3, <1>4
  <2>2. q1 \in PcbType /\ q1.arg = c /\ q1.poll /\ q1.err /\ q1.st = q.st
    <3>1. q1 \in PcbType /\ Wired(q1, q, c)
      BY Zenon, <2>1, SetupIs
    <3> QED
      BY Zenon, <3>1 DEF Wired
  <2> HIDE DEF q1
  <2>3. /\ w1 \in Worlds /\ w1.conn = w.conn /\ w1.th = w.th
        /\ w1.pcb[p] = q1 /\ \A x \in AllPcbs : x # p => w1.pcb[x] = w.pcb[x]
    <3>1. PcbSet(w, w1, p, q1)
      BY Zenon, <2>1, <2>2, PcbSetIs, NoneApart
    <3> HIDE DEF w1
    <3> QED
      BY <3>1 DEF PcbSet
  <2> HIDE DEF w1
  <2>4. ConnOK(w, W, c)
    BY Zenon, <2>1 DEF NInv
  <2>5. Bound(w1, h, c) /\ Stage(w1, h) /\ PcbOK(w1, p)
    <3>1. PcbOK(w1, p)
      <4>1. w1.pcb[p].st # "LISTEN" /\ w1.conn[c].pcb = p
        BY Zenon, <1>3, <1>4, <2>2, <2>3 DEF Attached, Leaving
      <4> QED
        BY Zenon, <2>1, <2>2, <2>3, <4>1, OwnPcbOK
    <3>2. Bound(w1, h, c) /\ Stage(w1, h)
      BY Zenon, <2>1, <2>2, <2>3, <2>4, NoneApart DEF ConnOK, Bound, Stage
    <3> QED
      BY <3>1, <3>2
  <2>6. Prepares(w, W, w1, c, p, t)
    BY Zenon, <1>3, <1>4, <2>3, <2>5 DEF Prepares, Elsewhere
  <2>7. NInv(w1, W, O)
    BY <2>6, Prepared
  <2>8. t \in W /\ w1.th[t].fn # "delete" /\ "soft" \in Errors
    BY <2>3 DEF Errors
  <2> QED
    BY <1>4, <2>7, <2>8, AckStep
<1>5. ASSUME p # None, h.state = "NONE", q.st = "CLOSED"
      PROVE  /\ Both(w, w2, c, p, k, q2) /\ nb \in BOOLEAN
             /\ k.state = "CONNECT" /\ k.nbc = nb /\ k.msg = (IF nb THEN None ELSE t) /\ k.sem = 0
             /\ k.alive = h.alive /\ k.acceptmbox = h.acceptmbox /\ k.pcb = p
             /\ Bound(w2, k, c) /\ Stage(w2, k) /\ PcbOK(w2, p)
  <2>1. /\ p \in Pcbs /\ q \in PcbType /\ w \in Worlds /\ c \in Conns /\ t \in Threads /\ h \in ConnType
        /\ w.th[t] \in ThType /\ h.msg = None /\ h.sem = 0 /\ ~h.avalid /\ h.acceptmbox = << >> /\ p \in AllPcbs
        /\ ("lost" \in h.past => "half" \in h.past)
    BY Zenon, <1>3, <1>5
  <2>2. nb \in BOOLEAN
    BY SMTT(40), <2>1 DEF ThType
  <2> HIDE DEF nb
  <2>3. /\ k \in ConnType /\ k.state = "CONNECT" /\ k.nbc = nb /\ k.msg = (IF nb THEN None ELSE t) /\ k.sem = 0
        /\ k.alive = h.alive /\ k.acceptmbox = h.acceptmbox /\ k.pcb = p /\ ~k.avalid /\ k.past = h.past
    <3>1. k = [h EXCEPT !.state = "CONNECT", !.nbc = nb, !.msg = IF nb THEN None ELSE t]
      BY <2>1
    <3>2. (IF nb THEN None ELSE t) \in Threads \cup {None} /\ "CONNECT" \in ConnStates
      BY <2>1 DEF ConnStates
    <3> HIDE DEF k
    <3> QED
      BY ZenonT(60), <2>1, <2>2, <3>1, <3>2 DEF ConnType
  <2>4. q1 \in PcbType /\ q1.arg = c /\ q1.poll /\ q1.err
    <3>1. q1 \in PcbType /\ Wired(q1, q, c)
      BY <2>1, SetupIs
    <3> QED
      BY Zenon, <3>1 DEF Wired
  <2>5. q2 = [q1 EXCEPT !.st = "SYN_SENT", !.owed = 0]
    OBVIOUS
  <2>6. 0 \in 0 .. Wnd /\ "SYN_SENT" \in PcbStates
    BY NetconnAssumption DEF PcbStates, Active
  <2> HIDE DEF q1, q2, k
  <2>7. q2 \in PcbType /\ q2.arg = c /\ q2.poll /\ q2.err /\ q2.st = "SYN_SENT"
    BY <2>4, <2>5, <2>6 DEF PcbType
  <2>8. Both(w, w2, c, p, k, q2)
    BY <2>1, <2>3, <2>7, BothIs
  <2>9. w2.conn[c] = k /\ w2.pcb[p] = q2
    BY Zenon, <2>8 DEF Both
  <2>10. PcbOK(w2, p)
    <3>1. w2.pcb[p].st # "LISTEN" /\ w2.conn[c].pcb = p /\ w2.pcb[p].arg = c
      BY SMTT(40), <2>3, <2>7, <2>9
    <3> QED
      BY Zenon, <2>1, <3>1, OwnPcbOK
  <2>11. Bound(w2, k, c) /\ Stage(w2, k)
    BY <2>1, <2>3, <2>7, <2>9, NoneApart DEF Bound, Stage, Attached, Leaving
  <2> QED
    BY Zenon, <2>2, <2>3, <2>8, <2>10, <2>11
<1>6. CASE p # None /\ h.state = "NONE" /\ q.st = "CLOSED" /\ nb /\ r = Ack(w2, t, "soft")
  <2> HIDE DEF k, w2, q2
  <2>1. w2 \in Worlds /\ w2.th = w.th /\ w2.conn[c] = k /\ Elsewhere(w, w2, c, p, None)
    BY <1>5, <1>6 DEF Both
  <2>2. /\ k.state = "CONNECT" /\ k.nbc /\ k.msg = None /\ k.sem = 0
        /\ k.alive = h.alive /\ k.acceptmbox = h.acceptmbox /\ k.pcb = p
        /\ Bound(w2, k, c) /\ Stage(w2, k) /\ PcbOK(w2, p)
    BY Zenon, <1>5, <1>6
  <2>3. Mine(w, c, p, None) /\ p \in AllPcbs
    BY Zenon, <1>3, <1>6
  <2>6. Prepares(w, W, w2, c, p, t)
    BY <2>1, <2>2, <2>3 DEF Prepares
  <2>7. NInv(w2, W, O)
    BY <2>6, Prepared
  <2>8. t \in W /\ w2.th[t].fn # "delete" /\ "soft" \in Errors
    BY <2>1 DEF Errors
  <2> QED
    BY SMTT(40), <1>6, <2>7, <2>8, AckStep
<1>7. CASE p # None /\ h.state = "NONE" /\ q.st = "CLOSED" /\ ~nb /\ r = w2
  <2> HIDE DEF k, w2, q2
  <2>1. w2 \in Worlds /\ w2.th = w.th /\ w2.conn[c] = k /\ Elsewhere(w, w2, c, p, None)
    BY <1>5, <1>7 DEF Both
  <2>2. /\ k.state = "CONNECT" /\ ~k.nbc /\ k.msg = t /\ k.sem = 0
        /\ k.alive = h.alive /\ k.acceptmbox = h.acceptmbox /\ k.pcb = p
        /\ Bound(w2, k, c) /\ Stage(w2, k) /\ PcbOK(w2, p)
    BY <1>5, <1>7
  <2>3. Mine(w, c, p, t) /\ p \in AllPcbs /\ t \in Threads
    BY Zenon, <1>3, <1>7
  <2>4. Caller(w, O, c, t)
    BY TakenCaller
  <2>5. w2.th[t] = w.th[t] /\ InCall(w.th[t], c)
    BY SMTT(40), <2>1, <2>4 DEF Caller
  <2>6. Message(w2, W \ {t}, k, c)
    BY <2>2, <2>3, <2>5, NoneApart DEF Message
  <2>7. Elsewhere(w, w2, c, p, t)
    BY <2>1 DEF Elsewhere
  <2>8. Holds(w, O, w2, W \ {t}, c, p, t)
    BY Zenon, <2>1, <2>2, <2>3, <2>4, <2>5, <2>6, <2>7 DEF Holds, InCall
  <2>9. NInv(w2, W \ {t}, O)
    BY <2>8, HoldStep
  <2> QED
    BY SMTT(40), <1>7, <2>9
<1> QED
  BY Zenon, <1>1, <1>2, <1>4, <1>6, <1>7

(* do_listen: the pcb becomes a listening one, or the call fails. *)
LEMMA ListenStep ==
  ASSUME NEW w, NEW W, NEW O, NInv(w, W, O), NEW t \in W, w.th[t].fn = "listen",
         NEW r \in do_listen(w, t)
  PROVE  NInv(r, W \ {t}, O)
<1> DEFINE c == w.th[t].c
           h == w.conn[c]
           p == h.pcb
           k1 == [h EXCEPT !.rvalid = FALSE, !.recvmbox = << >>, !.pcb = None]
           w1 == SetConn(SetPcb(w, p, FreePcb), c, k1)
           q2(l) == [FreePcb EXCEPT !.st = "LISTEN", !.arg = c]
           k2(l) == [k1 EXCEPT !.state = "LISTEN", !.pcb = l, !.avalid = TRUE]
           w2(l) == SetConn(SetPcb(w1, l, q2(l)), c, k2(l))
<1>1. \/ \E e \in Errors : r = Ack(w, t, e)
      \/ p # None /\ h.state = "NONE" /\ r = Ack(w1, t, "soft")
      \/ \E l \in ListenPcbs : p # None /\ h.state = "NONE" /\ w.pcb[l].st = "free" /\ r = Ack(w2(l), t, "OK")
  BY Zenon DEF do_listen, Errors
<1>2. CASE \E e \in Errors : r = Ack(w, t, e)
  BY SMTT(40), <1>2, AckStep
<1>3. ASSUME p # None, h.state = "NONE"
      PROVE  /\ NInv(w1, W, O) /\ Both(w, w1, c, p, k1, FreePcb) /\ p \in Pcbs
             /\ k1 \in ConnType /\ k1.pcb = None /\ k1.state = "NONE" /\ k1.acceptmbox = << >> /\ k1.msg = None
             /\ k1.sem = 0 /\ ~k1.nbc /\ c \in Conns /\ ("lost" \in k1.past => "half" \in k1.past)
  <2>1. /\ w \in Worlds /\ c \in Conns /\ t \in Threads /\ h \in ConnType
        /\ p \in AllPcbs /\ h.msg = None /\ h.sem = 0 /\ h.alive
        /\ Mine(w, c, p, None) /\ ConnOK(w, W, c)
    BY <1>3, ServedIs
  <2>2. p \in Pcbs /\ ~h.avalid /\ h.acceptmbox = << >> /\ ~h.nbc /\ ("lost" \in h.past => "half" \in h.past)
    BY Zenon, <1>3, <2>1, NoneApart DEF ConnOK, Stage, Bound
  <2>3. /\ k1 \in ConnType /\ k1.pcb = None /\ k1.state = "NONE" /\ k1.acceptmbox = << >> /\ k1.msg = None
        /\ k1.sem = 0 /\ ~k1.nbc /\ k1.alive /\ ~k1.avalid /\ ("lost" \in k1.past => "half" \in k1.past)
    <3>1. << >> \in Seq({"data", "null"})
      OBVIOUS
    <3> HIDE DEF h
    <3> QED
      BY <1>3, <2>1, <2>2, <3>1 DEF ConnType
  <2> HIDE DEF k1
  <2>4. Both(w, w1, c, p, k1, FreePcb)
    BY <2>1, <2>3, Blank, BothIs
  <2> HIDE DEF w1
  <2>5. w1 \in Worlds /\ w1.th = w.th /\ w1.conn[c] = k1 /\ w1.pcb[p] = FreePcb /\ Elsewhere(w, w1, c, p, None)
    BY <2>4 DEF Both
  <2>6. Bound(w1, k1, c) /\ Stage(w1, k1) /\ PcbOK(w1, p)
    BY <2>3, <2>5, FreePcbOK, NoneApart DEF Bound, Stage
  <2>7. Prepares(w, W, w1, c, p, t)
    BY Zenon, <2>1, <2>2, <2>3, <2>5, <2>6 DEF Prepares
  <2>8. NInv(w1, W, O)
    BY <2>7, Prepared
  <2> QED
    BY Zenon, <2>1, <2>2, <2>3, <2>4, <2>8
<1>4. CASE p # None /\ h.state = "NONE" /\ r = Ack(w1, t, "soft")
  <2> HIDE DEF w1, k1
  <2>1. NInv(w1, W, O) /\ Both(w, w1, c, p, k1, FreePcb)
    BY <1>3, <1>4
  <2>2. w1.th[t].fn # "delete" /\ "soft" \in Errors
    BY <2>1 DEF Both, Errors
  <2> QED
    BY <1>4, <2>1, <2>2, AckStep
<1>5. ASSUME NEW l \in ListenPcbs, p # None, h.state = "NONE", w.pcb[l].st = "free", r = Ack(w2(l), t, "OK")
      PROVE  NInv(r, W \ {t}, O)
  <2> DEFINE q == q2(l)
             k == k2(l)
             x == w2(l)
  <2>1. /\ NInv(w1, W, O) /\ Both(w, w1, c, p, k1, FreePcb) /\ p \in Pcbs
        /\ k1 \in ConnType /\ k1.pcb = None /\ k1.state = "NONE" /\ k1.acceptmbox = << >> /\ k1.msg = None
        /\ k1.sem = 0 /\ ~k1.nbc /\ c \in Conns /\ ("lost" \in k1.past => "half" \in k1.past)
    BY Zenon, <1>3, <1>5
  <2>2. l \in AllPcbs /\ l # None /\ l # p /\ l \notin Pcbs
    BY Zenon, <2>1, NoneApart
  <2>3. q \in PcbType /\ q.st = "LISTEN" /\ q.arg = c /\ ~Callback(q)
    BY Zenon, <2>1, Blank DEF PcbType, FreePcb, PcbStates, Callback
  <2> HIDE DEF k1, q
  <2>4. /\ k \in ConnType /\ k.state = "LISTEN" /\ k.pcb = l /\ k.avalid /\ k.acceptmbox = << >> /\ k.msg = None
        /\ k.sem = 0 /\ ~k.nbc /\ k.alive = k1.alive /\ k.past = k1.past
    BY Zenon, <2>1, <2>2 DEF ConnType, ConnStates
  <2> HIDE DEF k, w1
  <2>5. w1 \in Worlds /\ w1.th = w.th /\ w1.conn[c] = k1 /\ w1.pcb[l] = w.pcb[l]
    BY <2>1, <2>2 DEF Both, Elsewhere
  <2>6. Unowned(w1, l)
    <3> SUFFICES ASSUME NEW d \in Conns, w1.conn[d].pcb = l PROVE FALSE
      BY DEF Unowned
    <3>1. Bound(w1, w1.conn[d], d)
      BY <2>1 DEF NInv, ConnOK
    <3>2. w1.pcb[l].st = "LISTEN"
      BY <2>2, <3>1 DEF Bound
    <3> QED
      BY <1>5, <2>5, <3>2
  <2>7. Both(w1, x, c, l, k, q)
    BY <2>1, <2>2, <2>3, <2>4, <2>5, BothIs DEF q, k
  <2> HIDE DEF x
  <2>8. x \in Worlds /\ x.th = w1.th /\ x.conn[c] = k /\ x.pcb[l] = q /\ Elsewhere(w1, x, c, l, None)
    BY <2>7 DEF Both
  <2>9. Bound(x, k, c) /\ Stage(x, k) /\ PcbOK(x, l)
    BY <2>1, <2>2, <2>3, <2>4, <2>8, NoneApart DEF Bound, Stage, PcbOK
  <2>10. Mine(w1, c, l, None)
    BY <2>1, <2>5, <2>6 DEF Mine, Unowned
  <2>11. Prepares(w1, W, x, c, l, t)
    BY <2>1, <2>2, <2>4, <2>5, <2>8, <2>9, <2>10 DEF Prepares
  <2>12. c = w1.th[t].c
    BY <2>5
  <2>13. NInv(x, W, O)
    BY <2>1, <2>11, <2>12, Prepared
  <2>14. r = Ack(x, t, "OK") /\ x.th[t].fn # "delete" /\ "OK" \in Errors
    BY <1>5, <2>5, <2>8 DEF x, Errors
  <2> QED
    BY <2>13, <2>14, AckStep
<1> QED
  BY Zenon, <1>1, <1>2, <1>4, <1>5

(* What a write in progress does before it goes on waiting or ends. *)
Half(w, x, c, p) ==
  /\ x \in Worlds /\ x.th = w.th /\ Elsewhere(w, x, c, p, None) /\ SameFace(x.pcb[p], w.pcb[p])
  /\ x.conn[c].alive = w.conn[c].alive /\ x.conn[c].pcb = w.conn[c].pcb /\ x.conn[c].msg = w.conn[c].msg
  /\ x.conn[c].state = w.conn[c].state /\ x.conn[c].nbc = w.conn[c].nbc /\ x.conn[c].avalid = w.conn[c].avalid
  /\ x.conn[c].acceptmbox = w.conn[c].acceptmbox /\ x.conn[c].sem = w.conn[c].sem
  /\ x.conn[c].past = w.conn[c].past

(* The netconn of a write. *)
Writing(w, W, O, c, p, t) ==
  /\ c \in Conns /\ p = w.conn[c].pcb /\ t = w.conn[c].msg /\ w.conn[c].state = "WRITE"
  /\ p \in Pcbs /\ t \in Threads /\ t \notin W /\ Caller(w, O, c, t)
  /\ w.conn[c].sem = 0 /\ ~w.conn[c].nbc /\ ~w.conn[c].avalid /\ w.conn[c].acceptmbox = << >>
  /\ w.conn[c].offset < w.th[t].len /\ w.th[t].fn \notin {"new", "delete"} /\ InCall(w.th[t], c)
  /\ Bound(w, w.conn[c], c) /\ w.pcb[p].st # "SYN_SENT" /\ Mine(w, c, p, t)

(* A netconn in state WRITE has a pcb and a caller who waits. *)
LEMMA WritingIs ==
  ASSUME NEW w, NEW W, NEW O, NInv(w, W, O), NEW c \in Conns, w.conn[c].state = "WRITE", w.conn[c].pcb # None
  PROVE  Writing(w, W, O, c, w.conn[c].pcb, w.conn[c].msg)
<1> DEFINE k == w.conn[c]
           p == k.pcb
           t == k.msg
<1>1. w \in Worlds /\ ConnOK(w, W, c) /\ k \in ConnType
  BY WorldTypes DEF NInv
<1>2. p \in Pcbs /\ t # None /\ k.offset < w.th[t].len /\ w.th[t].fn \notin {"new", "delete"}
  <2>1. p \in AllPcbs
    BY <1>1 DEF ConnType
  <2> QED
    BY <1>1, <2>1, NoneApart DEF ConnOK, Stage, Message
<1>3. ~k.nbc /\ ~k.avalid /\ k.acceptmbox = << >> /\ w.pcb[p].st # "SYN_SENT"
  BY <1>1, <1>2, NoneApart DEF ConnOK, Stage
<1>4. Caller(w, O, c, t) /\ t \notin W
  BY <1>2, PendingCaller
<1>5. t \in Threads /\ k.sem = 0 /\ InCall(w.th[t], c)
  BY <1>4 DEF Caller
<1>6. Mine(w, c, p, t)
  BY <1>2, <1>5, OneOwner, NoneApart DEF Mine, InCall
<1> QED
  BY <1>1, <1>2, <1>3, <1>4, <1>5, <1>6 DEF Writing, ConnOK

(* In the middle of a write the netconn and its pcb are still bound. *)
LEMMA HalfBound ==
  ASSUME NEW w, NEW W, NEW O, NInv(w, W, O), NEW c, NEW p, NEW t, Writing(w, W, O, c, p, t),
         NEW r, NEW x, Half(w, x, c, p), r.pcb = x.pcb, r.conn[c].pcb = p,
         r.conn[c].acceptmbox = << >>, ~r.conn[c].nbc, ~r.conn[c].avalid, r.conn[c].state \in {"NONE", "WRITE"},
         r.conn[c].past = w.conn[c].past
  PROVE  Bound(r, r.conn[c], c) /\ Stage(r, r.conn[c]) /\ PcbOK(r, p)
<1>1. /\ c \in Conns /\ p \in Pcbs /\ p = w.conn[c].pcb /\ Bound(w, w.conn[c], c) /\ w.pcb[p].st # "SYN_SENT"
      /\ SameFace(r.pcb[p], w.pcb[p])
  BY SMTT(40) DEF Writing, Half
<1>2. /\ w.pcb[p].arg = c /\ w.pcb[p].err /\ w.pcb[p].poll /\ w.pcb[p].st \in Attached \cup Leaving
      /\ w.pcb[p].st \in Leaving => "half" \in w.conn[c].past
      /\ "lost" \in w.conn[c].past => "half" \in w.conn[c].past
  BY <1>1, NoneApart DEF Bound
<1>3. /\ r.pcb[p].arg = c /\ r.pcb[p].err /\ r.pcb[p].poll /\ r.pcb[p].st \in Attached \cup Leaving
      /\ r.pcb[p].st # "SYN_SENT" /\ r.pcb[p].st = w.pcb[p].st
  BY SMTT(40), <1>1, <1>2 DEF SameFace
<1>4. PcbOK(r, p)
  BY SMTT(40), <1>1, <1>3, OwnPcbOK DEF Attached, Leaving
<1>5. Bound(r, r.conn[c], c) /\ Stage(r, r.conn[c])
  BY <1>1, <1>2, <1>3, NoneApart DEF Bound, Stage
<1> QED
  BY SMTT(40), <1>4, <1>5

(* The write ends from there. *)
LEMMA HalfEnds ==
  ASSUME NEW w, NEW W, NEW O, NInv(w, W, O), NEW c, NEW p, NEW t, Writing(w, W, O, c, p, t),
         NEW x, Half(w, x, c, p), NEW e \in Errors
  PROVE  NInv(Complete(x, c, e), W, O)
<1> DEFINE r == Complete(x, c, e)
<1>1. /\ c \in Conns /\ p \in Pcbs /\ t \in Threads /\ p = w.conn[c].pcb /\ t = w.conn[c].msg
      /\ t \notin W /\ Caller(w, O, c, t) /\ w.conn[c].sem = 0 /\ ~w.conn[c].nbc /\ ~w.conn[c].avalid
      /\ w.conn[c].acceptmbox = << >> /\ w.th[t].fn \notin {"new", "delete"} /\ InCall(w.th[t], c)
      /\ Mine(w, c, p, t)
  BY DEF Writing
<1>2. /\ x \in Worlds /\ x.th = w.th /\ Elsewhere(w, x, c, p, None)
      /\ x.conn[c].alive = w.conn[c].alive /\ x.conn[c].pcb = w.conn[c].pcb /\ x.conn[c].msg = w.conn[c].msg
      /\ x.conn[c].nbc = w.conn[c].nbc /\ x.conn[c].avalid = w.conn[c].avalid
      /\ x.conn[c].acceptmbox = w.conn[c].acceptmbox /\ x.conn[c].sem = w.conn[c].sem
      /\ x.conn[c].past = w.conn[c].past
  BY DEF Half
<1>3. Completed(x, r, c, t, e)
  BY <1>1, <1>2, CompleteIs
<1> HIDE DEF r
<1>4. r \in Worlds /\ r.pcb = x.pcb /\ Elsewhere(x, r, c, None, t)
  BY <1>3 DEF Completed
<1>5. /\ r.conn[c].msg = None /\ r.conn[c].state = "NONE" /\ r.conn[c].sem = 1
      /\ r.conn[c].alive = w.conn[c].alive /\ r.conn[c].pcb = p /\ ~r.conn[c].nbc /\ ~r.conn[c].avalid
      /\ r.conn[c].acceptmbox = << >> /\ r.conn[c].past = w.conn[c].past
  BY SMTT(40), <1>1, <1>2, <1>3 DEF Completed, BackToIdle
<1>6. r.th[t].pc = "wait" /\ r.th[t].c = c /\ r.th[t].fn \notin {"new", "delete"} /\ r.th[t].fn \in {w.th[t].fn, "none"}
  BY <1>1, <1>2, <1>3 DEF Completed, Reply, InCall
<1>7. Elsewhere(w, r, c, p, t)
  BY <1>1, <1>2, <1>4, NoneApart DEF Elsewhere
<1>8. Bound(r, r.conn[c], c) /\ Stage(r, r.conn[c]) /\ PcbOK(r, p)
  BY <1>4, <1>5, HalfBound
<1>9. Ends(w, O, r, c, p, t)
  BY Zenon, <1>1, <1>4, <1>5, <1>6, <1>7, <1>8, NoneApart DEF Ends
<1>10. NInv(r, W, O)
  BY <1>1, <1>9, EndPending
<1> QED
  BY <1>10 DEF r

(* Or it waits for sent_tcp or poll_tcp. *)
LEMMA HalfGoesOn ==
  ASSUME NEW w, NEW W, NEW O, NInv(w, W, O), NEW c, NEW p, NEW t, Writing(w, W, O, c, p, t),
         NEW x, Half(w, x, c, p), x.conn[c].offset < w.th[t].len
  PROVE  NInv(x, W, O)
<1>1. /\ c \in Conns /\ p \in Pcbs /\ t \in Threads /\ p = w.conn[c].pcb /\ t = w.conn[c].msg
      /\ w.conn[c].state = "WRITE"
      /\ t \notin W /\ Caller(w, O, c, t) /\ w.conn[c].sem = 0 /\ ~w.conn[c].nbc /\ ~w.conn[c].avalid
      /\ w.conn[c].acceptmbox = << >> /\ w.th[t].fn \notin {"new", "delete"} /\ InCall(w.th[t], c)
      /\ Mine(w, c, p, t)
  BY DEF Writing
<1>2. /\ x \in Worlds /\ x.th = w.th /\ Elsewhere(w, x, c, p, None)
      /\ x.conn[c].alive = w.conn[c].alive /\ x.conn[c].pcb = w.conn[c].pcb /\ x.conn[c].msg = w.conn[c].msg
      /\ x.conn[c].state = w.conn[c].state /\ x.conn[c].nbc = w.conn[c].nbc /\ x.conn[c].avalid = w.conn[c].avalid
      /\ x.conn[c].acceptmbox = w.conn[c].acceptmbox /\ x.conn[c].sem = w.conn[c].sem
      /\ x.conn[c].past = w.conn[c].past
  BY DEF Half
<1>3. Bound(x, x.conn[c], c) /\ Stage(x, x.conn[c]) /\ PcbOK(x, p)
  BY <1>1, <1>2, HalfBound
<1>4. Message(x, W, x.conn[c], c)
  BY <1>1, <1>2, NoneApart DEF Message
<1>5. Elsewhere(w, x, c, p, t)
  BY <1>2 DEF Elsewhere
<1>6. x.th[t].pc = "wait" /\ x.th[t].c = c /\ x.th[t].fn = w.th[t].fn
  BY <1>1, <1>2 DEF InCall
<1>7. Holds(w, O, x, W, c, p, t)
  BY <1>1, <1>2, <1>3, <1>4, <1>5, <1>6, NoneApart DEF Holds
<1> QED
  BY <1>1, <1>7, HoldPending

(* What do_writemore notes in the netconn is out of the invariant's sight. *)
LEMMA SpaceIs ==
  ASSUME NEW h \in ConnType, NEW short \in BOOLEAN, NEW full \in BOOLEAN, NEW n \in Nat,
         NEW k, k = [CheckSpace(h, short, full) EXCEPT !.offset = n] \/ k = [h EXCEPT !.offset = n]
  PROVE  /\ k \in ConnType /\ k.offset = n /\ k.alive = h.alive /\ k.pcb = h.pcb /\ k.msg = h.msg
         /\ k.state = h.state /\ k.nbc = h.nbc /\ k.avalid = h.avalid /\ k.acceptmbox = h.acceptmbox
         /\ k.sem = h.sem /\ k.past = h.past
<1>1. CASE k = [h EXCEPT !.offset = n]
  BY <1>1 DEF ConnType
<1>2. CASE k = [CheckSpace(h, short, full) EXCEPT !.offset = n]
  <2> DEFINE g == CheckSpace(h, short, full)
             a == h.wr /\ ~(short \/ full)
             b == h.chk \/ short
  <2>1. a \in BOOLEAN /\ b \in BOOLEAN
    BY DEF ConnType
  <2>2. g = [h EXCEPT !.wr = a, !.chk = b]
    BY DEF CheckSpace
  <2> HIDE DEF a, b, g
  <2>3. /\ g \in ConnType /\ g.alive = h.alive /\ g.pcb = h.pcb /\ g.msg = h.msg
        /\ g.state = h.state /\ g.nbc = h.nbc /\ g.avalid = h.avalid /\ g.acceptmbox = h.acceptmbox
        /\ g.sem = h.sem /\ g.past = h.past
    BY <2>1, <2>2 DEF ConnType
  <2>4. k = [g EXCEPT !.offset = n]
    BY <1>2 DEF g
  <2> QED
    BY <2>3, <2>4 DEF ConnType
<1> QED
  BY <1>1, <1>2

(* do_writemore keeps the invariant, from every callback that runs it. *)
LEMMA WritemoreStep ==
  ASSUME NEW w, NEW W, NEW O, NInv(w, W, O), NEW c \in Conns, w.conn[c].state = "WRITE", w.conn[c].pcb # None,
         NEW late \in BOOLEAN, NEW mem \in BOOLEAN, NEW long \in BOOLEAN
  PROVE  NInv(do_writemore(w, c, late, mem, long), W, O)
<1> DEFINE k == w.conn[c]
           p == k.pcb
           t == k.msg
           m == w.th[t]
           q == w.pcb[p]
           len == IF m.len - k.offset <= tcp_sndbuf(q) THEN m.len - k.offset ELSE tcp_sndbuf(q)
           err == IF m.nb /\ len = 0 THEN "WOULDBLOCK"
                  ELSE IF q.st \notin {"ESTABLISHED", "CLOSE_WAIT", "SYN_SENT", "SYN_RCVD"}
                  THEN "CONN"
                  ELSE IF len # 0 /\ ~mem THEN "MEM" ELSE "OK"
           n == IF err = "OK" THEN q.snd + len ELSE q.snd
           q1 == [q EXCEPT !.snd = IF err = "OK" THEN @ + len ELSE @]
           short == m.nb /\ len < m.len
           full == ~Writable(q1, long)
           finished == IF err = "OK" THEN k.offset + len = m.len \/ m.nb
                       ELSE err # "MEM" \/ m.nb
           o == IF err # "OK" THEN k.offset ELSE IF finished THEN 0 ELSE k.offset + len
           k1 == [(IF err = "CONN" THEN k ELSE CheckSpace(k, short, full))
                    EXCEPT !.offset = IF err # "OK" THEN @ ELSE IF finished THEN 0 ELSE @ + len]
           w1 == SetConn(SetPcb(w, p, q1), c, k1)
           r == do_writemore(w, c, late, mem, long)
<1>1. Writing(w, W, O, c, p, t)
  BY WritingIs
<1>2. p \in Pcbs /\ t \in Threads /\ k.offset < m.len
  BY <1>1 DEF Writing
<1>3. w \in Worlds /\ p \in AllPcbs /\ k \in ConnType /\ m \in ThType /\ q \in PcbType
  BY <1>2, NoneApart, WorldTypes DEF NInv
<1>4. r = IF late THEN Complete(w, c, IF k.offset = 0 THEN "soft" ELSE "OK")
          ELSE IF ~finished THEN w1
          ELSE Complete(w1, c, IF err = "OK" THEN "OK" ELSE IF err = "CONN" THEN "fatal" ELSE "soft")
  BY DEF do_writemore
<1>5. Half(w, w, c, p)
  BY <1>3 DEF Half, Elsewhere, SameFace
<1>6. CASE late
  <2>1. (IF k.offset = 0 THEN "soft" ELSE "OK") \in Errors
    BY DEF Errors
  <2>2. r = Complete(w, c, IF k.offset = 0 THEN "soft" ELSE "OK")
    BY Zenon, <1>4, <1>6
  <2> HIDE DEF k, p, t, r
  <2> QED
    BY <1>1, <1>5, <2>1, <2>2, HalfEnds DEF r
<1>7. CASE ~late
  <2>1. k.offset \in Nat /\ m.len \in Nat /\ q.snd \in 0 .. SndBuf /\ SndBuf \in Nat /\ m.nb \in BOOLEAN
    BY <1>3, NetconnAssumption DEF ConnType, ThType, PcbType
  <2>2. len \in Nat /\ k.offset + len <= m.len /\ q.snd + len \in 0 .. SndBuf
    BY <1>2, <2>1 DEF tcp_sndbuf
  <2> HIDE DEF len, err
  <2>3. n \in 0 .. SndBuf /\ o \in Nat
    <3>1. n \in 0 .. SndBuf
      BY <2>1, <2>2
    <3> HIDE DEF finished
    <3>2. o \in Nat
      BY <2>1, <2>2
    <3> QED
      BY <3>1, <3>2
  <2>4. ~finished => o < m.len
    <3>1. CASE err # "OK"
      BY <1>2, <3>1
    <3>2. CASE err = "OK"
      BY <2>1, <2>2, <3>2
    <3> QED
      BY <3>1, <3>2
  <2>5. short \in BOOLEAN /\ full \in BOOLEAN
    BY DEF Writable
  <2>6. k1 = [CheckSpace(k, short, full) EXCEPT !.offset = o] \/ k1 = [k EXCEPT !.offset = o]
    <3> HIDE DEF short, full, finished, k
    <3>1. CheckSpace(k, short, full).offset = k.offset
      BY <1>3 DEF CheckSpace, ConnType
    <3> QED
      BY <3>1
  <2>7. (IF err = "OK" THEN "OK" ELSE IF err = "CONN" THEN "fatal" ELSE "soft") \in Errors
    BY DEF Errors
  <2> DEFINE e == IF err = "OK" THEN "OK" ELSE IF err = "CONN" THEN "fatal" ELSE "soft"
  <2>8. r = IF ~finished THEN w1 ELSE Complete(w1, c, e)
    BY Zenon, <1>4, <1>7
  <2> HIDE DEF len, err, n, o, short, full, finished, k1, e
  <2>9. q1 \in PcbType /\ SameFace(q1, q)
    <3>1. q1 = [q EXCEPT !.snd = n]
      BY DEF n
    <3> QED
      BY Zenon, <1>3, <2>3, <3>1 DEF PcbType, SameFace
  <2>10. /\ k1 \in ConnType /\ k1.offset = o /\ k1.alive = k.alive /\ k1.pcb = k.pcb /\ k1.msg = k.msg
         /\ k1.state = k.state /\ k1.nbc = k.nbc /\ k1.avalid = k.avalid /\ k1.acceptmbox = k.acceptmbox
         /\ k1.sem = k.sem /\ k1.past = k.past
    BY <1>3, <2>3, <2>5, <2>6, SpaceIs
  <2> HIDE DEF q1
  <2>11. Both(w, w1, c, p, k1, q1)
    BY <1>3, <2>9, <2>10, BothIs
  <2> HIDE DEF w1, r
  <2>12. Half(w, w1, c, p) /\ w1.conn[c].offset = o
    BY <2>9, <2>10, <2>11 DEF Both, Half
  <2>13. CASE ~finished
    <3>1. r = w1 /\ w1.conn[c].offset < m.len
      BY <2>4, <2>8, <2>12, <2>13
    <3> HIDE DEF k, p, t
    <3>2. NInv(w1, W, O)
      BY <1>1, <2>12, <3>1, HalfGoesOn DEF m
    <3> QED
      BY <3>1, <3>2 DEF r
  <2>14. CASE finished
    <3>1. r = Complete(w1, c, e) /\ e \in Errors
      BY <2>7, <2>8, <2>14 DEF e
    <3> HIDE DEF k, p, t
    <3>2. NInv(Complete(w1, c, e), W, O)
      BY <1>1, <2>12, <3>1, HalfEnds
    <3> QED
      BY <3>1, <3>2 DEF r
  <2> QED
    BY <2>13, <2>14
<1> QED
  BY <1>6, <1>7

(* send_timeout has passed or not. *)
LEMMA LateIs == Late \subseteq BOOLEAN
  BY DEF Late

(* do_write: refused at once, or do_writemore takes it on. *)
LEMMA WriteStep ==
  ASSUME NEW w, NEW W, NEW O, NInv(w, W, O), NEW t \in W, w.th[t].fn = "write", NEW r \in do_write(w, t)
  PROVE  NInv(r, W \ {t}, O)
<1> DEFINE c == w.th[t].c
           h == w.conn[c]
           p == h.pcb
           k == [h EXCEPT !.state = "WRITE", !.msg = t, !.offset = 0]
           x == SetConn(w, c, k)
           V == W \ {t}
<1>1. \/ \E e \in Errors : r = Ack(w, t, e)
      \/ /\ h.state = "NONE" /\ p # None
         /\ \E late \in Late, mem \in BOOLEAN, long \in BOOLEAN : r = do_writemore(x, c, late, mem, long)
  BY DEF do_write, Errors
<1>2. CASE \E e \in Errors : r = Ack(w, t, e)
  BY <1>2, AckStep
<1>3. ASSUME h.state = "NONE", p # None, NEW late \in Late, NEW mem \in BOOLEAN, NEW long \in BOOLEAN,
             r = do_writemore(x, c, late, mem, long)
      PROVE  NInv(r, V, O)
  <2>1. /\ w \in Worlds /\ c \in Conns /\ t \in Threads /\ h \in ConnType /\ w.th[t] \in ThType
        /\ p \in AllPcbs /\ h.msg = None /\ h.sem = 0 /\ Mine(w, c, p, t) /\ ConnOK(w, W, c)
    BY Zenon, <1>3, ServedIs
  <2>2. p \in Pcbs /\ ~h.avalid /\ h.acceptmbox = << >> /\ ~h.nbc /\ w.pcb[p].st # "SYN_SENT"
    BY Zenon, <1>3, <2>1, NoneApart DEF ConnOK, Stage
  <2>3. /\ k \in ConnType /\ k.state = "WRITE" /\ k.msg = t /\ k.offset = 0 /\ k.pcb = p /\ k.sem = 0
        /\ k.alive = h.alive /\ ~k.avalid /\ k.acceptmbox = << >> /\ ~k.nbc /\ k.past = h.past
    <3> HIDE DEF h
    <3> QED
      BY <2>1, <2>2 DEF ConnType, ConnStates, p
  <2> HIDE DEF k
  <2>4. /\ x \in Worlds /\ x.pcb = w.pcb /\ x.th = w.th
        /\ x.conn[c] = k /\ \A d \in Conns : d # c => x.conn[d] = w.conn[d]
    BY <2>1, <2>3, SetConnIs
  <2>5. Elsewhere(w, x, c, p, t)
    BY <2>4 DEF Elsewhere
  <2> HIDE DEF x
  <2>6. Caller(w, O, c, t) /\ InCall(w.th[t], c)
    BY TakenCaller DEF Caller
  <2>7. Fresh(w, w.th[t])
    BY SMTT(40), CallOf
  <2>8. Message(x, V, k, c)
    BY <2>1, <2>3, <2>4, <2>6, <2>7, NoneApart DEF Message, Fresh
  <2>9. Bound(x, k, c) /\ Stage(x, k) /\ PcbOK(x, p)
    <3>1. /\ w.pcb[p].arg = c /\ w.pcb[p].err /\ w.pcb[p].poll /\ w.pcb[p].st \in Attached \cup Leaving
          /\ w.pcb[p].st \in Leaving => "half" \in h.past
          /\ "lost" \in h.past => "half" \in h.past
      BY Zenon, <1>3, <2>1, <2>2 DEF ConnOK, Bound
    <3>2. PcbOK(x, p)
      <4>1. w.pcb[p].st # "LISTEN"
        BY <3>1 DEF Attached, Leaving
      <4> QED
        BY ZenonT(60), <2>1, <2>2, <2>3, <2>4, <3>1, <4>1, OwnPcbOK
    <3> QED
      BY Zenon, <2>2, <2>3, <2>4, <3>1, <3>2, NoneApart DEF Bound, Stage
  <2>10. Holds(w, O, x, V, c, p, t)
    BY Zenon, <2>1, <2>2, <2>3, <2>4, <2>5, <2>6, <2>8, <2>9 DEF Holds, InCall
  <2>11. NInv(x, V, O)
    BY <2>10, HoldStep
  <2>12. x.conn[c].state = "WRITE" /\ late \in BOOLEAN /\ c \in Conns /\ x.conn[c].pcb # None
    BY <1>3, <2>1, <2>3, <2>4, LateIs
  <2> HIDE DEF V, c
  <2> QED
    BY <1>3, <2>11, <2>12, WritemoreStep
<1> QED
  BY <1>1, <1>2, <1>3

-----------------------------------------------------------------------------
(* netconn_drain *)

(* The data in a recvmbox is counted by a natural number. *)
LEMMA DataIs ==
  ASSUME NEW box \in Seq({"data", "null"})
  PROVE  Data(box) \in Nat
<1> DEFINE S == {i \in DOMAIN box : box[i] = "data"}
<1>1. Len(box) \in Nat /\ DOMAIN box = 1 .. Len(box)
  OBVIOUS
<1>2. IsFiniteSet(1 .. Len(box))
  BY <1>1, FS_Interval
<1>3. S \subseteq 1 .. Len(box)
  BY <1>1
<1> HIDE DEF S
<1>4. IsFiniteSet(S)
  BY <1>2, <1>3, FS_Subset
<1>5. Cardinality(S) \in Nat
  BY <1>4, FS_CardinalityType
<1> QED
  BY <1>5 DEF Data, S

(* The netconn without its mailboxes. *)
Drained(k, h) ==
  /\ k.alive = h.alive /\ k.pcb = h.pcb /\ k.state = h.state /\ k.msg = h.msg /\ k.nbc = h.nbc
  /\ k.offset = h.offset /\ k.sem = h.sem /\ ~k.avalid /\ k.acceptmbox = << >> /\ k.past = h.past

(* What becomes of the netconns, and of the pcbs. *)
DrainedConns(w, r, c, S) ==
  /\ \A n \in Conns : n \in S => r.conn[n] = FreeConn
  /\ \A n \in Conns : n \notin S /\ n # c => r.conn[n] = w.conn[n]
  /\ Drained(r.conn[c], w.conn[c])
DrainedPcbs(w, r, c, S) ==
  /\ \A x \in AllPcbs : (\E n \in S : w.conn[n].pcb = x) => r.pcb[x] = FreePcb
  /\ \A x \in AllPcbs : ~(\E n \in S : w.conn[n].pcb = x) =>
       IF x = w.conn[c].pcb THEN SameFace(r.pcb[x], w.pcb[x]) ELSE r.pcb[x] = w.pcb[x]

(* The connections c has not handed out. *)
LEMMA PendingIs ==
  ASSUME NEW w, NEW W, NEW O, NInv(w, W, O), NEW c \in Conns, NEW S, S = ToSet(w.conn[c].acceptmbox)
  PROVE  /\ S \subseteq Conns /\ \A n \in S : Unknown(w, O, n)
         /\ \A d \in Conns : \A i \in 1 .. Len(w.conn[d].acceptmbox) : d # c => w.conn[d].acceptmbox[i] \notin S
<1> DEFINE box == w.conn[c].acceptmbox
<1>1. w \in Worlds /\ PendOK(w, O)
  BY DEF NInv
<1>2. box \in Seq(Conns)
  BY <1>1, WorldTypes DEF ConnType
<1>3. S = {box[i] : i \in 1 .. Len(box)}
  <2>1. DOMAIN box = 1 .. Len(box)
    BY <1>2
  <2> QED
    BY <2>1 DEF ToSet
<1>4. \A i \in 1 .. Len(box) : box[i] \in Conns /\ Unknown(w, O, box[i]) /\ Once(w, c, i)
  BY <1>1, <1>2 DEF PendOK
<1>5. ASSUME NEW d \in Conns, NEW j \in 1 .. Len(w.conn[d].acceptmbox), d # c, w.conn[d].acceptmbox[j] \in S
      PROVE  FALSE
  <2>1. PICK i \in 1 .. Len(box) : w.conn[d].acceptmbox[j] = box[i]
    BY <1>3, <1>5
  <2> QED
    BY <1>4, <1>5, <2>1 DEF Once
<1> QED
  BY SMTT(40), <1>3, <1>4, <1>5

(* netconn_drain aborts what nobody accepted and empties the mailboxes. *)
LEMMA DrainIs ==
  ASSUME NEW w, NEW W, NEW O, NInv(w, W, O), NEW t \in W, NEW c, c = w.th[t].c,
         NEW S, S = ToSet(w.conn[c].acceptmbox), NEW r, r = netconn_drain(w, c)
  PROVE  r \in Worlds /\ r.th = w.th /\ DrainedConns(w, r, c, S) /\ DrainedPcbs(w, r, c, S)
<1> DEFINE h == w.conn[c]
           k == [h EXCEPT !.rvalid = FALSE, !.recvmbox = << >>, !.avalid = FALSE, !.acceptmbox = << >>]
           lost == {w.conn[n].pcb : n \in S}
           q(x) == tcp_recved(w.pcb[x], Data(h.recvmbox))
           nc == [n \in Conns |-> IF n \in S THEN FreeConn ELSE IF n = c THEN k ELSE w.conn[n]]
           np == [x \in AllPcbs |-> IF x \in lost THEN FreePcb ELSE IF x = h.pcb THEN q(x) ELSE w.pcb[x]]
<1>1. w \in Worlds /\ c \in Conns /\ h \in ConnType /\ t \in Threads
  BY ZenonT(60), ServedIs
<1>2. r = [w EXCEPT !.conn = nc, !.pcb = np]
  BY DEF netconn_drain
<1>3. k \in ConnType /\ Drained(k, h)
  <2>1. << >> \in Seq({"data", "null"}) /\ << >> \in Seq(Conns)
    OBVIOUS
  <2> HIDE DEF h
  <2> QED
    BY <1>1, <2>1 DEF ConnType, Drained
<1>4. Data(h.recvmbox) \in Nat
  BY <1>1, DataIs DEF ConnType
<1>5. \A x \in AllPcbs : w.pcb[x] \in PcbType /\ q(x) \in PcbType /\ SameFace(q(x), w.pcb[x])
  <2> TAKE x \in AllPcbs
  <2>1. w.pcb[x] \in PcbType
    BY <1>1, WorldTypes
  <2>2. q(x) \in PcbType /\ Credited(q(x), w.pcb[x])
    BY <1>4, <2>1, RecvedIs
  <2> QED
    BY <2>1, <2>2 DEF Credited
<1> HIDE DEF k, q
<1>6. nc \in [Conns -> ConnType]
  BY <1>1, <1>3, Blank, WorldTypes
<1>7. np \in [AllPcbs -> PcbType]
  BY <1>5, Blank
<1> HIDE DEF nc, np
<1>8. r.conn = nc /\ r.pcb = np /\ r.th = w.th /\ r \in Worlds
  BY <1>1, <1>2, <1>6, <1>7 DEF Worlds
<1>9. c \notin S
  BY <1>1, PendingIs DEF Unknown
<1>10. DrainedConns(w, r, c, S)
  BY SMTT(40), <1>1, <1>3, <1>8, <1>9 DEF DrainedConns, nc
<1>11. DrainedPcbs(w, r, c, S)
  <2>1. \A x : x \in lost <=> \E n \in S : w.conn[n].pcb = x
    OBVIOUS
  <2> HIDE DEF lost
  <2>2. \A x \in AllPcbs : r.pcb[x] = IF x \in lost THEN FreePcb ELSE IF x = h.pcb THEN q(x) ELSE w.pcb[x]
    BY <1>8 DEF np
  <2> QED
    BY <1>5, <2>1, <2>2 DEF DrainedPcbs
<1> QED
  BY <1>8, <1>10, <1>11

(* That keeps the invariant, and nothing waits in the mailboxes afterwards. *)
LEMMA DrainStep ==
  ASSUME NEW w, NEW W, NEW O, NInv(w, W, O), NEW t \in W, w.th[t].fn # "new", NEW c, c = w.th[t].c,
         NEW r, r = netconn_drain(w, c)
  PROVE  NInv(r, W, O) /\ r.th = w.th /\ Drained(r.conn[c], w.conn[c])
<1> DEFINE S == ToSet(w.conn[c].acceptmbox)
           p == w.conn[c].pcb
<1>1. /\ w \in Worlds /\ c \in Conns /\ t \in Threads /\ w.conn[c].alive /\ ConnOK(w, W, c)
      /\ w.conn[c] \in ConnType
  BY ServedIs
<1>2. r \in Worlds /\ r.th = w.th /\ DrainedConns(w, r, c, S) /\ DrainedPcbs(w, r, c, S)
  BY DrainIs
<1>3. /\ S \subseteq Conns /\ \A n \in S : Unknown(w, O, n)
      /\ \A d \in Conns : \A i \in 1 .. Len(w.conn[d].acceptmbox) : d # c => w.conn[d].acceptmbox[i] \notin S
  BY SMTT(40), <1>1, PendingIs
<1> HIDE DEF S
<1>4. /\ \A n \in S : r.conn[n] = FreeConn
      /\ \A n \in Conns : n \notin S /\ n # c => r.conn[n] = w.conn[n]
      /\ Drained(r.conn[c], w.conn[c])
  BY <1>2, <1>3 DEF DrainedConns
<1>5. c \notin S /\ \A u \in Threads : w.th[u].c \notin S
  BY <1>1, <1>3 DEF Unknown
<1>6. /\ FreeConn.pcb = None /\ ~FreeConn.alive /\ FreeConn.state = "NONE" /\ FreeConn.msg = None
      /\ FreeConn.sem = 0 /\ ~FreeConn.nbc /\ ~FreeConn.avalid /\ FreeConn.acceptmbox = << >>
      /\ FreeConn.past = {}
  BY DEF FreeConn
<1>7. ASSUME NEW d \in Conns, d \notin S, w.conn[d].pcb # None
      PROVE  SameFace(r.pcb[w.conn[d].pcb], w.pcb[w.conn[d].pcb])
  <2> DEFINE x == w.conn[d].pcb
  <2>1. x \in AllPcbs
    BY <1>1, <1>7, WorldTypes DEF ConnType
  <2>2. ~(\E n \in S : w.conn[n].pcb = x)
    BY <1>3, <1>7, OneOwner
  <2> HIDE DEF x
  <2>3. SameFace(r.pcb[x], w.pcb[x]) \/ r.pcb[x] = w.pcb[x]
    BY <1>2, <2>1, <2>2 DEF DrainedPcbs
  <2> QED
    BY Zenon, <2>3 DEF SameFace, x
<1>8. \A u \in Threads : r.th[u] = w.th[u]
  BY <1>2
<1>9. ASSUME NEW d \in Conns PROVE ConnOK(r, W, d)
  <2>1. CASE d \in S
    <3>1. r.conn[d] = FreeConn
      BY <1>4, <2>1
    <3>2. ~HasAnswer(r, W, FreeConn, d)
      BY <1>5, <1>8, <2>1 DEF HasAnswer, InCall
    <3>3. Dead(FreeConn) /\ Bound(r, FreeConn, d) /\ Stage(r, FreeConn) /\ Message(r, W, FreeConn, d)
      BY <1>6, NoneApart DEF Dead, Bound, Stage, Message
    <3>4. Signal(r, W, FreeConn, d)
      BY <1>6, <3>2 DEF Signal
    <3> QED
      BY <3>1, <3>3, <3>4 DEF ConnOK
  <2>2. CASE d \notin S
    <3> DEFINE k == r.conn[d]
               h == w.conn[d]
    <3>1. ConnOK(w, W, d)
      BY DEF NInv
    <3>2. /\ k.alive = h.alive /\ k.pcb = h.pcb /\ k.state = h.state /\ k.msg = h.msg /\ k.nbc = h.nbc
          /\ k.offset = h.offset /\ k.sem = h.sem /\ k.past = h.past
          /\ (k.avalid => h.avalid) /\ (k.acceptmbox # << >> => k.avalid /\ h.acceptmbox # << >>)
      BY Zenon, <1>4, <2>2, <3>1 DEF Drained, ConnOK, Stage
    <3>3. h.alive \/ d # c
      BY <1>1
    <3>4. Dead(k)
      BY Zenon, <1>4, <2>2, <3>1, <3>2, <3>3 DEF ConnOK, Dead
    <3>5. h.pcb # None => SameFace(r.pcb[h.pcb], w.pcb[h.pcb])
      BY <1>7, <2>2
    <3> HIDE DEF k, h
    <3>6. Bound(r, k, d)
      <4>1. Bound(w, h, d)
        BY <3>1 DEF ConnOK, h
      <4> QED
        BY <3>2, <3>5, <4>1 DEF Bound, SameFace
    <3>7. Stage(r, k)
      <4>1. Stage(w, h)
        BY <3>1 DEF ConnOK, h
      <4> QED
        BY <3>2, <3>5, <4>1, NoneApart DEF Stage, SameFace
    <3>8. Message(r, W, k, d)
      <4>1. Message(w, W, h, d) /\ h \in ConnType
        BY <1>1, <3>1, WorldTypes DEF ConnOK, h
      <4>2. h.msg # None => r.th[h.msg] = w.th[h.msg]
        BY <1>8, <4>1 DEF ConnType
      <4>3. h.pcb # None => r.pcb[h.pcb].st = w.pcb[h.pcb].st
        BY <3>5 DEF SameFace
      <4> QED
        BY SMTT(40), <1>2, <3>2, <4>1, <4>2, <4>3 DEF Message
    <3>9. Signal(r, W, k, d)
      <4>1. Signal(w, W, h, d)
        BY <3>1 DEF ConnOK, h
      <4>2. HasAnswer(r, W, k, d) <=> HasAnswer(w, W, h, d)
        BY <1>8, <3>2 DEF HasAnswer
      <4> QED
        BY <3>2, <4>1, <4>2 DEF Signal
    <3> QED
      BY <3>4, <3>6, <3>7, <3>8, <3>9 DEF ConnOK, k
  <2> QED
    BY <2>1, <2>2
<1>10. ASSUME NEW x \in AllPcbs PROVE PcbOK(r, x)
  <2>1. CASE \E n \in S : w.conn[n].pcb = x
    <3>1. r.pcb[x] = FreePcb
      BY SMTT(40), <1>2, <2>1 DEF DrainedPcbs
    <3> QED
      BY <3>1, FreePcbOK
  <2>2. CASE ~(\E n \in S : w.conn[n].pcb = x)
    <3>1. SameFace(r.pcb[x], w.pcb[x]) \/ r.pcb[x] = w.pcb[x]
      BY <1>2, <2>2 DEF DrainedPcbs
    <3>2. SameFace(r.pcb[x], w.pcb[x])
      BY <3>1 DEF SameFace
    <3>3. PcbOK(w, x) /\ (w.pcb[x].arg # None => w.pcb[x].arg \in Conns)
      BY SMTT(40), <1>1, WorldTypes DEF NInv, PcbType
    <3>4. ASSUME NEW d \in Conns, w.conn[d].pcb = x PROVE r.conn[d].pcb = x
      <4>1. d \notin S
        BY <2>2, <3>4
      <4> QED
        BY <1>4, <3>4, <4>1 DEF Drained
    <3> QED
      BY <3>2, <3>3, <3>4 DEF PcbOK, SameFace, Callback
  <2> QED
    BY <2>1, <2>2
<1>11. ASSUME NEW u \in Threads PROVE ThOK(r, W, O, u)
  <2>1. ThOK(w, W, O, u)
    BY DEF NInv
  <2>2. CASE w.th[u].c = c
    <3>1. u = t
      BY <1>1, <2>2, CallOf
    <3>2. Fresh(w, w.th[t]) /\ c # None
      BY <1>1, CallOf, NoneApart
    <3>3. Fresh(r, r.th[t]) /\ r.conn[c].alive
      BY Zenon, <1>1, <1>4, <1>8, <3>2 DEF Fresh, Drained
    <3> QED
      BY Zenon, <1>8, <2>1, <3>1, <3>3 DEF ThOK
  <2>3. CASE w.th[u].c # c
    <3>1. w.th[u].c # None => w.th[u].c \in Conns /\ r.conn[w.th[u].c] = w.conn[w.th[u].c]
      BY <1>1, <1>4, <1>5, <2>3, WorldTypes DEF ThType
    <3>2. w.th[u].pc = "wait" => w.th[u].c # None
      BY <2>1 DEF ThOK
    <3>3. u \in W => Fresh(r, r.th[u])
      <4>1. u \in W => Fresh(w, w.th[u])
        BY <2>1 DEF ThOK
      <4> QED
        BY <1>8, <3>1, <3>2, <4>1 DEF Fresh
    <3> QED
      BY ZenonT(60), <1>8, <2>1, <3>1, <3>2, <3>3 DEF ThOK
  <2> QED
    BY <2>2, <2>3
<1>12. PendOK(r, O)
  <2>1. ASSUME NEW d \in Conns, NEW i \in 1 .. Len(r.conn[d].acceptmbox)
        PROVE  r.conn[d] = w.conn[d] /\ d \notin S /\ d # c
    <3>1. r.conn[d].acceptmbox # << >>
      BY <2>1
    <3> QED
      BY <1>4, <1>6, <3>1 DEF Drained
  <2> SUFFICES ASSUME NEW d \in Conns, NEW i \in 1 .. Len(r.conn[d].acceptmbox)
               PROVE  Unknown(r, O, r.conn[d].acceptmbox[i]) /\ Once(r, d, i)
    BY DEF PendOK
  <2> DEFINE n == w.conn[d].acceptmbox[i]
  <2>2. r.conn[d] = w.conn[d] /\ d # c /\ i \in 1 .. Len(w.conn[d].acceptmbox)
    BY <2>1
  <2>3. Unknown(w, O, n) /\ Once(w, d, i) /\ n \notin S
    BY <1>3, <2>2 DEF NInv, PendOK
  <2>4. n \in Conns
    <3>1. w.conn[d].acceptmbox \in Seq(Conns)
      BY <1>1, WorldTypes DEF ConnType
    <3> QED
      BY <2>2, <3>1
  <2>5. n # c
    BY SMTT(40), <1>1, <2>3 DEF Unknown
  <2> HIDE DEF n
  <2>6. Unknown(r, O, n)
    BY <1>4, <1>8, <2>3, <2>4, <2>5 DEF Unknown
  <2>7. Once(r, d, i)
    BY SMTT(40), <2>1, <2>2, <2>3 DEF Once, n
  <2> QED
    BY SMTT(40), <2>2, <2>6, <2>7 DEF n
<1>13. \A d \in O : r.conn[d].alive
  <2> TAKE d \in O
  <2>1. d \in Conns /\ w.conn[d].alive /\ d \notin S
    BY <1>3 DEF NInv, Unknown
  <2> QED
    BY Zenon, <1>4, <2>1 DEF Drained
<1>14. W \subseteq Threads /\ O \subseteq Conns
  BY DEF NInv
<1>15. NInv(r, W, O)
  BY <1>2, <1>9, <1>10, <1>11, <1>12, <1>13, <1>14 DEF NInv
<1> QED
  BY SMTT(40), <1>2, <1>4, <1>15

-----------------------------------------------------------------------------
(* do_close_internal *)

(* The pcb with the callbacks of the sides that are shut taken away. *)
Reset(q, shut) ==
  [q EXCEPT !.arg = IF shut = RDWR THEN None ELSE @,
            !.recv = @ /\ "RD" \notin shut,
            !.sent = @ /\ "WR" \notin shut,
            !.poll = @ /\ ~(shut = RDWR), !.err = @ /\ ~(shut = RDWR)]

(* do_close_internal takes away the callbacks of the sides it shuts. *)
LEMMA ResetIs ==
  ASSUME NEW q \in PcbType, NEW shut
  PROVE  /\ Reset(q, shut) \in PcbType /\ Reset(q, shut).st = q.st
         /\ shut = RDWR => ~Callback(Reset(q, shut))
         /\ shut # RDWR => Reset(q, shut).arg = q.arg /\ Reset(q, shut).poll = q.poll /\ Reset(q, shut).err = q.err
<1> DEFINE a == IF shut = RDWR THEN None ELSE q.arg
           b == q.recv /\ "RD" \notin shut
           d == q.sent /\ "WR" \notin shut
           e == q.poll /\ ~(shut = RDWR)
           f == q.err /\ ~(shut = RDWR)
           s == Reset(q, shut)
<1>1. a \in Conns \cup {None} /\ b \in BOOLEAN /\ d \in BOOLEAN /\ e \in BOOLEAN /\ f \in BOOLEAN
  BY DEF PcbType
<1>2. s = [q EXCEPT !.arg = a, !.recv = b, !.sent = d, !.poll = e, !.err = f]
  BY DEF Reset
<1>3. shut = RDWR => ~b /\ ~d /\ ~e /\ ~f
  BY DEF RDWR
<1>4. shut # RDWR => a = q.arg /\ e = q.poll /\ f = q.err
  BY DEF PcbType
<1> HIDE DEF a, b, d, e, f, s
<1>5. s \in PcbType /\ s.st = q.st /\ s.arg = a /\ s.recv = b /\ s.sent = d /\ s.poll = e /\ s.err = f
  BY ZenonT(60), <1>1, <1>2 DEF PcbType
<1>6. /\ s \in PcbType /\ s.st = q.st
      /\ shut = RDWR => ~Callback(s)
      /\ shut # RDWR => s.arg = q.arg /\ s.poll = q.poll /\ s.err = q.err
  BY <1>3, <1>4, <1>5 DEF Callback
<1> QED
  BY <1>6 DEF s

(* tcp_close of a pcb without callbacks. *)
LEMMA ClosedIs ==
  ASSUME NEW q \in PcbType, ~Callback(q), q.st \in Attached \cup Leaving \cup {"LISTEN"}, NEW rst \in BOOLEAN,
         NEW s, s = tcp_close_shutdown(q, rst)
  PROVE  /\ s \in PcbType /\ ~Callback(s) /\ s.st \notin {"LISTEN", "SYN_RCVD", "SYN_SENT"}
         /\ (q.st = "LISTEN" => s = FreePcb)
<1> DEFINE To(x) == [q EXCEPT !.st = x]
           tw == [To("TIME_WAIT") EXCEPT !.refused = "none", !.snd = 0]
<1>1. /\ q.st \in {"CLOSED", "LISTEN", "SYN_SENT"} => s = FreePcb
      /\ q.st = "ESTABLISHED" => s = tw \/ s = To("FIN_WAIT_1")
      /\ q.st = "CLOSE_WAIT" => s = FreePcb \/ s = To("LAST_ACK")
      /\ q.st \in Leaving => s = q
  BY DEF tcp_close_shutdown, Leaving
<1>2. FreePcb \in PcbType /\ ~Callback(FreePcb) /\ FreePcb.st = "free"
  BY Blank DEF FreePcb, Callback
<1>3. ASSUME NEW x \in {"TIME_WAIT", "FIN_WAIT_1", "LAST_ACK"}
      PROVE  To(x) \in PcbType /\ ~Callback(To(x)) /\ To(x).st = x
  BY DEF PcbType, PcbStates, Active, Callback
<1>4. tw \in PcbType /\ ~Callback(tw) /\ tw.st = "TIME_WAIT"
  <2>1. 0 \in 0 .. SndBuf
    BY NetconnAssumption
  <2>2. To("TIME_WAIT") \in PcbType /\ ~Callback(To("TIME_WAIT")) /\ To("TIME_WAIT").st = "TIME_WAIT"
    BY <1>3
  <2> HIDE DEF To
  <2> QED
    BY <2>1, <2>2 DEF PcbType, Callback
<1>5. /\ To("FIN_WAIT_1") \in PcbType /\ ~Callback(To("FIN_WAIT_1")) /\ To("FIN_WAIT_1").st = "FIN_WAIT_1"
      /\ To("LAST_ACK") \in PcbType /\ ~Callback(To("LAST_ACK")) /\ To("LAST_ACK").st = "LAST_ACK"
  BY <1>3
<1> HIDE DEF To, tw
<1>6. q.st \in {"CLOSED", "LISTEN", "SYN_SENT", "ESTABLISHED", "CLOSE_WAIT"} \cup Leaving
  BY DEF Attached
<1>7. q.st \in Leaving => q.st \notin {"LISTEN", "SYN_RCVD", "SYN_SENT"}
  BY DEF Leaving
<1> QED
  BY <1>1, <1>2, <1>4, <1>5, <1>6, <1>7

(* TF_RXCLOSED. *)
LEMMA RxIs ==
  ASSUME NEW q \in PcbType, NEW b, NEW s, s = [q EXCEPT !.rx = @ \/ b]
  PROVE  s \in PcbType /\ SameFace(s, q)
<1> DEFINE x == q.rx \/ b
<1>1. x \in BOOLEAN
  OBVIOUS
<1>2. s = [q EXCEPT !.rx = x]
  OBVIOUS
<1> HIDE DEF x
<1> QED
  BY <1>1, <1>2 DEF PcbType, SameFace

(* The outcomes of tcp_close, for the pcb q of a netconn. *)
LEMMA ShutAll ==
  ASSUME NEW q \in PcbType, q.st \in Attached \cup Leaving \cup {"LISTEN"}, NEW fin \in BOOLEAN,
         NEW s, s = Reset(q, RDWR), NEW q1, q1 = tcp_shutdown(s, RDWR, fin)
  PROVE  /\ q1 \in PcbType
         /\ ShutErr(s, RDWR, fin) = "OK" =>
              /\ ~Callback(q1) /\ q1.st \notin {"LISTEN", "SYN_RCVD", "SYN_SENT"}
              /\ (q.st = "LISTEN" => q1 = FreePcb)
         /\ ShutErr(s, RDWR, fin) # "OK" => q1.st = q.st /\ q.st \in {"ESTABLISHED", "CLOSE_WAIT"}
<1> DEFINE b == "RD" \in RDWR /\ s.st # "LISTEN"
           x == [s EXCEPT !.rx = @ \/ b]
<1>1. s \in PcbType /\ ~Callback(s) /\ s.st = q.st
  BY ResetIs
<1>2. x \in PcbType /\ SameFace(x, s)
  BY <1>1, RxIs
<1>3. ShutErr(s, RDWR, fin) = CloseErr(s, TRUE, fin)
  BY DEF ShutErr
<1>4. CASE ShutErr(s, RDWR, fin) = "OK"
  <2>1. RDWR # {"RD"}
    BY DEF RDWR
  <2>2. q1 = tcp_close_shutdown(x, RDWR = RDWR)
    BY <1>4, <2>1 DEF tcp_shutdown
  <2> HIDE DEF x
  <2>3. ~Callback(x) /\ x.st = q.st
    BY <1>1, <1>2 DEF SameFace, Callback
  <2>4. q1 = tcp_close_shutdown(x, TRUE)
    BY <2>2
  <2>5. /\ q1 \in PcbType /\ ~Callback(q1) /\ q1.st \notin {"LISTEN", "SYN_RCVD", "SYN_SENT"}
        /\ (x.st = "LISTEN" => q1 = FreePcb)
    BY <1>2, <2>3, <2>4, ClosedIs
  <2> QED
    BY <1>4, <2>3, <2>5
<1>5. CASE ShutErr(s, RDWR, fin) # "OK"
  <2>1. q1 = x
    BY <1>5 DEF tcp_shutdown
  <2> HIDE DEF x
  <2>2. s.st \in {"SYN_RCVD", "ESTABLISHED", "CLOSE_WAIT"}
    BY <1>3, <1>5 DEF CloseErr
  <2> QED
    BY <1>1, <1>2, <1>5, <2>1, <2>2 DEF SameFace, Attached, Leaving
<1> QED
  BY <1>4, <1>5

(* tcp_shutdown of the reading side cannot fail and keeps err and poll. *)
LEMMA ShutRead ==
  ASSUME NEW q \in PcbType, NEW fin, NEW s, s = Reset(q, {"RD"}), NEW q1, q1 = tcp_shutdown(s, {"RD"}, fin)
  PROVE  /\ ShutErr(s, {"RD"}, fin) = "OK"
         /\ q1 \in PcbType /\ q1.st = q.st /\ q1.arg = q.arg /\ q1.poll = q.poll /\ q1.err = q.err
<1> DEFINE shut == {"RD"}
           b == "RD" \in shut /\ s.st # "LISTEN"
           x == [s EXCEPT !.rx = @ \/ b]
<1>1. shut # RDWR
  BY DEF RDWR
<1>2. s \in PcbType /\ s.st = q.st /\ s.arg = q.arg /\ s.poll = q.poll /\ s.err = q.err
  BY <1>1, ResetIs
<1>3. ShutErr(s, shut, fin) = "OK"
  BY <1>1 DEF ShutErr
<1>4. x \in PcbType /\ SameFace(x, s)
  BY <1>2, RxIs
<1>5. q1 = [x EXCEPT !.refused = "none"]
  BY <1>3 DEF tcp_shutdown
<1> HIDE DEF x
<1>6. q1 \in PcbType /\ SameFace(q1, x)
  BY <1>4, <1>5 DEF PcbType, SameFace
<1> QED
  BY <1>2, <1>3, <1>4, <1>6 DEF SameFace

(* tcp_shutdown of the sending side keeps err and poll; it sends a FIN or   *)
(* leaves the pcb in its state.                                            *)
LEMMA ShutWrite ==
  ASSUME NEW q \in PcbType, q.st \in Attached \cup Leaving, NEW fin \in BOOLEAN,
         NEW s, s = Reset(q, {"WR"}), NEW q1, q1 = tcp_shutdown(s, {"WR"}, fin)
  PROVE  /\ q1 \in PcbType /\ q1.arg = q.arg /\ q1.poll = q.poll /\ q1.err = q.err
         /\ ShutErr(s, {"WR"}, fin) = "OK" => q1.st \in {"FIN_WAIT_1", "LAST_ACK"}
         /\ ShutErr(s, {"WR"}, fin) # "OK" => q1.st = q.st
<1> DEFINE shut == {"WR"}
           b == "RD" \in shut /\ s.st # "LISTEN"
           x == [s EXCEPT !.rx = @ \/ b]
<1>1. shut # RDWR /\ shut # {"RD"}
  BY DEF RDWR
<1>2. s \in PcbType /\ s.st = q.st /\ s.arg = q.arg /\ s.poll = q.poll /\ s.err = q.err
  BY <1>1, ResetIs
<1>3. x \in PcbType /\ SameFace(x, s)
  BY <1>2, RxIs
<1>4. CASE ShutErr(s, shut, fin) = "OK"
  <2>1. s.st \in {"ESTABLISHED", "CLOSE_WAIT"}
    BY <1>1, <1>2, <1>4 DEF ShutErr, Attached, Leaving
  <2>2. q1 = tcp_close_shutdown(x, FALSE)
    BY <1>1, <1>4 DEF tcp_shutdown
  <2> HIDE DEF x
  <2>3. x.st \in {"ESTABLISHED", "CLOSE_WAIT"}
    BY <1>3, <2>1 DEF SameFace
  <2>4. q1 = [x EXCEPT !.st = "FIN_WAIT_1"] \/ q1 = [x EXCEPT !.st = "LAST_ACK"]
    BY <2>2, <2>3 DEF tcp_close_shutdown
  <2>5. /\ q1 \in PcbType /\ q1.arg = x.arg /\ q1.poll = x.poll /\ q1.err = x.err
        /\ q1.st \in {"FIN_WAIT_1", "LAST_ACK"}
    BY <1>3, <2>4 DEF PcbType, PcbStates, Active
  <2> QED
    BY <1>2, <1>3, <1>4, <2>5 DEF SameFace
<1>5. CASE ShutErr(s, shut, fin) # "OK"
  <2>1. q1 = x
    BY <1>5 DEF tcp_shutdown
  <2> HIDE DEF x
  <2> QED
    BY <1>2, <1>3, <1>5, <2>1 DEF SameFace
<1> QED
  BY <1>4, <1>5

(* x is w with the operation of thread t set to the close of netconn c. *)
Closes(w, O, x, c, p, t) ==
  /\ x \in Worlds /\ x.pcb = w.pcb /\ Elsewhere(w, x, c, None, t) /\ Caller(w, O, c, t)
  /\ p = w.conn[c].pcb /\ p # None /\ w.conn[c].acceptmbox = << >> /\ ~w.conn[c].avalid
  /\ x.conn[c].alive = w.conn[c].alive /\ x.conn[c].pcb = p /\ x.conn[c].nbc = w.conn[c].nbc
  /\ x.conn[c].sem = 0 /\ x.conn[c].msg = t /\ x.conn[c].state = "CLOSE"
  /\ ~x.conn[c].avalid /\ x.conn[c].acceptmbox = << >> /\ x.conn[c].past = w.conn[c].past
  /\ x.th[t].pc = "wait" /\ x.th[t].c = c /\ x.th[t].fn = w.th[t].fn /\ w.th[t].fn # "new"

(* The netconn after the last step of a close, before Complete. *)
Severed(h, k, p) ==
  /\ k \in ConnType /\ k.pcb = p /\ k.alive = h.alive /\ k.nbc = h.nbc /\ k.sem = h.sem /\ k.msg = h.msg
  /\ k.avalid = h.avalid /\ k.acceptmbox = h.acceptmbox

(* What a netconn remembers of a close that went through. *)
Recalls(h, shut) == IF shut = RDWR THEN {} ELSE h.past \cup (IF shut = {"WR"} THEN {"half"} ELSE {})

(* The netconn that do_close_internal leaves. *)
Sever(h, shut) ==
  [h EXCEPT !.pcb = IF shut = RDWR THEN None ELSE @, !.wr = @ \/ "WR" \in shut,
            !.past = IF shut = RDWR THEN {} ELSE @ \cup (IF shut = {"WR"} THEN {"half"} ELSE {})]

(* A netconn loses its pcb when both sides were closed. *)
LEMMA SeveredIs ==
  ASSUME NEW h \in ConnType, NEW shut
  PROVE  /\ Severed(h, Sever(h, shut), IF shut = RDWR THEN None ELSE h.pcb)
         /\ Sever(h, shut).past = Recalls(h, shut)
<1> DEFINE k == Sever(h, shut)
           b == "WR" \in shut
           p == IF shut = RDWR THEN None ELSE h.pcb
           v == h.wr \/ b
           s == Recalls(h, shut)
<1>1. p \in AllPcbs \cup {None} /\ v \in BOOLEAN /\ s \in SUBSET {"half", "eof", "lost"}
  BY DEF ConnType, Recalls
<1>2. k = [h EXCEPT !.pcb = p, !.wr = v, !.past = s]
  BY DEF Recalls, Sever
<1> HIDE DEF p, v, s, k
<1>3. Severed(h, k, p) /\ k.past = s
  BY <1>1, <1>2 DEF Severed, ConnType
<1> QED
  BY <1>3 DEF p, s, k

(* A close or the shutdown of one side that went through. *)
LEMMA CloseEnds ==
  ASSUME NEW w, NEW W, NEW O, NInv(w, W, O), NEW x, NEW c, NEW p, NEW t, Closes(w, O, x, c, p, t),
         NEW q \in PcbType, NEW k, NEW g \in {p, None}, Severed(x.conn[c], k, g),
         "lost" \in k.past => "half" \in k.past,
         g = None => ~Callback(q) /\ q.st \notin {"LISTEN", "SYN_RCVD", "SYN_SENT"} /\ (p \in ListenPcbs => q = FreePcb),
         g # None => /\ p \in Pcbs /\ q.arg = c /\ q.err /\ q.poll /\ q.st \in (Attached \cup Leaving) \ {"SYN_SENT"}
                     /\ (q.st \in Leaving => "half" \in k.past)
                     /\ ~w.conn[c].nbc /\ w.th[t].fn # "delete"
  PROVE  NInv(Complete(SetConn(SetPcb(x, p, q), c, k), c, "OK"), W \ {t}, O)
<1> DEFINE y == SetConn(SetPcb(x, p, q), c, k)
           r == Complete(y, c, "OK")
           h == x.conn[c]
<1>1. /\ x \in Worlds /\ x.pcb = w.pcb /\ Elsewhere(w, x, c, None, t) /\ Caller(w, O, c, t)
      /\ p = w.conn[c].pcb /\ p # None /\ w.conn[c].acceptmbox = << >>
      /\ h.alive = w.conn[c].alive /\ h.pcb = p /\ h.nbc = w.conn[c].nbc
      /\ h.sem = 0 /\ h.msg = t /\ ~h.avalid /\ h.acceptmbox = << >>
      /\ x.th[t].pc = "wait" /\ x.th[t].c = c /\ x.th[t].fn = w.th[t].fn /\ w.th[t].fn # "new"
  BY DEF Closes
<1>2. c \in Conns /\ t \in Threads /\ InCall(w.th[t], c)
  BY <1>1 DEF Caller
<1>3. /\ k \in ConnType /\ k.pcb = g /\ k.alive = h.alive /\ k.nbc = h.nbc /\ k.sem = 0 /\ k.msg = t
      /\ ~k.avalid /\ k.acceptmbox = << >>
  BY <1>1 DEF Severed
<1> HIDE DEF h
<1>4. p \in AllPcbs
  BY <1>1, <1>2, WorldTypes DEF NInv, ConnType
<1>5. Both(x, y, c, p, k, q)
  BY <1>1, <1>2, <1>3, <1>4, BothIs
<1> HIDE DEF y
<1>6. y \in Worlds /\ y.th = x.th /\ y.conn[c] = k /\ y.pcb[p] = q /\ Elsewhere(x, y, c, p, None)
  BY <1>5 DEF Both
<1>7. Completed(y, r, c, t, "OK")
  BY <1>2, <1>3, <1>6, CompleteIs DEF Errors
<1> HIDE DEF r
<1>8. r \in Worlds /\ r.pcb = y.pcb /\ Elsewhere(y, r, c, None, t)
  BY <1>7 DEF Completed
<1>9. /\ r.conn[c].msg = None /\ r.conn[c].state = "NONE" /\ r.conn[c].sem = 1
      /\ r.conn[c].alive = w.conn[c].alive /\ r.conn[c].pcb = g /\ r.conn[c].nbc = w.conn[c].nbc /\ ~r.conn[c].avalid
      /\ r.conn[c].acceptmbox = << >> /\ r.conn[c].past = k.past
  BY <1>1, <1>3, <1>6, <1>7 DEF Completed, BackToIdle
<1>10. /\ r.th[t].pc = "wait" /\ r.th[t].c = c /\ r.th[t].fn \in {w.th[t].fn, "none"} /\ r.th[t].fn # "new"
       /\ (r.th[t].fn = "delete" => w.th[t].fn = "delete")
  BY <1>1, <1>6, <1>7 DEF Completed, Reply
<1>11. Elsewhere(w, r, c, p, t)
  BY <1>1, <1>6, <1>8, NoneApart DEF Elsewhere
<1>12. r.pcb[p] = q
  BY <1>6, <1>8
<1>13. Bound(r, r.conn[c], c) /\ Stage(r, r.conn[c]) /\ PcbOK(r, p)
  <2>1. CASE g = None
    <3>1. PcbOK(r, p)
      BY <1>4, <1>12, <2>1, NoneApart, FreePcbOK DEF PcbOK
    <3> QED
      BY <1>9, <2>1, <3>1, NoneApart DEF Bound, Stage
  <2>2. CASE g # None
    <3>1. /\ g = p /\ p \in Pcbs /\ q.arg = c /\ q.err /\ q.poll /\ q.st \in Attached \cup Leaving
          /\ q.st # "SYN_SENT" /\ ~w.conn[c].nbc /\ (q.st \in Leaving => "half" \in k.past)
      BY <2>2
    <3>2. PcbOK(r, p)
      BY <1>2, <1>9, <1>12, <3>1, OwnPcbOK DEF Attached, Leaving
    <3> QED
      BY <1>9, <1>12, <3>1, <3>2, NoneApart DEF Bound, Stage
  <2> QED
    BY <2>1, <2>2
<1>14. Mine(w, c, p, t)
  BY <1>1, <1>2, <1>4, OneOwner, NoneApart DEF Mine, InCall
<1>15. Ends(w, O, r, c, p, t)
  BY <1>1, <1>4, <1>8, <1>9, <1>10, <1>11, <1>13, <1>14 DEF Ends
<1>16. NInv(r, W \ {t}, O)
  BY <1>15, EndStep
<1> QED
  BY <1>16 DEF r, y

(* A close that has to be tried again. *)
LEMMA CloseWaits ==
  ASSUME NEW w, NEW W, NEW O, NInv(w, W, O), NEW x, NEW c, NEW p \in Pcbs, NEW t, Closes(w, O, x, c, p, t),
         ~w.conn[c].nbc,
         NEW q \in PcbType, q.arg = c, q.err, q.poll, q.st \in (Attached \cup Leaving) \ {"SYN_SENT"},
         q.st \in Leaving => "half" \in w.conn[c].past,
         \/ x.th[t].shut = RDWR /\ q.st \in {"ESTABLISHED", "CLOSE_WAIT"}
         \/ x.th[t].shut = {"WR"} /\ w.th[t].fn # "delete"
  PROVE  NInv(SetPcb(x, p, q), W \ {t}, O)
<1> DEFINE r == SetPcb(x, p, q)
           k == x.conn[c]
           V == W \ {t}
<1>1. /\ x \in Worlds /\ x.pcb = w.pcb /\ Elsewhere(w, x, c, None, t) /\ Caller(w, O, c, t)
      /\ p = w.conn[c].pcb /\ p # None /\ w.conn[c].acceptmbox = << >>
      /\ k.alive = w.conn[c].alive /\ k.pcb = p /\ k.nbc = w.conn[c].nbc
      /\ k.sem = 0 /\ k.msg = t /\ k.state = "CLOSE" /\ ~k.avalid /\ k.acceptmbox = << >> /\ k.past = w.conn[c].past
      /\ x.th[t].pc = "wait" /\ x.th[t].c = c /\ x.th[t].fn = w.th[t].fn /\ w.th[t].fn # "new"
  BY DEF Closes
<1>2. c \in Conns /\ t \in Threads /\ InCall(w.th[t], c)
  BY <1>1 DEF Caller
<1> HIDE DEF k
<1>3. PcbSet(x, r, p, q)
  BY <1>1, PcbSetIs, NoneApart
<1> HIDE DEF r
<1>4. /\ r \in Worlds /\ r.conn = x.conn /\ r.th = x.th
      /\ r.pcb[p] = q /\ \A z \in AllPcbs : z # p => r.pcb[z] = x.pcb[z]
  BY <1>3 DEF PcbSet
<1>5. Elsewhere(w, r, c, p, t) /\ r.conn[c] = k
  BY <1>1, <1>4, NoneApart DEF Elsewhere, k
<1>6. Mine(w, c, p, t)
  BY <1>1, <1>2, OneOwner, NoneApart DEF Mine, InCall
<1>7. PcbOK(r, p)
  <2>1. q.st # "LISTEN"
    BY DEF Attached, Leaving
  <2> QED
    BY <1>1, <1>2, <1>4, <1>5, <2>1, OwnPcbOK
<1>8. Bound(r, k, c) /\ Stage(r, k)
  <2>1. "lost" \in k.past => "half" \in k.past
    BY <1>1, <1>2 DEF NInv, ConnOK, Bound
  <2> QED
    BY <1>1, <1>4, <2>1, NoneApart DEF Bound, Stage
<1>9. Message(r, V, k, c)
  BY <1>1, <1>2, <1>4, NoneApart DEF Message, InCall
<1> HIDE DEF V
<1>10. Holds(w, O, r, V, c, p, t)
  BY <1>1, <1>4, <1>5, <1>6, <1>7, <1>8, <1>9, NoneApart DEF Holds
<1>11. NInv(r, V, O)
  BY <1>10, HoldStep DEF V
<1> QED
  BY <1>11 DEF r, V

(* A close that failed gives the callbacks back. *)
LEMMA RestoredIs ==
  ASSUME NEW q \in PcbType, NEW c \in Conns, NEW s, s = RestoreCallbacks(q, c)
  PROVE  s \in PcbType /\ s.arg = c /\ s.poll /\ s.err /\ s.st = q.st
  BY DEF RestoreCallbacks, PcbType

(* do_close_internal ends the operation, or keeps it for poll_tcp. *)
LEMMA CloseInternal ==
  ASSUME NEW w, NEW W, NEW O, NInv(w, W, O), NEW x, NEW c, NEW p, NEW t, Closes(w, O, x, c, p, t),
         \/ x.th[t].shut = RDWR
         \/ x.th[t].shut = {"RD"} /\ w.conn[c].state = "NONE" /\ w.th[t].fn # "delete"
         \/ x.th[t].shut = {"WR"} /\ w.conn[c].state \in {"NONE", "CLOSE"} /\ w.th[t].fn # "delete",
         NEW fin \in BOOLEAN
  PROVE  NInv(do_close_internal(x, c, fin), W \ {t}, O)
<1> DEFINE h == x.conn[c]
           shut == x.th[t].shut
           q == x.pcb[p]
           s == Reset(q, shut)
           q1 == tcp_shutdown(s, shut, fin)
           close == shut = RDWR
           k == [h EXCEPT !.pcb = IF close THEN None ELSE @, !.wr = @ \/ "WR" \in shut,
                          !.past = IF close THEN {} ELSE @ \cup (IF shut = {"WR"} THEN {"half"} ELSE {})]
           r == do_close_internal(x, c, fin)
<1>1. /\ x \in Worlds /\ x.pcb = w.pcb /\ Caller(w, O, c, t)
      /\ p = w.conn[c].pcb /\ p # None /\ h.pcb = p /\ h.msg = t /\ h.past = w.conn[c].past
  BY DEF Closes
<1>2. c \in Conns /\ t \in Threads
  BY <1>1 DEF Caller
<1>3. p \in AllPcbs /\ ConnOK(w, W, c) /\ w \in Worlds
  BY <1>1, <1>2, WorldTypes DEF NInv, ConnType
<1>4. q \in PcbType /\ h \in ConnType /\ q = w.pcb[p]
  BY <1>1, <1>2, <1>3, WorldTypes
<1>5. /\ p \in Pcbs => /\ q.st \in Attached \cup Leaving /\ q.arg = c /\ q.err /\ q.poll
                       /\ q.st \in Leaving => "half" \in h.past
      /\ p \in ListenPcbs => q.st = "LISTEN"
      /\ "lost" \in h.past => "half" \in h.past
  BY <1>1, <1>3, <1>4 DEF ConnOK, Bound
<1>6. q.st \in Attached \cup Leaving \cup {"LISTEN"}
  BY <1>3, <1>5, NoneApart
<1>7. r = IF ShutErr(s, shut, fin) = "OK"
          THEN Complete(SetConn(SetPcb(x, p, q1), c, k), c, "OK")
          ELSE SetPcb(x, p, RestoreCallbacks(q1, c))
  BY <1>1 DEF do_close_internal, Reset
<1>8. Severed(h, k, IF close THEN None ELSE p) /\ k.past = Recalls(h, shut)
  <2>1. k = Sever(h, shut)
    BY DEF Sever
  <2> HIDE DEF k, h, shut
  <2>2. Severed(h, k, IF shut = RDWR THEN None ELSE h.pcb) /\ k.past = Recalls(h, shut)
    BY <1>4, <2>1, SeveredIs
  <2> QED
    BY <1>1, <2>2
<1>9. w.conn[c].nbc => q.st = "SYN_SENT"
  BY <1>1, <1>3, <1>4 DEF ConnOK, Stage
<1>12. "lost" \in k.past => "half" \in k.past
  <2> HIDE DEF k, h, shut
  <2> QED
    BY <1>5, <1>8 DEF Recalls
<1>13. shut # RDWR => p \in Pcbs /\ q.st # "SYN_SENT" /\ ~w.conn[c].nbc /\ k.past = h.past \cup (IF shut = {"WR"} THEN {"half"} ELSE {})
  <2>1. shut # RDWR => w.conn[c].state \in {"NONE", "CLOSE"}
    OBVIOUS
  <2> HIDE DEF k, h, shut
  <2>2. shut # RDWR => k.past = h.past \cup (IF shut = {"WR"} THEN {"half"} ELSE {})
    BY <1>8 DEF Recalls
  <2>3. Stage(w, w.conn[c])
    BY <1>3 DEF ConnOK
  <2>4. shut # RDWR => p \notin ListenPcbs /\ (p \in Pcbs => q.st # "SYN_SENT")
    BY <1>1, <1>4, <2>1, <2>3 DEF Stage
  <2> QED
    BY <1>3, <1>9, <2>2, <2>4, NoneApart
<1> HIDE DEF h, k, q1, s, r
<1>10. CASE shut = RDWR
  <2>1. /\ q1 \in PcbType
        /\ ShutErr(s, RDWR, fin) = "OK" =>
             /\ ~Callback(q1) /\ q1.st \notin {"LISTEN", "SYN_RCVD", "SYN_SENT"}
             /\ (q.st = "LISTEN" => q1 = FreePcb)
        /\ ShutErr(s, RDWR, fin) # "OK" => q1.st = q.st /\ q.st \in {"ESTABLISHED", "CLOSE_WAIT"}
    <3>1. s = Reset(q, RDWR) /\ q1 = tcp_shutdown(s, RDWR, fin)
      BY <1>10 DEF s, q1
    <3> HIDE DEF q
    <3> QED
      BY <1>4, <1>6, <3>1, ShutAll
  <2>2. CASE ShutErr(s, shut, fin) = "OK"
    <3>1. r = Complete(SetConn(SetPcb(x, p, q1), c, k), c, "OK")
      BY <1>7, <2>2
    <3>2. Severed(x.conn[c], k, None)
      BY <1>8, <1>10 DEF h
    <3>3. ~Callback(q1) /\ q1.st \notin {"LISTEN", "SYN_RCVD", "SYN_SENT"} /\ (p \in ListenPcbs => q1 = FreePcb)
      BY <1>5, <1>10, <2>1, <2>2
    <3>4. None \in {p, None} /\ q1 \in PcbType /\ ("lost" \in k.past => "half" \in k.past)
      BY <1>12, <2>1
    <3>5. NInv(Complete(SetConn(SetPcb(x, p, q1), c, k), c, "OK"), W \ {t}, O)
      BY <3>2, <3>3, <3>4, CloseEnds
    <3> QED
      BY <3>1, <3>5 DEF r
  <2>3. CASE ShutErr(s, shut, fin) # "OK"
    <3> DEFINE q2 == RestoreCallbacks(q1, c)
    <3>1. r = SetPcb(x, p, q2)
      BY <1>7, <2>3
    <3>2. q1 \in PcbType /\ q1.st = q.st /\ q.st \in {"ESTABLISHED", "CLOSE_WAIT"}
      BY <1>10, <2>1, <2>3
    <3>3. q2 \in PcbType /\ q2.arg = c /\ q2.poll /\ q2.err /\ q2.st = q1.st
      BY <1>2, <3>2, RestoredIs
    <3> HIDE DEF q2
    <3>4. p \in Pcbs /\ ~w.conn[c].nbc
      BY <1>3, <1>5, <1>9, <3>2, NoneApart
    <3>5. /\ q2.st \in {"ESTABLISHED", "CLOSE_WAIT"} /\ q2.st \in (Attached \cup Leaving) \ {"SYN_SENT"}
          /\ q2.st \notin Leaving
      BY <3>2, <3>3 DEF Attached, Leaving
    <3>6. NInv(SetPcb(x, p, q2), W \ {t}, O)
      BY <1>10, <3>3, <3>4, <3>5, CloseWaits
    <3> QED
      BY <3>1, <3>6 DEF r
  <2> QED
    BY <2>2, <2>3
<1>11. CASE shut = {"RD"}
  <2>1. shut # RDWR /\ shut # {"WR"} /\ w.th[t].fn # "delete"
    BY <1>11 DEF RDWR
  <2>2. /\ ShutErr(s, {"RD"}, fin) = "OK"
        /\ q1 \in PcbType /\ q1.st = q.st /\ q1.arg = q.arg /\ q1.poll = q.poll /\ q1.err = q.err
    <3>1. s = Reset(q, {"RD"}) /\ q1 = tcp_shutdown(s, {"RD"}, fin)
      BY <1>11 DEF s, q1
    <3> HIDE DEF q
    <3> QED
      BY <1>4, <3>1, ShutRead
  <2>3. r = Complete(SetConn(SetPcb(x, p, q1), c, k), c, "OK")
    BY <1>7, <1>11, <2>2
  <2>4. Severed(x.conn[c], k, p)
    BY <1>8, <2>1 DEF h
  <2>5. p \in Pcbs /\ q.st # "SYN_SENT" /\ ~w.conn[c].nbc /\ k.past = h.past
    BY <1>13, <2>1
  <2>6. /\ q1.arg = c /\ q1.err /\ q1.poll /\ q1.st \in (Attached \cup Leaving) \ {"SYN_SENT"}
        /\ (q1.st \in Leaving => "half" \in k.past)
    BY <1>5, <2>2, <2>5
  <2>7. p \in {p, None} /\ p # None /\ q1 \in PcbType
    BY <1>1, <2>2
  <2>8. NInv(Complete(SetConn(SetPcb(x, p, q1), c, k), c, "OK"), W \ {t}, O)
    BY <1>12, <2>1, <2>4, <2>5, <2>6, <2>7, CloseEnds
  <2> QED
    BY <2>3, <2>8 DEF r
<1>14. CASE shut = {"WR"}
  <2>1. shut # RDWR /\ w.th[t].fn # "delete"
    BY <1>14 DEF RDWR
  <2>2. p \in Pcbs /\ q.st # "SYN_SENT" /\ ~w.conn[c].nbc /\ k.past = h.past \cup {"half"}
    BY <1>13, <1>14, <2>1
  <2>3. /\ q1 \in PcbType /\ q1.arg = q.arg /\ q1.poll = q.poll /\ q1.err = q.err
        /\ ShutErr(s, {"WR"}, fin) = "OK" => q1.st \in {"FIN_WAIT_1", "LAST_ACK"}
        /\ ShutErr(s, {"WR"}, fin) # "OK" => q1.st = q.st
    <3>1. s = Reset(q, {"WR"}) /\ q1 = tcp_shutdown(s, {"WR"}, fin)
      BY <1>14 DEF s, q1
    <3>2. q.st \in Attached \cup Leaving
      BY <1>5, <2>2
    <3> HIDE DEF q
    <3> QED
      BY <1>4, <3>1, <3>2, ShutWrite
  <2>4. CASE ShutErr(s, shut, fin) = "OK"
    <3>1. r = Complete(SetConn(SetPcb(x, p, q1), c, k), c, "OK")
      BY <1>7, <2>4
    <3>2. Severed(x.conn[c], k, p)
      BY <1>8, <2>1 DEF h
    <3>3. q1.st \in {"FIN_WAIT_1", "LAST_ACK"}
      BY <1>14, <2>3, <2>4
    <3>4. /\ q1.arg = c /\ q1.err /\ q1.poll /\ q1.st \in (Attached \cup Leaving) \ {"SYN_SENT"}
          /\ "half" \in k.past
      BY <1>5, <2>2, <2>3, <3>3 DEF Leaving
    <3>5. p \in {p, None} /\ p # None /\ q1 \in PcbType
      BY <1>1, <2>3
    <3>6. NInv(Complete(SetConn(SetPcb(x, p, q1), c, k), c, "OK"), W \ {t}, O)
      BY <1>12, <2>1, <2>2, <3>2, <3>4, <3>5, CloseEnds
    <3> QED
      BY <3>1, <3>6 DEF r
  <2>5. CASE ShutErr(s, shut, fin) # "OK"
    <3> DEFINE q2 == RestoreCallbacks(q1, c)
    <3>1. r = SetPcb(x, p, q2)
      BY <1>7, <2>5
    <3>2. q1 \in PcbType /\ q1.st = q.st
      BY <1>14, <2>3, <2>5
    <3>3. q2 \in PcbType /\ q2.arg = c /\ q2.poll /\ q2.err /\ q2.st = q1.st
      BY <1>2, <3>2, RestoredIs
    <3> HIDE DEF q2
    <3>4. q2.st \in (Attached \cup Leaving) \ {"SYN_SENT"} /\ (q2.st \in Leaving => "half" \in w.conn[c].past)
      BY <1>1, <1>5, <2>2, <3>2, <3>3
    <3>5. NInv(SetPcb(x, p, q2), W \ {t}, O)
      BY <1>14, <2>1, <2>2, <3>3, <3>4, CloseWaits
    <3> QED
      BY <3>1, <3>5 DEF r
  <2> QED
    BY <2>4, <2>5
<1> QED
  BY <1>10, <1>11, <1>14

Shutting(w, O, x, c, t, shut) == Closes(w, O, x, c, w.conn[c].pcb, t) /\ x.th[t].shut = shut

(* do_close and do_delconn enter state CLOSE with their own message. *)
LEMMA ClosingIs ==
  ASSUME NEW w, NEW W, NEW O, NInv(w, W, O), NEW t \in W, w.th[t].fn # "new", NEW c, c = w.th[t].c,
         w.conn[c].pcb # None, w.conn[c].acceptmbox = << >>, ~w.conn[c].avalid,
         NEW shut \in SUBSET RDWR
  PROVE  Shutting(w, O, Closing(w, c, t, shut), c, t, shut)
<1> DEFINE x == Closing(w, c, t, shut)
           h == w.conn[c]
           k == [h EXCEPT !.state = "CLOSE", !.msg = t]
           m == [w.th[t] EXCEPT !.shut = shut]
           y == SetConn(w, c, k)
<1>1. /\ w \in Worlds /\ c \in Conns /\ t \in Threads /\ h \in ConnType /\ w.th[t] \in ThType
      /\ h.sem = 0
  BY ServedIs
<1>2. Caller(w, O, c, t) /\ InCall(w.th[t], c)
  BY TakenCaller DEF Caller
<1>3. /\ k \in ConnType /\ k.state = "CLOSE" /\ k.msg = t /\ k.sem = 0 /\ k.pcb = h.pcb /\ k.alive = h.alive
      /\ k.nbc = h.nbc /\ ~k.avalid /\ k.acceptmbox = << >> /\ k.past = h.past
  <2>1. ~h.avalid /\ h.acceptmbox = << >>
    OBVIOUS
  <2> HIDE DEF h
  <2> QED
    BY <1>1, <2>1 DEF ConnType, ConnStates
<1>4. m \in ThType /\ m.shut = shut /\ m.pc = "wait" /\ m.c = c /\ m.fn = w.th[t].fn
  BY <1>1, <1>2 DEF ThType, InCall
<1>5. x = SetTh(y, t, m)
  BY DEF Closing
<1> HIDE DEF k, m
<1>6. /\ y \in Worlds /\ y.pcb = w.pcb /\ y.th = w.th
      /\ y.conn[c] = k /\ \A d \in Conns : d # c => y.conn[d] = w.conn[d]
  BY <1>1, <1>3, SetConnIs
<1> HIDE DEF y
<1>7. /\ x \in Worlds /\ x.conn = y.conn /\ x.pcb = y.pcb
      /\ x.th[t] = m /\ \A u \in Threads : u # t => x.th[u] = y.th[u]
  <2>1. ThSet(y, x, t, m)
    BY <1>1, <1>4, <1>5, <1>6, ThSetIs
  <2> HIDE DEF x
  <2> QED
    BY <2>1 DEF ThSet
<1> HIDE DEF x
<1>8. Elsewhere(w, x, c, None, t)
  BY SMTT(40), <1>6, <1>7 DEF Elsewhere
<1>9. Shutting(w, O, x, c, t, shut)
  BY <1>1, <1>2, <1>3, <1>4, <1>6, <1>7, <1>8 DEF Closes, Shutting
<1> QED
  BY SMTT(40), <1>9 DEF x

(* do_close: refused, answered at once, or left to do_close_internal. *)
LEMMA CloseStep ==
  ASSUME NEW w, NEW W, NEW O, NInv(w, W, O), NEW t \in W, w.th[t].fn = "close",
         NEW r \in do_close(w, t)
  PROVE  NInv(r, W \ {t}, O)
<1> DEFINE c == w.th[t].c
           k == w.conn[c]
           shut == w.th[t].shut
           w1 == IF "RD" \in shut THEN netconn_drain(w, c) ELSE w
           x == Closing(w1, c, t, shut)
<1>1. Fresh(w, w.th[t]) /\ t \in Threads
  BY CallOf
<1>2. shut \in Shuts
  BY <1>1 DEF Fresh
<1>3. shut = {"RD"} \/ shut = {"WR"} \/ shut = RDWR
  <2>1. shut \subseteq {"RD", "WR"} /\ shut # {}
    BY <1>2, NetconnAssumption DEF RDWR
  <2> QED
    BY <2>1 DEF RDWR
<1>4. shut \in SUBSET RDWR /\ ("RD" \notin shut => shut # RDWR)
  BY <1>3 DEF RDWR
<1>5. \/ \E e \in Errors : r = Ack(w, t, e)
      \/ /\ k.state \in {"NONE", "LISTEN"} /\ k.pcb # None /\ (shut = RDWR \/ k.state # "LISTEN")
         /\ \E fin \in BOOLEAN : r = do_close_internal(x, c, fin)
  BY DEF do_close, Errors
<1>6. CASE \E e \in Errors : r = Ack(w, t, e)
  BY <1>6, AckStep
<1>7. ASSUME k.state \in {"NONE", "LISTEN"}, k.pcb # None, shut = RDWR \/ k.state # "LISTEN",
             NEW fin \in BOOLEAN, r = do_close_internal(x, c, fin)
      PROVE  NInv(r, W \ {t}, O)
  <2>1. /\ NInv(w1, W, O) /\ w1.th = w.th /\ w1.conn[c].pcb = k.pcb /\ w1.conn[c].state = k.state
        /\ w1.conn[c].acceptmbox = << >> /\ ~w1.conn[c].avalid
    <3>1. CASE "RD" \in shut
      <4>1. w1 = netconn_drain(w, c)
        BY <3>1
      <4> HIDE DEF w1
      <4>2. NInv(w1, W, O) /\ w1.th = w.th /\ Drained(w1.conn[c], k)
        BY SMTT(40), <4>1, DrainStep
      <4> QED
        BY <4>2 DEF Drained
    <3>2. CASE "RD" \notin shut
      <4>1. w1 = w /\ k.state = "NONE"
        BY <1>4, <1>7, <3>2
      <4>2. c \in Conns
        BY CallOf
      <4>3. Stage(w, k)
        BY <4>2 DEF NInv, ConnOK
      <4> HIDE DEF w1
      <4> QED
        BY <4>1, <4>3 DEF Stage
    <3> QED
      BY <3>1, <3>2
  <2> HIDE DEF w1
  <2>2. w1.conn[c].pcb # None /\ w1.th[t].fn = "close" /\ c = w1.th[t].c
    BY <1>7, <2>1
  <2>3. Closes(w1, O, x, c, w1.conn[c].pcb, t) /\ x.th[t].shut = shut
    <3>1. Shutting(w1, O, x, c, t, shut)
      BY <1>4, <2>1, <2>2, ClosingIs
    <3> QED
      BY <3>1 DEF Shutting
  <2> HIDE DEF x
  <2>4. \/ x.th[t].shut = RDWR
        \/ x.th[t].shut = {"RD"} /\ w1.conn[c].state = "NONE" /\ w1.th[t].fn # "delete"
        \/ x.th[t].shut = {"WR"} /\ w1.conn[c].state \in {"NONE", "CLOSE"} /\ w1.th[t].fn # "delete"
    BY <1>3, <1>7, <2>1, <2>2, <2>3
  <2>5. NInv(do_close_internal(x, c, fin), W \ {t}, O)
    BY <2>1, <2>3, <2>4, CloseInternal
  <2> QED
    BY <1>7, <2>5
<1> QED
  BY <1>5, <1>6, <1>7

(* do_delconn: refused, or the netconn is drained and closed. *)
LEMMA DeleteStep ==
  ASSUME NEW w, NEW W, NEW O, NInv(w, W, O), NEW t \in W, w.th[t].fn = "delete", NEW r \in do_delconn(w, t)
  PROVE  NInv(r, W \ {t}, O)
<1> DEFINE c == w.th[t].c
           k == w.conn[c]
           w1 == netconn_drain(w, c)
           x == Closing(w1, c, t, RDWR)
<1>1. k.state \in {"NONE", "LISTEN", "CONNECT"}
  BY CallOf
<1>2. \/ k.pcb = None /\ r = Ack(w1, t, "OK")
      \/ k.pcb # None /\ \E fin \in BOOLEAN : r = do_close_internal(x, c, fin)
  BY <1>1 DEF do_delconn
<1>3. NInv(w1, W, O) /\ w1.th = w.th /\ Drained(w1.conn[c], k)
  BY DrainStep
<1> HIDE DEF w1
<1>4. /\ w1.conn[c].pcb = k.pcb /\ w1.conn[c].acceptmbox = << >> /\ ~w1.conn[c].avalid
      /\ w1.th[t].fn = "delete" /\ c = w1.th[t].c
  BY <1>3 DEF Drained
<1>5. CASE k.pcb = None /\ r = Ack(w1, t, "OK")
  BY <1>3, <1>4, <1>5, AckStep DEF Errors
<1>6. ASSUME k.pcb # None, NEW fin \in BOOLEAN, r = do_close_internal(x, c, fin)
      PROVE  NInv(r, W \ {t}, O)
  <2>1. RDWR \in SUBSET RDWR /\ w1.conn[c].pcb # None
    BY <1>4, <1>6
  <2>2. Closes(w1, O, x, c, w1.conn[c].pcb, t) /\ x.th[t].shut = RDWR
    <3>1. Shutting(w1, O, x, c, t, RDWR)
      BY <1>3, <1>4, <2>1, ClosingIs
    <3> QED
      BY <3>1 DEF Shutting
  <2> HIDE DEF x
  <2>3. NInv(do_close_internal(x, c, fin), W \ {t}, O)
    BY <1>3, <2>2, CloseInternal
  <2> QED
    BY <1>6, <2>3
<1> QED
  BY <1>2, <1>5, <1>6

(* Every message the tcpip thread takes. *)
LEMMA LowerHalfStep ==
  ASSUME NEW w, NEW W, NEW O, NInv(w, W, O), NEW t \in W, NEW r \in LowerHalf(w, t)
  PROVE  NInv(r, W \ {t}, O)
<1>1. CASE w.th[t].fn = "new"
  BY <1>1, NewStep DEF LowerHalf
<1>2. CASE w.th[t].fn = "delete"
  BY <1>2, DeleteStep DEF LowerHalf
<1>3. CASE w.th[t].fn = "close"
  BY <1>3, CloseStep DEF LowerHalf
<1>4. CASE w.th[t].fn \in {"bind", "getaddr"}
  BY <1>4, BindStep DEF LowerHalf
<1>5. CASE w.th[t].fn = "connect"
  BY <1>5, ConnectStep DEF LowerHalf
<1>6. CASE w.th[t].fn = "listen"
  BY <1>6, ListenStep DEF LowerHalf
<1>7. CASE w.th[t].fn = "write"
  BY <1>7, WriteStep DEF LowerHalf
<1>8. CASE w.th[t].fn \notin {"new", "delete", "close", "bind", "getaddr", "connect", "listen", "write"}
  BY <1>8, RecvStep DEF LowerHalf
<1> QED
  BY <1>1, <1>2, <1>3, <1>4, <1>5, <1>6, <1>7, <1>8

-----------------------------------------------------------------------------
(* Segments, timers and callbacks *)

(* A netconn that has a pcb changes with it, and no caller is answered. *)
Calm(w, W, O, r, c, p) ==
  /\ c \in Conns /\ p \in AllPcbs /\ p = w.conn[c].pcb /\ r \in Worlds /\ r.th = w.th
  /\ Elsewhere(w, r, c, p, None)
  /\ r.conn[c].alive = w.conn[c].alive /\ r.conn[c].pcb = p /\ r.conn[c].msg = w.conn[c].msg
  /\ r.conn[c].sem = w.conn[c].sem /\ r.conn[c].acceptmbox = w.conn[c].acceptmbox
  /\ Bound(r, r.conn[c], c) /\ Stage(r, r.conn[c]) /\ Message(r, W, r.conn[c], c) /\ PcbOK(r, p)
  /\ Unknown(w, O, c) => r.conn[c].state = "NONE"

(* Such a change keeps the invariant. *)
LEMMA CalmStep ==
  ASSUME NEW w, NEW W, NEW O, NInv(w, W, O), NEW r, NEW c, NEW p, Calm(w, W, O, r, c, p)
  PROVE  NInv(r, W, O)
<1> DEFINE k == r.conn[c]
           h == w.conn[c]
<1>1. /\ c \in Conns /\ p \in AllPcbs /\ p = h.pcb /\ r \in Worlds /\ r.th = w.th
      /\ Elsewhere(w, r, c, p, None)
      /\ k.alive = h.alive /\ k.pcb = p /\ k.msg = h.msg /\ k.sem = h.sem /\ k.acceptmbox = h.acceptmbox
      /\ Bound(r, k, c) /\ Stage(r, k) /\ Message(r, W, k, c) /\ PcbOK(r, p)
      /\ (Unknown(w, O, c) => k.state = "NONE")
  BY DEF Calm
<1>2. ConnOK(w, W, c) /\ h.alive
  BY <1>1, NoneApart DEF NInv, ConnOK, Dead, FreeConn
<1> HIDE DEF k, h
<1>3. ConnOK(r, W, c)
  <2>1. Dead(k)
    BY <1>1, <1>2 DEF Dead
  <2>2. HasAnswer(r, W, k, c) <=> HasAnswer(w, W, h, c)
    BY <1>1 DEF HasAnswer
  <2>3. Signal(r, W, k, c)
    BY <1>1, <1>2, <2>2 DEF Signal, ConnOK, h
  <2> QED
    BY <1>1, <2>1, <2>3 DEF ConnOK, k
<1>4. ASSUME NEW u \in Threads, r.th[u].c = c PROVE ThOK(r, W, O, u)
  <2>1. ThOK(w, W, O, u) /\ w.th[u].c = c /\ r.th[u] = w.th[u] /\ c # None
    BY <1>1, <1>4, NoneApart DEF NInv
  <2>2. u \in W => Fresh(r, r.th[u])
    <3>1. u \in W => Fresh(w, w.th[u])
      BY <2>1 DEF ThOK
    <3>2. u \in W => w.th[u].fn # "new"
      BY <1>1, <2>1, <3>1, NewIs, NoneApart DEF Fresh, h
    <3> QED
      BY <2>1, <3>1, <3>2 DEF Fresh
  <2>3. k.alive /\ k.pcb = h.pcb /\ k.acceptmbox = h.acceptmbox /\ k.msg = h.msg
    BY <1>1, <1>2
  <2> QED
    BY <1>1, <2>1, <2>2, <2>3 DEF ThOK, k, h
<1>5. Mine(w, c, p, None)
  BY <1>1, OneOwner, NoneApart DEF Mine, h
<1>6. W \subseteq Threads /\ SameBut(W, W, None)
  BY DEF NInv, SameBut
<1>7. Plain(w, W, O, r, W, c, p, None)
  BY <1>1, <1>3, <1>4, <1>5, <1>6, NoneApart DEF Plain, k, h
<1> QED
  BY <1>7, Step

(* What a segment may do to the state of a pcb. *)
Advance(s, q) ==
  /\ s.arg = q.arg /\ s.recv = q.recv /\ s.sent = q.sent /\ s.poll = q.poll /\ s.err = q.err
  /\ \/ s.st = q.st
     \/ q.st = "ESTABLISHED" /\ s.st = "CLOSE_WAIT"
     \/ q.st \in {"FIN_WAIT_1", "FIN_WAIT_2", "CLOSING"} /\ s.st \in {"CLOSING", "TIME_WAIT", "FIN_WAIT_2"}

(* So does a pcb that advances as TCP lets it. *)
LEMMA NearStep ==
  ASSUME NEW w, NEW W, NEW O, NInv(w, W, O), NEW p \in Pcbs, NEW q, NEW r, PcbSet(w, r, p, q),
         Advance(q, w.pcb[p])
  PROVE  NInv(r, W, O)
<1>1. /\ r \in Worlds /\ r.conn = w.conn /\ r.th = w.th
      /\ r.pcb[p] = q /\ \A x \in AllPcbs : x # p => r.pcb[x] = w.pcb[x]
  BY DEF PcbSet
<1>2. p \in AllPcbs /\ PcbOK(w, p) /\ w \in Worlds
  BY NoneApart DEF NInv
<1>3. PcbOK(r, p)
  BY <1>1, <1>2, NoneApart DEF PcbOK, Advance, Callback
<1>4. CASE Unowned(w, p)
  BY <1>1, <1>2, <1>3, <1>4, Loose
<1>5. ASSUME NEW c \in Conns, w.conn[c].pcb = p PROVE NInv(r, W, O)
  <2>1. ConnOK(w, W, c) /\ r.conn[c] = w.conn[c]
    BY <1>1 DEF NInv
  <2>2. /\ w.pcb[p].arg = c /\ w.pcb[p].err /\ w.pcb[p].poll /\ w.pcb[p].st \in Attached \cup Leaving
        /\ w.pcb[p].st \in Leaving => "half" \in w.conn[c].past
        /\ "lost" \in w.conn[c].past => "half" \in w.conn[c].past
    BY <1>2, <1>5, <2>1, NoneApart DEF ConnOK, Bound
  <2>3. /\ q.arg = c /\ q.err /\ q.poll /\ q.st \in Attached \cup Leaving
        /\ q.st \in Leaving => w.pcb[p].st \in Leaving
        /\ q.st = "SYN_SENT" <=> w.pcb[p].st = "SYN_SENT"
        /\ w.pcb[p].st \in {"ESTABLISHED", "CLOSE_WAIT"} => q.st \in {"ESTABLISHED", "CLOSE_WAIT"}
    BY <2>2 DEF Advance, Attached, Leaving
  <2>4. Bound(r, w.conn[c], c)
    BY <1>1, <1>5, <2>2, <2>3, NoneApart DEF Bound
  <2>5. Stage(r, w.conn[c])
    <3>1. Stage(w, w.conn[c])
      BY <2>1 DEF ConnOK
    <3> QED
      BY <1>1, <1>5, <2>3, <3>1, NoneApart DEF Stage
  <2>6. Message(r, W, w.conn[c], c)
    <3>1. Message(w, W, w.conn[c], c)
      BY <2>1 DEF ConnOK
    <3> QED
      BY <1>1, <1>5, <2>3, <3>1 DEF Message
  <2>7. Elsewhere(w, r, c, p, None)
    BY <1>1 DEF Elsewhere
  <2>8. Unknown(w, O, c) => w.conn[c].state = "NONE"
    BY DEF Unknown
  <2>9. Calm(w, W, O, r, c, p)
    BY <1>1, <1>2, <1>3, <1>5, <2>1, <2>4, <2>5, <2>6, <2>7, <2>8 DEF Calm
  <2> QED
    BY <2>9, CalmStep
<1> QED
  BY <1>4, <1>5 DEF Unowned

(* Something else of a netconn with a pcb changes. *)
LEMMA BoxStep ==
  ASSUME NEW w, NEW W, NEW O, NInv(w, W, O), NEW c \in Conns, w.conn[c].pcb # None,
         NEW k \in ConnType, Like(k, w.conn[c]), k.sem = w.conn[c].sem
  PROVE  NInv(SetConn(w, c, k), W, O) /\ SetConn(w, c, k).pcb = w.pcb
<1> DEFINE r == SetConn(w, c, k)
           p == w.conn[c].pcb
<1>1. w \in Worlds /\ ConnOK(w, W, c) /\ p \in AllPcbs
  BY WorldTypes DEF NInv, ConnType
<1>2. /\ r \in Worlds /\ r.pcb = w.pcb /\ r.th = w.th
      /\ r.conn[c] = k /\ \A d \in Conns : d # c => r.conn[d] = w.conn[d]
  BY <1>1, SetConnIs
<1> HIDE DEF r
<1>3. \A d \in Conns : r.conn[d].pcb = w.conn[d].pcb
  BY <1>2 DEF Like
<1>4. SameFace(r.pcb[p], w.pcb[p])
  BY <1>2 DEF SameFace
<1>5. Bound(r, k, c) /\ Stage(r, k) /\ PcbOK(r, p)
  BY <1>1, <1>3, <1>4, FaceKept
<1>6. Message(r, W, k, c)
  <2>1. Message(w, W, w.conn[c], c)
    BY <1>1 DEF ConnOK
  <2> QED
    BY <1>2, <2>1 DEF Message, Like
<1>7. Elsewhere(w, r, c, p, None)
  BY <1>2 DEF Elsewhere
<1>8. Unknown(w, O, c) => k.state = "NONE"
  BY DEF Unknown, Like
<1>9. Calm(w, W, O, r, c, p)
  BY <1>1, <1>2, <1>5, <1>6, <1>7, <1>8 DEF Calm, Like
<1>10. NInv(r, W, O)
  BY <1>9, CalmStep
<1> QED
  BY <1>2, <1>10 DEF r

(* Data or the end of the stream reaches the netconn, or the window. *)
Recvd(w, W, O, r, p) ==
  NInv(r, W, O) /\ r.pcb[p].st = w.pcb[p].st /\ r.pcb[p].owed <= w.pcb[p].owed

(* Data without a reader is credited to the window at once. *)
LEMMA CreditStep ==
  ASSUME NEW w, NEW W, NEW O, NInv(w, W, O), NEW p \in Pcbs
  PROVE  LET r == SetPcb(w, p, tcp_recved(w.pcb[p], 1))
         IN Recvd(w, W, O, r, p) /\ r.pcb[p].recv = w.pcb[p].recv
<1> DEFINE q == tcp_recved(w.pcb[p], 1)
           r == SetPcb(w, p, q)
<1>1. w \in Worlds /\ p \in AllPcbs /\ w.pcb[p] \in PcbType
  BY NoneApart, WorldTypes DEF NInv
<1>2. q \in PcbType /\ Credited(q, w.pcb[p])
  BY <1>1, RecvedIs
<1> HIDE DEF q
<1>3. PcbSet(w, r, p, q)
  BY <1>1, <1>2, PcbSetIs
<1> HIDE DEF r
<1>4. Advance(q, w.pcb[p])
  BY <1>2 DEF Advance, Credited, SameFace
<1>5. NInv(r, W, O)
  BY <1>3, <1>4, NearStep
<1>6. r.pcb[p] = q
  BY <1>3 DEF PcbSet
<1>7. Recvd(w, W, O, r, p) /\ r.pcb[p].recv = w.pcb[p].recv
  BY <1>2, <1>5, <1>6 DEF Recvd, Credited, SameFace
<1> QED
  BY <1>7 DEF r, q

(* recv_tcp posts to the recvmbox, or credits the window when it is gone. *)
LEMMA RecvTcp ==
  ASSUME NEW w, NEW W, NEW O, NInv(w, W, O), NEW p \in Pcbs, w.pcb[p].recv, NEW m \in {"data", "null"}
  PROVE  Recvd(w, W, O, recv_tcp(w, p, m), p)
<1> DEFINE c == w.pcb[p].arg
           h == w.conn[c]
           box == Trypost(h.recvmbox, TRUE, RecvMbox, m)
           past == h.past \cup (IF m = "null" /\ Len(h.recvmbox) >= RecvMbox THEN {"eof"} ELSE {})
           k == [h EXCEPT !.recvmbox = box, !.past = past]
           r == recv_tcp(w, p, m)
<1>1. w \in Worlds /\ p \in AllPcbs /\ w.pcb[p] \in PcbType /\ PcbOK(w, p)
  BY NoneApart, WorldTypes DEF NInv
<1>2. c \in Conns /\ h.pcb = p /\ p # None
  BY <1>1, NoneApart DEF PcbOK, Callback, PcbType
<1>3. h \in ConnType /\ w.pcb[p].owed \in Nat
  BY <1>1, <1>2, WorldTypes DEF PcbType
<1>4. CASE h.rvalid
  <2>1. r = SetConn(w, c, k)
    BY <1>4 DEF recv_tcp
  <2>2. box \in Seq({"data", "null"})
    <3>1. h.recvmbox \in Seq({"data", "null"})
      BY <1>3 DEF ConnType
    <3> QED
      BY <3>1 DEF Trypost
  <2> HIDE DEF box
  <2>5. /\ past \in SUBSET {"half", "eof", "lost"}
        /\ ("half" \in past <=> "half" \in h.past) /\ ("lost" \in past <=> "lost" \in h.past)
    BY <1>3 DEF ConnType
  <2> HIDE DEF past
  <2>3. k \in ConnType /\ Like(k, h) /\ k.sem = h.sem
    BY <1>3, <2>2, <2>5 DEF ConnType, Like
  <2> HIDE DEF k
  <2>4. NInv(SetConn(w, c, k), W, O) /\ SetConn(w, c, k).pcb = w.pcb
    BY <1>2, <2>3, BoxStep
  <2> QED
    BY <1>3, <2>1, <2>4 DEF Recvd
<1>5. CASE ~h.rvalid /\ m = "data"
  <2>1. r = SetPcb(w, p, tcp_recved(w.pcb[p], 1))
    BY <1>5 DEF recv_tcp
  <2> QED
    BY <2>1, CreditStep
<1>6. CASE ~h.rvalid /\ m # "data"
  BY <1>3, <1>6 DEF recv_tcp, Recvd
<1> QED
  BY <1>4, <1>5, <1>6

(* Two such steps are one. *)
LEMMA RecvdTwice ==
  ASSUME NEW w, NEW W, NEW O, w \in Worlds, NEW p \in AllPcbs, NEW x, Recvd(w, W, O, x, p), NEW r, Recvd(x, W, O, r, p)
  PROVE  Recvd(w, W, O, r, p)
<1>1. w.pcb[p].owed \in Nat /\ x.pcb[p].owed \in Nat /\ r.pcb[p].owed \in Nat
  BY WorldTypes DEF Recvd, NInv, PcbType
<1> QED
  BY <1>1 DEF Recvd

(* TCP_EVENT_RECV calls recv_tcp, or tcp_recv_null. *)
LEMMA EventRecv ==
  ASSUME NEW w, NEW W, NEW O, NInv(w, W, O), NEW p \in Pcbs
  PROVE  Recvd(w, W, O, TCP_EVENT_RECV(w, p), p)
<1>1. CASE w.pcb[p].recv
  BY <1>1, RecvTcp DEF TCP_EVENT_RECV
<1>2. CASE ~w.pcb[p].recv
  BY <1>2, CreditStep DEF TCP_EVENT_RECV
<1> QED
  BY <1>1, <1>2

(* TCP_EVENT_CLOSED does too, with the end of the stream. *)
LEMMA EventClosed ==
  ASSUME NEW w, NEW W, NEW O, NInv(w, W, O), NEW p \in Pcbs
  PROVE  Recvd(w, W, O, TCP_EVENT_CLOSED(w, p), p)
<1> DEFINE w1 == SetPcb(w, p, tcp_recved(w.pcb[p], 1))
<1>1. Recvd(w, W, O, w1, p) /\ w1.pcb[p].recv = w.pcb[p].recv
  BY CreditStep
<1>2. NInv(w1, W, O) /\ w \in Worlds /\ p \in AllPcbs
  BY <1>1, NoneApart DEF Recvd, NInv
<1>3. CASE w.pcb[p].recv
  <2>1. TCP_EVENT_CLOSED(w, p) = recv_tcp(w1, p, "null")
    BY <1>3 DEF TCP_EVENT_CLOSED
  <2> HIDE DEF w1
  <2>2. Recvd(w1, W, O, recv_tcp(w1, p, "null"), p)
    BY <1>1, <1>2, <1>3, RecvTcp
  <2> QED
    BY <1>1, <1>2, <2>1, <2>2, RecvdTwice
<1>4. CASE ~w.pcb[p].recv
  BY <1>1, <1>4 DEF TCP_EVENT_CLOSED
<1> QED
  BY <1>3, <1>4

(* Refused data is offered again. *)
LEMMA RefusedStep ==
  ASSUME NEW w, NEW W, NEW O, NInv(w, W, O), NEW p \in Pcbs
  PROVE  Recvd(w, W, O, tcp_process_refused_data(w, p), p)
<1> DEFINE q == [w.pcb[p] EXCEPT !.refused = "none"]
           x == SetPcb(w, p, q)
           y == TCP_EVENT_RECV(x, p)
           z == TCP_EVENT_CLOSED(y, p)
<1>1. w \in Worlds /\ p \in AllPcbs /\ w.pcb[p] \in PcbType
  BY NoneApart, WorldTypes DEF NInv
<1>2. w.pcb[p].owed \in Nat /\ q \in PcbType /\ Advance(q, w.pcb[p]) /\ q.st = w.pcb[p].st /\ q.owed = w.pcb[p].owed
  BY <1>1 DEF PcbType, Advance
<1>3. tcp_process_refused_data(w, p) \in {w, y, z}
  BY DEF tcp_process_refused_data
<1> HIDE DEF q
<1>4. PcbSet(w, x, p, q)
  BY <1>1, <1>2, PcbSetIs
<1> HIDE DEF x
<1>5. NInv(x, W, O) /\ x.pcb[p] = q
  BY <1>2, <1>4, NearStep DEF PcbSet
<1>6. Recvd(w, W, O, x, p)
  BY <1>2, <1>5 DEF Recvd
<1>7. Recvd(x, W, O, y, p)
  BY <1>5, EventRecv
<1>8. Recvd(w, W, O, y, p)
  BY <1>1, <1>6, <1>7, RecvdTwice
<1> HIDE DEF y
<1>9. Recvd(y, W, O, z, p)
  BY <1>8, EventClosed DEF Recvd
<1>10. Recvd(w, W, O, z, p)
  BY <1>1, <1>8, <1>9, RecvdTwice
<1>11. Recvd(w, W, O, w, p)
  BY <1>2 DEF Recvd
<1> QED
  BY <1>3, <1>8, <1>10, <1>11

(* A segment of a connection is processed. *)
LEMMA InputStep ==
  ASSUME NEW w, NEW W, NEW O, NInv(w, W, O), NEW p \in Pcbs,
         w.pcb[p].st \in {"ESTABLISHED", "FIN_WAIT_1", "FIN_WAIT_2"},
         NEW seg \in {"data", "fin", "datafin"}, NEW acked \in BOOLEAN, w.pcb[p].owed + tcplen(seg) <= Wnd
  PROVE  NInv(Input(w, p, seg, acked), W, O)
<1> DEFINE fin == seg \in {"fin", "datafin"}
           st == IF fin THEN AfterFin(w.pcb[p], acked) ELSE w.pcb[p].st
           owed == w.pcb[p].owed + tcplen(seg)
           q == [w.pcb[p] EXCEPT !.st = st, !.owed = owed]
           x == SetPcb(w, p, q)
           s == [x.pcb[p] EXCEPT !.refused = seg]
           y == TCP_EVENT_RECV(x, p)
<1>1. w \in Worlds /\ p \in AllPcbs /\ w.pcb[p] \in PcbType
  BY NoneApart, WorldTypes DEF NInv
<1>2. st \in PcbStates /\ owed \in 0 .. Wnd
  <2>1. owed \in 0 .. Wnd
    BY <1>1, NetconnAssumption DEF PcbType, tcplen
  <2>2. st \in PcbStates
    BY DEF AfterFin, PcbStates, Active
  <2> QED
    BY <2>1, <2>2
<1>3. \/ st = w.pcb[p].st
      \/ w.pcb[p].st = "ESTABLISHED" /\ st = "CLOSE_WAIT"
      \/ w.pcb[p].st \in {"FIN_WAIT_1", "FIN_WAIT_2", "CLOSING"} /\ st \in {"CLOSING", "TIME_WAIT", "FIN_WAIT_2"}
  BY DEF AfterFin
<1>4. \/ Input(w, p, seg, acked) \in {w, tcp_abandon(x, p), TCP_EVENT_CLOSED(x, p), TCP_EVENT_CLOSED(y, p), x, y}
      \/ Input(w, p, seg, acked) = SetPcb(x, p, s) /\ seg \in {"data", "datafin"}
  BY DEF Input
<1> HIDE DEF fin, st, owed
<1>5. q \in PcbType /\ Advance(q, w.pcb[p])
  BY <1>1, <1>2, <1>3 DEF PcbType, Advance
<1> HIDE DEF q
<1>6. PcbSet(w, x, p, q)
  BY <1>1, <1>5, PcbSetIs
<1> HIDE DEF x
<1>7. NInv(x, W, O) /\ x.pcb[p] = q
  BY <1>5, <1>6, NearStep DEF PcbSet
<1>8. NInv(tcp_abandon(x, p), W, O)
  BY <1>7, Abandoned
<1>9. NInv(y, W, O)
  BY <1>7, EventRecv DEF Recvd
<1> HIDE DEF y
<1>10. NInv(TCP_EVENT_CLOSED(x, p), W, O) /\ NInv(TCP_EVENT_CLOSED(y, p), W, O)
  BY <1>7, <1>9, EventClosed DEF Recvd
<1>11. ASSUME seg \in {"data", "datafin"} PROVE NInv(SetPcb(x, p, s), W, O)
  <2>1. s \in PcbType /\ Advance(s, x.pcb[p]) /\ x \in Worlds
    BY <1>5, <1>7, <1>11 DEF PcbType, Advance, NInv
  <2> HIDE DEF s
  <2>2. PcbSet(x, SetPcb(x, p, s), p, s)
    BY <1>1, <2>1, PcbSetIs
  <2> QED
    BY <1>7, <2>1, <2>2, NearStep
<1> QED
  BY <1>4, <1>7, <1>8, <1>9, <1>10, <1>11

(* What poll_tcp and sent_tcp go on with. *)
LEMMA ResumeStep ==
  ASSUME NEW w, NEW W, NEW O, NInv(w, W, O), NEW c \in Conns, w.conn[c].pcb # None, NEW r \in Resume(w, c)
  PROVE  NInv(r, W, O)
<1> DEFINE k == w.conn[c]
<1>1. CASE k.state = "WRITE"
  <2>1. PICK late \in Late, mem \in BOOLEAN, long \in BOOLEAN : r = do_writemore(w, c, late, mem, long)
    BY <1>1 DEF Resume
  <2> QED
    BY <1>1, <2>1, LateIs, WritemoreStep
<1>2. CASE k.state = "CLOSE"
  <2>1. PICK fin \in BOOLEAN : r = do_close_internal(w, c, fin)
    BY <1>2 DEF Resume
  <2> DEFINE t == k.msg
  <2>2. w \in Worlds /\ k \in ConnType /\ ConnOK(w, W, c) /\ W \subseteq Threads
    BY WorldTypes DEF NInv
  <2>3. /\ t # None /\ w.th[t].fn # "new" /\ InCall(w.th[t], c)
        /\ w.th[t].shut = RDWR \/ (w.th[t].shut = {"WR"} /\ w.th[t].fn # "delete")
    BY <1>2, <2>2 DEF ConnOK, Message
  <2>4. Caller(w, O, c, t) /\ t \notin W
    BY <2>3, PendingCaller
  <2>5. k.pcb # None /\ ~k.avalid /\ k.acceptmbox = << >>
    BY <1>2, <2>2, NoneApart DEF ConnOK, Stage
  <2>6. Elsewhere(w, w, c, None, t)
    BY DEF Elsewhere
  <2>7. k.sem = 0
    BY <2>4 DEF Caller
  <2>8. Closes(w, O, w, c, k.pcb, t)
    BY <1>2, <2>2, <2>3, <2>4, <2>5, <2>6, <2>7 DEF Closes, InCall
  <2> HIDE DEF t
  <2>9. NInv(r, W \ {t}, O)
    BY <1>2, <2>1, <2>3, <2>8, CloseInternal
  <2>10. W \ {t} = W
    BY <2>4
  <2> QED
    BY <2>9, <2>10
<1>3. CASE k.state \notin {"WRITE", "CLOSE"}
  BY <1>3 DEF Resume
<1> QED
  BY <1>1, <1>2, <1>3

(* The acknowledgement of our FIN. *)
LEMMA FinAckedStep ==
  ASSUME NEW w, NEW W, NEW O, NInv(w, W, O), NEW p \in Pcbs, w.pcb[p].st \in {"FIN_WAIT_1", "CLOSING"}
  PROVE  NInv(SetPcb(w, p, [w.pcb[p] EXCEPT !.st = IF @ = "CLOSING" THEN "TIME_WAIT" ELSE "FIN_WAIT_2"]), W, O)
<1> DEFINE q == [w.pcb[p] EXCEPT !.st = IF @ = "CLOSING" THEN "TIME_WAIT" ELSE "FIN_WAIT_2"]
           r == SetPcb(w, p, q)
<1>1. w \in Worlds /\ p \in AllPcbs /\ w.pcb[p] \in PcbType
  BY NoneApart, WorldTypes DEF NInv
<1>2. q \in PcbType /\ Advance(q, w.pcb[p])
  BY <1>1 DEF PcbType, PcbStates, Active, Advance
<1> HIDE DEF q
<1>3. PcbSet(w, r, p, q)
  BY <1>1, <1>2, PcbSetIs
<1> HIDE DEF r
<1>4. NInv(r, W, O)
  BY <1>2, <1>3, NearStep
<1> QED
  BY <1>4 DEF r, q

(* A connection is established, for a nonblocking or a waiting caller. *)
LEMMA ConnectedStep ==
  ASSUME NEW w, NEW W, NEW O, NInv(w, W, O), NEW p \in Pcbs, w.pcb[p].st = "SYN_SENT",
         NEW c, c = w.pcb[p].arg, NEW x,
         x = SetConn(SetPcb(w, p, [setup_tcp(w.pcb[p], c) EXCEPT !.st = "ESTABLISHED"]), c,
                     [w.conn[c] EXCEPT !.state = "NONE", !.nbc = FALSE, !.wr = TRUE])
  PROVE  NInv(IF w.conn[c].nbc THEN x ELSE Complete(x, c, "OK"), W, O)
<1> DEFINE h == w.conn[c]
           s == setup_tcp(w.pcb[p], c)
           q == [s EXCEPT !.st = "ESTABLISHED"]
           k == [h EXCEPT !.state = "NONE", !.nbc = FALSE, !.wr = TRUE]
<1>1. w \in Worlds /\ p \in AllPcbs /\ w.pcb[p] \in PcbType /\ PcbOK(w, p)
  BY NoneApart, WorldTypes DEF NInv
<1>2. c \in Conns /\ h.pcb = p
  BY <1>1 DEF PcbOK, PcbType
<1>3. h \in ConnType /\ ConnOK(w, W, c) /\ p # None /\ p \notin ListenPcbs
  BY <1>1, <1>2, WorldTypes, NoneApart DEF NInv
<1>4. h.state = "CONNECT" /\ ~h.avalid /\ h.acceptmbox = << >>
  BY Zenon, <1>2, <1>3 DEF ConnOK, Stage
<1>5. s \in PcbType /\ Wired(s, w.pcb[p], c)
  BY SMTT(40), <1>1, <1>2, SetupIs
<1>6. k \in ConnType /\ k.state = "NONE" /\ ~k.nbc /\ k.pcb = p /\ k.msg = h.msg /\ k.sem = h.sem
      /\ k.alive = h.alive /\ k.avalid = h.avalid /\ k.acceptmbox = h.acceptmbox /\ k.past = h.past
  BY ZenonT(60), <1>2, <1>3 DEF ConnType, ConnStates
<1>14. "lost" \in h.past => "half" \in h.past
  BY <1>3 DEF ConnOK, Bound
<1> HIDE DEF s
<1>7. q \in PcbType /\ q.arg = c /\ q.err /\ q.poll /\ q.st = "ESTABLISHED"
  BY <1>5 DEF PcbType, PcbStates, Active, Wired
<1>8. x = SetConn(SetPcb(w, p, q), c, k)
  BY DEF q, k, h, s
<1> HIDE DEF q, k
<1>9. Both(w, x, c, p, k, q)
  BY SMTT(40), <1>1, <1>2, <1>6, <1>7, <1>8, BothIs
<1>10. x \in Worlds /\ x.th = w.th /\ x.conn[c] = k /\ x.pcb[p] = q /\ Elsewhere(w, x, c, p, None)
  BY Zenon, <1>9 DEF Both
<1>11. ASSUME NEW r, r.pcb = x.pcb, r.conn[c].pcb = p, r.conn[c].state = "NONE", ~r.conn[c].nbc,
              ~r.conn[c].avalid, r.conn[c].acceptmbox = << >>, r.conn[c].past = h.past
       PROVE  Bound(r, r.conn[c], c) /\ Stage(r, r.conn[c]) /\ PcbOK(r, p)
  <2>1. r.pcb[p] = q
    BY SMTT(40), <1>10, <1>11
  <2>2. PcbOK(r, p)
    BY <1>2, <1>7, <1>11, <2>1, OwnPcbOK
  <2>3. Bound(r, r.conn[c], c)
    <3>1. q.st \in Attached \cup Leaving /\ q.st \notin Leaving
      BY <1>7 DEF Attached, Leaving
    <3> QED
      BY Zenon, <1>3, <1>7, <1>11, <1>14, <2>1, <3>1 DEF Bound
  <2>4. Stage(r, r.conn[c])
    BY <1>3, <1>7, <1>11, <2>1 DEF Stage
  <2> QED
    BY SMTT(40), <2>2, <2>3, <2>4
<1>12. CASE h.nbc
  <2>1. h.msg = None
    BY Zenon, <1>3, <1>4, <1>12 DEF ConnOK, Message
  <2>2. Bound(x, x.conn[c], c) /\ Stage(x, x.conn[c]) /\ PcbOK(x, p)
    BY Zenon, <1>4, <1>6, <1>10, <1>11
  <2>3. Message(x, W, x.conn[c], c)
    BY Zenon, <1>6, <1>10, <2>1 DEF Message
  <2>4. Calm(w, W, O, x, c, p)
    BY Zenon, <1>1, <1>2, <1>4, <1>6, <1>10, <2>2, <2>3 DEF Calm
  <2> QED
    BY <1>12, <2>4, CalmStep
<1>13. CASE ~h.nbc
  <2> DEFINE t == h.msg
             r == Complete(x, c, "OK")
  <2>1. t # None /\ t \in Threads /\ InCall(w.th[t], c) /\ w.th[t].fn \notin {"new", "delete"}
    BY Zenon, <1>3, <1>4, <1>13 DEF ConnOK, Message, ConnType
  <2>2. Caller(w, O, c, t) /\ t \notin W
    BY Zenon, <1>2, <2>1, PendingCaller
  <2>3. t = x.conn[c].msg
    BY Zenon, <1>6, <1>10
  <2> HIDE DEF t
  <2>4. Completed(x, r, c, t, "OK")
    BY Zenon, <1>2, <1>10, <2>1, <2>3, CompleteIs DEF Errors
  <2> HIDE DEF r
  <2>5. r \in Worlds /\ r.pcb = x.pcb /\ Elsewhere(x, r, c, None, t) /\ Reply(w.th[t], r.th[t], "OK")
        /\ BackToIdle(k, r.conn[c])
    BY Zenon, <1>10, <2>4 DEF Completed
  <2>6. Elsewhere(w, r, c, p, t)
    <3>1. \A d \in Conns : d # c => r.conn[d] = w.conn[d]
      BY ZenonT(60), <1>10, <2>5 DEF Elsewhere
    <3>2. \A y \in AllPcbs : y # p => r.pcb[y] = w.pcb[y]
      BY ZenonT(60), <1>10, <2>5 DEF Elsewhere
    <3>3. \A u \in Threads : u # t => r.th[u] = w.th[u]
      BY ZenonT(60), <1>10, <2>5 DEF Elsewhere
    <3> QED
      BY <3>1, <3>2, <3>3 DEF Elsewhere
  <2>7. Mine(w, c, p, t)
    BY <1>2, <1>3, <2>1, OneOwner DEF Mine, InCall
  <2>8. r.conn[c].pcb = p /\ r.conn[c].state = "NONE" /\ r.conn[c].msg = None /\ r.conn[c].sem = h.sem + 1
        /\ ~r.conn[c].nbc /\ ~r.conn[c].avalid /\ r.conn[c].acceptmbox = << >> /\ r.conn[c].alive = h.alive
        /\ r.conn[c].past = h.past
    BY Zenon, <1>4, <1>6, <2>5 DEF BackToIdle
  <2>9. Bound(r, r.conn[c], c) /\ Stage(r, r.conn[c]) /\ PcbOK(r, p)
    BY Zenon, <1>11, <2>5, <2>8
  <2>10. h.sem = 0
    BY <2>2 DEF Caller
  <2>11. r.th[t].pc = "wait" /\ r.th[t].c = c /\ r.th[t].fn \in {w.th[t].fn, "none"}
    BY <2>1, <2>5 DEF Reply, InCall
  <2>14. r.th[t].fn \notin {"new", "delete"} /\ r.conn[c].sem = 1 /\ r.conn[c].pcb \in {p, None}
    BY <2>1, <2>8, <2>10, <2>11
  <2>15. r.conn[c].alive = w.conn[c].alive /\ r.conn[c].acceptmbox = w.conn[c].acceptmbox
    BY <1>4, <2>8
  <2> HIDE DEF h
  <2>12. Ends(w, O, r, c, p, t)
    BY Zenon, <1>1, <2>2, <2>5, <2>6, <2>7, <2>8, <2>9, <2>11, <2>14, <2>15 DEF Ends
  <2>13. NInv(r, W, O)
    BY <2>2, <2>12, EndPending
  <2> QED
    BY <1>13, <2>13 DEF r, h
<1> QED
  BY <1>12, <1>13

(* A SYN for a listening netconn. *)
LEMMA ListenInputStep ==
  ASSUME NEW w, NEW W, NEW O, NInv(w, W, O), NEW l \in ListenPcbs, w.pcb[l].st = "LISTEN", NEW p \in Available(w)
  PROVE  NInv(SetPcb(tcp_alloc(w, p), p, [FreePcb EXCEPT !.st = "SYN_RCVD", !.arg = w.pcb[l].arg]), W, O)
<1> DEFINE x == tcp_alloc(w, p)
           q == [FreePcb EXCEPT !.st = "SYN_RCVD", !.arg = w.pcb[l].arg]
           r == SetPcb(x, p, q)
<1>1. NInv(x, W, O) /\ p \in Pcbs /\ Unowned(x, p)
  BY Allocated
<1> HIDE DEF x
<1>2. l \in AllPcbs /\ PcbOK(w, l) /\ w.pcb[l] \in PcbType
  BY NoneApart, WorldTypes DEF NInv
<1>3. w.pcb[l].arg \in Conns /\ p \in AllPcbs /\ p \notin ListenPcbs
  BY <1>1, <1>2, NoneApart DEF PcbOK, PcbType
<1>4. q \in PcbType
  BY <1>3, Blank DEF PcbType, PcbStates, Active
<1>5. q.st = "SYN_RCVD" /\ q.arg = w.pcb[l].arg /\ ~Callback(q)
  BY DEF FreePcb, Callback
<1> HIDE DEF q
<1>6. x \in Worlds
  BY <1>1 DEF NInv
<1>7. PcbSet(x, r, p, q)
  BY <1>3, <1>4, <1>6, PcbSetIs
<1> HIDE DEF r
<1>8. r \in Worlds /\ r.conn = x.conn /\ r.th = x.th /\ r.pcb[p] = q /\ \A y \in AllPcbs : y # p => r.pcb[y] = x.pcb[y]
  BY <1>7 DEF PcbSet
<1>9. PcbOK(r, p)
  BY <1>3, <1>5, <1>8, NoneApart DEF PcbOK
<1>10. NInv(r, W, O)
  BY <1>1, <1>3, <1>8, <1>9, Loose
<1> QED
  BY <1>10 DEF r, q, x

(* Nothing refers to a netconn that is not in use. *)
Unused(w, O, n) ==
  /\ w.conn[n] = FreeConn /\ n \notin O /\ \A t \in Threads : w.th[t].c # n
  /\ \A d \in Conns : \A i \in 1 .. Len(w.conn[d].acceptmbox) : w.conn[d].acceptmbox[i] # n

(* Nobody refers to a netconn that is not allocated. *)
LEMMA UnusedIs ==
  ASSUME NEW w, NEW W, NEW O, NInv(w, W, O), NEW n \in Conns, ~w.conn[n].alive
  PROVE  Unused(w, O, n)
<1>1. w.conn[n] = FreeConn /\ n \notin O
  BY DEF NInv, ConnOK, Dead
<1>2. \A t \in Threads : w.th[t].c # n
  <2> SUFFICES ASSUME NEW t \in Threads, w.th[t].c = n PROVE FALSE
    OBVIOUS
  <2>1. ThOK(w, W, O, t)
    BY DEF NInv
  <2> QED
    BY <2>1, NoneApart DEF ThOK
<1>3. \A d \in Conns : \A i \in 1 .. Len(w.conn[d].acceptmbox) : w.conn[d].acceptmbox[i] # n
  BY DEF NInv, PendOK, Unknown
<1> QED
  BY <1>1, <1>2, <1>3 DEF Unused

(* An unused netconn is given the pcb p, or none.  It is nobody's yet. *)
Filled(k, p) ==
  /\ k \in ConnType /\ k.alive /\ k.pcb = p /\ k.state = "NONE" /\ k.msg = None /\ k.sem = 0
  /\ ~k.nbc /\ ~k.avalid /\ k.acceptmbox = << >> /\ k.past = {}

(* accept_function puts a new netconn beside the others. *)
LEMMA FilledStep ==
  ASSUME NEW w, NEW W, NEW O, NInv(w, W, O), NEW n \in Conns, ~w.conn[n].alive, NEW k,
         NEW p \in Pcbs \cup {None}, Filled(k, p),
         NEW r \in Worlds, Elsewhere(w, r, n, p, None), r.th = w.th, r.conn[n] = k,
         p # None => /\ Unowned(w, p) /\ r.pcb[p].arg = n /\ r.pcb[p].err /\ r.pcb[p].poll
                     /\ r.pcb[p].st = "ESTABLISHED"
  PROVE  NInv(r, W, O)
<1>1. Unused(w, O, n)
  BY UnusedIs
<1>2. w \in Worlds /\ W \subseteq Threads /\ O \subseteq Conns /\ w.conn[n].pcb = None
  BY <1>1 DEF NInv, Unused, FreeConn
<1>3. Mine(w, n, p, None)
  BY <1>2 DEF Mine, Unowned
<1>4. Dead(r.conn[n]) /\ Bound(r, r.conn[n], n) /\ Stage(r, r.conn[n]) /\ Message(r, W, r.conn[n], n)
  <2>1. Dead(k)
    BY DEF Filled, Dead
  <2>2. Bound(r, k, n)
    BY NoneApart DEF Filled, Bound, Attached, Leaving
  <2>3. Stage(r, k)
    BY NoneApart DEF Filled, Stage
  <2>4. Message(r, W, k, n)
    BY DEF Filled, Message
  <2> QED
    BY <2>1, <2>2, <2>3, <2>4
<1>5. Signal(r, W, r.conn[n], n)
  BY <1>1 DEF Unused, Signal, HasAnswer, InCall, Filled
<1>6. ConnOK(r, W, n)
  BY <1>4, <1>5 DEF ConnOK
<1>7. p # None => PcbOK(r, p)
  <2> HAVE p # None
  <2> QED
    BY OwnPcbOK DEF Filled
<1>8. \A u \in Threads : r.th[u].c # n
  BY <1>1 DEF Unused
<1>9. PendOK(r, O)
  <2>1. \A d \in Conns : r.conn[d].acceptmbox = w.conn[d].acceptmbox
    BY <1>1 DEF Elsewhere, Filled, Unused, FreeConn
  <2>2. \A d \in Conns : d # n => r.conn[d].alive = w.conn[d].alive /\ r.conn[d].state = w.conn[d].state
    BY DEF Elsewhere
  <2>3. ~Unknown(w, O, n)
    BY DEF Unknown
  <2>4. SameBut(O, O, n) /\ PendOK(w, O) /\ \A t \in Threads : r.th[t].c \in {w.th[t].c, n, None}
    BY DEF SameBut, NInv
  <2> QED
    BY <1>2, <2>1, <2>2, <2>3, <2>4, PendKept
<1>10. SameBut(W, W, None) /\ SameBut(O, O, n)
  BY DEF SameBut
<1>11. p \in AllPcbs \cup {None} /\ r.conn[n].pcb \in {p, None} /\ (n \in O => r.conn[n].alive)
  BY NoneApart DEF Filled
<1>12. Keeps(w, W, O, r, W, O, n, p, None)
  BY <1>2, <1>3, <1>6, <1>7, <1>8, <1>9, <1>10, <1>11, NoneApart DEF Keeps
<1> QED
  BY <1>12, Local

(* A connection is put into the acceptmbox of its listener. *)
LEMMA PostedStep ==
  ASSUME NEW w, NEW W, NEW O, NInv(w, W, O), NEW c \in Conns, w.conn[c].avalid, NEW n \in Conns, n # c,
         Unknown(w, O, n),
         \A d \in Conns : \A i \in 1 .. Len(w.conn[d].acceptmbox) : w.conn[d].acceptmbox[i] # n,
         NEW k, k = [w.conn[c] EXCEPT !.acceptmbox = Append(@, n)]
  PROVE  NInv(SetConn(w, c, k), W, O)
<1> DEFINE h == w.conn[c]
           p == h.pcb
           r == SetConn(w, c, k)
<1>1. w \in Worlds /\ W \subseteq Threads /\ O \subseteq Conns /\ h \in ConnType /\ ConnOK(w, W, c)
  BY WorldTypes DEF NInv
<1>2. p \in ListenPcbs /\ p # None /\ p \in AllPcbs
  BY <1>1, NoneApart DEF ConnOK, Stage
<1>3. h.acceptmbox \in Seq(Conns)
  BY <1>1 DEF ConnType
<1>4. Append(h.acceptmbox, n) \in Seq(Conns) /\ Append(h.acceptmbox, n) # << >>
  BY <1>3
<1> DEFINE box == Append(h.acceptmbox, n)
<1>5. k = [h EXCEPT !.acceptmbox = box]
  OBVIOUS
<1> HIDE DEF box
<1>6. k \in ConnType /\ k.alive = h.alive /\ k.pcb = p /\ k.state = h.state /\ k.msg = h.msg /\ k.sem = h.sem
      /\ k.nbc = h.nbc /\ k.avalid = h.avalid /\ k.acceptmbox = box /\ k.offset = h.offset
  BY <1>1, <1>4, <1>5 DEF ConnType, box
<1>16. ConnSet(w, r, c, k)
  BY <1>1, <1>6, ConnSetIs
<1> HIDE DEF r
<1>7. r \in Worlds /\ r.pcb = w.pcb /\ r.th = w.th /\ r.conn[c] = k
      /\ \A d \in Conns : d # c => r.conn[d] = w.conn[d]
  BY <1>16 DEF ConnSet
<1>8. ConnOK(r, W, c)
  <2>1. Dead(k)
    <3>1. h.alive
      BY <1>1 DEF ConnOK, Dead, FreeConn
    <3> QED
      BY <1>6, <3>1 DEF Dead
  <2>2. Bound(r, k, c)
    BY <1>1, <1>6, <1>7 DEF ConnOK, Bound
  <2>3. Stage(r, k)
    <3>1. Stage(w, h)
      BY <1>1 DEF ConnOK
    <3> HIDE DEF h, p
    <3> QED
      BY <1>6, <1>7, <3>1 DEF Stage, h, p
  <2>4. Message(r, W, k, c)
    <3>1. Message(w, W, h, c)
      BY <1>1 DEF ConnOK
    <3> QED
      BY <1>6, <1>7, <3>1 DEF Message
  <2>5. Signal(r, W, k, c)
    <3>1. Signal(w, W, h, c)
      BY <1>1 DEF ConnOK
    <3> QED
      BY <1>6, <1>7, <3>1 DEF Signal, HasAnswer
  <2> QED
    BY <1>7, <2>1, <2>2, <2>3, <2>4, <2>5 DEF ConnOK
<1>9. PcbOK(r, p)
  <2>1. PcbOK(w, p) /\ w.pcb[p] \in PcbType
    BY <1>1, <1>2, WorldTypes DEF NInv
  <2>2. \A d \in Conns : r.conn[d].pcb = w.conn[d].pcb
    BY <1>6, <1>7
  <2>3. w.pcb[p].arg # None => w.pcb[p].arg \in Conns
    BY <2>1 DEF PcbType
  <2> HIDE DEF p
  <2> QED
    BY <1>7, <2>1, <2>2, <2>3 DEF PcbOK
<1>10. ASSUME NEW u \in Threads, r.th[u].c = c PROVE ThOK(r, W, O, u)
  <2>1. ThOK(w, W, O, u) /\ r.th = w.th /\ w.th[u].c = c
    BY <1>7, <1>10 DEF NInv
  <2>2. ~(w.th[u].pc = "wait" /\ u \notin W /\ h.msg # u
         /\ (w.th[u].fn = "delete" \/ (w.th[u].fn = "new" /\ w.th[u].err # "OK")))
    BY <1>2, <2>1 DEF ThOK
  <2>3. u \in W => Fresh(r, r.th[u])
    <3> HAVE u \in W
    <3>1. Fresh(w, w.th[u])
      BY <2>1 DEF ThOK
    <3>2. h # NewConn
      BY <1>2, NewIs
    <3> QED
      BY <2>1, <3>1, <3>2 DEF Fresh
  <2>4. r.conn[c].alive /\ r.conn[c].msg = h.msg
    BY <1>6, <1>7, <2>1, NoneApart DEF ThOK
  <2> HIDE DEF h
  <2> QED
    BY <1>10, <2>1, <2>2, <2>3, <2>4 DEF ThOK
<1>11. PendOK(r, O)
  <2>0. PendOK(w, O)
    BY DEF NInv
  <2>1. ASSUME NEW d \in Conns, Unknown(w, O, d) PROVE Unknown(r, O, d)
    BY ZenonT(60), <1>6, <1>7, <2>1 DEF Unknown
  <2>2. ASSUME NEW d \in Conns, NEW i \in 1 .. Len(r.conn[d].acceptmbox)
        PROVE  \/ i \in 1 .. Len(w.conn[d].acceptmbox) /\ r.conn[d].acceptmbox[i] = w.conn[d].acceptmbox[i]
               \/ d = c /\ i = Len(h.acceptmbox) + 1 /\ r.conn[d].acceptmbox[i] = n
    <3>1. CASE d = c
      <4>1. i \in 1 .. Len(Append(h.acceptmbox, n))
        BY <1>6, <1>7, <3>1 DEF box
      <4>2. i \in 1 .. Len(h.acceptmbox) + 1
        BY <1>3, <4>1
      <4>3. Append(h.acceptmbox, n)[i] = IF i = Len(h.acceptmbox) + 1 THEN n ELSE h.acceptmbox[i]
        BY <1>3, <4>2
      <4>4. r.conn[d].acceptmbox = Append(h.acceptmbox, n)
        BY <1>6, <1>7, <3>1 DEF box
      <4>5. Len(h.acceptmbox) \in Nat
        BY <1>3
      <4>6. i # Len(h.acceptmbox) + 1 => i \in 1 .. Len(h.acceptmbox)
        BY <4>2, <4>5
      <4> QED
        BY <3>1, <4>3, <4>4, <4>6
    <3>2. CASE d # c
      BY <1>7, <3>2
    <3> QED
      BY <3>1, <3>2
  <2> SUFFICES ASSUME NEW d \in Conns, NEW i \in 1 .. Len(r.conn[d].acceptmbox)
               PROVE  Unknown(r, O, r.conn[d].acceptmbox[i]) /\ Once(r, d, i)
    BY DEF PendOK
  <2>3. Unknown(r, O, r.conn[d].acceptmbox[i])
    <3>1. CASE i \in 1 .. Len(w.conn[d].acceptmbox) /\ r.conn[d].acceptmbox[i] = w.conn[d].acceptmbox[i]
      <4>1. w.conn[d].acceptmbox \in Seq(Conns)
        BY <1>1, WorldTypes DEF ConnType
      <4>2. w.conn[d].acceptmbox[i] \in Conns
        BY <3>1, <4>1
      <4> QED
        BY <2>0, <2>1, <3>1, <4>2 DEF PendOK
    <3> QED
      BY <2>1, <2>2, <3>1
  <2>4. Once(r, d, i)
    <3> SUFFICES ASSUME NEW e \in Conns, NEW j \in 1 .. Len(r.conn[e].acceptmbox),
                        r.conn[e].acceptmbox[j] = r.conn[d].acceptmbox[i]
                 PROVE  d = e /\ i = j
      BY DEF Once
    <3>1. \/ i \in 1 .. Len(w.conn[d].acceptmbox) /\ r.conn[d].acceptmbox[i] = w.conn[d].acceptmbox[i]
          \/ d = c /\ i = Len(h.acceptmbox) + 1 /\ r.conn[d].acceptmbox[i] = n
      BY <2>2
    <3>2. \/ j \in 1 .. Len(w.conn[e].acceptmbox) /\ r.conn[e].acceptmbox[j] = w.conn[e].acceptmbox[j]
          \/ e = c /\ j = Len(h.acceptmbox) + 1 /\ r.conn[e].acceptmbox[j] = n
      BY <2>2
    <3>3. ASSUME i \in 1 .. Len(w.conn[d].acceptmbox), j \in 1 .. Len(w.conn[e].acceptmbox),
                 w.conn[e].acceptmbox[j] = w.conn[d].acceptmbox[i]
          PROVE  d = e /\ i = j
      BY <2>0, <3>3 DEF PendOK, Once
    <3> QED
      BY <3>1, <3>2, <3>3
  <2> QED
    BY <2>3, <2>4
<1>12. Elsewhere(w, r, c, p, None)
  BY <1>7 DEF Elsewhere
<1>13. Mine(w, c, p, None)
  BY <1>2, OneOwner DEF Mine
<1>14. SameBut(W, W, None) /\ SameBut(O, O, c) /\ (c \in O => r.conn[c].alive)
  BY <1>6, <1>7 DEF SameBut, NInv
<1> HIDE DEF p
<1>15. Keeps(w, W, O, r, W, O, c, p, None)
  BY <1>1, <1>2, <1>6, <1>7, <1>8, <1>9, <1>10, <1>11, <1>12, <1>13, <1>14, NoneApart DEF Keeps
<1>17. NInv(r, W, O)
  BY <1>15, Local
<1> QED
  BY <1>17 DEF r

(* accept_function hands a new netconn to the listener. *)
LEMMA AcceptStep ==
  ASSUME NEW w, NEW W, NEW O, NInv(w, W, O), NEW p \in Pcbs, w.pcb[p].st = "SYN_RCVD",
         NEW c, c = w.pcb[p].arg, w.conn[c].avalid, NEW n \in Conns, ~w.conn[n].alive,
         NEW x, x = SetConn(SetPcb(w, p, [setup_tcp(w.pcb[p], n) EXCEPT !.st = "ESTABLISHED"]),
                            n, [NewConn EXCEPT !.pcb = p, !.wr = TRUE])
  PROVE  NInv(SetConn(x, c, [w.conn[c] EXCEPT !.acceptmbox = Append(@, n)]), W, O)
<1> DEFINE s == setup_tcp(w.pcb[p], n)
           q == [s EXCEPT !.st = "ESTABLISHED"]
           k == [NewConn EXCEPT !.pcb = p, !.wr = TRUE]
<1>1. w \in Worlds /\ p \in AllPcbs /\ w.pcb[p] \in PcbType /\ PcbOK(w, p) /\ p # None
  BY NoneApart, WorldTypes DEF NInv
<1>2. c \in Conns
  BY <1>1 DEF PcbOK, PcbType
<1>3. Unused(w, O, n)
  BY UnusedIs
<1>4. n # c
  BY <1>3 DEF Unused, FreeConn
<1>5. s \in PcbType /\ Wired(s, w.pcb[p], n)
  BY <1>1, SetupIs
<1>6. Filled(k, p)
  BY <1>1, Blank, NewIs DEF ConnType, Filled
<1> HIDE DEF s
<1>7. q \in PcbType /\ q.arg = n /\ q.err /\ q.poll /\ q.st = "ESTABLISHED"
  BY <1>5 DEF PcbType, PcbStates, Active, Wired
<1>8. x = SetConn(SetPcb(w, p, q), n, k)
  BY DEF q, k, s
<1> HIDE DEF q, k
<1>9. Both(w, x, n, p, k, q)
  <2>1. k \in ConnType
    BY <1>6 DEF Filled
  <2> QED
    BY <1>1, <1>7, <1>8, <2>1, BothIs
<1>10. x \in Worlds /\ x.th = w.th /\ x.conn[n] = k /\ x.pcb[p] = q /\ Elsewhere(w, x, n, p, None)
  BY <1>9 DEF Both
<1>11. Unowned(w, p)
  BY OwnedIs DEF Attached, Leaving
<1>12. NInv(x, W, O)
  BY <1>6, <1>7, <1>10, <1>11, FilledStep
<1>13. x.conn[c] = w.conn[c]
  BY <1>2, <1>4, <1>10 DEF Elsewhere
<1>14. Unknown(x, O, n)
  BY <1>3, <1>6, <1>10 DEF Unknown, Unused, Filled
<1>15. \A d \in Conns : \A i \in 1 .. Len(x.conn[d].acceptmbox) : x.conn[d].acceptmbox[i] # n
  <2>1. \A d \in Conns : x.conn[d].acceptmbox = w.conn[d].acceptmbox
    BY <1>3, <1>6, <1>10 DEF Elsewhere, Filled, Unused, FreeConn
  <2> QED
    BY <1>3, <2>1 DEF Unused
<1> QED
  BY Zenon, <1>2, <1>4, <1>12, <1>13, <1>14, <1>15, PostedStep

-----------------------------------------------------------------------------
(* The application's side *)

(* No acceptmbox holds c. *)
NotPending(w, c) ==
  \A d \in Conns : \A i \in 1 .. Len(w.conn[d].acceptmbox) : w.conn[d].acceptmbox[i] # c

(* Netconn c is in no call but one of t. *)
OnlyCaller(w, c, t) == \A u \in Threads : u # t => w.th[u].c # c

(* What an application has, or is in a call with, is in no acceptmbox. *)
LEMMA OwnedNotPending ==
  ASSUME NEW w, NEW W, NEW O, NInv(w, W, O), NEW c \in Conns,
         c \in O \/ \E t \in Threads : w.th[t].c = c
  PROVE  NotPending(w, c)
<1> SUFFICES ASSUME NEW d \in Conns, NEW i \in 1 .. Len(w.conn[d].acceptmbox) PROVE w.conn[d].acceptmbox[i] # c
  BY DEF NotPending
<1>1. Unknown(w, O, w.conn[d].acceptmbox[i])
  BY DEF NInv, PendOK
<1> QED
  BY <1>1 DEF Unknown

(* A netconn that no message has been answered for. *)
LEMMA QuietIs ==
  ASSUME NEW w, NEW W, NEW O, NInv(w, W, O), NEW c \in Conns,
         \A u \in Threads : w.th[u].c = c => w.th[u].pc # "wait"
  PROVE  w.conn[c].sem = 0 /\ w.conn[c].msg = None
<1>1. ConnOK(w, W, c) /\ w.conn[c] \in ConnType
  BY WorldTypes DEF NInv
<1>2. w.conn[c].msg = None
  BY <1>1 DEF ConnOK, Message, InCall, ConnType
<1>3. ~HasAnswer(w, W, w.conn[c], c)
  BY DEF HasAnswer, InCall
<1> QED
  BY <1>1, <1>2, <1>3 DEF ConnOK, Signal

(* A thread that waits for no answer turns to a call, to a mailbox, or to nothing. *)
Turns(w, W, O, m, V, N, c, t) ==
  /\ c \in Conns /\ t \in Threads /\ m \in ThType /\ N \subseteq O /\ SameBut(N, O, c)
  /\ w.th[t].pc # "wait" /\ w.th[t].c \in {c, None} /\ OnlyCaller(w, c, t)
  /\ m.c \in {c, None} /\ (m.pc = "idle" <=> m.c = None)
  /\ V = IF m.pc = "wait" THEN W \cup {t} ELSE W
  /\ m.pc = "wait" => Fresh(w, m)
  /\ m.pc = "wait" /\ m.fn \in {"new", "delete"} => c \notin N
  /\ m.c # None => w.conn[c].alive /\ NotPending(w, c)

(* A caller that starts a call or gives one up keeps the invariant. *)
LEMMA TurnStep ==
  ASSUME NEW w, NEW W, NEW O, NInv(w, W, O), NEW m, NEW V, NEW N, NEW c, NEW t, Turns(w, W, O, m, V, N, c, t)
  PROVE  NInv(SetTh(w, t, m), V, N)
<1> DEFINE r == SetTh(w, t, m)
           p == w.conn[c].pcb
<1>1. c \in Conns /\ t \in Threads /\ m \in ThType /\ N \subseteq O /\ SameBut(N, O, c)
      /\ w.th[t].pc # "wait" /\ w.th[t].c \in {c, None} /\ OnlyCaller(w, c, t)
      /\ m.c \in {c, None} /\ (m.pc = "idle" <=> m.c = None)
      /\ (m.pc = "wait" => Fresh(w, m)) /\ (m.pc = "wait" /\ m.fn \in {"new", "delete"} => c \notin N)
      /\ (m.c # None => w.conn[c].alive /\ NotPending(w, c))
  BY DEF Turns
<1>2. V = IF m.pc = "wait" THEN W \cup {t} ELSE W
  BY DEF Turns
<1>3. w \in Worlds /\ W \subseteq Threads /\ O \subseteq Conns
  BY DEF NInv
<1>4. ThSet(w, r, t, m)
  BY <1>1, <1>3, ThSetIs
<1> HIDE DEF r
<1>5. r \in Worlds /\ r.conn = w.conn /\ r.pcb = w.pcb /\ r.th[t] = m /\ \A u \in Threads : u # t => r.th[u] = w.th[u]
  BY <1>4 DEF ThSet
<1>6. w.conn[c].sem = 0 /\ w.conn[c].msg = None
  BY <1>1, QuietIs DEF OnlyCaller
<1>7. t \notin W
  BY <1>1 DEF NInv, ThOK, Fresh
<1>8. ConnOK(w, W, c) /\ w.conn[c] \in ConnType
  BY <1>1, <1>3, WorldTypes DEF NInv
<1>9. ConnOK(r, V, c)
  <2> DEFINE k == w.conn[c]
  <2>1. Dead(k) /\ Bound(w, k, c) /\ Stage(w, k) /\ Message(w, W, k, c)
    BY <1>8 DEF ConnOK
  <2> HIDE DEF k
  <2>2. Bound(r, k, c)
    BY <1>5, <2>1 DEF Bound
  <2>3. Stage(r, k)
    BY <1>5, <2>1 DEF Stage
  <2>4. k.msg = None /\ k.sem = 0
    BY <1>6 DEF k
  <2>5. Message(r, V, k, c)
    BY <2>1, <2>4 DEF Message
  <2>6. ~HasAnswer(r, V, k, c)
    BY <1>1, <1>2, <1>5 DEF HasAnswer, InCall, OnlyCaller
  <2>7. Signal(r, V, k, c)
    BY <2>4, <2>6 DEF Signal
  <2> QED
    BY <1>5, <2>1, <2>2, <2>3, <2>5, <2>7 DEF ConnOK, k
<1>10. p \in AllPcbs \cup {None}
  BY SMTT(40), <1>8 DEF ConnType
<1>11. p # None => PcbOK(r, p)
  <2> HAVE p # None
  <2>1. PcbOK(w, p)
    BY <1>10 DEF NInv
  <2> QED
    BY <1>5, <2>1 DEF PcbOK
<1>12. ThOK(r, V, N, t)
  <2>1. \A u \in Threads : r.th[t].c # None /\ r.th[u].c = r.th[t].c => u = t
    BY <1>1, <1>5 DEF OnlyCaller
  <2>2. t \in V => Fresh(r, r.th[t])
    BY <1>1, <1>2, <1>5, <1>7 DEF Fresh
  <2>3. r.th[t].pc = "wait" => t \in V
    BY <1>2, <1>5
  <2>4. r.th[t].pc = "wait" => r.th[t].c = c
    BY <1>1, <1>5
  <2> QED
    BY <1>1, <1>5, <2>1, <2>2, <2>3, <2>4 DEF ThOK
<1>13. \A u \in Threads : u = t \/ r.th[u].c = c => u = t
  BY <1>1, <1>5 DEF OnlyCaller
<1>14. PendOK(r, N)
  <2>1. m.c = None => (Unknown(w, O, c) => Unknown(r, N, c))
    BY <1>1, <1>5 DEF Unknown, OnlyCaller
  <2>2. CASE m.c = None
    <3>1. \A u \in Threads : r.th[u].c \in {w.th[u].c, c, None}
      BY <1>5, <2>2
    <3>2. PendOK(w, O)
      BY DEF NInv
    <3> QED
      BY <1>1, <1>3, <1>5, <2>1, <2>2, <3>1, <3>2, PendKept
  <2>3. CASE m.c # None
    <3> SUFFICES ASSUME NEW d \in Conns, NEW i \in 1 .. Len(w.conn[d].acceptmbox)
                 PROVE  Unknown(r, N, w.conn[d].acceptmbox[i]) /\ Once(r, d, i)
      BY <1>5 DEF PendOK
    <3>1. Unknown(w, O, w.conn[d].acceptmbox[i]) /\ Once(w, d, i)
      BY DEF NInv, PendOK
    <3>2. w.conn[d].acceptmbox[i] # c
      BY <1>1, <2>3 DEF NotPending
    <3>3. Once(r, d, i)
      BY <1>5, <3>1 DEF Once
    <3> DEFINE n == w.conn[d].acceptmbox[i]
    <3>4. n # c /\ Unknown(w, O, n)
      BY <3>1, <3>2
    <3> HIDE DEF n
    <3>5. m.c = c
      BY <1>1, <2>3
    <3>6. Unknown(r, N, n)
      BY <1>1, <1>5, <3>4, <3>5 DEF Unknown
    <3> QED
      BY <3>3, <3>6 DEF n
  <2> QED
    BY <2>2, <2>3
<1>15. Elsewhere(w, r, c, p, t)
  BY <1>5 DEF Elsewhere
<1>16. Mine(w, c, p, t)
  BY <1>1, OneOwner DEF Mine
<1>17. SameBut(V, W, t) /\ V \subseteq Threads /\ N \subseteq Conns /\ (c \in N => r.conn[c].alive)
  BY <1>1, <1>2, <1>3, <1>5 DEF SameBut, NInv
<1>18. r.conn[c].pcb = p
  BY <1>5
<1> HIDE DEF p
<1>19. Keeps(w, W, O, r, V, N, c, p, t)
  BY <1>1, <1>5, <1>9, <1>10, <1>11, <1>12, <1>13, <1>14, <1>15, <1>16, <1>17, <1>18 DEF Keeps
<1>20. NInv(r, V, N)
  BY <1>19, Local
<1> QED
  BY <1>20 DEF r

(* The application changes what the invariant does not look at. *)
LEMMA LikeStep ==
  ASSUME NEW w, NEW W, NEW O, NInv(w, W, O), NEW c \in Conns, w.conn[c].alive,
         \A u \in W : w.th[u].c # c,
         NEW k \in ConnType, Like(k, w.conn[c]), k.sem = w.conn[c].sem
  PROVE  NInv(SetConn(w, c, k), W, O)
<1> DEFINE r == SetConn(w, c, k)
           h == w.conn[c]
           p == h.pcb
<1>1. w \in Worlds /\ W \subseteq Threads /\ h \in ConnType /\ ConnOK(w, W, c)
  BY WorldTypes DEF NInv
<1>2. p \in AllPcbs \cup {None}
  BY <1>1 DEF ConnType
<1>3. ConnSet(w, r, c, k)
  BY <1>1, ConnSetIs
<1> HIDE DEF r
<1>4. r \in Worlds /\ r.pcb = w.pcb /\ r.th = w.th /\ r.conn[c] = k /\ \A d \in Conns : d # c => r.conn[d] = w.conn[d]
  BY <1>3 DEF ConnSet
<1>5. ConnOK(r, W, c)
  <2>1. Dead(h) /\ Bound(w, h, c) /\ Stage(w, h) /\ Message(w, W, h, c) /\ Signal(w, W, h, c) /\ h.alive
    BY <1>1 DEF ConnOK
  <2> HIDE DEF h
  <2>0. Like(k, h) /\ k.sem = h.sem
    BY DEF h
  <2>2. Dead(k)
    BY <2>0, <2>1 DEF Dead, Like
  <2>3. Bound(r, k, c)
    BY <1>4, <2>0, <2>1 DEF Bound, Like
  <2>4. Stage(r, k)
    BY <1>4, <2>0, <2>1 DEF Stage, Like
  <2>5. Message(r, W, k, c)
    BY <1>4, <2>0, <2>1 DEF Message, Like
  <2>6. Signal(r, W, k, c)
    BY <1>4, <2>0, <2>1 DEF Signal, HasAnswer, Like
  <2> QED
    BY <1>4, <2>2, <2>3, <2>4, <2>5, <2>6 DEF ConnOK
<1>6. p # None => PcbOK(r, p)
  <2> HAVE p # None
  <2>1. p \in AllPcbs /\ Like(k, w.conn[c])
    BY <1>2
  <2>2. \A d \in Conns : r.conn[d].pcb = w.conn[d].pcb
    BY <1>4 DEF Like
  <2>3. SameFace(r.pcb[p], w.pcb[p])
    BY <1>4 DEF SameFace
  <2> QED
    BY <2>1, <2>2, <2>3, FaceKept
<1>7. ASSUME NEW u \in Threads, r.th[u].c = c PROVE ThOK(r, W, O, u)
  <2>1. ThOK(w, W, O, u) /\ u \notin W
    BY <1>4, <1>7 DEF NInv
  <2>2. /\ r.conn[c].alive = w.conn[c].alive /\ r.conn[c].msg = w.conn[c].msg
        /\ r.conn[c].pcb = w.conn[c].pcb /\ r.conn[c].acceptmbox = w.conn[c].acceptmbox
    BY <1>4 DEF Like
  <2>3. r.th = w.th /\ w.th[u].c = c
    BY <1>4, <1>7
  <2> HIDE DEF h, p
  <2> QED
    BY <2>1, <2>2, <2>3 DEF ThOK
<1>8. Elsewhere(w, r, c, p, None)
  BY <1>4 DEF Elsewhere
<1>9. Mine(w, c, p, None)
  BY OneOwner DEF Mine
<1>10. /\ r.conn[c].pcb = p /\ SameBut(W, W, None) /\ r.conn[c].alive = w.conn[c].alive
       /\ r.conn[c].acceptmbox = w.conn[c].acceptmbox /\ (Unknown(w, O, c) => r.conn[c].state = "NONE")
  BY <1>4 DEF Like, SameBut, Unknown
<1> HIDE DEF p
<1>11. Plain(w, W, O, r, W, c, p, None)
  BY <1>1, <1>2, <1>4, <1>5, <1>6, <1>7, <1>8, <1>9, <1>10, NoneApart DEF Plain
<1>12. NInv(r, W, O)
  BY <1>11, Step
<1> QED
  BY <1>12 DEF r

(* The first connection is taken out of an acceptmbox. *)
LEMMA PopStep ==
  ASSUME NEW w, NEW W, NEW O, NInv(w, W, O), NEW c \in Conns, w.conn[c].acceptmbox # << >>,
         NEW b \in BOOLEAN, NEW k, k = [w.conn[c] EXCEPT !.acceptmbox = Tail(@), !.fatal = b],
         NEW n, n = Head(w.conn[c].acceptmbox)
  PROVE  /\ NInv(SetConn(w, c, k), W, O)
         /\ n \in Conns /\ Unknown(SetConn(w, c, k), O, n) /\ NotPending(SetConn(w, c, k), n)
<1> DEFINE h == w.conn[c]
           p == h.pcb
           box == Tail(h.acceptmbox)
           r == SetConn(w, c, k)
<1>1. w \in Worlds /\ W \subseteq Threads /\ O \subseteq Conns /\ h \in ConnType /\ ConnOK(w, W, c)
  BY WorldTypes DEF NInv
<1>2. p \in ListenPcbs /\ p # None /\ p \in AllPcbs
  BY <1>1, NoneApart DEF ConnOK, Stage
<1>3. h.acceptmbox \in Seq(Conns)
  BY <1>1 DEF ConnType
<1>4. /\ box \in Seq(Conns) /\ n = h.acceptmbox[1] /\ Len(box) = Len(h.acceptmbox) - 1
      /\ 1 \in 1 .. Len(h.acceptmbox)
      /\ \A i \in 1 .. Len(box) : i + 1 \in 1 .. Len(h.acceptmbox) /\ box[i] = h.acceptmbox[i + 1]
  BY <1>3
<1>5. k = [h EXCEPT !.acceptmbox = box, !.fatal = b]
  OBVIOUS
<1> HIDE DEF box
<1>6. k \in ConnType /\ k.alive = h.alive /\ k.pcb = p /\ k.state = h.state /\ k.msg = h.msg /\ k.sem = h.sem
      /\ k.nbc = h.nbc /\ k.avalid = h.avalid /\ k.acceptmbox = box /\ k.offset = h.offset
  BY ZenonT(60), <1>1, <1>4, <1>5 DEF ConnType
<1>16. ConnSet(w, r, c, k)
  BY <1>1, <1>6, ConnSetIs
<1> HIDE DEF r
<1>7. r \in Worlds /\ r.pcb = w.pcb /\ r.th = w.th /\ r.conn[c] = k
      /\ \A d \in Conns : d # c => r.conn[d] = w.conn[d]
  BY <1>16 DEF ConnSet
<1>8. ConnOK(r, W, c)
  <2>1. Dead(k)
    <3>1. h.alive
      BY <1>1 DEF ConnOK, Dead, FreeConn
    <3> QED
      BY <1>6, <3>1 DEF Dead
  <2>2. Bound(r, k, c)
    BY <1>1, <1>6, <1>7 DEF ConnOK, Bound
  <2>3. Stage(r, k)
    <3>1. Stage(w, h) /\ h.avalid
      BY <1>1 DEF ConnOK, Stage
    <3> HIDE DEF h, p
    <3> QED
      BY <1>6, <1>7, <3>1 DEF Stage, h, p
  <2>4. Message(r, W, k, c)
    <3>1. Message(w, W, h, c)
      BY <1>1 DEF ConnOK
    <3> QED
      BY <1>6, <1>7, <3>1 DEF Message
  <2>5. Signal(r, W, k, c)
    <3>1. Signal(w, W, h, c)
      BY <1>1 DEF ConnOK
    <3> QED
      BY <1>6, <1>7, <3>1 DEF Signal, HasAnswer
  <2> QED
    BY <1>7, <2>1, <2>2, <2>3, <2>4, <2>5 DEF ConnOK
<1>9. PcbOK(r, p)
  <2>1. PcbOK(w, p) /\ w.pcb[p] \in PcbType
    BY <1>1, <1>2, WorldTypes DEF NInv
  <2>2. \A d \in Conns : r.conn[d].pcb = w.conn[d].pcb
    BY <1>6, <1>7
  <2>3. w.pcb[p].arg # None => w.pcb[p].arg \in Conns
    BY <2>1 DEF PcbType
  <2> HIDE DEF p
  <2> QED
    BY <1>7, <2>1, <2>2, <2>3 DEF PcbOK
<1>10. ASSUME NEW u \in Threads, r.th[u].c = c PROVE ThOK(r, W, O, u)
  <2>1. ThOK(w, W, O, u) /\ r.th = w.th /\ w.th[u].c = c
    BY <1>7, <1>10 DEF NInv
  <2>2. ~(w.th[u].pc = "wait" /\ u \notin W /\ h.msg # u
         /\ (w.th[u].fn = "delete" \/ (w.th[u].fn = "new" /\ w.th[u].err # "OK")))
    BY <1>2, <2>1 DEF ThOK
  <2>3. u \in W => Fresh(r, r.th[u])
    <3> HAVE u \in W
    <3>1. Fresh(w, w.th[u])
      BY <2>1 DEF ThOK
    <3>2. h # NewConn
      BY <1>2, NewIs
    <3> QED
      BY <2>1, <3>1, <3>2 DEF Fresh
  <2>4. r.conn[c].alive /\ r.conn[c].msg = h.msg
    BY <1>6, <1>7, <2>1, NoneApart DEF ThOK
  <2> HIDE DEF h
  <2> QED
    BY <1>10, <2>1, <2>2, <2>3, <2>4 DEF ThOK
<1>20. PendOK(w, O)
  BY DEF NInv
<1>21. ASSUME NEW d \in Conns, Unknown(w, O, d) PROVE Unknown(r, O, d)
  BY ZenonT(60), <1>6, <1>7, <1>21 DEF Unknown
<1> DEFINE Was(d, i) == IF d = c THEN i + 1 ELSE i
<1>22. ASSUME NEW d \in Conns, NEW i \in 1 .. Len(r.conn[d].acceptmbox)
       PROVE  Was(d, i) \in 1 .. Len(w.conn[d].acceptmbox) /\ r.conn[d].acceptmbox[i] = w.conn[d].acceptmbox[Was(d, i)]
  <2>1. CASE d = c
    BY <1>4, <1>6, <1>7, <2>1
  <2>2. CASE d # c
    BY <1>7, <2>2
  <2> QED
    BY <2>1, <2>2
<1>23. ASSUME NEW d \in Conns, NEW i \in 1 .. Len(w.conn[d].acceptmbox) PROVE w.conn[d].acceptmbox[i] \in Conns
  <2>1. w.conn[d].acceptmbox \in Seq(Conns)
    BY <1>1, WorldTypes DEF ConnType
  <2> QED
    BY <2>1
<1>24. ASSUME NEW d \in Conns, NEW e \in Conns, NEW i \in 1 .. Len(w.conn[d].acceptmbox),
              NEW j \in 1 .. Len(w.conn[e].acceptmbox), w.conn[e].acceptmbox[j] = w.conn[d].acceptmbox[i]
       PROVE  d = e /\ i = j
  BY <1>20, <1>24 DEF PendOK, Once
<1>25. ASSUME NEW d \in Conns, NEW i \in 1 .. Len(w.conn[d].acceptmbox) PROVE Unknown(w, O, w.conn[d].acceptmbox[i])
  BY <1>20 DEF PendOK
<1> HIDE DEF Was
<1>11. PendOK(r, O)
  <2> SUFFICES ASSUME NEW d \in Conns, NEW i \in 1 .. Len(r.conn[d].acceptmbox)
               PROVE  Unknown(r, O, r.conn[d].acceptmbox[i]) /\ Once(r, d, i)
    BY DEF PendOK
  <2>1. Unknown(r, O, r.conn[d].acceptmbox[i])
    BY <1>21, <1>22, <1>23, <1>25
  <2>2. Once(r, d, i)
    <3> SUFFICES ASSUME NEW e \in Conns, NEW j \in 1 .. Len(r.conn[e].acceptmbox),
                        r.conn[e].acceptmbox[j] = r.conn[d].acceptmbox[i]
                 PROVE  d = e /\ i = j
      BY DEF Once
    <3>2. Was(d, i) \in 1 .. Len(w.conn[d].acceptmbox) /\ r.conn[d].acceptmbox[i] = w.conn[d].acceptmbox[Was(d, i)]
      BY <1>22
    <3>3. Was(e, j) \in 1 .. Len(w.conn[e].acceptmbox) /\ r.conn[e].acceptmbox[j] = w.conn[e].acceptmbox[Was(e, j)]
      BY <1>22
    <3>4. w.conn[e].acceptmbox[Was(e, j)] = w.conn[d].acceptmbox[Was(d, i)]
      BY <3>2, <3>3
    <3>1. d = e /\ Was(d, i) = Was(e, j)
      BY SMTT(40), <1>24, <3>2, <3>3, <3>4
    <3> QED
      BY <3>1 DEF Was
  <2> QED
    BY <2>1, <2>2
<1>12. Elsewhere(w, r, c, p, None)
  BY <1>7 DEF Elsewhere
<1>13. Mine(w, c, p, None)
  BY <1>2, OneOwner DEF Mine
<1>14. SameBut(W, W, None) /\ SameBut(O, O, c) /\ (c \in O => r.conn[c].alive)
  BY <1>6, <1>7 DEF SameBut, NInv
<1>26. n \in Conns /\ Unknown(r, O, n)
  BY <1>4, <1>21, <1>23, <1>25
<1>27. NotPending(r, n)
  <2> SUFFICES ASSUME NEW d \in Conns, NEW i \in 1 .. Len(r.conn[d].acceptmbox), r.conn[d].acceptmbox[i] = n PROVE FALSE
    BY DEF NotPending
  <2>2. Was(d, i) \in 1 .. Len(w.conn[d].acceptmbox) /\ r.conn[d].acceptmbox[i] = w.conn[d].acceptmbox[Was(d, i)]
    BY <1>22
  <2>3. 1 \in 1 .. Len(w.conn[c].acceptmbox) /\ w.conn[c].acceptmbox[1] = w.conn[d].acceptmbox[Was(d, i)]
    BY <1>4, <2>2
  <2>1. d = c /\ Was(d, i) = 1
    BY <1>24, <2>2, <2>3
  <2> QED
    BY <2>1 DEF Was
<1> HIDE DEF p
<1>15. Keeps(w, W, O, r, W, O, c, p, None)
  BY <1>1, <1>2, <1>6, <1>7, <1>8, <1>9, <1>10, <1>11, <1>12, <1>13, <1>14, NoneApart DEF Keeps
<1>17. NInv(r, W, O)
  BY <1>15, Local
<1> QED
  BY <1>17, <1>26, <1>27 DEF r

(* The application gets a netconn. *)
LEMMA GivenStep ==
  ASSUME NEW w, NEW W, NEW O, NInv(w, W, O), NEW n \in Conns, Unknown(w, O, n), NotPending(w, n)
  PROVE  NInv(w, W, O \cup {n})
<1>1. \A t \in Threads : ThOK(w, W, O \cup {n}, t)
  BY DEF NInv, ThOK, Unknown
<1>2. PendOK(w, O \cup {n})
  BY DEF NInv, PendOK, Unknown, NotPending
<1>3. \A c \in O \cup {n} : w.conn[c].alive
  BY DEF NInv, Unknown
<1> QED
  BY <1>1, <1>2, <1>3 DEF NInv

(* A caller that finds op_completed signalled is the one whose message has *)
(* been answered.                                                          *)
LEMMA SignalMeans ==
  ASSUME NEW w, NEW W, NEW O, NInv(w, W, O), NEW t \in Threads, w.th[t].pc = "wait",
         NEW c, c = w.th[t].c, w.conn[c].sem > 0
  PROVE  /\ c \in Conns /\ t \notin W /\ w.conn[c].msg = None /\ w.conn[c].sem = 1 /\ w.conn[c].alive
         /\ OnlyCaller(w, c, t)
<1>1. w \in Worlds /\ ThOK(w, W, O, t) /\ w.th[t] \in ThType
  BY WorldTypes DEF NInv
<1>2. c # None
  BY <1>1 DEF ThOK
<1>3. c \in Conns /\ w.conn[c].alive /\ OnlyCaller(w, c, t)
  BY <1>1, <1>2 DEF ThOK, ThType, OnlyCaller
<1>4. ConnOK(w, W, c) /\ w.conn[c] \in ConnType
  BY <1>1, <1>3, WorldTypes DEF NInv
<1>5. HasAnswer(w, W, w.conn[c], c) /\ w.conn[c].sem = 1
  BY <1>4 DEF ConnOK, Signal
<1>6. t \notin W /\ w.conn[c].msg # t
  BY <1>3, <1>5 DEF HasAnswer, InCall, OnlyCaller
<1>7. w.conn[c].msg # None => w.conn[c].msg \in Threads /\ w.th[w.conn[c].msg].c = c
  BY Zenon, <1>4 DEF ConnOK, Message, InCall, ConnType
<1>8. w.conn[c].msg = None
  BY <1>3, <1>6, <1>7 DEF OnlyCaller
<1> QED
  BY <1>3, <1>5, <1>6, <1>8

(* The netconn a caller leaves behind: freed, or without its signal. *)
Left(k, h) ==
  \/ k = FreeConn /\ h.pcb = None /\ h.acceptmbox = << >>
  \/ k \in ConnType /\ Like(k, h) /\ k.sem = 0

(* A caller returns once its token is there, and takes it. *)
LEMMA ReturnStep ==
  ASSUME NEW w, NEW W, NEW O, NInv(w, W, O), NEW t \in Threads, w.th[t].pc = "wait",
         NEW c, c = w.th[t].c, w.conn[c].sem > 0, NEW k, Left(k, w.conn[c]),
         NEW N, N \subseteq Conns, SameBut(N, O, c), c \in N => k.alive
  PROVE  NInv(SetTh(SetConn(w, c, k), t, IdleThread), W, N)
<1> DEFINE h == w.conn[c]
           p == h.pcb
           x == SetConn(w, c, k)
           r == SetTh(x, t, IdleThread)
<1>1. c \in Conns /\ t \notin W /\ h.msg = None /\ h.sem = 1 /\ h.alive /\ OnlyCaller(w, c, t)
  BY SignalMeans
<1>2. w \in Worlds /\ W \subseteq Threads /\ h \in ConnType /\ ConnOK(w, W, c)
  BY <1>1, WorldTypes DEF NInv
<1>3. k \in ConnType
  BY Blank DEF Left
<1>4. ConnSet(w, x, c, k)
  BY <1>1, <1>2, <1>3, ConnSetIs
<1> HIDE DEF x
<1>5. x \in Worlds /\ x.pcb = w.pcb /\ x.th = w.th /\ x.conn[c] = k /\ \A d \in Conns : d # c => x.conn[d] = w.conn[d]
  BY <1>4 DEF ConnSet
<1>6. ThSet(x, r, t, IdleThread)
  BY <1>5, Blank, ThSetIs
<1> HIDE DEF r
<1>7. /\ r \in Worlds /\ r.conn = x.conn /\ r.pcb = w.pcb /\ r.th[t] = IdleThread
      /\ \A u \in Threads : u # t => r.th[u] = w.th[u]
  BY <1>5, <1>6 DEF ThSet
<1>8. r.conn[c] = k /\ \A d \in Conns : d # c => r.conn[d] = w.conn[d]
  BY <1>5, <1>7
<1>9. \A u \in Threads : r.th[u].c # c
  BY <1>1, <1>7, NoneApart DEF OnlyCaller, IdleThread
<1>10. k.pcb = p /\ k.acceptmbox = h.acceptmbox /\ k.msg = None /\ k.sem = 0
  <2>1. CASE k = FreeConn /\ h.pcb = None /\ h.acceptmbox = << >>
    <3>1. FreeConn.pcb = None /\ FreeConn.acceptmbox = << >> /\ FreeConn.msg = None /\ FreeConn.sem = 0
      BY DEF FreeConn
    <3> QED
      BY <2>1, <3>1
  <2>2. CASE Like(k, h) /\ k.sem = 0
    BY <1>1, <2>2 DEF Like
  <2> QED
    BY <2>1, <2>2 DEF Left
<1>11. ConnOK(r, W, c)
  <2>1. Dead(h) /\ Bound(w, h, c) /\ Stage(w, h) /\ Message(w, W, h, c)
    BY <1>2 DEF ConnOK
  <2>2. Signal(r, W, k, c)
    BY <1>9, <1>10 DEF Signal, HasAnswer, InCall
  <2>3. Dead(k) /\ Bound(r, k, c) /\ Stage(r, k) /\ Message(r, W, k, c)
    <3>1. CASE k = FreeConn
      <4>1. Dead(k) /\ Bound(r, k, c) /\ Message(r, W, k, c)
        BY <3>1 DEF Dead, Bound, Message, FreeConn
      <4>2. Stage(r, k)
        BY <3>1, NoneApart DEF Stage, FreeConn
      <4> QED
        BY <4>1, <4>2
    <3>2. CASE Like(k, h)
      <4> HIDE DEF h
      <4>1. Dead(k)
        BY <1>1, <3>2 DEF Dead, Like
      <4>2. Bound(r, k, c)
        BY <1>7, <2>1, <3>2 DEF Bound, Like
      <4>3. Stage(r, k)
        BY <1>7, <2>1, <3>2 DEF Stage, Like
      <4>4. Message(r, W, k, c)
        BY <1>10, <2>1, <3>2 DEF Message, Like
      <4> QED
        BY <4>1, <4>2, <4>3, <4>4
    <3> QED
      BY <3>1, <3>2 DEF Left
  <2> QED
    BY SMTT(40), <1>8, <2>2, <2>3 DEF ConnOK
<1>12. p \in AllPcbs \cup {None} /\ r.conn[c].pcb = p
  BY <1>2, <1>8, <1>10 DEF ConnType
<1>13. p # None => PcbOK(r, p)
  <2> HAVE p # None
  <2>1. \A d \in Conns : r.conn[d].pcb = w.conn[d].pcb
    BY <1>8, <1>10
  <2>2. SameFace(r.pcb[p], w.pcb[p]) /\ Like(w.conn[c], w.conn[c])
    BY <1>7, LikeSelf DEF SameFace
  <2> QED
    BY Zenon, <1>1, <1>12, <2>1, <2>2, FaceKept
<1>14. ThOK(r, W, N, t)
  <2>1. r.th[t].pc = "idle" /\ r.th[t].c = None
    BY <1>7 DEF IdleThread
  <2> QED
    BY <1>1, <2>1 DEF ThOK
<1>15. PendOK(r, N)
  <2>1. PendOK(w, O) /\ ~Unknown(w, O, c)
    BY <1>1 DEF NInv, Unknown
  <2>2. \A d \in Conns : r.conn[d].acceptmbox = w.conn[d].acceptmbox
    BY <1>8, <1>10
  <2>3. \A d \in Conns : d # c => r.conn[d].alive = w.conn[d].alive /\ r.conn[d].state = w.conn[d].state
    BY <1>8
  <2>4. \A u \in Threads : r.th[u].c \in {w.th[u].c, c, None}
    BY <1>7 DEF IdleThread
  <2> QED
    BY <1>1, <1>2, <1>7, <2>1, <2>2, <2>3, <2>4, PendKept
<1>16. Elsewhere(w, r, c, p, t)
  BY <1>7, <1>8 DEF Elsewhere
<1>17. Mine(w, c, p, t)
  BY <1>1, OneOwner DEF Mine
<1>18. SameBut(W, W, t) /\ (c \in N => r.conn[c].alive) /\ r.th[t].c = None
  BY <1>7, <1>8 DEF SameBut, IdleThread
<1> HIDE DEF p
<1>19. Keeps(w, W, O, r, W, N, c, p, t)
  BY <1>1, <1>2, <1>7, <1>9, <1>11, <1>12, <1>13, <1>14, <1>15, <1>16, <1>17, <1>18 DEF Keeps
<1>20. NInv(r, W, N)
  BY <1>19, Local
<1> QED
  BY <1>20 DEF r, x

-----------------------------------------------------------------------------
(* The actions *)

(* A thread has one message in the mailbox at most. *)
NoTwice(s) == \A i, j \in 1 .. Len(s) : s[i] = s[j] => i = j
MboxOK == mbox \in Seq(Threads) /\ NoTwice(mbox)
TailOK == tail = None \/ tail \in [by : {"poll", "sent"}, c : Conns]
SInv == NInv(World, ToSet(mbox), owned) /\ MboxOK /\ TailOK

(* The world is made of the variables. *)
LEMMA WorldIs == World.conn = conn /\ World.pcb = pcb /\ World.th = th
  BY DEF World

(* A step is judged by the world it leads to. *)
LEMMA Moved ==
  ASSUME NEW w, Becomes(w), NInv(w, ToSet(mbox'), owned'), MboxOK', TailOK'
  PROVE  SInv'
<1>1. w \in Worlds
  BY DEF NInv
<1>2. World' = w
  BY <1>1 DEF Becomes, World, Worlds
<1> QED
  BY <1>2 DEF SInv

(* The same when the mailbox and what applications have stay. *)
LEMMA Stays ==
  ASSUME SInv, NEW w, Becomes(w), NInv(w, ToSet(mbox), owned), UNCHANGED <<mbox, owned, tail>>
  PROVE  SInv'
<1>1. MboxOK' /\ TailOK'
  BY DEF SInv, MboxOK, TailOK
<1>2. NInv(w, ToSet(mbox'), owned')
  OBVIOUS
<1> QED
  BY <1>1, <1>2, Moved

(* What tcpip_apimsg makes of the mailbox, and what the tcpip thread leaves. *)
LEMMA AppendIs ==
  ASSUME NEW s \in Seq(Threads), NEW t \in Threads, t \notin ToSet(s),
         NoTwice(s), NEW z, z = Append(s, t)
  PROVE  z \in Seq(Threads) /\ ToSet(z) = ToSet(s) \cup {t} /\ NoTwice(z)
<1>1. z \in Seq(Threads) /\ Len(z) = Len(s) + 1 /\ Len(s) \in Nat
  OBVIOUS
<1>2. \A i \in 1 .. Len(z) : z[i] = IF i = Len(s) + 1 THEN t ELSE s[i]
  OBVIOUS
<1>3. \A i \in 1 .. Len(s) : s[i] \in ToSet(s) /\ i \in 1 .. Len(z) /\ i # Len(s) + 1
  BY <1>1 DEF ToSet
<1>4. DOMAIN s = 1 .. Len(s) /\ DOMAIN z = 1 .. Len(z)
  BY <1>1
<1>5. ToSet(z) \subseteq ToSet(s) \cup {t}
  <2> SUFFICES ASSUME NEW i \in 1 .. Len(z) PROVE z[i] \in ToSet(s) \cup {t}
    BY <1>4 DEF ToSet
  <2>1. i # Len(s) + 1 => i \in 1 .. Len(s)
    BY <1>1
  <2> QED
    BY <1>2, <1>3, <2>1
<1>6. ToSet(s) \cup {t} \subseteq ToSet(z)
  <2>1. Len(s) + 1 \in 1 .. Len(z)
    BY <1>1
  <2>2. t \in ToSet(z)
    BY <1>2, <1>4, <2>1 DEF ToSet
  <2>3. ToSet(s) \subseteq ToSet(z)
    BY <1>2, <1>3, <1>4 DEF ToSet
  <2> QED
    BY <2>2, <2>3
<1>7. NoTwice(z)
  <2> SUFFICES ASSUME NEW i \in 1 .. Len(z), NEW j \in 1 .. Len(z), z[i] = z[j] PROVE i = j
    BY DEF NoTwice
  <2>1. i # Len(s) + 1 => i \in 1 .. Len(s) /\ z[i] = s[i] /\ z[i] # t
    BY <1>1, <1>2, <1>3
  <2>2. j # Len(s) + 1 => j \in 1 .. Len(s) /\ z[j] = s[j] /\ z[j] # t
    BY <1>1, <1>2, <1>3
  <2>3. (i = Len(s) + 1 => z[i] = t) /\ (j = Len(s) + 1 => z[j] = t)
    BY <1>2
  <2> QED
    BY <2>1, <2>2, <2>3 DEF NoTwice
<1> QED
  BY <1>1, <1>5, <1>6, <1>7

(* The mailbox without its first message. *)
LEMMA TailIs ==
  ASSUME NEW s \in Seq(Threads), s # << >>, NoTwice(s), NEW z, z = Tail(s)
  PROVE  z \in Seq(Threads) /\ Head(s) \in ToSet(s) /\ ToSet(z) = ToSet(s) \ {Head(s)} /\ NoTwice(z)
<1>1. /\ z \in Seq(Threads) /\ Len(z) = Len(s) - 1 /\ Len(s) \in Nat \ {0} /\ Head(s) = s[1]
      /\ \A i \in 1 .. Len(z) : i + 1 \in 1 .. Len(s) /\ z[i] = s[i + 1]
  OBVIOUS
<1>2. DOMAIN s = 1 .. Len(s) /\ DOMAIN z = 1 .. Len(z) /\ 1 \in 1 .. Len(s)
  BY <1>1
<1>3. Head(s) \in ToSet(s)
  BY <1>1, <1>2 DEF ToSet
<1>4. ToSet(z) \subseteq ToSet(s) \ {Head(s)}
  <2> SUFFICES ASSUME NEW i \in 1 .. Len(z) PROVE z[i] \in ToSet(s) \ {s[1]}
    BY <1>1, <1>2 DEF ToSet
  <2>1. i + 1 # 1 /\ i + 1 \in 1 .. Len(s) /\ z[i] = s[i + 1]
    BY <1>1
  <2>2. s[i + 1] # s[1]
    BY <1>2, <2>1 DEF NoTwice
  <2> QED
    BY <1>2, <2>1, <2>2 DEF ToSet
<1>5. ToSet(s) \ {Head(s)} \subseteq ToSet(z)
  <2> SUFFICES ASSUME NEW i \in 1 .. Len(s), i # 1 PROVE s[i] \in ToSet(z)
    BY <1>1, <1>2 DEF ToSet
  <2>1. i - 1 \in 1 .. Len(z) /\ (i - 1) + 1 = i
    BY <1>1
  <2>2. z[i - 1] = s[i]
    BY <1>1, <2>1
  <2> QED
    BY <1>2, <2>1, <2>2 DEF ToSet
<1>6. NoTwice(z)
  BY <1>1 DEF NoTwice
<1> QED
  BY <1>1, <1>3, <1>4, <1>5, <1>6

(* tcpip_thread takes a message and runs its lower half. *)
LEMMA ExecuteStep ==
  ASSUME SInv, Execute
  PROVE  SInv'
<1> DEFINE t == Head(mbox)
           W == ToSet(mbox)
<1>1. PICK w \in LowerHalf(World, t) : Becomes(w)
  BY DEF Execute
<1>2. mbox' = Tail(mbox) /\ mbox # << >> /\ owned' = owned /\ tail' = tail
  BY DEF Execute
<1>3. NInv(World, W, owned) /\ mbox \in Seq(Threads) /\ NoTwice(mbox)
  BY DEF SInv, MboxOK
<1>4. mbox' \in Seq(Threads) /\ t \in W /\ ToSet(mbox') = W \ {t} /\ NoTwice(mbox')
  BY <1>2, <1>3, TailIs
<1> HIDE DEF t, W
<1>5. NInv(w, W \ {t}, owned)
  BY <1>1, <1>3, <1>4, LowerHalfStep
<1>6. NInv(w, ToSet(mbox'), owned')
  BY <1>2, <1>4, <1>5
<1>7. MboxOK' /\ TailOK'
  BY <1>2, <1>4 DEF SInv, MboxOK, TailOK
<1> QED
  BY <1>1, <1>6, <1>7, Moved

(* A segment arrives for a connection. *)
LEMMA SegmentStep ==
  ASSUME SInv, NEW p \in Pcbs, SegmentArrives(p)
  PROVE  SInv'
<1> DEFINE W == ToSet(mbox)
           x == tcp_process_refused_data(World, p)
<1>1. PICK seg \in {"data", "fin", "datafin"}, acked \in BOOLEAN :
        pcb[p].owed + tcplen(seg) <= Wnd /\ Becomes(Input(x, p, seg, acked))
  BY DEF SegmentArrives
<1>2. NInv(World, W, owned) /\ World.pcb = pcb
  BY WorldIs DEF SInv
<1> HIDE DEF W
<1>3. Recvd(World, W, owned, x, p)
  BY <1>2, RefusedStep
<1> HIDE DEF x
<1>4. NInv(x, W, owned) /\ x.pcb[p].st = pcb[p].st /\ x.pcb[p].owed <= pcb[p].owed
  BY <1>2, <1>3 DEF Recvd
<1>5. x.pcb[p].owed \in Nat /\ pcb[p].owed \in Nat /\ tcplen(seg) \in Nat /\ Wnd \in Nat
  <2>1. x.pcb[p] \in PcbType /\ World.pcb[p] \in PcbType
    BY <1>2, <1>4, WorldTypes, NoneApart DEF NInv
  <2> QED
    BY <1>2, <2>1, NetconnAssumption DEF PcbType, tcplen
<1>6. x.pcb[p].owed + tcplen(seg) <= Wnd
  BY <1>1, <1>4, <1>5
<1>7. x.pcb[p].st \in {"ESTABLISHED", "FIN_WAIT_1", "FIN_WAIT_2"}
  BY <1>4 DEF SegmentArrives
<1>8. NInv(Input(x, p, seg, acked), W, owned)
  BY <1>4, <1>6, <1>7, InputStep
<1> QED
  BY <1>1, <1>8, Stays DEF SegmentArrives, W

(* The netconn of a pcb with callbacks. *)
LEMMA ArgIs ==
  ASSUME SInv, NEW p \in Pcbs, Callback(pcb[p])
  PROVE  pcb[p].arg \in Conns /\ conn[pcb[p].arg].pcb = p /\ p # None
<1>1. NInv(World, ToSet(mbox), owned) /\ World.pcb = pcb /\ World.conn = conn /\ p \in AllPcbs /\ p # None
  BY WorldIs, NoneApart DEF SInv
<1>2. PcbOK(World, p) /\ pcb[p] \in PcbType
  BY <1>1, WorldTypes DEF NInv
<1> QED
  BY <1>1, <1>2 DEF PcbOK, PcbType

(* poll_tcp retries a write or a close. *)
LEMMA PollStep ==
  ASSUME SInv, NEW p \in Pcbs, poll_tcp(p)
  PROVE  SInv'
<1> DEFINE W == ToSet(mbox)
           c == pcb[p].arg
<1>1. PICK w \in Resume(World, c) : Becomes(w)
  BY DEF poll_tcp
<1>2. mbox' = mbox /\ owned' = owned /\ tail' = [by |-> "poll", c |-> c]
  BY DEF poll_tcp
<1>3. c \in Conns /\ World.conn[c].pcb # None
  BY ArgIs, WorldIs DEF poll_tcp, Callback
<1> HIDE DEF c
<1>4. NInv(w, W, owned)
  BY <1>1, <1>3, ResumeStep DEF SInv
<1>5. MboxOK' /\ TailOK'
  BY <1>2, <1>3 DEF SInv, MboxOK, TailOK
<1> QED
  BY <1>1, <1>2, <1>4, <1>5, Moved

(* sent_tcp goes on with a write. *)
LEMMA SentStep ==
  ASSUME SInv, NEW p \in Pcbs, sent_tcp(p)
  PROVE  SInv'
<1> DEFINE W == ToSet(mbox)
           c == pcb[p].arg
           x(n) == SetPcb(World, p, [pcb[p] EXCEPT !.snd = @ - n])
<1>1. PICK n \in 1 .. pcb[p].snd :
        IF pcb[p].sent THEN (\E w \in Resume(x(n), c) : Becomes(w)) /\ tail' = [by |-> "sent", c |-> c]
        ELSE Becomes(x(n)) /\ tail' = tail
  BY DEF sent_tcp
<1>2. mbox' = mbox /\ owned' = owned
  BY DEF sent_tcp
<1> DEFINE q == [pcb[p] EXCEPT !.snd = @ - n]
           y == SetPcb(World, p, q)
<1>3. NInv(World, W, owned) /\ World.pcb = pcb /\ World \in Worlds /\ p \in AllPcbs /\ pcb[p] \in PcbType
  BY WorldIs, WorldTypes, NoneApart DEF SInv, NInv
<1>4. q \in PcbType /\ Advance(q, World.pcb[p])
  <2>1. pcb[p].snd - n \in 0 .. SndBuf
    BY <1>3, NetconnAssumption DEF PcbType
  <2>2. q \in PcbType
    BY <1>3, <2>1 DEF PcbType
  <2>3. Advance(q, pcb[p])
    BY <1>3 DEF Advance, PcbType
  <2> QED
    BY <1>3, <2>2, <2>3
<1>5. y = x(n)
  OBVIOUS
<1> HIDE DEF q, x
<1>6. PcbSet(World, y, p, q)
  BY <1>3, <1>4, PcbSetIs
<1> HIDE DEF y
<1>7. NInv(y, W, owned) /\ y.conn = conn
  BY <1>3, <1>4, <1>6, NearStep, WorldIs DEF PcbSet
<1>8. CASE pcb[p].sent
  <2>1. PICK w \in Resume(y, c) : Becomes(w)
    BY <1>1, <1>5, <1>8
  <2>2. c \in Conns /\ y.conn[c].pcb # None
    BY <1>7, <1>8, ArgIs DEF Callback
  <2> HIDE DEF c
  <2>3. NInv(w, W, owned)
    BY <1>7, <2>1, <2>2, ResumeStep
  <2>4. tail' = [by |-> "sent", c |-> c]
    BY <1>1, <1>8
  <2>5. MboxOK' /\ TailOK'
    BY <1>2, <2>2, <2>4 DEF SInv, MboxOK, TailOK
  <2> QED
    BY <1>2, <2>1, <2>3, <2>5, Moved
<1>9. CASE ~pcb[p].sent
  BY <1>1, <1>2, <1>5, <1>7, <1>9, Stays
<1> QED
  BY <1>8, <1>9

(* poll_tcp and sent_tcp clear the check flag when there is space. *)
LEMMA WritespaceStep ==
  ASSUME SInv, CheckWritespace
  PROVE  SInv'
<1> DEFINE W == ToSet(mbox)
           c == tail.c
           h == conn[c]
           k == [h EXCEPT !.chk = FALSE, !.wr = TRUE]
           w == SetConn(World, c, k)
<1>1. NInv(World, W, owned) /\ World.conn = conn /\ World \in Worlds
  BY WorldIs DEF SInv, NInv
<1>2. c \in Conns
  BY DEF SInv, TailOK, CheckWritespace
<1>3. h \in ConnType
  BY <1>1, <1>2, WorldTypes
<1>4. pcb' = pcb /\ th' = th /\ mbox' = mbox /\ owned' = owned /\ tail' = None
      /\ (conn' = conn \/ (h.pcb # None /\ conn' = [conn EXCEPT ![c] = k]))
  BY DEF CheckWritespace
<1>5. MboxOK' /\ TailOK'
  BY <1>4 DEF SInv, MboxOK, TailOK
<1>6. CASE conn' = conn
  <2>1. Becomes(World)
    BY <1>4, <1>6, WorldIs DEF Becomes
  <2> QED
    BY <1>1, <1>4, <1>5, <2>1, Moved
<1>7. CASE h.pcb # None /\ conn' = [conn EXCEPT ![c] = k]
  <2>1. Becomes(w)
    BY <1>4, <1>7 DEF Becomes, SetConn, World
  <2>2. k \in ConnType /\ Like(k, h) /\ k.sem = h.sem
    BY <1>3 DEF ConnType, Like
  <2> HIDE DEF k, c
  <2>3. NInv(w, W, owned)
    BY <1>1, <1>2, <1>7, <2>2, BoxStep
  <2> QED
    BY <1>4, <1>5, <2>1, <2>3, Moved
<1> QED
  BY <1>4, <1>6, <1>7

(* What TCP does with one connection. *)
LEMMA TcpStep ==
  ASSUME SInv, NEW p \in Pcbs, Tcp(p)
  PROVE  SInv'
<1> DEFINE W == ToSet(mbox)
<1>1. NInv(World, W, owned) /\ World.pcb = pcb /\ World.conn = conn /\ World.th = th
  BY WorldIs DEF SInv
<1> HIDE DEF W
<1>2. NInv(tcp_abandon(World, p), W, owned)
  BY <1>1, Abandoned
<1>3. CASE SegmentArrives(p)
  BY <1>3, SegmentStep
<1>4. CASE FastTimer(p)
  <2>1. NInv(tcp_process_refused_data(World, p), W, owned)
    BY <1>1, RefusedStep DEF Recvd
  <2> QED
    BY <1>4, <2>1, Stays DEF FastTimer, W
<1>5. CASE poll_tcp(p)
  BY <1>5, PollStep
<1>6. CASE sent_tcp(p)
  BY <1>6, SentStep
<1>7. CASE FinAcked(p)
  <2>1. CASE pcb[p].st = "LAST_ACK"
    <3>1. NInv(Released(World, p), W, owned)
      BY <1>1, <2>1, ReleasedStep
    <3>2. Becomes(Released(World, p)) \/ Becomes(tcp_abandon(World, p))
      BY <1>7, <2>1 DEF FinAcked
    <3> QED
      BY <1>2, <1>7, <3>1, <3>2, Stays DEF FinAcked, W
  <2>2. CASE pcb[p].st # "LAST_ACK"
    <3> DEFINE w == SetPcb(World, p, [pcb[p] EXCEPT !.st = IF @ = "CLOSING" THEN "TIME_WAIT" ELSE "FIN_WAIT_2"])
    <3>1. Becomes(w) /\ pcb[p].st \in {"FIN_WAIT_1", "CLOSING"}
      BY <1>7, <2>2 DEF FinAcked
    <3>2. NInv(w, W, owned)
      BY <1>1, <3>1, FinAckedStep
    <3> QED
      BY <1>7, <3>1, <3>2, Stays DEF FinAcked, W
  <2> QED
    BY <2>1, <2>2
<1>8. CASE ConnectionDies(p)
  BY <1>2, <1>8, Stays DEF ConnectionDies, W
<1>9. CASE TimeWaitEnds(p)
  <2>1. NInv(Released(World, p), W, owned)
    BY <1>1, <1>9, ReleasedStep DEF TimeWaitEnds
  <2>2. Becomes(Released(World, p))
    BY <1>9 DEF TimeWaitEnds
  <2> QED
    BY <1>9, <2>1, <2>2, Stays DEF TimeWaitEnds, W
<1>10. CASE do_connected(p)
  <2> DEFINE c == pcb[p].arg
             x == SetConn(SetPcb(World, p, [setup_tcp(pcb[p], c) EXCEPT !.st = "ESTABLISHED"]), c,
                          [conn[c] EXCEPT !.state = "NONE", !.nbc = FALSE, !.wr = TRUE])
             w == IF conn[c].nbc THEN x ELSE Complete(x, c, "OK")
  <2>1. Becomes(w) /\ pcb[p].st = "SYN_SENT"
    BY <1>10 DEF do_connected
  <2>2. NInv(w, W, owned)
    BY ZenonT(60), <1>1, <2>1, ConnectedStep
  <2> QED
    BY <1>10, <2>1, <2>2, Stays DEF do_connected, W
<1>11. CASE accept_function(p)
  <2> DEFINE c == pcb[p].arg
             x(n) == SetConn(SetPcb(World, p, [setup_tcp(pcb[p], n) EXCEPT !.st = "ESTABLISHED"]),
                             n, [NewConn EXCEPT !.pcb = p, !.wr = TRUE])
             w(n) == SetConn(x(n), c, [conn[c] EXCEPT !.acceptmbox = Append(@, n)])
  <2>1. Becomes(tcp_abandon(World, p)) \/ \E n \in Conns : ~conn[n].alive /\ conn[c].avalid /\ Becomes(w(n))
    BY <1>11 DEF accept_function
  <2>2. CASE Becomes(tcp_abandon(World, p))
    BY <1>2, <1>11, <2>2, Stays DEF accept_function, W
  <2>3. ASSUME NEW n \in Conns, ~conn[n].alive, conn[c].avalid, Becomes(w(n)) PROVE SInv'
    <3>1. pcb[p].st = "SYN_RCVD"
      BY <1>11 DEF accept_function
    <3>2. NInv(w(n), W, owned)
      BY Zenon, <1>1, <2>3, <3>1, AcceptStep
    <3> QED
      BY <1>11, <2>3, <3>2, Stays DEF accept_function, W
  <2> QED
    BY <2>1, <2>2, <2>3
<1> QED
  BY <1>3, <1>4, <1>5, <1>6, <1>7, <1>8, <1>9, <1>10, <1>11 DEF Tcp

(* A SYN arrives for a listening pcb. *)
LEMMA SynStep ==
  ASSUME SInv, NEW l \in ListenPcbs, tcp_listen_input(l)
  PROVE  SInv'
<1> DEFINE W == ToSet(mbox)
           w(p) == SetPcb(tcp_alloc(World, p), p, [FreePcb EXCEPT !.st = "SYN_RCVD", !.arg = pcb[l].arg])
<1>1. PICK p \in Available(World) : Becomes(w(p))
  BY DEF tcp_listen_input
<1>2. NInv(World, W, owned) /\ World.pcb = pcb /\ pcb[l].st = "LISTEN"
  BY WorldIs DEF SInv, tcp_listen_input
<1>3. NInv(w(p), W, owned)
  BY Zenon, <1>2, ListenInputStep
<1> QED
  BY <1>1, <1>3, Stays DEF tcp_listen_input

(* The api_msg a call puts together. *)
LEMMA MsgIs ==
  ASSUME NEW fn \in Calls, NEW c \in Conns, NEW shut \in SUBSET RDWR, NEW len \in Nat, NEW nb \in BOOLEAN,
         NEW m, m = Msg(fn, c, shut, len, nb)
  PROVE  m \in ThType /\ m.pc = "wait" /\ m.fn = fn /\ m.c = c /\ m.shut = shut /\ m.len = len
  BY DEF Msg, ThType, Errors

(* Thread t calls with message m on netconn c; x is the world just before. *)
Sends(x, m, c, t) ==
  /\ NInv(x, ToSet(mbox), owned) /\ x.th = th
  /\ c \in Conns /\ t \in Threads /\ m \in ThType /\ m.pc = "wait" /\ m.c = c
  /\ th[t].pc # "wait" /\ th[t].c \in {c, None} /\ OnlyCaller(x, c, t)
  /\ x.conn[c].alive /\ NotPending(x, c) /\ Fresh(x, m)
  /\ owned' \subseteq owned /\ SameBut(owned', owned, c) /\ (m.fn \in {"new", "delete"} => c \notin owned')
  /\ Becomes(SetTh(x, t, m)) /\ mbox' = Append(mbox, t) /\ tail' = tail

(* A call posts its message and waits for op_completed. *)
LEMMA SendStep ==
  ASSUME SInv, NEW x, NEW m, NEW c, NEW t, Sends(x, m, c, t)
  PROVE  SInv'
<1> DEFINE W == ToSet(mbox)
           w == SetTh(x, t, m)
<1>1. Becomes(w) /\ mbox' = Append(mbox, t) /\ tail' = tail /\ t \in Threads
  BY DEF Sends
<1>2. NInv(x, W, owned) /\ th[t].pc # "wait" /\ x.th = th
  BY DEF Sends
<1>3. t \notin W
  BY <1>1, <1>2 DEF NInv, ThOK, Fresh
<1>4. mbox' \in Seq(Threads) /\ ToSet(mbox') = W \cup {t} /\ NoTwice(mbox')
  BY <1>1, <1>3, AppendIs DEF SInv, MboxOK
<1>5. m.pc = "wait" /\ m.c = c /\ c # None
  BY NoneApart DEF Sends
<1> HIDE DEF W
<1>6. Turns(x, W, owned, m, W \cup {t}, owned', c, t)
  BY <1>5 DEF Sends, Turns
<1> HIDE DEF w
<1>7. NInv(w, W \cup {t}, owned')
  BY <1>2, <1>6, TurnStep DEF w
<1>8. MboxOK' /\ TailOK'
  BY <1>1, <1>4 DEF SInv, MboxOK, TailOK
<1> QED
  BY <1>1, <1>4, <1>7, <1>8, Moved

(* What a thread knows of a netconn that is in no call. *)
LEMMA FreeIs ==
  ASSUME SInv, NEW t \in Threads, NEW c, Free(t, c)
  PROVE  /\ c \in Conns /\ c \in owned /\ conn[c].alive /\ th[t].pc = "idle" /\ th[t].c = None
         /\ OnlyCaller(World, c, t) /\ NotPending(World, c)
         /\ \A u \in Threads : th[u].c # c
<1>1. NInv(World, ToSet(mbox), owned) /\ World.conn = conn /\ World.th = th
  BY WorldIs DEF SInv
<1>2. c \in owned /\ th[t].pc = "idle" /\ \A u \in Threads : th[u].c # c
  BY DEF Free
<1>3. c \in Conns /\ conn[c].alive /\ th[t].c = None
  BY <1>1, <1>2 DEF NInv, ThOK
<1>4. NotPending(World, c)
  BY <1>1, <1>2, <1>3, OwnedNotPending
<1> QED
  BY <1>1, <1>2, <1>3, <1>4 DEF OnlyCaller

(* netconn_new allocates a netconn and calls do_newconn. *)
LEMMA NewCallStep ==
  ASSUME SInv, NEW t \in Threads, netconn_new(t)
  PROVE  SInv'
<1> DEFINE W == ToSet(mbox)
<1>1. PICK c \in Conns : ~conn[c].alive /\ conn' = [conn EXCEPT ![c] = NewConn]
                         /\ tcpip_apimsg(t, Msg("new", c, {}, 0, FALSE))
  BY DEF netconn_new
<1> DEFINE m == Msg("new", c, {}, 0, FALSE)
           x == SetConn(World, c, NewConn)
           w == SetTh(x, t, m)
<1>2. NInv(World, W, owned) /\ World \in Worlds /\ World.conn = conn /\ World.pcb = pcb /\ World.th = th
  BY WorldIs DEF SInv, NInv
<1>3. ConnSet(World, x, c, NewConn)
  BY <1>2, Blank, ConnSetIs
<1>4. Unused(World, owned, c)
  BY <1>1, <1>2, UnusedIs
<1>5. Becomes(w) /\ mbox' = Append(mbox, t) /\ tail' = tail /\ owned' = owned /\ th[t].pc = "idle"
  BY <1>1 DEF netconn_new, tcpip_apimsg, Becomes, SetTh, SetConn, World
<1> HIDE DEF x
<1>6. x \in Worlds /\ x.pcb = pcb /\ x.th = th /\ x.conn[c] = NewConn /\ \A d \in Conns : d # c => x.conn[d] = conn[d]
  BY <1>2, <1>3 DEF ConnSet
<1>7. Filled(NewConn, None)
  BY Blank, NewIs DEF Filled
<1>8. Elsewhere(World, x, c, None, None)
  BY <1>2, <1>6 DEF Elsewhere
<1>9. NInv(x, W, owned)
  BY <1>1, <1>2, <1>6, <1>7, <1>8, FilledStep
<1>10. m \in ThType /\ m.pc = "wait" /\ m.fn = "new" /\ m.c = c
  <2>1. "new" \in Calls /\ {} \in SUBSET RDWR /\ 0 \in Nat /\ FALSE \in BOOLEAN
    BY DEF Calls
  <2> QED
    BY <2>1 DEF Msg, ThType, Errors
<1> HIDE DEF m
<1>11. Fresh(x, m)
  BY <1>6, <1>10 DEF Fresh
<1>12. OnlyCaller(x, c, t) /\ th[t].c = None
  <2>1. ThOK(World, W, owned, t)
    BY <1>2 DEF NInv
  <2> QED
    BY <1>2, <1>4, <1>5, <1>6, <2>1 DEF OnlyCaller, Unused, ThOK
<1>13. NotPending(x, c)
  <2>1. \A d \in Conns : x.conn[d].acceptmbox = conn[d].acceptmbox
    BY <1>2, <1>4, <1>6, NewIs DEF Unused, FreeConn
  <2> QED
    BY <1>2, <1>4, <2>1 DEF NotPending, Unused
<1>14. x.conn[c].alive /\ c \notin owned' /\ SameBut(owned', owned, c)
  BY <1>4, <1>5, <1>6, NewIs DEF Unused, SameBut
<1>15. Sends(x, m, c, t)
  BY <1>5, <1>6, <1>9, <1>10, <1>11, <1>12, <1>13, <1>14 DEF Sends
<1> QED
  BY <1>15, SendStep

(* A call that only passes a message. *)
LEMMA PlainCallStep ==
  ASSUME SInv, NEW t \in Threads, NEW c, Free(t, c), NEW m \in ThType, m.pc = "wait", m.c = c,
         Fresh(World, m), tcpip_apimsg(t, m), UNCHANGED <<conn, pcb, tail>>,
         owned' \subseteq owned, SameBut(owned', owned, c), m.fn \in {"new", "delete"} => c \notin owned'
  PROVE  SInv'
<1>1. NInv(World, ToSet(mbox), owned) /\ World.conn = conn /\ World.th = th
  BY WorldIs DEF SInv
<1>2. /\ c \in Conns /\ conn[c].alive /\ th[t].pc = "idle" /\ th[t].c = None
      /\ OnlyCaller(World, c, t) /\ NotPending(World, c)
  BY FreeIs
<1>3. Becomes(SetTh(World, t, m)) /\ mbox' = Append(mbox, t)
  BY DEF tcpip_apimsg, Becomes, SetTh, World
<1>4. Sends(World, m, c, t)
  BY <1>1, <1>2, <1>3 DEF Sends
<1> QED
  BY <1>4, SendStep

(* The calls on a netconn the application has. *)
LEMMA NetconnCallStep ==
  ASSUME SInv, NEW t \in Threads, NEW c, netconn_call(t, c)
  PROVE  SInv'
<1>1. Free(t, c) /\ UNCHANGED <<conn, pcb, tail>> /\ owned' = owned
  BY DEF netconn_call
<1>2. c \in Conns
  BY <1>1, FreeIs
<1>3. ASSUME NEW fn \in {"bind", "getaddr", "listen", "connect", "write", "close"}, NEW shut \in SUBSET RDWR, NEW len \in Nat,
             NEW nb \in BOOLEAN, fn = "close" => shut \in Shuts, fn = "write" => len > 0,
             tcpip_apimsg(t, Msg(fn, c, shut, len, nb))
      PROVE  SInv'
  <2> DEFINE m == Msg(fn, c, shut, len, nb)
  <2>1. m \in ThType /\ m.pc = "wait" /\ m.fn = fn /\ m.c = c /\ m.shut = shut /\ m.len = len
    BY <1>2, MsgIs DEF Calls
  <2>2. tcpip_apimsg(t, m)
    BY <1>3
  <2> HIDE DEF m
  <2>3. Fresh(World, m)
    BY <1>3, <2>1 DEF Fresh
  <2>4. owned' \subseteq owned /\ SameBut(owned', owned, c) /\ m.fn \notin {"new", "delete"}
    BY <1>1, <2>1 DEF SameBut
  <2> QED
    BY <1>1, <2>1, <2>2, <2>3, <2>4, PlainCallStep
<1>4. {} \in SUBSET RDWR /\ 0 \in Nat /\ Shuts \subseteq SUBSET RDWR /\ Lens \subseteq Nat /\ \A len \in Lens : len > 0
  BY NetconnAssumption
<1>5. \/ \E fn \in {"bind", "getaddr", "listen"} : tcpip_apimsg(t, Msg(fn, c, {}, 0, FALSE))
      \/ \E nb \in BOOLEAN : tcpip_apimsg(t, Msg("connect", c, {}, 0, nb))
      \/ \E len \in Lens, nb \in BOOLEAN : tcpip_apimsg(t, Msg("write", c, {}, len, nb))
      \/ \E shut \in Shuts : tcpip_apimsg(t, Msg("close", c, shut, 0, FALSE))
  BY DEF netconn_call
<1> QED
  BY <1>3, <1>4, <1>5

(* netconn_delete; the application gives the netconn up. *)
LEMMA DeleteCallStep ==
  ASSUME SInv, NEW t \in Threads, NEW c, netconn_delete(t, c)
  PROVE  SInv'
<1> DEFINE m == Msg("delete", c, RDWR, 0, FALSE)
<1>1. Free(t, c) /\ UNCHANGED <<conn, pcb, tail>> /\ owned' = owned \ {c} /\ tcpip_apimsg(t, m)
  BY DEF netconn_delete
<1>2. c \in Conns
  BY <1>1, FreeIs
<1>3. m \in ThType /\ m.pc = "wait" /\ m.fn = "delete" /\ m.c = c
  <2>1. "delete" \in Calls /\ RDWR \in SUBSET RDWR /\ 0 \in Nat /\ FALSE \in BOOLEAN
    BY DEF Calls
  <2> QED
    BY <1>2, <2>1 DEF Msg, ThType, Errors
<1> HIDE DEF m
<1>4. Fresh(World, m)
  BY <1>3 DEF Fresh
<1>5. owned' \subseteq owned /\ SameBut(owned', owned, c) /\ c \notin owned'
  BY <1>1 DEF SameBut
<1> QED
  BY <1>1, <1>3, <1>4, <1>5, PlainCallStep

(* netconn_recved, the window update of a reader. *)
LEMMA RecvedCallStep ==
  ASSUME SInv, NEW t \in Threads, NEW c, netconn_recved(t, c)
  PROVE  SInv'
<1> DEFINE W == ToSet(mbox)
           h == conn[c]
           k == [h EXCEPT !.held = 0]
           m == Msg("recved", c, {}, h.held, FALSE)
           x == SetConn(World, c, k)
<1>1. Free(t, c) /\ UNCHANGED <<pcb, owned, tail>> /\ tcpip_apimsg(t, m) /\ conn' = [conn EXCEPT ![c] = [@ EXCEPT !.held = 0]]
  BY DEF netconn_recved
<1>2. /\ c \in Conns /\ c \in owned /\ h.alive /\ th[t].pc = "idle" /\ th[t].c = None
      /\ OnlyCaller(World, c, t) /\ NotPending(World, c) /\ \A u \in Threads : th[u].c # c
  BY <1>1, FreeIs
<1>3. NInv(World, W, owned) /\ World \in Worlds /\ W \subseteq Threads /\ World.conn = conn /\ World.th = th /\ World.pcb = pcb
  BY WorldIs DEF SInv, NInv
<1>4. h \in ConnType
  BY <1>2, <1>3, WorldTypes
<1>5. k \in ConnType /\ Like(k, h) /\ k.sem = h.sem
  BY <1>4 DEF ConnType, Like
<1>6. m \in ThType /\ m.pc = "wait" /\ m.fn = "recved" /\ m.c = c
  <2>1. h.held \in Nat
    BY <1>4 DEF ConnType
  <2> QED
    BY <1>2, <2>1 DEF Msg, ThType, Errors, Calls
<1>7. Becomes(SetTh(x, t, m)) /\ mbox' = Append(mbox, t)
  BY <1>1, <1>2, <1>3 DEF tcpip_apimsg, Becomes, SetTh, SetConn, World, NInv, Worlds
<1> HIDE DEF k, m
<1>8. NInv(x, W, owned)
  <2>1. \A u \in W : World.th[u].c # c
    BY <1>2, <1>3
  <2>2. World.conn[c].alive /\ Like(k, World.conn[c]) /\ k.sem = World.conn[c].sem
    BY <1>2, <1>3, <1>5
  <2> QED
    BY <1>2, <1>3, <1>5, <2>1, <2>2, LikeStep
<1>9. ConnSet(World, x, c, k)
  BY <1>2, <1>3, <1>5, ConnSetIs
<1> HIDE DEF x
<1>10. x.th = th /\ x.conn[c] = k /\ \A d \in Conns : d # c => x.conn[d] = conn[d]
  BY <1>3, <1>9 DEF ConnSet
<1>11. NotPending(x, c)
  <2>1. \A d \in Conns : x.conn[d].acceptmbox = conn[d].acceptmbox
    BY <1>5, <1>10 DEF Like
  <2> QED
    BY <1>2, <1>3, <2>1 DEF NotPending
<1>12. x.conn[c].alive /\ OnlyCaller(x, c, t) /\ Fresh(x, m) /\ SameBut(owned', owned, c) /\ owned' \subseteq owned
  BY ZenonT(60), <1>1, <1>2, <1>3, <1>5, <1>6, <1>10 DEF Like, OnlyCaller, Fresh, SameBut
<1>13. Sends(x, m, c, t)
  BY <1>1, <1>2, <1>6, <1>7, <1>8, <1>10, <1>11, <1>12 DEF Sends
<1> QED
  BY <1>13, SendStep

(* netconn_recv and netconn_accept start to wait at a mailbox. *)
LEMMA WaitStep ==
  ASSUME SInv, NEW t \in Threads, NEW c, netconn_wait(t, c)
  PROVE  SInv'
<1> DEFINE W == ToSet(mbox)
<1>1. PICK pc \in {"recv", "accept"} : th' = [th EXCEPT ![t] = [@ EXCEPT !.pc = pc, !.c = c]]
  BY DEF netconn_wait
<1> DEFINE m == [th[t] EXCEPT !.pc = pc, !.c = c]
<1>2. Free(t, c) /\ UNCHANGED <<conn, pcb, mbox, owned, tail>>
  BY DEF netconn_wait
<1>3. /\ c \in Conns /\ conn[c].alive /\ th[t].pc = "idle" /\ th[t].c = None
      /\ OnlyCaller(World, c, t) /\ NotPending(World, c)
  BY <1>2, FreeIs
<1>4. NInv(World, W, owned) /\ World \in Worlds /\ World.conn = conn /\ World.th = th
  BY WorldIs DEF SInv, NInv
<1>5. th[t] \in ThType
  BY <1>4, WorldTypes
<1>6. m \in ThType /\ m.pc = pc /\ m.c = c
  BY <1>3, <1>5 DEF ThType
<1>7. Becomes(SetTh(World, t, m))
  BY <1>1, <1>2, <1>4 DEF Becomes, SetTh, World
<1> HIDE DEF m
<1>8. SameBut(owned, owned, c) /\ c # None
  BY <1>3, NoneApart DEF SameBut
<1>9. Turns(World, W, owned, m, W, owned, c, t)
  BY <1>3, <1>4, <1>6, <1>8 DEF Turns
<1>10. NInv(SetTh(World, t, m), W, owned)
  BY <1>4, <1>9, TurnStep
<1> QED
  BY <1>2, <1>7, <1>10, Stays

(* A thread that waits on a mailbox. *)
LEMMA SleeperIs ==
  ASSUME SInv, NEW t \in Threads, th[t].pc \in {"recv", "accept"}, NEW c, c = th[t].c
  PROVE  /\ c \in Conns /\ conn[c].alive /\ OnlyCaller(World, c, t) /\ NotPending(World, c)
         /\ t \notin ToSet(mbox) /\ \A u \in ToSet(mbox) : th[u].c # c
<1>1. NInv(World, ToSet(mbox), owned) /\ World \in Worlds /\ World.conn = conn /\ World.th = th
      /\ ToSet(mbox) \subseteq Threads
  BY WorldIs DEF SInv, NInv
<1>2. ThOK(World, ToSet(mbox), owned, t) /\ th[t] \in ThType
  BY <1>1, WorldTypes DEF NInv
<1>3. c # None /\ t \notin ToSet(mbox)
  BY <1>1, <1>2 DEF ThOK, Fresh
<1>4. c \in Conns /\ conn[c].alive /\ OnlyCaller(World, c, t)
  BY <1>1, <1>2, <1>3 DEF ThOK, ThType, OnlyCaller
<1>5. NotPending(World, c)
  BY <1>1, <1>4, OwnedNotPending
<1> QED
  BY <1>1, <1>3, <1>4, <1>5 DEF OnlyCaller

(* A thread stops waiting on a mailbox. *)
LEMMA WakeStep ==
  ASSUME NEW x, NEW W, NEW O, NInv(x, W, O), NEW t \in Threads, x.th[t].pc # "wait", NEW c \in Conns,
         c = x.th[t].c, OnlyCaller(x, c, t)
  PROVE  NInv(SetTh(x, t, IdleThread), W, O)
<1>1. IdleThread \in ThType /\ IdleThread.pc = "idle" /\ IdleThread.c = None
  BY Blank DEF IdleThread
<1>2. SameBut(O, O, c)
  BY DEF SameBut
<1>3. Turns(x, W, O, IdleThread, W, O, c, t)
  BY <1>1, <1>2 DEF Turns
<1> QED
  BY <1>3, TurnStep

(* Their timeout passes. *)
LEMMA TimeoutStep ==
  ASSUME SInv, NEW t \in Threads, netconn_timeout(t)
  PROVE  SInv'
<1>1. th[t].pc \in {"recv", "accept"} /\ th' = [th EXCEPT ![t] = IdleThread] /\ UNCHANGED <<conn, pcb, mbox, owned, tail>>
  BY DEF netconn_timeout
<1>2. NInv(World, ToSet(mbox), owned) /\ World.th = th
  BY WorldIs DEF SInv
<1>3. th[t].c \in Conns /\ OnlyCaller(World, th[t].c, t)
  BY <1>1, SleeperIs
<1>4. NInv(SetTh(World, t, IdleThread), ToSet(mbox), owned)
  BY <1>1, <1>2, <1>3, WakeStep
<1>5. Becomes(SetTh(World, t, IdleThread))
  BY <1>1 DEF Becomes, SetTh, World
<1> QED
  BY <1>1, <1>4, <1>5, Stays

(* netconn_recv_data fetches a message. *)
LEMMA RecvDataStep ==
  ASSUME SInv, NEW t \in Threads, netconn_recv_data(t)
  PROVE  SInv'
<1> DEFINE W == ToSet(mbox)
           c == th[t].c
           h == conn[c]
           box == Tail(h.recvmbox)
<1>1. th[t].pc = "recv" /\ h.recvmbox # << >> /\ UNCHANGED <<pcb, owned, tail>>
  BY DEF netconn_recv_data
<1>2. /\ c \in Conns /\ h.alive /\ OnlyCaller(World, c, t) /\ NotPending(World, c)
      /\ \A u \in W : th[u].c # c
  BY <1>1, SleeperIs
<1>3. NInv(World, W, owned) /\ World \in Worlds /\ World.conn = conn /\ World.th = th /\ World.pcb = pcb
      /\ DOMAIN conn = Conns
  BY WorldIs DEF SInv, NInv, Worlds
<1>4. h \in ConnType
  BY <1>2, <1>3, WorldTypes
<1>5. box \in Seq({"data", "null"})
  <2>1. h.recvmbox \in Seq({"data", "null"})
    BY <1>4 DEF ConnType
  <2> QED
    BY <1>1, <2>1
<1>6. ASSUME NEW k \in ConnType, Like(k, h), k.sem = h.sem, NEW x, x = SetConn(World, c, k)
      PROVE  /\ NInv(x, W, owned) /\ x.th = th /\ x.conn[c].alive
             /\ NotPending(x, c) /\ OnlyCaller(x, c, t)
  <2>1. NInv(x, W, owned)
    <3>1. \A u \in W : World.th[u].c # c
      BY <1>2, <1>3
    <3>2. World.conn[c].alive /\ Like(k, World.conn[c]) /\ k.sem = World.conn[c].sem
      BY <1>2, <1>3, <1>6
    <3> HIDE DEF c, h
    <3> QED
      BY <1>2, <1>3, <1>6, <3>1, <3>2, LikeStep
  <2>2. ConnSet(World, x, c, k)
    BY <1>2, <1>3, <1>6, ConnSetIs
  <2>3. x.th = th /\ x.conn[c] = k /\ \A d \in Conns : d # c => x.conn[d] = conn[d]
    BY <1>3, <2>2 DEF ConnSet
  <2>4. \A d \in Conns : x.conn[d].acceptmbox = conn[d].acceptmbox
    BY <1>6, <2>3 DEF Like
  <2>5. NotPending(x, c)
    BY <1>2, <1>3, <2>4 DEF NotPending
  <2>6. x.conn[c].alive
    BY <1>2, <1>6, <2>3 DEF Like
  <2>7. OnlyCaller(x, c, t)
    BY <1>2, <1>3, <2>3 DEF OnlyCaller
  <2> QED
    BY <2>1, <2>3, <2>5, <2>6, <2>7
<1>7. CASE Head(h.recvmbox) = "data"
  <2> DEFINE held == h.held + 1
             k == [h EXCEPT !.recvmbox = box, !.held = held]
             x == SetConn(World, c, k)
             w == SetTh(x, t, IdleThread)
  <2>1. /\ conn' = [conn EXCEPT ![c] = [h EXCEPT !.recvmbox = Tail(@), !.held = @ + 1]]
        /\ th' = [th EXCEPT ![t] = IdleThread] /\ mbox' = mbox
    BY <1>7 DEF netconn_recv_data
  <2>2. conn' = [conn EXCEPT ![c] = k]
    BY <1>2, <1>3, <2>1
  <2>3. Becomes(w)
    BY <1>1, <2>1, <2>2 DEF Becomes, SetTh, SetConn, World
  <2>4. held \in Nat
    <3> HIDE DEF h
    <3>1. h.held \in Nat
      BY <1>4 DEF ConnType
    <3> QED
      BY <3>1
  <2> HIDE DEF box, held
  <2>5. k \in ConnType /\ Like(k, h) /\ k.sem = h.sem
    <3> HIDE DEF h
    <3> QED
      BY <1>4, <1>5, <2>4 DEF ConnType, Like
  <2> HIDE DEF k
  <2>6. NInv(x, W, owned) /\ x.th = th /\ OnlyCaller(x, c, t)
    BY <1>6, <2>5
  <2> HIDE DEF x
  <2>7. NInv(w, W, owned)
    BY <1>1, <1>2, <2>6, WakeStep
  <2> QED
    BY <1>1, <2>1, <2>3, <2>7, Stays
<1>8. CASE Head(h.recvmbox) # "data"
  <2> DEFINE k == [h EXCEPT !.recvmbox = box]
             x == SetConn(World, c, k)
             m == Msg("recv_eof", c, {}, 1, FALSE)
  <2>1. conn' = [conn EXCEPT ![c] = [h EXCEPT !.recvmbox = Tail(@)]] /\ tcpip_apimsg(t, m)
    BY <1>8 DEF netconn_recv_data
  <2>2. conn' = [conn EXCEPT ![c] = k]
    BY <1>2, <1>3, <2>1
  <2>3. Becomes(SetTh(x, t, m)) /\ mbox' = Append(mbox, t)
    BY <1>1, <2>1, <2>2 DEF Becomes, SetTh, SetConn, World, tcpip_apimsg
  <2>4. m \in ThType /\ m.pc = "wait" /\ m.fn = "recv_eof" /\ m.c = c
    BY <1>2 DEF Msg, ThType, Errors, Calls
  <2> HIDE DEF box, m
  <2>5. k \in ConnType /\ Like(k, h) /\ k.sem = h.sem
    BY <1>4, <1>5 DEF ConnType, Like
  <2> HIDE DEF k
  <2>6. NInv(x, W, owned) /\ x.th = th /\ x.conn[c].alive /\ NotPending(x, c) /\ OnlyCaller(x, c, t)
    BY <1>6, <2>5
  <2> HIDE DEF x
  <2>7. Fresh(x, m) /\ owned' \subseteq owned /\ SameBut(owned', owned, c)
    BY <1>1, <2>4 DEF Fresh, SameBut
  <2>8. Sends(x, m, c, t)
    BY <1>1, <1>2, <2>3, <2>4, <2>6, <2>7 DEF Sends
  <2> QED
    BY <2>8, SendStep
<1> QED
  BY <1>7, <1>8

(* netconn_accept fetches a connection, which the application then has. *)
LEMMA AcceptCallStep ==
  ASSUME SInv, NEW t \in Threads, netconn_accept(t)
  PROVE  SInv'
<1> DEFINE W == ToSet(mbox)
           c == th[t].c
           h == conn[c]
           n == Head(h.acceptmbox)
           b == h.fatal \/ n = None
           k == [h EXCEPT !.acceptmbox = Tail(@), !.fatal = b]
           x == SetConn(World, c, k)
           w == SetTh(x, t, IdleThread)
<1>1. /\ th[t].pc = "accept" /\ h.acceptmbox # << >> /\ UNCHANGED <<pcb, mbox, tail>>
      /\ conn' = [conn EXCEPT ![c] = [h EXCEPT !.acceptmbox = Tail(@), !.fatal = @ \/ n = None]]
      /\ owned' = owned \cup ({n} \ {None}) /\ th' = [th EXCEPT ![t] = IdleThread]
  BY DEF netconn_accept
<1>2. c \in Conns /\ OnlyCaller(World, c, t)
  BY <1>1, SleeperIs
<1>3. NInv(World, W, owned) /\ World \in Worlds /\ World.conn = conn /\ World.th = th /\ DOMAIN conn = Conns
  BY WorldIs DEF SInv, NInv, Worlds
<1>4. b \in BOOLEAN /\ h \in ConnType
  BY <1>2, <1>3, WorldTypes
<1>5. conn' = [conn EXCEPT ![c] = k]
  BY <1>1, <1>2, <1>3
<1>6. Becomes(w)
  BY <1>1, <1>5 DEF Becomes, SetTh, SetConn, World
<1>7. NInv(x, W, owned) /\ n \in Conns /\ Unknown(x, owned, n) /\ NotPending(x, n)
  <2> DEFINE g == World.conn[c]
  <2>1. g = h /\ g.acceptmbox # << >>
    BY <1>1, <1>3
  <2>2. k = [World.conn[c] EXCEPT !.acceptmbox = Tail(@), !.fatal = b] /\ n = Head(World.conn[c].acceptmbox)
    BY <1>3
  <2> HIDE DEF k, n, b, h
  <2> QED
    BY Zenon, <1>2, <1>3, <1>4, <2>1, <2>2, PopStep
<1> HIDE DEF k
<1>8. ConnSet(World, x, c, k)
  <2>1. k \in ConnType
    <3>1. Tail(h.acceptmbox) \in Seq(Conns)
      <4> HIDE DEF h
      <4>1. h.acceptmbox \in Seq(Conns)
        BY <1>4 DEF ConnType
      <4> QED
        BY <1>1, <4>1
    <3>2. k = [h EXCEPT !.acceptmbox = Tail(h.acceptmbox), !.fatal = b]
      BY DEF k
    <3> DEFINE a == Tail(h.acceptmbox)
    <3> HIDE DEF b, h, a
    <3>3. k = [h EXCEPT !.acceptmbox = a, !.fatal = b] /\ a \in Seq(Conns)
      BY <3>1, <3>2 DEF a
    <3> QED
      BY <1>4, <3>3 DEF ConnType
  <2> QED
    BY <1>2, <1>3, <2>1, ConnSetIs
<1> HIDE DEF x
<1>9. x.th = th
  BY <1>3, <1>8 DEF ConnSet
<1>10. NInv(x, W, owned \cup {n})
  BY <1>7, GivenStep
<1>11. OnlyCaller(x, c, t)
  BY <1>2, <1>3, <1>9 DEF OnlyCaller
<1>12. NInv(w, W, owned \cup {n})
  BY SMTT(40), <1>1, <1>2, <1>9, <1>10, <1>11, WakeStep
<1>13. owned' = owned \cup {n}
  BY <1>1, <1>7, NoneApart
<1>14. MboxOK' /\ TailOK' /\ ToSet(mbox') = W
  BY <1>1 DEF SInv, MboxOK, TailOK
<1> QED
  BY <1>6, <1>12, <1>13, <1>14, Moved

(* A caller takes op_completed; after netconn_delete the netconn is freed. *)
LEMMA ReturnCallStep ==
  ASSUME SInv, NEW t \in Threads, Return(t)
  PROVE  SInv'
<1> DEFINE W == ToSet(mbox)
           m == th[t]
           c == m.c
           h == conn[c]
           dead == m.fn = "delete" \/ (m.fn = "new" /\ m.err # "OK")
           fatal == h.fatal \/ m.fn = "recv_eof" \/ m.err = "fatal"
           k == IF dead THEN FreeConn ELSE [h EXCEPT !.sem = @ - 1, !.fatal = fatal]
           w == SetTh(SetConn(World, c, k), t, IdleThread)
<1>1. m.pc = "wait" /\ h.sem > 0 /\ th' = [th EXCEPT ![t] = IdleThread] /\ UNCHANGED <<pcb, mbox, tail>>
  BY DEF Return
<1>2. owned' = IF m.fn = "new" /\ ~dead THEN owned \cup {c} ELSE owned
  BY DEF Return
<1>3. NInv(World, W, owned) /\ World \in Worlds /\ World.conn = conn /\ World.th = th /\ DOMAIN conn = Conns
      /\ owned \subseteq Conns
  BY WorldIs DEF SInv, NInv, Worlds
<1>4. c \in Conns /\ t \notin W /\ h.msg = None /\ h.sem = 1 /\ h.alive
  BY <1>1, <1>3, SignalMeans
<1>5. conn' = [conn EXCEPT ![c] = k]
  BY <1>3, <1>4 DEF Return
<1>6. Becomes(w)
  BY <1>1, <1>5 DEF Becomes, SetTh, SetConn, World
<1>7. h \in ConnType /\ fatal \in BOOLEAN /\ ThOK(World, W, owned, t)
  <2>1. h \in ConnType
    BY <1>3, <1>4, WorldTypes
  <2>2. h.fatal \in BOOLEAN
    BY <2>1 DEF ConnType
  <2> QED
    BY <1>3, <2>1, <2>2 DEF NInv
<1>8. dead => h.pcb = None /\ h.acceptmbox = << >> /\ c \notin owned
  <2> HAVE dead
  <2>1. World.th[t].pc = "wait" /\ World.conn[World.th[t].c].msg # t
        /\ (World.th[t].fn = "delete" \/ (World.th[t].fn = "new" /\ World.th[t].err # "OK"))
    BY <1>1, <1>3, <1>4, NoneApart
  <2>2. World.conn[World.th[t].c].pcb = None /\ World.conn[World.th[t].c].acceptmbox = << >> /\ World.th[t].c \notin owned
    BY <1>4, <1>7, <2>1 DEF ThOK
  <2> QED
    BY <1>3, <2>2
<1>9. Left(k, h) /\ (~dead => k.alive)
  <2>1. CASE dead
    BY <1>8, <2>1 DEF Left
  <2>2. CASE ~dead
    <3> DEFINE sem == h.sem - 1
               g == [h EXCEPT !.sem = sem, !.fatal = fatal]
    <3>1. k = g /\ sem = 0
      BY <1>4, <2>2
    <3> HIDE DEF fatal, sem
    <3>2. g \in ConnType /\ Like(g, h) /\ g.sem = 0 /\ g.alive = h.alive
      BY <1>7, <3>1 DEF ConnType, Like
    <3> QED
      BY <1>4, <3>1, <3>2 DEF Left
  <2> QED
    BY <2>1, <2>2
<1>10. owned' \subseteq Conns /\ SameBut(owned', owned, c) /\ (c \in owned' => ~dead)
  BY <1>2, <1>3, <1>4, <1>8 DEF SameBut
<1>11. NInv(w, W, owned')
  <2>1. World.th[t].pc = "wait" /\ c = World.th[t].c /\ World.conn[c].sem > 0 /\ Left(k, World.conn[c])
    BY <1>1, <1>3, <1>9
  <2>2. c \in owned' => k.alive
    BY <1>9, <1>10
  <2> HIDE DEF k, c
  <2> QED
    BY <1>3, <1>10, <2>1, <2>2, ReturnStep
<1>12. MboxOK' /\ TailOK' /\ ToSet(mbox') = W
  BY <1>1 DEF SInv, MboxOK, TailOK
<1> QED
  BY <1>6, <1>11, <1>12, Moved

-----------------------------------------------------------------------------
(* The theorems *)

(* Nothing exists and everybody is idle. *)
LEMMA StartsRight ==
  ASSUME Init
  PROVE  SInv
<1>1. conn = [c \in Conns |-> FreeConn] /\ pcb = [p \in AllPcbs |-> FreePcb] /\ th = [t \in Threads |-> IdleThread]
      /\ mbox = << >> /\ owned = {} /\ tail = None
  BY DEF Init
<1>2. /\ World.conn = conn /\ World.pcb = pcb /\ World.th = th
  BY WorldIs
<1>3. ToSet(mbox) = {} /\ MboxOK /\ TailOK
  BY <1>1 DEF ToSet, MboxOK, NoTwice, TailOK
<1>4. World \in Worlds
  BY <1>1, Blank DEF Worlds, World
<1>5. /\ ~FreeConn.alive /\ FreeConn.pcb = None /\ FreeConn.state = "NONE" /\ FreeConn.msg = None /\ FreeConn.sem = 0
      /\ ~FreeConn.nbc /\ ~FreeConn.avalid /\ FreeConn.acceptmbox = << >> /\ FreeConn.past = {}
  BY DEF FreeConn
<1>6. IdleThread.pc = "idle" /\ IdleThread.c = None
  BY DEF IdleThread
<1> DEFINE w == World
<1>7. /\ \A c \in Conns : w.conn[c] = FreeConn
      /\ \A p \in AllPcbs : w.pcb[p] = FreePcb
      /\ \A t \in Threads : w.th[t] = IdleThread
  BY <1>1, <1>2
<1> HIDE DEF w
<1>8. ASSUME NEW c \in Conns PROVE ConnOK(w, {}, c)
  <2>1. Dead(FreeConn) /\ Bound(w, FreeConn, c) /\ Message(w, {}, FreeConn, c)
    BY <1>5 DEF Dead, Bound, Message
  <2>2. Stage(w, FreeConn)
    BY <1>5, NoneApart DEF Stage
  <2>3. Signal(w, {}, FreeConn, c)
    BY <1>5, <1>6, <1>7 DEF Signal, HasAnswer, InCall
  <2> QED
    BY <1>7, <2>1, <2>2, <2>3 DEF ConnOK
<1>9. \A p \in AllPcbs : PcbOK(w, p)
  BY <1>7, FreePcbOK
<1>10. \A t \in Threads : ThOK(w, {}, {}, t)
  BY <1>6, <1>7 DEF ThOK
<1>11. PendOK(w, {})
  BY <1>5, <1>7 DEF PendOK
<1>12. NInv(w, {}, {})
  BY <1>4, <1>8, <1>9, <1>10, <1>11 DEF NInv, w
<1> QED
  BY <1>1, <1>3, <1>12 DEF SInv, w

(* Every step of an application thread. *)
LEMMA AppStep ==
  ASSUME SInv, NEW t \in Threads, App(t)
  PROVE  SInv'
<1>1. CASE netconn_new(t)
  BY <1>1, NewCallStep
<1>2. CASE netconn_recv_data(t)
  BY <1>2, RecvDataStep
<1>3. CASE netconn_accept(t)
  BY <1>3, AcceptCallStep
<1>4. CASE netconn_timeout(t)
  BY <1>4, TimeoutStep
<1>5. CASE Return(t)
  BY <1>5, ReturnCallStep
<1>6. ASSUME NEW c \in Conns, netconn_call(t, c) PROVE SInv'
  BY <1>6, NetconnCallStep
<1>7. ASSUME NEW c \in Conns, netconn_delete(t, c) PROVE SInv'
  BY <1>7, DeleteCallStep
<1>8. ASSUME NEW c \in Conns, netconn_recved(t, c) PROVE SInv'
  BY <1>8, RecvedCallStep
<1>9. ASSUME NEW c \in Conns, netconn_wait(t, c) PROVE SInv'
  BY <1>9, WaitStep
<1> QED
  BY <1>1, <1>2, <1>3, <1>4, <1>5, <1>6, <1>7, <1>8, <1>9 DEF App

(* Every step keeps the invariant. *)
LEMMA NextStep ==
  ASSUME SInv, [Next]_vars
  PROVE  SInv'
<1>1. CASE Execute
  BY <1>1, ExecuteStep
<1>2. CASE CheckWritespace
  BY <1>2, WritespaceStep
<1>3. ASSUME NEW p \in Pcbs, Tcp(p) PROVE SInv'
  BY <1>3, TcpStep
<1>4. ASSUME NEW l \in ListenPcbs, tcp_listen_input(l) PROVE SInv'
  BY <1>4, SynStep
<1>5. ASSUME NEW t \in Threads, App(t) PROVE SInv'
  BY <1>5, AppStep
<1>6. CASE UNCHANGED vars
  <2>1. Becomes(World) /\ UNCHANGED <<mbox, owned, tail>>
    BY <1>6, WorldIs DEF vars, Becomes
  <2>2. NInv(World, ToSet(mbox), owned)
    BY DEF SInv
  <2> QED
    BY <2>1, <2>2, Stays
<1> QED
  BY <1>1, <1>2, <1>3, <1>4, <1>5, <1>6 DEF Next, Running

(* What the invariant says of the variables. *)
LEMMA Reading ==
  ASSUME SInv
  PROVE  /\ conn \in [Conns -> ConnType] /\ pcb \in [AllPcbs -> PcbType] /\ th \in [Threads -> ThType]
         /\ owned \subseteq Conns
         /\ \A c \in Conns : ConnOK(World, ToSet(mbox), c)
         /\ \A p \in AllPcbs : PcbOK(World, p)
         /\ \A t \in Threads : ThOK(World, ToSet(mbox), owned, t)
<1>1. NInv(World, ToSet(mbox), owned)
  BY DEF SInv
<1>2. World \in Worlds
  BY <1>1 DEF NInv
<1>3. conn \in [Conns -> ConnType] /\ pcb \in [AllPcbs -> PcbType] /\ th \in [Threads -> ThType]
  BY <1>2 DEF Worlds, World
<1> QED
  BY <1>1, <1>3 DEF NInv

(* A call that has been answered is answered once, and has its token. *)
LEMMA OnceAnswered ==
  ASSUME SInv
  PROVE  CompletedOnce
<1> DEFINE W == ToSet(mbox)
<1> SUFFICES ASSUME NEW c \in Conns
             PROVE  conn[c].sem = Cardinality({t \in Threads :
                      Waiting(t) /\ th[t].c = c /\ ~Queued(t) /\ conn[c].msg # t})
  BY DEF CompletedOnce
<1> DEFINE S == {t \in Threads : Waiting(t) /\ th[t].c = c /\ ~Queued(t) /\ conn[c].msg # t}
<1>1. ConnOK(World, W, c) /\ World.conn = conn /\ World.th = th
  BY Reading, WorldIs
<1>2. Signal(World, W, conn[c], c)
  BY <1>1 DEF ConnOK
<1>3. \A t \in Threads : t \in S <=> InCall(World.th[t], c) /\ t \notin W /\ conn[c].msg # t
  BY <1>1 DEF Waiting, Queued, InCall
<1>4. S \subseteq Threads
  OBVIOUS
<1> HIDE DEF S
<1>5. CASE HasAnswer(World, W, conn[c], c)
  <2>1. PICK t \in Threads : InCall(World.th[t], c) /\ t \notin W /\ conn[c].msg # t
    BY <1>5 DEF HasAnswer
  <2>2. \A u \in S : u = t
    <3> SUFFICES ASSUME NEW u \in S PROVE u = t
      OBVIOUS
    <3>1. u \in Threads /\ InCall(World.th[u], c) /\ ThOK(World, W, owned, t)
      BY <1>3, <1>4, Reading
    <3> QED
      BY <2>1, <3>1, NoneApart DEF ThOK, InCall
  <2>3. S = {t}
    BY <1>3, <2>1, <2>2
  <2>4. Cardinality({t}) = 1
    BY FS_Singleton
  <2>5. conn[c].sem = 1
    BY <1>2, <1>5 DEF Signal
  <2> QED
    BY <2>3, <2>4, <2>5 DEF S
<1>6. CASE ~HasAnswer(World, W, conn[c], c)
  <2>1. S = {}
    BY <1>3, <1>4, <1>6 DEF HasAnswer
  <2>2. Cardinality({}) = 0
    BY FS_EmptySet
  <2>3. conn[c].sem = 0
    BY <1>2, <1>6 DEF Signal
  <2> QED
    BY <2>1, <2>2, <2>3 DEF S
<1> QED
  BY <1>5, <1>6

(* An operation in progress has its message, its pcb and its retry. *)
LEMMA Pending ==
  ASSUME SInv
  PROVE  PendingOp /\ CloseRetried
<1> DEFINE W == ToSet(mbox)
<1>1. ASSUME NEW c \in Conns
      PROVE  /\ conn[c].state \in {"WRITE", "CLOSE", "CONNECT"} => conn[c].pcb # None \/ "lost" \in conn[c].past
             /\ conn[c].msg # None <=> conn[c].state \in {"WRITE", "CLOSE"} \/ (conn[c].state = "CONNECT" /\ ~conn[c].nbc)
             /\ conn[c].msg # None => Waiting(conn[c].msg) /\ th[conn[c].msg].c = c /\ ~Queued(conn[c].msg)
             /\ conn[c].state = "WRITE" => conn[c].offset < th[conn[c].msg].len
             /\ conn[c].state = "CLOSE" =>
                  \/ th[conn[c].msg].shut = {"WR"}
                       /\ ("lost" \in conn[c].past \/ pcb[conn[c].pcb].st \in {"CLOSED", "TIME_WAIT"})
                  \/ pcb[conn[c].pcb].st \in Active /\ pcb[conn[c].pcb].poll
  <2> DEFINE k == conn[c]
  <2>1. ConnOK(World, W, c) /\ World.conn = conn /\ World.th = th /\ World.pcb = pcb
    BY Reading, WorldIs
  <2>2. Bound(World, k, c) /\ Stage(World, k) /\ Message(World, W, k, c)
    BY <2>1 DEF ConnOK
  <2> HIDE DEF k
  <2>3. k.state \in {"WRITE", "CLOSE", "CONNECT"} => k.pcb \in Pcbs \/ "lost" \in k.past
    BY <2>2 DEF Stage
  <2>4. /\ k.msg # None <=> k.state \in {"WRITE", "CLOSE"} \/ (k.state = "CONNECT" /\ ~k.nbc)
        /\ k.state = "WRITE" => k.offset < th[k.msg].len
    BY <2>1, <2>2 DEF Message
  <2>5. k.msg # None => Waiting(k.msg) /\ th[k.msg].c = c /\ ~Queued(k.msg)
    BY <2>1, <2>2 DEF Message, InCall, Waiting, Queued
  <2>6. k.pcb \in Pcbs => pcb[k.pcb].poll /\ pcb[k.pcb].st \in Active \cup {"CLOSED", "TIME_WAIT"}
    BY <2>1, <2>2, NoneApart DEF Bound, Attached, Leaving, Active
  <2>7. k.pcb \in AllPcbs \cup {None}
    BY Reading DEF k, ConnType
  <2>8. ASSUME k.state = "CLOSE", th[k.msg].shut # {"WR"}
        PROVE  pcb[k.pcb].st \in Active /\ pcb[k.pcb].poll
    <3>1. k.pcb # None /\ pcb[k.pcb].st \in {"ESTABLISHED", "CLOSE_WAIT"}
      BY <2>1, <2>2, <2>8 DEF Message
    <3>2. k.pcb \in Pcbs
      BY <2>1, <2>2, <2>7, <3>1, NoneApart DEF Bound, AllPcbs
    <3> QED
      BY <2>6, <3>1, <3>2 DEF Active
  <2>9. k.pcb \in Pcbs => k.pcb # None
    BY NoneApart
  <2>10. k.state = "CLOSE" =>
           \/ th[k.msg].shut = {"WR"} /\ ("lost" \in k.past \/ pcb[k.pcb].st \in {"CLOSED", "TIME_WAIT"})
           \/ pcb[k.pcb].st \in Active /\ pcb[k.pcb].poll
    BY <2>3, <2>6, <2>8
  <2> QED
    BY <2>3, <2>4, <2>5, <2>9, <2>10 DEF k
<1>2. PendingOp
  BY <1>1 DEF PendingOp
<1>3. CloseRetried
  BY <1>1 DEF CloseRetried
<1> QED
  BY <1>2, <1>3

(* Every call gets its answer, and gets it once, whatever happens to the   *)
(* connection in the meantime (tcpip_apimsg, err_tcp, do_writemore,        *)
(* do_close_internal): for any numbers of netconns, pcbs and threads, any  *)
(* sizes and every kind of shutdown, up to the moment a netconn loses its  *)
(* pcb unawares, which takes a shutdown of its sending side alone.         *)
THEOREM CallsStayAnswered == Spec => []CallsAnswered
<1>1. Init => SInv
  BY StartsRight
<1>2. SInv /\ [Next]_vars => SInv'
  BY NextStep
<1>3. SInv => CallsAnswered
  <2> HAVE SInv
  <2>1. conn \in [Conns -> ConnType] /\ pcb \in [AllPcbs -> PcbType] /\ th \in [Threads -> ThType] /\ owned \subseteq Conns
    BY Reading
  <2>2. MboxOK /\ TailOK
    BY DEF SInv
  <2>3. TypeOK
    BY <2>1, <2>2 DEF TypeOK, MboxOK, TailOK, ConnType, PcbType, ThType
  <2> QED
    BY <2>3, OnceAnswered, Pending DEF CallsAnswered
<1> QED
  BY <1>1, <1>2, <1>3, PTL DEF Spec

(* A netconn and its pcb refer to each other, and a pcb with a recv, sent, *)
(* poll or err callback belongs to a live netconn (setup_tcp, err_tcp,     *)
(* netconn_drain, do_close_internal).  The accept callback a pcb has from  *)
(* its listener may find that netconn gone, but a mailbox it finds valid   *)
(* is that of a live listener (tcp_listen_input, accept_function).  Only a *)
(* netconn whose sending side alone was shut can lose its pcb unawares.    *)
THEOREM PcbStaysBound == Spec => []PcbBound
<1>1. Init => SInv
  BY StartsRight
<1>2. SInv /\ [Next]_vars => SInv'
  BY NextStep
<1>3. SInv => PcbBound
  <2> HAVE SInv
  <2>0. World.conn = conn /\ World.pcb = pcb /\ conn \in [Conns -> ConnType] /\ pcb \in [AllPcbs -> PcbType]
    BY Reading, WorldIs
  <2>1. ASSUME NEW c \in Conns, conn[c].pcb # None
        PROVE  pcb[conn[c].pcb].st # "free" /\ pcb[conn[c].pcb].arg = c
    <3>1. ConnOK(World, ToSet(mbox), c)
      BY Reading
    <3>2. Bound(World, conn[c], c) /\ conn[c].pcb \in AllPcbs
      BY <2>0, <2>1, <3>1 DEF ConnOK, ConnType
    <3> QED
      BY <2>0, <2>1, <3>2, NoneApart DEF Bound, Attached, Leaving, AllPcbs
  <2>2. ASSUME NEW p \in AllPcbs, pcb[p].recv \/ pcb[p].sent \/ pcb[p].poll \/ pcb[p].err
        PROVE  pcb[p].arg # None /\ conn[pcb[p].arg].alive /\ conn[pcb[p].arg].pcb = p
    <3>1. PcbOK(World, p)
      BY Reading
    <3>2. pcb[p].arg # None /\ conn[pcb[p].arg].pcb = p
      BY <2>0, <2>2, <3>1 DEF PcbOK, Callback
    <3>3. pcb[p].arg \in Conns
      BY <2>0, <3>2 DEF PcbType
    <3>4. Dead(conn[pcb[p].arg])
      <4>1. ConnOK(World, ToSet(mbox), pcb[p].arg)
        BY <3>3, Reading
      <4> QED
        BY <2>0, <4>1 DEF ConnOK
    <3>5. conn[pcb[p].arg] # FreeConn
      BY <3>2, NoneApart DEF FreeConn
    <3> QED
      BY <3>2, <3>4, <3>5 DEF Dead
  <2>3. ASSUME NEW p \in AllPcbs, pcb[p].st = "SYN_RCVD"
        PROVE  pcb[p].arg # None
                 /\ (conn[pcb[p].arg].avalid => conn[pcb[p].arg].alive /\ conn[pcb[p].arg].state = "LISTEN")
    <3>1. PcbOK(World, p)
      BY Reading
    <3>2. pcb[p].arg # None /\ pcb[p].arg \in Conns
      BY <2>0, <2>3, <3>1 DEF PcbOK, PcbType
    <3>3. ConnOK(World, ToSet(mbox), pcb[p].arg)
      BY <3>2, Reading
    <3>4. Dead(conn[pcb[p].arg]) /\ Stage(World, conn[pcb[p].arg])
      BY <2>0, <3>3 DEF ConnOK
    <3> DEFINE k == conn[pcb[p].arg]
    <3>5. ~FreeConn.avalid
      BY DEF FreeConn
    <3>6. k.avalid => k.state = "LISTEN"
      BY <3>4 DEF Stage
    <3> HIDE DEF k
    <3>7. k.avalid => k.alive
      BY <3>4, <3>5 DEF Dead, k
    <3> QED
      BY <3>2, <3>6, <3>7 DEF k
  <2>4. ASSUME NEW c \in Conns, "lost" \in conn[c].past PROVE "half" \in conn[c].past
    <3>1. ConnOK(World, ToSet(mbox), c)
      BY Reading
    <3> QED
      BY <2>0, <2>4, <3>1 DEF ConnOK, Bound
  <2> QED
    BY <2>1, <2>2, <2>3, <2>4 DEF PcbBound
<1> QED
  BY <1>1, <1>2, <1>3, PTL DEF Spec
====
