--------------------------------- MODULE Kv ---------------------------------
(***************************************************************************)
(* The key-value example (kv_server.c, kv_client.c): a server that serves  *)
(* one connection after another from a sorted table, and clients that send *)
(* one request each.  Keys and values are shorter than key_len and         *)
(* value_len bytes, which is what the table's rows hold, and no key has    *)
(* the delimiter '=' in it.                                                *)
(***************************************************************************)
EXTENDS Integers, Sequences, SequencesExt

CONSTANTS Keys, Values,      \* small sets of numbers; memcmp is their order
          kv_num_items_init  \* rows of a new table

VARIABLES kv,      \* the table: its rows in use and how many there are
          stored,  \* what was added: the map the table stands for
          server,  \* "accept", "read", "dead"
          client,  \* the accepted connection: "open", "closed", "broken"
          line,    \* the request on its way through it
          buf,     \* what the buffer of the server begins with
          reply    \* the last answer, with the request it is for

kvVars == <<kv, stored, server, client, line, buf, reply>>

NotFound == 0
Ping == [op |-> "PING", key |-> 0, value |-> 0]
NoRequest == [op |-> "none", key |-> 0, value |-> 0]
BadAdd == [op |-> "ADD", key |-> 0, value |-> 0]    \* no '=' in it
Requests ==
  {Ping, BadAdd} \cup [op : {"ADD"}, key : Keys, value : Values] \cup [op : {"GET"}, key : Keys, value : {0}]

key_value_init == [items |-> <<>>, cap |-> kv_num_items_init]

KvInit ==
  /\ kv = key_value_init /\ stored = [k \in Keys |-> NotFound]
  /\ server = "accept" /\ client = "closed"
  /\ line = NoRequest /\ buf = "zero" /\ reply = [to |-> NoRequest, is |-> NotFound]

(* bsearch over the rows in use: the row of the key, or 0. *)
key_value_find(t, key) ==
  LET n == Len(t.items)
      search[lo \in 0 .. n, hi \in 0 .. n] ==
        IF lo >= hi THEN 0
        ELSE LET mid == (lo + hi) \div 2
                 at == t.items[mid + 1].key
             IN IF key = at THEN mid + 1
                ELSE IF key < at THEN search[lo, mid] ELSE search[mid + 1, hi]
  IN search[0, n]

kv_compare(l, r) == l.key < r.key

(* Mutant: qsort before the new row is counted. *)
key_value_add_early_sort(t, pair) ==
  LET row == key_value_find(t, pair.key)
  IN IF row # 0 THEN [t EXCEPT !.items[row].value = pair.value]
     ELSE [items |-> Append(SortSeq(t.items, kv_compare), pair),
           cap |-> IF Len(t.items) = t.cap THEN 2 * t.cap ELSE t.cap]

(* The value of a known key is replaced; a new pair is put behind the      *)
(* others, in twice the rows if all are in use, and the rows are sorted.   *)
key_value_add(t, pair) ==
  LET row == key_value_find(t, pair.key)
  IN IF row # 0 THEN [t EXCEPT !.items[row].value = pair.value]
     ELSE [items |-> SortSeq(Append(t.items, pair), kv_compare),
           cap |-> IF Len(t.items) = t.cap THEN 2 * t.cap ELSE t.cap]

(* A kv_client connects and sends its request; accept returns. *)
Accept(r) ==
  /\ server = "accept"
  /\ server' = "read" /\ client' = "open" /\ line' = r
  /\ UNCHANGED <<kv, stored, buf, reply>>

Adds(r) == r.op = "ADD" /\ r # BadAdd

(* One round of the server's loop with a request: the answers to PING and  *)
(* ADD are put together in the buffer, a GET stays in it, and so does an   *)
(* ADD without a delimiter, which is not answered.                         *)
Serve ==
  /\ server = "read" /\ client = "open" /\ line # NoRequest
  /\ line' = NoRequest /\ buf' = (IF line.op = "GET" \/ line = BadAdd THEN line.op ELSE "zero")
  /\ kv' = IF Adds(line) THEN key_value_add(kv, [key |-> line.key, value |-> line.value]) ELSE kv
  /\ stored' = IF Adds(line) THEN [stored EXCEPT ![line.key] = line.value] ELSE stored
  /\ reply' = IF line = BadAdd THEN reply
              ELSE [to |-> line,
                    is |-> LET row == key_value_find(kv, line.key)
                           IN IF line.op = "GET" /\ row # 0 THEN kv.items[row].value ELSE NotFound]
  /\ UNCHANGED <<server, client>>

(* The client has its answer and closes; a connection may break before. *)
Close == /\ server = "read" /\ client = "open" /\ line = NoRequest
         /\ client' = "closed" /\ UNCHANGED <<kv, stored, server, line, buf, reply>>
Break == /\ server = "read" /\ client = "open"
         /\ client' = "broken" /\ line' = NoRequest
         /\ UNCHANGED <<kv, stored, server, buf, reply>>

(* read returns 0: the server goes on to the next connection. *)
ReadEnd == /\ server = "read" /\ client = "closed" /\ server' = "accept"
           /\ UNCHANGED <<kv, stored, client, line, buf, reply>>

(* read returns -1, this time and every time: the server takes the buffer  *)
(* for the request, and its length, -1 less the four bytes of "GET:", for  *)
(* that of a key; with a zeroed buffer, or an ADD in it without delimiter, *)
(* it reads again.                                                         *)
ReadError == /\ server = "read" /\ client = "broken" /\ buf = "GET"
             /\ server' = "dead"
             /\ UNCHANGED <<kv, stored, client, line, buf, reply>>

KvNext ==
  \/ \E r \in Requests : Accept(r)
  \/ Serve \/ Close \/ Break \/ ReadEnd \/ ReadError

-----------------------------------------------------------------------------
(* The sorted table is a map: after any additions, replacements and        *)
(* doublings, binary search finds each key that was added with its last    *)
(* value and no other, every key has one row, the rows in use fit, and the *)
(* client of a GET was told just that.                                     *)
TableIsMap ==
  /\ \A k \in Keys : LET row == key_value_find(kv, k)
                     IN stored[k] = IF row = 0 THEN NotFound ELSE kv.items[row].value
  /\ \A i, j \in DOMAIN kv.items : kv.items[i].key = kv.items[j].key => i = j
  /\ Len(kv.items) <= kv.cap
  /\ reply.to.op = "GET" => reply.is = stored[reply.to.key]

(* A broken connection is left for the next one, as a closed one is. *)
LeavesBroken == server # "dead"
=============================================================================
