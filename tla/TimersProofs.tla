---------------------------- MODULE TimersProofs ----------------------------
(***************************************************************************)
(* Proofs about Timers: TimeoutsSound and OthersUndisturbed, for any       *)
(* timers, intervals, width of u32_t and traffic.                          *)
(***************************************************************************)
EXTENDS Timers, CountingProofs

Entries == [h : Handlers, t : 0 .. U32 - 1]
Lists == Seq(Entries)

-----------------------------------------------------------------------------
(* Expiry times *)

LEMMA U32Nat == U32 \in Nat /\ U32 > 0
  BY TimersAssumption

LEMMA EntryTypes ==
  ASSUME NEW l \in Lists, NEW i \in 1 .. Len(l)
  PROVE  l[i] \in Entries /\ l[i].h \in Handlers /\ l[i].t \in 0 .. U32 - 1 /\ l[i].t \in Nat
<1>1. l[i] \in Entries
  BY DEF Lists
<1> QED
  BY <1>1, U32Nat DEF Entries

LEMMA SumsDef ==
  ASSUME NEW l \in Lists
  PROVE  Sums(l) = [i \in 0 .. Len(l) |-> IF i = 0 THEN 0 ELSE Sums(l)[i - 1] + l[i].t]
<1> DEFINE Upto(n, f) == f = [i \in 0 .. n |-> IF i = 0 THEN 0 ELSE f[i - 1] + l[i].t]
           S == {n \in Nat : n <= Len(l) => \E f : Upto(n, f)}
<1>1. 0 \in S
  <2> DEFINE f == [i \in 0 .. 0 |-> 0]
  <2>1. Upto(0, f)
    OBVIOUS
  <2> QED BY <2>1
<1>2. ASSUME NEW n \in S PROVE n + 1 \in S
  <2>1. SUFFICES ASSUME n + 1 <= Len(l) PROVE \E f : Upto(n + 1, f)
    OBVIOUS
  <2>2. PICK f : Upto(n, f)
    BY <1>2, <2>1
  <2> DEFINE g == [i \in 0 .. n + 1 |-> IF i = n + 1 THEN f[n] + l[i].t ELSE f[i]]
  <2>3. ASSUME NEW i \in 0 .. n + 1 PROVE g[i] = IF i = 0 THEN 0 ELSE g[i - 1] + l[i].t
    BY <2>2, <2>3
  <2>4. Upto(n + 1, g)
    BY <2>3
  <2> QED BY <2>4
<1>3. Len(l) \in S
  <2>1. S \subseteq Nat
    OBVIOUS
  <2>2. Len(l) \in Nat
    BY DEF Lists
  <2>3. \A n \in S : n + 1 \in S
    BY <1>2
  <2> HIDE DEF S
  <2>4. Nat \subseteq S
    BY <1>1, <2>1, <2>3, NatSet
  <2> QED BY <2>2, <2>4
<1>4. \E f : Upto(Len(l), f)
  BY <1>3 DEF Lists
<1>5. Sums(l) = CHOOSE f : f = [i \in 0 .. Len(l) |-> IF i = 0 THEN 0 ELSE f[i - 1] + l[i].t]
  BY DEF Sums
<1> QED
  BY <1>4, <1>5

\* An entry's time counts from when the one before it fires.
LEMMA ExpirySteps ==
  ASSUME NEW l \in Lists
  PROVE  /\ Expiry(l, 0) = 0
         /\ \A i \in 1 .. Len(l) : Expiry(l, i) = Expiry(l, i - 1) + l[i].t
<1>1. Len(l) \in Nat
  BY DEF Lists
<1>2. \A i \in 0 .. Len(l) : Sums(l)[i] = IF i = 0 THEN 0 ELSE Sums(l)[i - 1] + l[i].t
  BY SumsDef
<1> QED
  BY <1>1, <1>2 DEF Expiry

\* The expiry times are the only ones with these steps.
Adds(f, l) == /\ f[0] = 0
              /\ \A i \in 1 .. Len(l) : f[i] = f[i - 1] + l[i].t

LEMMA ExpiryIs ==
  ASSUME NEW l \in Lists, NEW f, Adds(f, l)
  PROVE  \A i \in 0 .. Len(l) : Expiry(l, i) = f[i]
<1> DEFINE S == {n \in Nat : n <= Len(l) => Expiry(l, n) = f[n]}
<1>1. Len(l) \in Nat /\ S \subseteq Nat
  BY DEF Lists
<1>2. 0 \in S
  BY ExpirySteps DEF Adds
<1>3. ASSUME NEW n \in S PROVE n + 1 \in S
  <2>1. SUFFICES ASSUME n + 1 <= Len(l) PROVE Expiry(l, n + 1) = f[n + 1]
    OBVIOUS
  <2>2. Expiry(l, n) = f[n] /\ n + 1 \in 1 .. Len(l) /\ (n + 1) - 1 = n
    BY <1>1, <2>1
  <2> QED BY <2>2, ExpirySteps DEF Adds
<1>4. Nat \subseteq S
  <2> HIDE DEF S
  <2> QED BY <1>1, <1>2, <1>3, NatSet
<1> QED
  BY <1>1, <1>4

LEMMA ExpiryNat ==
  ASSUME NEW l \in Lists
  PROVE  \A i \in 0 .. Len(l) : Expiry(l, i) \in Nat
<1> DEFINE S == {n \in Nat : n <= Len(l) => Expiry(l, n) \in Nat}
<1>1. Len(l) \in Nat /\ S \subseteq Nat
  BY DEF Lists
<1>2. 0 \in S
  BY ExpirySteps
<1>3. ASSUME NEW n \in S PROVE n + 1 \in S
  <2>1. SUFFICES ASSUME n + 1 <= Len(l) PROVE Expiry(l, n + 1) \in Nat
    OBVIOUS
  <2>2. Expiry(l, n) \in Nat /\ n + 1 \in 1 .. Len(l) /\ (n + 1) - 1 = n
    BY <1>1, <2>1
  <2>3. l[n + 1].t \in Nat
    BY <2>2, EntryTypes
  <2> QED BY <2>2, <2>3, ExpirySteps
<1>4. Nat \subseteq S
  <2> HIDE DEF S
  <2> QED BY <1>1, <1>2, <1>3, NatSet
<1> QED
  BY <1>1, <1>4

\* Nothing fires before its predecessors.
LEMMA ExpiryRises ==
  ASSUME NEW l \in Lists, NEW i \in 0 .. Len(l)
  PROVE  \A k \in i .. Len(l) : Expiry(l, i) <= Expiry(l, k)
<1> DEFINE S == {n \in Nat : i <= n /\ n <= Len(l) => Expiry(l, i) <= Expiry(l, n)}
<1>1. Len(l) \in Nat /\ S \subseteq Nat /\ i \in Nat /\ Expiry(l, i) \in Nat
  BY ExpiryNat DEF Lists
<1>2. 0 \in S
  BY <1>1
<1>3. ASSUME NEW n \in S PROVE n + 1 \in S
  <2>1. SUFFICES ASSUME i <= n + 1, n + 1 <= Len(l) PROVE Expiry(l, i) <= Expiry(l, n + 1)
    OBVIOUS
  <2>2. CASE i = n + 1
    BY <1>1, <2>2
  <2>3. CASE i # n + 1
    <3>1. n \in 0 .. Len(l) /\ n + 1 \in 1 .. Len(l) /\ (n + 1) - 1 = n /\ i <= n /\ n <= Len(l)
      BY <1>1, <2>1, <2>3
    <3>2. Expiry(l, i) <= Expiry(l, n)
      BY <3>1
    <3>3. Expiry(l, n) \in Nat
      BY <3>1, ExpiryNat
    <3>4. l[n + 1].t \in Nat
      BY <3>1, EntryTypes
    <3>5. Expiry(l, n + 1) = Expiry(l, n) + l[n + 1].t
      BY <3>1, ExpirySteps
    <3> QED BY <1>1, <3>2, <3>3, <3>4, <3>5
  <2> QED BY <2>2, <2>3
<1>4. Nat \subseteq S
  <2> HIDE DEF S
  <2> QED BY <1>1, <1>2, <1>3, NatSet
<1> QED
  BY <1>1, <1>4

-----------------------------------------------------------------------------
(* sys_timeout and sys_untimeout on the list *)

LEMMA InsertAtIs ==
  ASSUME NEW S, NEW s \in Seq(S), NEW i \in 1 .. Len(s) + 1, NEW e \in S
  PROVE  /\ InsertAt(s, i, e) \in Seq(S)
         /\ Len(InsertAt(s, i, e)) = Len(s) + 1
         /\ \A k \in 1 .. Len(s) + 1 :
              InsertAt(s, i, e)[k] = IF k < i THEN s[k] ELSE IF k = i THEN e ELSE s[k - 1]
<1> DEFINE a == SubSeq(s, 1, i - 1)
           b == SubSeq(s, i, Len(s))
           ae == a \o <<e>>
<1>0. Len(s) \in Nat /\ i \in Int
  OBVIOUS
<1>1. a \in Seq(S) /\ Len(a) = i - 1 /\ \A k \in 1 .. i - 1 : a[k] = s[k]
  OBVIOUS
<1>2. b \in Seq(S) /\ Len(b) = Len(s) + 1 - i /\ \A k \in 1 .. Len(s) + 1 - i : b[k] = s[i + k - 1]
  OBVIOUS
<1>3. InsertAt(s, i, e) = ae \o b
  BY DEF InsertAt
<1> HIDE DEF a, b
<1>4. ae \in Seq(S) /\ Len(ae) = i /\ ae[i] = e /\ \A k \in 1 .. i - 1 : ae[k] = s[k]
  BY <1>1
<1> HIDE DEF ae
<1>5. /\ ae \o b \in Seq(S) /\ Len(ae \o b) = Len(s) + 1
      /\ \A k \in 1 .. Len(s) + 1 : (ae \o b)[k] = IF k <= i THEN ae[k] ELSE b[k - i]
  <2>1. ae \o b \in Seq(S)
    BY <1>2, <1>4
  <2>2. Len(ae \o b) = Len(s) + 1
    BY <1>0, <1>2, <1>4
  <2>3. \A k \in 1 .. Len(ae) + Len(b) : (ae \o b)[k] = IF k <= Len(ae) THEN ae[k] ELSE b[k - Len(ae)]
    BY <1>2, <1>4
  <2>4. Len(ae) + Len(b) = Len(s) + 1
    BY <1>0, <1>2, <1>4
  <2> QED BY <1>4, <2>1, <2>2, <2>3, <2>4
<1>6. ASSUME NEW k \in 1 .. Len(s) + 1
      PROVE  (ae \o b)[k] = IF k < i THEN s[k] ELSE IF k = i THEN e ELSE s[k - 1]
  <2>0. k \in Int BY <1>0
  <2>1. CASE k <= i
    BY <1>0, <1>4, <1>5, <2>0, <2>1
  <2>2. CASE k > i
    <3>1. k - i \in 1 .. Len(s) + 1 - i /\ i + (k - i) - 1 = k - 1
      BY <1>0, <2>0, <2>2
    <3>2. b[k - i] = s[k - 1]
      BY <1>2, <3>1
    <3> QED BY SMTT(30), <1>0, <1>5, <2>0, <2>2, <3>2
  <2>3. k <= i \/ k > i
    BY <1>0, <2>0
  <2> QED BY <2>1, <2>2, <2>3, Zenon
<1> QED
  BY <1>3, <1>5, <1>6

LEMMA RemoveAtIs ==
  ASSUME NEW S, NEW s \in Seq(S), NEW i \in 1 .. Len(s)
  PROVE  /\ RemoveAt(s, i) \in Seq(S)
         /\ Len(RemoveAt(s, i)) = Len(s) - 1
         /\ \A k \in 1 .. Len(s) - 1 : RemoveAt(s, i)[k] = IF k < i THEN s[k] ELSE s[k + 1]
  BY Spliced DEF RemoveAt

\* The loop of sys_timeout stops, and where it stops the new entry belongs.
LEMMA PlaceIs ==
  ASSUME NEW l \in Lists, NEW m \in 0 .. U32 - 1
  PROVE  /\ Place(l, m) \in 1 .. Len(l) + 1
         /\ \A k \in 1 .. Place(l, m) - 1 : Expiry(l, k) <= m
         /\ Place(l, m) <= Len(l) => Expiry(l, Place(l, m)) > m
<1> DEFINE S == {n \in 1 .. Len(l) + 1 : n <= Len(l) => Expiry(l, n) > m}
<1>1. Len(l) \in Nat /\ m \in Nat
  BY U32Nat DEF Lists
<1>2. S \subseteq Nat /\ Len(l) + 1 \in S
  BY <1>1
<1>3. PICK x \in S : \A y \in S : x <= y
  <2> HIDE DEF S
  <2> QED BY <1>2, NatLeast
<1>4. ASSUME NEW k \in 1 .. x - 1 PROVE Expiry(l, k) <= m
  <2>1. k \in 1 .. Len(l) /\ ~(x <= k)
    BY <1>1
  <2>2. k \notin S
    BY <1>3, <2>1
  <2>3. Expiry(l, k) \in Nat
    BY <2>1, ExpiryNat
  <2> QED BY <1>1, <2>1, <2>2, <2>3
<1>5. \E n \in 1 .. Len(l) + 1 :
        /\ \A k \in 1 .. n - 1 : Expiry(l, k) <= m
        /\ n <= Len(l) => Expiry(l, n) > m
  BY <1>4
<1> QED
  BY <1>5 DEF Place

\* What sys_timeout makes of the list: the new entry, at position p, fires in
\* m milliseconds, and every other one when it did.
Inserted(l, m, h, l2, p) ==
  /\ p \in 1 .. Len(l) + 1
  /\ l2 \in Lists /\ Len(l2) = Len(l) + 1
  /\ l2[p].h = h /\ Expiry(l2, p) = m
  /\ \A k \in 1 .. p - 1 : l2[k].h = l[k].h /\ Expiry(l2, k) = Expiry(l, k)
  /\ \A k \in p .. Len(l) : l2[k + 1].h = l[k].h /\ Expiry(l2, k + 1) = Expiry(l, k)

LEMMA WithTimeoutIs ==
  ASSUME NEW l \in Lists, NEW m \in 0 .. U32 - 1, NEW h \in Handlers
  PROVE  Inserted(l, m, h, WithTimeout(l, m, h), Place(l, m))
<1> DEFINE p == Place(l, m)
           d == m - Expiry(l, p - 1)
           x == [h |-> h, t |-> d]
           l2 == WithTimeout(l, m, h)
<1>1. Len(l) \in Nat /\ m \in Nat /\ p \in 1 .. Len(l) + 1 /\ p \in Nat /\ p - 1 \in 0 .. Len(l)
  BY U32Nat, PlaceIs DEF Lists
<1>2. Expiry(l, p - 1) \in Nat /\ Expiry(l, p - 1) <= m
  <2>1. Expiry(l, p - 1) \in Nat
    BY <1>1, ExpiryNat
  <2>2. CASE p = 1
    BY <1>1, <2>2, ExpirySteps
  <2>3. CASE p # 1
    <3>1. p - 1 \in 1 .. p - 1
      BY <1>1, <2>3
    <3> QED BY <2>1, <3>1, PlaceIs
  <2> QED BY <2>1, <2>2, <2>3
<1>3. d \in 0 .. U32 - 1 /\ d \in Nat /\ Minus(m, Expiry(l, p - 1)) = d
  <2>1. \A a \in 0 .. U32 - 1 : a % U32 = a
    BY U32Nat
  <2>2. d \in 0 .. U32 - 1 /\ d \in Nat
    BY <1>1, <1>2, U32Nat
  <2> QED BY <2>1, <2>2 DEF Minus
<1>4. x \in Entries /\ x.h = h /\ x.t = d
  BY <1>3 DEF Entries
<1>5. l2 = Insert(l, p, x)
  BY <1>3 DEF WithTimeout
<1> HIDE DEF x, l2
<1>6. /\ l2 \in Lists /\ Len(l2) = Len(l) + 1 /\ l2[p] = x
      /\ \A k \in 1 .. p - 1 : l2[k] = l[k]
      /\ p <= Len(l) => l2[p + 1].h = l[p].h /\ l2[p + 1].t = l[p].t - d
      /\ \A k \in p + 1 .. Len(l) : l2[k + 1] = l[k]
  <2>1. CASE p > Len(l)
    <3>1. p = Len(l) + 1 /\ l2 = Append(l, x)
      BY <1>1, <1>5, <2>1 DEF Insert
    <3>2. l2 \in Lists /\ Len(l2) = Len(l) + 1 /\ l2[Len(l) + 1] = x
      BY <1>4, <3>1 DEF Lists
    <3>3. \A k \in 1 .. Len(l) : l2[k] = l[k]
      BY <1>4, <3>1 DEF Lists
    <3> QED BY <1>1, <3>1, <3>2, <3>3
  <2>2. CASE p <= Len(l)
    <3> DEFINE y == [l[p] EXCEPT !.t = Minus(@, d)]
               c == [l EXCEPT ![p].t = Minus(@, d)]
    <3>1. p \in 1 .. Len(l) /\ l[p] \in Entries /\ l[p].t \in 0 .. U32 - 1 /\ l[p].t \in Nat
      BY <1>1, <2>2, EntryTypes
    <3>2. d < l[p].t
      <4>1. Expiry(l, p) = Expiry(l, p - 1) + l[p].t /\ Expiry(l, p) > m
        BY <2>2, <3>1, ExpirySteps, PlaceIs
      <4> QED BY <1>1, <1>2, <3>1, <4>1
    <3>3. Minus(l[p].t, d) = l[p].t - d /\ l[p].t - d \in 0 .. U32 - 1
      <4>1. \A a \in 0 .. U32 - 1 : a % U32 = a
        BY U32Nat
      <4>2. l[p].t - d \in 0 .. U32 - 1
        BY <1>3, <3>1, <3>2, U32Nat
      <4> QED BY <4>1, <4>2 DEF Minus
    <3>4. y \in Entries /\ y.h = l[p].h /\ y.t = l[p].t - d
      BY <3>1, <3>3 DEF Entries
    <3>5. c = [l EXCEPT ![p] = y]
      OBVIOUS
    <3> HIDE DEF y, c
    <3>6. c \in Seq(Entries) /\ Len(c) = Len(l) /\ c[p] = y /\ \A k \in 1 .. Len(l) : k # p => c[k] = l[k]
      BY <3>1, <3>4, <3>5 DEF Lists
    <3>7. l2 = InsertAt(c, p, x)
      <4>1. ~(p > Len(l)) /\ x.t = d
        BY <1>1, <1>4, <2>2
      <4>2. l2 = InsertAt([l EXCEPT ![p].t = Minus(@, x.t)], p, x)
        BY <1>5, <4>1 DEF Insert
      <4> QED BY <4>1, <4>2 DEF c
    <3>8. p \in 1 .. Len(c) + 1
      BY <1>1, <3>6
    <3>9. /\ l2 \in Seq(Entries) /\ Len(l2) = Len(c) + 1
          /\ \A k \in 1 .. Len(c) + 1 : l2[k] = IF k < p THEN c[k] ELSE IF k = p THEN x ELSE c[k - 1]
      <4> HIDE DEF c, l2, x
      <4> QED BY SMTT(30), <1>4, <3>6, <3>7, <3>8, InsertAtIs
    <3>10. l2[p] = x
      BY <1>1, <3>8, <3>9
    <3>11. ASSUME NEW k \in 1 .. p - 1 PROVE l2[k] = l[k]
      <4>1. k \in 1 .. Len(c) + 1 /\ k < p /\ k \in 1 .. Len(l) /\ k # p
        BY <1>1, <3>6
      <4> QED BY <3>6, <3>9, <4>1
    <3>12. l2[p + 1] = y
      <4>1. p + 1 \in 1 .. Len(c) + 1 /\ (p + 1) - 1 = p /\ ~(p + 1 < p) /\ p + 1 # p
        BY <1>1, <2>2, <3>6
      <4> QED BY <3>6, <3>9, <4>1
    <3>13. ASSUME NEW k \in p + 1 .. Len(l) PROVE l2[k + 1] = l[k]
      <4>1. /\ k + 1 \in 1 .. Len(c) + 1 /\ (k + 1) - 1 = k /\ ~(k + 1 < p) /\ k + 1 # p
            /\ k \in 1 .. Len(l) /\ k # p
        BY <1>1, <3>6
      <4> QED BY <3>6, <3>9, <4>1
    <3> QED BY <3>4, <3>6, <3>9, <3>10, <3>11, <3>12, <3>13 DEF Lists
  <2> QED BY <1>1, <2>1, <2>2
<1> DEFINE f == [k \in 0 .. Len(l) + 1 |-> IF k < p THEN Expiry(l, k) ELSE IF k = p THEN m ELSE Expiry(l, k - 1)]
<1>7. Adds(f, l2)
  <2>1. f[0] = 0
    BY <1>1, ExpirySteps
  <2>2. ASSUME NEW k \in 1 .. Len(l2) PROVE f[k] = f[k - 1] + l2[k].t
    <3>1. k \in 1 .. Len(l) + 1 /\ k \in Int /\ k \in 0 .. Len(l) + 1 /\ k - 1 \in 0 .. Len(l) + 1
      BY <1>1, <1>6
    <3>2. CASE k < p
      <4>1. k \in 1 .. Len(l) /\ k \in 1 .. p - 1 /\ k - 1 < p
        BY <1>1, <3>1, <3>2
      <4>2. f[k] = Expiry(l, k) /\ f[k - 1] = Expiry(l, k - 1)
        BY <3>1, <3>2, <4>1
      <4>3. l2[k] = l[k]
        BY <1>6, <4>1
      <4>4. Expiry(l, k) = Expiry(l, k - 1) + l[k].t
        BY <4>1, ExpirySteps
      <4> QED BY <4>2, <4>3, <4>4
    <3>3. CASE k = p
      <4>1. f[k] = m /\ f[k - 1] = Expiry(l, p - 1)
        BY <1>1, <3>1, <3>3
      <4>2. l2[k].t = d
        BY <1>4, <1>6, <3>3
      <4>3. d = m - Expiry(l, p - 1) /\ Expiry(l, p - 1) \in Int /\ m \in Int
        BY <1>1, <1>2
      <4> HIDE DEF f, d
      <4> QED BY <4>1, <4>2, <4>3
    <3>4. CASE k = p + 1
      <4>1. p \in 1 .. Len(l) /\ p <= Len(l) /\ k - 1 = p
        BY <1>1, <3>1, <3>4, SMTT(30)
      <4>2. f[k] = Expiry(l, p) /\ f[k - 1] = m
        <5>1. ~(k < p) /\ k # p /\ ~(p < p) /\ p \in 0 .. Len(l) + 1
          BY <1>1, <3>1, <3>4, <4>1
        <5> HIDE DEF p
        <5> QED BY <3>1, <4>1, <5>1
      <4>3. l2[k].t = l[p].t - d
        BY <1>6, <3>4, <4>1
      <4>4. Expiry(l, p) = Expiry(l, p - 1) + l[p].t /\ l[p].t \in Nat
        BY <4>1, ExpirySteps, EntryTypes
      <4>5. d = m - Expiry(l, p - 1) /\ Expiry(l, p - 1) \in Int /\ m \in Int /\ l[p].t \in Int
        BY <1>1, <1>2, <4>4
      <4> HIDE DEF f, d
      <4> QED BY <4>2, <4>3, <4>4, <4>5
    <3>5. CASE k > p + 1
      <4>1. k - 1 \in 1 .. Len(l) /\ k - 1 \in p + 1 .. Len(l) /\ (k - 1) + 1 = k
        BY <1>1, <3>1, <3>5
      <4>2. f[k] = Expiry(l, k - 1) /\ f[k - 1] = Expiry(l, (k - 1) - 1)
        BY <1>1, <3>1, <3>5
      <4>3. l2[k] = l[k - 1]
        BY <1>6, <4>1
      <4>4. Expiry(l, k - 1) = Expiry(l, (k - 1) - 1) + l[k - 1].t
        BY <4>1, ExpirySteps
      <4> QED BY <4>2, <4>3, <4>4
    <3>6. k < p \/ k = p \/ k = p + 1 \/ k > p + 1
      BY <1>1, <3>1
    <3> QED BY <3>2, <3>3, <3>4, <3>5, <3>6
  <2> QED BY <2>1, <2>2 DEF Adds
<1>8. \A k \in 0 .. Len(l) + 1 : Expiry(l2, k) = f[k]
  <2> HIDE DEF f
  <2> QED BY <1>6, <1>7, ExpiryIs
<1>9. Expiry(l2, p) = m
  BY <1>1, <1>8
<1>10. ASSUME NEW k \in 1 .. p - 1 PROVE l2[k].h = l[k].h /\ Expiry(l2, k) = Expiry(l, k)
  <2>1. k \in 0 .. Len(l) + 1 /\ k < p
    BY <1>1
  <2> QED BY <1>6, <1>8, <2>1
<1>11. ASSUME NEW k \in p .. Len(l) PROVE l2[k + 1].h = l[k].h /\ Expiry(l2, k + 1) = Expiry(l, k)
  <2>1. k + 1 \in 0 .. Len(l) + 1 /\ ~(k + 1 < p) /\ k + 1 # p /\ (k + 1) - 1 = k
    BY <1>1
  <2>2. l2[k + 1].h = l[k].h
    <3>1. CASE k = p
      <4>1. p <= Len(l)
        BY <1>1, <3>1
      <4> QED BY <1>6, <3>1, <4>1
    <3>2. CASE k # p
      <4>1. k \in p + 1 .. Len(l)
        BY <1>1, <3>2
      <4> QED BY <1>6, <4>1
    <3> QED BY <3>1, <3>2
  <2> QED BY <1>8, <2>1, <2>2
<1> QED
  <2>1. l2[p].h = h
    BY <1>4, <1>6
  <2> QED BY <1>1, <1>6, <1>9, <1>10, <1>11, <2>1 DEF Inserted, l2

\* What sys_untimeout makes of the list, when it finds its entry at i: every
\* other one fires when it did.
Removed(l, l2, i) ==
  /\ l2 \in Lists /\ Len(l2) = Len(l) - 1
  /\ \A k \in 1 .. i - 1 : l2[k].h = l[k].h /\ Expiry(l2, k) = Expiry(l, k)
  /\ \A k \in i + 1 .. Len(l) : l2[k - 1].h = l[k].h /\ Expiry(l2, k - 1) = Expiry(l, k)

LEMMA WithoutTimeoutIs ==
  ASSUME NEW l \in Lists, NEW h, NEW i \in 1 .. Len(l), Find(l, h) = i,
         \A k \in 1 .. Len(l) : Expiry(l, k) < U32
  PROVE  Removed(l, WithoutTimeout(l, h), i)
<1> DEFINE l2 == WithoutTimeout(l, h)
<1>1. Len(l) \in Nat /\ i \in Nat /\ i # 0 /\ i - 1 \in 0 .. Len(l) /\ Len(l) - 1 \in Nat
  BY DEF Lists
<1>2. Expiry(l, i - 1) \in Nat /\ Expiry(l, i) \in Nat /\ Expiry(l, i) = Expiry(l, i - 1) + l[i].t
  BY <1>1, ExpiryNat, ExpirySteps
<1>3. l[i] \in Entries /\ l[i].t \in Nat
  BY EntryTypes
<1>4. /\ l2 \in Lists /\ Len(l2) = Len(l) - 1
      /\ \A k \in 1 .. i - 1 : l2[k] = l[k]
      /\ i < Len(l) => l2[i].h = l[i + 1].h /\ l2[i].t = l[i + 1].t + l[i].t
      /\ \A k \in i + 2 .. Len(l) : l2[k - 1] = l[k]
  <2>1. CASE i = Len(l)
    <3>1. l2 = RemoveAt(l, i)
      BY <1>1, <2>1 DEF WithoutTimeout
    <3>2. /\ l2 \in Seq(Entries) /\ Len(l2) = Len(l) - 1
          /\ \A k \in 1 .. Len(l) - 1 : l2[k] = IF k < i THEN l[k] ELSE l[k + 1]
      <4> HIDE DEF l2
      <4>1. l \in Seq(Entries)
        BY DEF Lists
      <4> QED BY <3>1, <4>1, RemoveAtIs
    <3>3. ASSUME NEW k \in 1 .. i - 1 PROVE l2[k] = l[k]
      <4>1. k \in 1 .. Len(l) - 1 /\ k < i
        BY <1>1, <2>1
      <4> QED BY <3>2, <4>1
    <3>4. ~(i < Len(l)) /\ \A k \in i + 2 .. Len(l) : FALSE
      BY <1>1, <2>1
    <3> HIDE DEF l2
    <3> QED BY <3>2, <3>3, <3>4 DEF Lists
  <2>2. CASE i # Len(l)
    <3> DEFINE n == i + 1
               u == l[n].t + l[i].t
               y == [l[n] EXCEPT !.t = u]
               c == [l EXCEPT ![n].t = u % U32]
    <3>1. n \in 1 .. Len(l) /\ n - 1 = i /\ i < Len(l)
      BY <1>1, <2>2
    <3>2. l[n] \in Entries /\ l[n].t \in Nat
      BY <3>1, EntryTypes
    <3>3. u \in 0 .. U32 - 1 /\ u % U32 = u
      <4>1. Expiry(l, n) = Expiry(l, i) + l[n].t /\ Expiry(l, n) < U32 /\ Expiry(l, n) \in Nat
        BY <1>1, <3>1, ExpirySteps, ExpiryNat
      <4>2. u \in 0 .. U32 - 1
        <5>1. ASSUME NEW a \in Nat, NEW b \in Nat, NEW c1 \in Nat, (a + b) + c1 < U32
              PROVE  c1 + b \in 0 .. U32 - 1
          BY <5>1, U32Nat
        <5>2. (Expiry(l, i - 1) + l[i].t) + l[n].t < U32
          BY <1>2, <4>1
        <5> QED BY <1>2, <1>3, <3>2, <5>1, <5>2
      <4>3. \A a \in 0 .. U32 - 1 : a % U32 = a
        BY U32Nat
      <4> QED BY <4>2, <4>3
    <3>4. y \in Entries /\ y.h = l[n].h /\ y.t = u
      BY <3>2, <3>3 DEF Entries
    <3>5. c = [l EXCEPT ![n] = y]
      BY <3>3
    <3>6. l2 = RemoveAt(c, i)
      BY <1>1, <2>2 DEF WithoutTimeout
    <3> HIDE DEF u, y, c, l2
    <3>7. c \in Seq(Entries) /\ Len(c) = Len(l) /\ c[n] = y /\ \A k \in 1 .. Len(l) : k # n => c[k] = l[k]
      BY <3>1, <3>4, <3>5 DEF Lists
    <3>8. i \in 1 .. Len(c)
      BY <3>7
    <3>9. /\ l2 \in Seq(Entries) /\ Len(l2) = Len(c) - 1
          /\ \A k \in 1 .. Len(c) - 1 : l2[k] = IF k < i THEN c[k] ELSE c[k + 1]
      BY <3>6, <3>7, <3>8, RemoveAtIs
    <3>10. ASSUME NEW k \in 1 .. i - 1 PROVE l2[k] = l[k]
      <4>1. k \in 1 .. Len(c) - 1 /\ k < i /\ k \in 1 .. Len(l) /\ k # n
        BY <1>1, <3>7
      <4> QED BY <3>7, <3>9, <4>1
    <3>11. l2[i] = y
      <4>1. i \in 1 .. Len(c) - 1 /\ ~(i < i)
        BY <1>1, <3>1, <3>7
      <4> QED BY <3>7, <3>9, <4>1
    <3>12. ASSUME NEW k \in i + 2 .. Len(l) PROVE l2[k - 1] = l[k]
      <4>1. k - 1 \in 1 .. Len(c) - 1 /\ ~(k - 1 < i) /\ (k - 1) + 1 = k /\ k \in 1 .. Len(l) /\ k # n
        BY <1>1, <3>7
      <4> QED BY <3>7, <3>9, <4>1
    <3> QED BY <3>4, <3>7, <3>9, <3>10, <3>11, <3>12 DEF Lists, u
  <2> QED BY <2>1, <2>2
<1> HIDE DEF l2
<1> DEFINE f == [k \in 0 .. Len(l) - 1 |-> IF k < i THEN Expiry(l, k) ELSE Expiry(l, k + 1)]
<1>5. Adds(f, l2)
  <2>1. f[0] = 0
    BY <1>1, ExpirySteps
  <2>2. ASSUME NEW k \in 1 .. Len(l2) PROVE f[k] = f[k - 1] + l2[k].t
    <3>1. k \in 1 .. Len(l) - 1 /\ k \in Int /\ k \in 0 .. Len(l) - 1 /\ k - 1 \in 0 .. Len(l) - 1
      BY <1>1, <1>4
    <3>2. CASE k < i
      <4>1. k \in 1 .. Len(l) /\ k \in 1 .. i - 1 /\ k - 1 < i
        BY <1>1, <3>1, <3>2
      <4>2. f[k] = Expiry(l, k) /\ f[k - 1] = Expiry(l, k - 1)
        BY <3>1, <3>2, <4>1
      <4>3. l2[k] = l[k]
        BY <1>4, <4>1
      <4>4. Expiry(l, k) = Expiry(l, k - 1) + l[k].t
        BY <4>1, ExpirySteps
      <4> QED BY <4>2, <4>3, <4>4
    <3>3. CASE k = i
      <4>1. i + 1 \in 1 .. Len(l) /\ (i + 1) - 1 = i /\ i < Len(l)
        BY <1>1, <3>1, <3>3
      <4>2. f[k] = Expiry(l, i + 1) /\ f[k - 1] = Expiry(l, i - 1)
        BY <1>1, <3>1, <3>3
      <4>3. l2[k].t = l[i + 1].t + l[i].t
        BY <1>4, <3>3, <4>1
      <4>4. Expiry(l, i + 1) = Expiry(l, i) + l[i + 1].t /\ l[i + 1].t \in Nat
        BY <4>1, ExpirySteps, EntryTypes
      <4> HIDE DEF f, l2
      <4> QED BY SMTT(30), <1>2, <1>3, <4>2, <4>3, <4>4
    <3>4. CASE k > i
      <4>1. k + 1 \in 1 .. Len(l) /\ k + 1 \in i + 2 .. Len(l) /\ (k + 1) - 1 = k /\ ~(k - 1 < i) /\ (k - 1) + 1 = k
        BY <1>1, <3>1, <3>4
      <4>2. f[k] = Expiry(l, k + 1) /\ f[k - 1] = Expiry(l, k)
        BY <1>1, <3>1, <3>4, <4>1
      <4>3. l2[k] = l[k + 1]
        <5>1. l2[(k + 1) - 1] = l[k + 1]
          BY <1>4, <4>1
        <5> QED BY <4>1, <5>1
      <4>4. Expiry(l, k + 1) = Expiry(l, (k + 1) - 1) + l[k + 1].t
        BY <4>1, ExpirySteps
      <4> QED BY <4>1, <4>2, <4>3, <4>4
    <3>5. k < i \/ k = i \/ k > i
      BY <1>1, <3>1
    <3> QED BY <3>2, <3>3, <3>4, <3>5
  <2> QED BY <2>1, <2>2 DEF Adds
<1>6. \A k \in 0 .. Len(l) - 1 : Expiry(l2, k) = f[k]
  <2> HIDE DEF f
  <2> QED BY <1>4, <1>5, ExpiryIs
<1>7. ASSUME NEW k \in 1 .. i - 1 PROVE l2[k].h = l[k].h /\ Expiry(l2, k) = Expiry(l, k)
  <2>1. k \in 0 .. Len(l) - 1 /\ k < i
    BY <1>1
  <2> QED BY <1>4, <1>6, <2>1
<1>8. ASSUME NEW k \in i + 1 .. Len(l) PROVE l2[k - 1].h = l[k].h /\ Expiry(l2, k - 1) = Expiry(l, k)
  <2>1. k - 1 \in 0 .. Len(l) - 1 /\ ~(k - 1 < i) /\ (k - 1) + 1 = k
    BY <1>1
  <2>2. l2[k - 1].h = l[k].h
    <3>1. CASE k = i + 1
      <4>1. i < Len(l) /\ k - 1 = i
        BY <1>1, <3>1
      <4> QED BY <1>4, <3>1, <4>1
    <3>2. CASE k # i + 1
      <4>1. k \in i + 2 .. Len(l)
        BY <1>1, <3>2
      <4> QED BY <1>4, <4>1
    <3> QED BY <3>1, <3>2
  <2> QED BY <1>6, <2>1, <2>2
<1> QED
  BY <1>4, <1>7, <1>8 DEF Removed, l2

\* What a wait that took n milliseconds makes of it: everything is that much
\* closer.
LEMMA TakenOff ==
  ASSUME NEW l \in Lists, NEW l2 \in Lists, Len(l2) = Len(l), l # << >>, NEW n \in Nat,
         l2[1].h = l[1].h, l2[1].t = l[1].t - n, \A k \in 1 .. Len(l) : k # 1 => l2[k] = l[k]
  PROVE  \A k \in 1 .. Len(l) : l2[k].h = l[k].h /\ Expiry(l2, k) = Expiry(l, k) - n
<1>1. Len(l) \in Nat /\ 1 \in 1 .. Len(l)
  BY DEF Lists
<1> DEFINE f == [k \in 0 .. Len(l) |-> IF k = 0 THEN 0 ELSE Expiry(l, k) - n]
<1>2. Adds(f, l2)
  <2>1. f[0] = 0
    BY <1>1
  <2>2. ASSUME NEW k \in 1 .. Len(l2) PROVE f[k] = f[k - 1] + l2[k].t
    <3>1. k \in 1 .. Len(l) /\ k \in 0 .. Len(l) /\ k - 1 \in 0 .. Len(l) /\ k # 0
      BY <1>1
    <3>2. /\ Expiry(l, k) = Expiry(l, k - 1) + l[k].t
          /\ Expiry(l, k) \in Nat /\ Expiry(l, k - 1) \in Nat /\ l[k].t \in Nat
      BY <3>1, ExpirySteps, ExpiryNat, EntryTypes
    <3>3. f[k] = Expiry(l, k) - n
      BY <3>1
    <3>4. CASE k = 1
      <4>1. f[k - 1] = 0 /\ Expiry(l, k - 1) = 0
        BY <3>1, <3>4, ExpirySteps
      <4>2. l2[k].t = l[k].t - n
        BY <3>4
      <4> HIDE DEF f
      <4> QED BY <3>2, <3>3, <4>1, <4>2
    <3>5. CASE k # 1
      <4>1. f[k - 1] = Expiry(l, k - 1) - n
        BY <3>1, <3>5
      <4>2. l2[k].t = l[k].t
        BY <3>1, <3>5
      <4> QED BY <3>2, <3>3, <4>1, <4>2
    <3> QED BY <3>4, <3>5
  <2> QED BY <2>1, <2>2 DEF Adds
<1>3. \A k \in 0 .. Len(l) : Expiry(l2, k) = f[k]
  <2> HIDE DEF f
  <2> QED BY <1>2, ExpiryIs
<1>4. ASSUME NEW k \in 1 .. Len(l) PROVE l2[k].h = l[k].h /\ Expiry(l2, k) = Expiry(l, k) - n
  <2>1. k \in 0 .. Len(l) /\ k # 0
    BY <1>1
  <2>2. l2[k].h = l[k].h
    OBVIOUS
  <2> QED BY <1>3, <2>1, <2>2
<1> QED
  BY <1>4

\* The head is unlinked when it fires; the rest counts from then.
LEMMA TailExpiry ==
  ASSUME NEW l \in Lists, l # << >>
  PROVE  /\ Tail(l) \in Lists /\ Len(Tail(l)) = Len(l) - 1
         /\ \A k \in 1 .. Len(l) - 1 : Tail(l)[k].h = l[k + 1].h /\ Expiry(Tail(l), k) = Expiry(l, k + 1) - l[1].t
<1> DEFINE l2 == Tail(l)
<1>1. Len(l) \in Nat /\ 1 \in 1 .. Len(l) /\ Len(l) - 1 \in Nat
  BY DEF Lists
<1>2. l2 \in Lists /\ Len(l2) = Len(l) - 1 /\ \A k \in 1 .. Len(l) - 1 : l2[k] = l[k + 1]
  BY DEF Lists
<1>3. l[1].t \in Nat
  BY <1>1, EntryTypes
<1> HIDE DEF l2
<1> DEFINE f == [k \in 0 .. Len(l) - 1 |-> Expiry(l, k + 1) - l[1].t]
<1>4. Adds(f, l2)
  <2>1. f[0] = 0
    <3>1. Expiry(l, 1) = Expiry(l, 1 - 1) + l[1].t /\ Expiry(l, 0) = 0
      BY <1>1, ExpirySteps
    <3>2. f[0] = Expiry(l, 0 + 1) - l[1].t
      BY <1>1
    <3> QED BY <1>3, <3>1, <3>2
  <2>2. ASSUME NEW k \in 1 .. Len(l2) PROVE f[k] = f[k - 1] + l2[k].t
    <3>1. /\ k \in 1 .. Len(l) - 1 /\ k \in 0 .. Len(l) - 1 /\ k - 1 \in 0 .. Len(l) - 1
          /\ (k - 1) + 1 = k /\ (k + 1) - 1 = k /\ k + 1 \in 1 .. Len(l) /\ k \in 0 .. Len(l)
          /\ k + 1 \in 0 .. Len(l)
      BY <1>1, <1>2
    <3>2. Expiry(l, k + 1) = Expiry(l, k) + l[k + 1].t
      BY <3>1, ExpirySteps
    <3>3. Expiry(l, k) \in Nat /\ l[k + 1].t \in Nat
      BY <3>1, ExpiryNat, EntryTypes
    <3>4. f[k] = Expiry(l, k + 1) - l[1].t /\ f[k - 1] = Expiry(l, k) - l[1].t
      BY <3>1
    <3>5. l2[k].t = l[k + 1].t
      BY <1>2, <3>1
    <3> HIDE DEF f, l2
    <3> QED BY <1>3, <3>2, <3>3, <3>4, <3>5
  <2> QED BY <2>1, <2>2 DEF Adds
<1>5. \A k \in 0 .. Len(l) - 1 : Expiry(l2, k) = f[k]
  <2> HIDE DEF f
  <2> QED BY <1>2, <1>4, ExpiryIs
<1>6. ASSUME NEW k \in 1 .. Len(l) - 1 PROVE l2[k].h = l[k + 1].h /\ Expiry(l2, k) = Expiry(l, k + 1) - l[1].t
  <2>1. k \in 0 .. Len(l) - 1
    BY <1>1
  <2> QED BY <1>2, <1>5, <2>1
<1> QED
  BY <1>2, <1>6 DEF l2

-----------------------------------------------------------------------------
(* The same, by handlers *)

Armed(l, h) == \E i \in 1 .. Len(l) : l[i].h = h
Unique(l) == \A i, k \in 1 .. Len(l) : l[i].h = l[k].h => i = k
Near(l) == \A i \in 1 .. Len(l) : Expiry(l, i) < U32

LEMMA FindArmed ==
  ASSUME NEW l \in Lists, NEW h
  PROVE  /\ Find(l, h) # 0 <=> Armed(l, h)
         /\ Armed(l, h) => Find(l, h) \in 1 .. Len(l) /\ l[Find(l, h)].h = h
<1>1. Len(l) \in Nat /\ DOMAIN l = 1 .. Len(l)
  BY DEF Lists
<1>2. CASE Armed(l, h)
  <2> DEFINE S == {i \in 1 .. Len(l) : l[i].h = h}
  <2>1. S \subseteq Nat /\ S # {}
    BY <1>1, <1>2 DEF Armed
  <2>2. PICK x \in S : \A y \in S : x <= y
    <3> HIDE DEF S
    <3> QED BY <2>1, NatLeast
  <2>3. ASSUME NEW k \in 1 .. x - 1 PROVE l[k].h # h
    <3>1. k \in 1 .. Len(l) /\ ~(x <= k)
      BY <1>1
    <3> QED BY <2>2, <3>1
  <2>4. \E i \in DOMAIN l : l[i].h = h /\ \A k \in 1 .. i - 1 : l[k].h # h
    BY <1>1, <2>3
  <2>5. \E i \in DOMAIN l : l[i].h = h
    BY <2>4
  <2>6. Find(l, h) = CHOOSE i \in DOMAIN l : l[i].h = h /\ \A k \in 1 .. i - 1 : l[k].h # h
    BY <2>5 DEF Find
  <2>7. Find(l, h) \in DOMAIN l /\ l[Find(l, h)].h = h
    BY <2>4, <2>6
  <2> QED BY <1>1, <1>2, <2>7
<1>3. CASE ~Armed(l, h)
  <2>1. ~\E i \in DOMAIN l : l[i].h = h
    BY <1>1, <1>3 DEF Armed
  <2> QED BY <1>3, <2>1 DEF Find
<1> QED
  BY <1>2, <1>3

\* l2 is l with a timeout for h in m milliseconds.
Added(l, m, h, l2) ==
  /\ l2 \in Lists /\ Len(l2) = Len(l) + 1 /\ Unique(l2) /\ Near(l2)
  /\ \A g : Armed(l2, g) <=> (g = h \/ Armed(l, g))
  /\ \A k \in 1 .. Len(l2) :
       \/ l2[k].h = h /\ Expiry(l2, k) = m
       \/ \E i \in 1 .. Len(l) : l2[k].h = l[i].h /\ Expiry(l2, k) = Expiry(l, i)

LEMMA TimeoutAdds ==
  ASSUME NEW l \in Lists, Unique(l), Near(l), NEW m \in 0 .. U32 - 1, NEW h \in Handlers, ~Armed(l, h)
  PROVE  Added(l, m, h, WithTimeout(l, m, h))
<1> DEFINE l2 == WithTimeout(l, m, h)
           p == Place(l, m)
<1>1. Inserted(l, m, h, l2, p)
  BY WithTimeoutIs
<1> HIDE DEF l2, p
<1>2. /\ p \in 1 .. Len(l) + 1 /\ p \in Nat /\ Len(l) \in Nat
      /\ l2 \in Lists /\ Len(l2) = Len(l) + 1 /\ l2[p].h = h /\ Expiry(l2, p) = m
  BY <1>1 DEF Inserted, Lists
\* The entry of l that the k-th of l2 was.
<1> DEFINE old(k) == IF k < p THEN k ELSE k - 1
<1>3. ASSUME NEW k \in 1 .. Len(l2), k # p
      PROVE  old(k) \in 1 .. Len(l) /\ l2[k].h = l[old(k)].h /\ Expiry(l2, k) = Expiry(l, old(k))
  <2>1. CASE k < p
    <3>1. k \in 1 .. p - 1 /\ old(k) = k /\ k \in 1 .. Len(l)
      BY <1>2, <2>1
    <3> QED BY <1>1, <3>1 DEF Inserted
  <2>2. CASE k > p
    <3>1. old(k) \in p .. Len(l) /\ old(k) + 1 = k /\ old(k) \in 1 .. Len(l)
      BY <1>2, <2>2
    <3> HIDE DEF old
    <3> QED BY <1>1, <3>1 DEF Inserted
  <2>3. k < p \/ k > p
    BY <1>2, <1>3
  <2> QED BY <2>1, <2>2, <2>3
<1>4. ASSUME NEW k \in 1 .. Len(l2), k # p PROVE l2[k].h # h
  BY <1>3, <1>4 DEF Armed
<1>5. Unique(l2)
  <2>1. SUFFICES ASSUME NEW i \in 1 .. Len(l2), NEW k \in 1 .. Len(l2), l2[i].h = l2[k].h PROVE i = k
    BY DEF Unique
  <2>2. CASE i = p \/ k = p
    BY <1>2, <1>4, <2>1, <2>2
  <2>3. CASE i # p /\ k # p
    <3>1. old(i) \in 1 .. Len(l) /\ old(k) \in 1 .. Len(l) /\ l[old(i)].h = l[old(k)].h
      BY <1>3, <2>1, <2>3
    <3>2. old(i) = old(k)
      <4> HIDE DEF old
      <4> QED BY <3>1 DEF Unique
    <3> QED BY <1>2, <2>3, <3>2
  <2> QED BY <2>2, <2>3
<1>6. ASSUME NEW k \in 1 .. Len(l2)
      PROVE  \/ l2[k].h = h /\ Expiry(l2, k) = m
             \/ \E i \in 1 .. Len(l) : l2[k].h = l[i].h /\ Expiry(l2, k) = Expiry(l, i)
  <2> HIDE DEF old
  <2>1. CASE k = p
    BY <1>2, <2>1
  <2>2. CASE k # p
    BY <1>3, <2>2
  <2> QED BY <2>1, <2>2
<1>7. Near(l2)
  <2>1. m < U32
    BY U32Nat
  <2> QED BY <1>6, <2>1 DEF Near
<1>8. ASSUME NEW g PROVE Armed(l2, g) <=> (g = h \/ Armed(l, g))
  <2>1. ASSUME Armed(l2, g) PROVE g = h \/ Armed(l, g)
    BY <1>6, <2>1 DEF Armed
  <2>2. ASSUME g = h PROVE Armed(l2, g)
    <3>1. p \in 1 .. Len(l2)
      BY <1>2
    <3> QED BY <1>2, <2>2, <3>1 DEF Armed
  <2>3. ASSUME Armed(l, g) PROVE Armed(l2, g)
    <3>1. PICK i \in 1 .. Len(l) : l[i].h = g
      BY <2>3 DEF Armed
    <3>2. CASE i < p
      <4>1. i \in 1 .. p - 1 /\ i \in 1 .. Len(l2)
        BY <1>2, <3>2
      <4>2. l2[i].h = g
        BY <1>1, <3>1, <4>1 DEF Inserted
      <4> QED BY <4>1, <4>2 DEF Armed
    <3>3. CASE i >= p
      <4>1. i \in p .. Len(l) /\ i + 1 \in 1 .. Len(l2)
        BY <1>2, <3>3
      <4>2. l2[i + 1].h = g
        BY <1>1, <3>1, <4>1 DEF Inserted
      <4> QED BY <4>1, <4>2 DEF Armed
    <3>4. i < p \/ i >= p
      BY <1>2
    <3> QED BY <3>2, <3>3, <3>4
  <2> QED BY <2>1, <2>2, <2>3
<1> QED
  BY <1>2, <1>5, <1>6, <1>7, <1>8 DEF Added, l2

\* l2 is l without the timeout for h, if there was one.
Dropped(l, h, l2) ==
  /\ l2 \in Lists /\ Len(l2) <= Len(l) /\ Unique(l2) /\ Near(l2)
  /\ \A g : Armed(l2, g) <=> (g # h /\ Armed(l, g))
  /\ \A k \in 1 .. Len(l2) :
       \E i \in 1 .. Len(l) : l2[k].h = l[i].h /\ Expiry(l2, k) = Expiry(l, i)

LEMMA UntimeoutDrops ==
  ASSUME NEW l \in Lists, Unique(l), Near(l), NEW h
  PROVE  Dropped(l, h, WithoutTimeout(l, h))
<1>1. CASE ~Armed(l, h)
  <2>1. WithoutTimeout(l, h) = l
    BY <1>1, FindArmed DEF WithoutTimeout
  <2>2. \A g : Armed(l, g) <=> (g # h /\ Armed(l, g))
    BY <1>1
  <2>3. Len(l) <= Len(l)
    BY DEF Lists
  <2> QED BY <2>1, <2>2, <2>3 DEF Dropped
<1>2. CASE Armed(l, h)
  <2> DEFINE l2 == WithoutTimeout(l, h)
             p == Find(l, h)
  <2>1. p \in 1 .. Len(l) /\ l[p].h = h
    BY <1>2, FindArmed
  <2>2. Removed(l, l2, p)
    BY <2>1, WithoutTimeoutIs DEF Near
  <2> HIDE DEF l2, p
  <2>3. p \in Nat /\ Len(l) \in Nat /\ l2 \in Lists /\ Len(l2) = Len(l) - 1
    BY <2>1, <2>2 DEF Removed, Lists
  <2> DEFINE old(k) == IF k < p THEN k ELSE k + 1
  <2>4. ASSUME NEW k \in 1 .. Len(l2)
        PROVE  old(k) \in 1 .. Len(l) /\ old(k) # p /\ l2[k].h = l[old(k)].h /\ Expiry(l2, k) = Expiry(l, old(k))
    <3>1. CASE k < p
      <4>1. k \in 1 .. p - 1 /\ old(k) = k /\ k \in 1 .. Len(l) /\ k # p
        BY <2>3, <3>1
      <4> QED BY <2>2, <4>1 DEF Removed
    <3>2. CASE k >= p
      <4>1. old(k) \in p + 1 .. Len(l) /\ old(k) - 1 = k /\ old(k) \in 1 .. Len(l) /\ old(k) # p
        BY <2>3, <3>2
      <4> HIDE DEF old
      <4> QED BY <2>2, <4>1 DEF Removed
    <3>3. k < p \/ k >= p
      BY <2>3
    <3> QED BY <3>1, <3>2, <3>3
  <2>5. Unique(l2)
    <3>1. SUFFICES ASSUME NEW i \in 1 .. Len(l2), NEW k \in 1 .. Len(l2), l2[i].h = l2[k].h PROVE i = k
      BY DEF Unique
    <3>2. old(i) \in 1 .. Len(l) /\ old(k) \in 1 .. Len(l) /\ l[old(i)].h = l[old(k)].h
      BY <2>4, <3>1
    <3>3. old(i) = old(k)
      <4> HIDE DEF old
      <4> QED BY <3>2 DEF Unique
    <3> QED BY <2>3, <3>3
  <2>6. ASSUME NEW k \in 1 .. Len(l2)
        PROVE  \E i \in 1 .. Len(l) : l2[k].h = l[i].h /\ Expiry(l2, k) = Expiry(l, i)
    <3> HIDE DEF old
    <3> QED BY <2>4
  <2>7. Near(l2)
    BY <2>6 DEF Near
  <2>8. ASSUME NEW g PROVE Armed(l2, g) <=> (g # h /\ Armed(l, g))
    <3>1. ASSUME Armed(l2, g) PROVE g # h /\ Armed(l, g)
      <4>1. PICK k \in 1 .. Len(l2) : l2[k].h = g
        BY <3>1 DEF Armed
      <4> HIDE DEF old
      <4>2. old(k) \in 1 .. Len(l) /\ old(k) # p /\ l[old(k)].h = g
        BY <2>4, <4>1
      <4>3. g # h
        BY <2>1, <4>2 DEF Unique
      <4> QED BY <4>2, <4>3 DEF Armed
    <3>2. ASSUME g # h, Armed(l, g) PROVE Armed(l2, g)
      <4>1. PICK i \in 1 .. Len(l) : l[i].h = g
        BY <3>2 DEF Armed
      <4>2. i # p
        BY <2>1, <3>2, <4>1
      <4>3. CASE i < p
        <5>1. i \in 1 .. p - 1 /\ i \in 1 .. Len(l2)
          BY <2>1, <2>3, <4>3
        <5>2. l2[i].h = g
          BY <2>2, <4>1, <5>1 DEF Removed
        <5> QED BY <5>1, <5>2 DEF Armed
      <4>4. CASE i > p
        <5>1. i \in p + 1 .. Len(l) /\ i - 1 \in 1 .. Len(l2)
          BY <2>1, <2>3, <4>4
        <5>2. l2[i - 1].h = g
          BY <2>2, <4>1, <5>1 DEF Removed
        <5> QED BY <5>1, <5>2 DEF Armed
      <4>5. i < p \/ i > p
        BY <2>3, <4>2
      <4> QED BY <4>3, <4>4, <4>5
    <3> QED BY <3>1, <3>2
  <2>9. Len(l2) <= Len(l)
    BY <2>3
  <2> QED BY <2>3, <2>5, <2>6, <2>7, <2>8, <2>9 DEF Dropped, l2
<1> QED
  BY <1>1, <1>2

-----------------------------------------------------------------------------
(* The invariant *)

Types ==
  /\ list \in Lists /\ Len(list) <= PoolSize
  /\ due \in [Handlers -> Nat] /\ waited \in Nat
  /\ pc \in {"again", "wait", "handler", "message"}
  /\ tcp_active \in BOOLEAN /\ pcbs \in BOOLEAN
  /\ aborted \in Handlers \cup {"none"} /\ backlog \in 0 .. MaxBacklog

\* A handler is in the list once, and its time is one of a u32_t.
InShape == Unique(list) /\ Near(list)

\* The wait in progress has not outlasted the head of the list.
Waiting ==
  /\ pc # "wait" => waited = 0
  /\ list = << >> => waited = 0
  /\ list # << >> => waited <= list[1].t

\* Nothing is listed to fire before it is due, the wait in progress counted.
Late == \A i \in 1 .. Len(list) : due[list[i].h] + waited <= Expiry(list, i)

\* The handler that is called was unlinked, and is due.
Handling ==
  /\ pc = "handler" => running \in Handlers /\ due[running] = 0 /\ ~Armed(list, running)
  /\ pc # "handler" => running = "none"

CyclicArmed == aborted = "none" => \A h \in Cyclic : running # h <=> Armed(list, h)

TcpArmed ==
  aborted = "none" => (tcp_active <=> (Armed(list, Tcp) \/ running = Tcp)) /\ (pcbs => tcp_active)

PoolTaken == aborted \in Cyclic \cup {Tcp} => \E h \in App : Armed(list, h)

TimersInv == Types /\ InShape /\ Waiting /\ Late /\ Handling /\ CyclicArmed /\ TcpArmed /\ PoolTaken

\* What stays in the list through a change from l to l2 fires when it did.
Kept(l, l2) ==
  \A i \in 1 .. Len(l), k \in 1 .. Len(l2) : l[i].h = l2[k].h => Expiry(l, i) = Expiry(l2, k)

LEMMA HandlerSets ==
  /\ Cyclic \subseteq Handlers /\ Tcp \in Handlers /\ App \subseteq Handlers /\ "none" \notin Handlers
  /\ Tcp \notin Cyclic /\ Tcp \notin App /\ Cyclic \cap App = {}
  BY TimersAssumption DEF Handlers

LEMMA OneTo ==
  ASSUME NEW n \in Nat
  PROVE  IsFiniteSet(1 .. n) /\ Cardinality(1 .. n) = n
<1>1. 1 \in Int /\ n \in Int
  OBVIOUS
<1>2. IsFiniteSet(1 .. n) /\ Cardinality(1 .. n) = IF 1 > n THEN 0 ELSE n - 1 + 1
  BY <1>1, FS_Interval, Zenon
<1> QED
  BY <1>2

\* A pool with one element more than there are cyclic timers is full while the
\* stack's timer h is not armed: an application has a timeout in it.
LEMMA PoolFull ==
  ASSUME NEW l \in Lists, Unique(l), Len(l) >= PoolSize, NEW h \in Cyclic \cup {Tcp}, ~Armed(l, h)
  PROVE  \E g \in App : Armed(l, g)
<1> SUFFICES ASSUME \A g \in App : ~Armed(l, g) PROVE FALSE
  OBVIOUS
<1> DEFINE T == (Cyclic \cup {Tcp}) \ {h}
           f == [i \in 1 .. Len(l) |-> l[i].h]
           N == Len(InitOrder)
<1>1. Len(l) \in Nat /\ N \in Nat /\ PoolSize \in Nat /\ N < PoolSize /\ DOMAIN InitOrder = 1 .. N
  BY TimersAssumption DEF Lists
<1>2. InitOrder \in Surjection(1 .. N, Cyclic)
  <2>1. InitOrder \in [1 .. N -> Cyclic]
    BY TimersAssumption
  <2>2. \A c \in Cyclic : \E i \in 1 .. N : InitOrder[i] = c
    BY <1>1 DEF Cyclic
  <2> QED BY <2>1, <2>2 DEF Surjection
<1>3. IsFiniteSet(1 .. N) /\ Cardinality(1 .. N) = N
  BY <1>1, OneTo
<1>4. IsFiniteSet(Cyclic) /\ Cardinality(Cyclic) <= N
  BY <1>2, <1>3, FS_Surjection
<1>5. Cardinality(Cyclic) \in Nat
  BY <1>4, FS_CardinalityType
<1>6. IsFiniteSet(Cyclic \cup {Tcp}) /\ Cardinality(Cyclic \cup {Tcp}) <= N + 1
  <2>1. /\ IsFiniteSet(Cyclic \cup {Tcp})
        /\ Cardinality(Cyclic \cup {Tcp}) = IF Tcp \in Cyclic THEN Cardinality(Cyclic) ELSE Cardinality(Cyclic) + 1
    BY <1>4, FS_AddElement, Zenon
  <2> QED BY <1>1, <1>4, <1>5, <2>1
<1>7. Cardinality(Cyclic \cup {Tcp}) \in Nat
  BY <1>6, FS_CardinalityType
<1>8. IsFiniteSet(T) /\ Cardinality(T) = Cardinality(Cyclic \cup {Tcp}) - 1
  BY <1>6, FS_RemoveElement
<1>9. IsFiniteSet(1 .. Len(l)) /\ Cardinality(1 .. Len(l)) = Len(l)
  BY <1>1, OneTo
<1>10. Cardinality(T) < Cardinality(1 .. Len(l))
  BY <1>1, <1>6, <1>7, <1>8, <1>9
<1>11. f \in [1 .. Len(l) -> T]
  <2>1. ASSUME NEW i \in 1 .. Len(l) PROVE l[i].h \in T
    <3>1. l[i].h \in Handlers /\ Armed(l, l[i].h)
      BY EntryTypes DEF Armed
    <3> QED BY <3>1 DEF Handlers
  <2> QED BY <2>1
<1>12. PICK x \in 1 .. Len(l), y \in 1 .. Len(l) : x # y /\ f[x] = f[y]
  <2> HIDE DEF T, f
  <2> QED BY <1>8, <1>9, <1>10, <1>11, FS_PigeonHole
<1> QED
  BY <1>12 DEF Unique

LEMMA SameKept ==
  ASSUME NEW l \in Lists, Unique(l)
  PROVE  Kept(l, l)
  BY DEF Unique, Kept

\* sys_timeout, for a handler that is not armed.
LEMMA TimeoutStep ==
  ASSUME TimersInv, aborted = "none", pc # "wait", waited' = waited,
         NEW h \in Handlers, ~Armed(list, h), NEW m \in 0 .. U32 - 1, sys_timeout(m, h)
  PROVE  /\ list' \in Lists /\ Len(list') <= PoolSize /\ due' \in [Handlers -> Nat]
         /\ InShape' /\ Late' /\ Kept(list, list')
         /\ \/ aborted' = "none" /\ \A g : Armed(list', g) <=> (g = h \/ Armed(list, g))
            \/ /\ aborted' = h /\ list' = list
               /\ h \in Cyclic \cup {Tcp} => \E g \in App : Armed(list, g)
<1>1. /\ list \in Lists /\ Len(list) <= PoolSize /\ Len(list) \in Nat /\ PoolSize \in Nat
      /\ due \in [Handlers -> Nat] /\ Unique(list) /\ Near(list) /\ waited = 0
  BY TimersAssumption DEF TimersInv, Types, InShape, Waiting, Lists
<1>2. CASE Len(list) >= PoolSize
  <2>1. aborted' = h /\ list' = list /\ due' = due
    BY <1>2 DEF sys_timeout
  <2>2. h \in Cyclic \cup {Tcp} => \E g \in App : Armed(list, g)
    BY <1>1, <1>2, PoolFull
  <2>3. InShape' /\ Late'
    BY <2>1 DEF TimersInv, InShape, Late
  <2> QED BY <1>1, <2>1, <2>2, <2>3, SameKept
<1>3. CASE ~(Len(list) >= PoolSize)
  <2>1. list' = WithTimeout(list, m, h) /\ due' = [due EXCEPT ![h] = m] /\ aborted' = "none"
    BY <1>3 DEF sys_timeout
  <2>2. Added(list, m, h, list')
    BY <1>1, <2>1, TimeoutAdds
  <2>3. /\ list' \in Lists /\ Len(list') = Len(list) + 1 /\ Unique(list') /\ Near(list')
        /\ \A g : Armed(list', g) <=> (g = h \/ Armed(list, g))
    BY <2>2 DEF Added
  <2>4. Len(list') <= PoolSize
    BY <1>1, <1>3, <2>3
  <2>5. due' \in [Handlers -> Nat] /\ due'[h] = m /\ \A g \in Handlers : g # h => due'[g] = due[g]
    BY <1>1, <2>1, U32Nat
  <2>6. Late'
    <3>1. SUFFICES ASSUME NEW k \in 1 .. Len(list')
                   PROVE  due'[list'[k].h] + waited' <= Expiry(list', k)
      BY DEF Late
    <3>2. CASE list'[k].h = h /\ Expiry(list', k) = m
      BY <1>1, <2>5, <3>2, U32Nat
    <3>3. CASE \E i \in 1 .. Len(list) : list'[k].h = list[i].h /\ Expiry(list', k) = Expiry(list, i)
      <4>1. PICK i \in 1 .. Len(list) : list'[k].h = list[i].h /\ Expiry(list', k) = Expiry(list, i)
        BY <3>3
      <4>2. list[i].h \in Handlers /\ list[i].h # h
        BY <1>1, EntryTypes DEF Armed
      <4>3. due'[list[i].h] = due[list[i].h]
        BY <2>5, <4>2
      <4>4. due[list[i].h] + waited <= Expiry(list, i)
        BY DEF TimersInv, Late
      <4> QED BY <4>1, <4>3, <4>4
    <3> QED BY <2>2, <3>2, <3>3 DEF Added
  <2>7. Kept(list, list')
    <3>1. SUFFICES ASSUME NEW i \in 1 .. Len(list), NEW k \in 1 .. Len(list'), list[i].h = list'[k].h
                   PROVE  Expiry(list, i) = Expiry(list', k)
      BY DEF Kept
    <3>2. list'[k].h # h
      BY <3>1 DEF Armed
    <3>3. PICK j \in 1 .. Len(list) : list'[k].h = list[j].h /\ Expiry(list', k) = Expiry(list, j)
      BY <2>2, <3>2 DEF Added
    <3>4. i = j
      BY <1>1, <3>1, <3>3 DEF Unique
    <3> QED BY <3>3, <3>4
  <2> QED BY <2>1, <2>3, <2>4, <2>5, <2>6, <2>7 DEF InShape
<1> QED
  BY <1>2, <1>3

-----------------------------------------------------------------------------
(* The actions preserve it *)

\* A step that leaves the list and the handlers' times alone, outside of waits.
LEMMA QuietStep ==
  ASSUME TimersInv, list' = list, due' = due, aborted' = aborted, running' = running,
         tcp_active' = tcp_active, backlog' \in 0 .. MaxBacklog,
         pc' = pc \/ (pc # "handler" /\ pc' \in {"again", "wait", "message"}),
         waited' = 0 \/ (pc' = pc /\ waited' = waited),
         pcbs' = pcbs \/ pcbs' = FALSE
  PROVE  TimersInv' /\ Kept(list, list')
<1>1. Types'
  <2>1. waited' \in Nat /\ pc' \in {"again", "wait", "handler", "message"}
    BY DEF TimersInv, Types
  <2>2. tcp_active' \in BOOLEAN /\ pcbs' \in BOOLEAN
    BY Zenon DEF TimersInv, Types
  <2> QED BY <2>1, <2>2 DEF TimersInv, Types
<1>2. InShape'
  BY DEF TimersInv, InShape
<1>3. Waiting'
  <2>1. list # << >> => list[1].t \in Nat
    <3>1. list # << >> => 1 \in 1 .. Len(list)
      BY DEF TimersInv, Types, Lists
    <3> QED BY <3>1, EntryTypes DEF TimersInv, Types
  <2> QED BY <2>1 DEF TimersInv, Waiting
<1>4. Late'
  <2>1. SUFFICES ASSUME NEW i \in 1 .. Len(list)
                 PROVE  due[list[i].h] + waited' <= Expiry(list, i)
    BY DEF Late
  <2>2. due[list[i].h] + waited <= Expiry(list, i)
    BY DEF TimersInv, Late
  <2>3. list \in Lists /\ due \in [Handlers -> Nat] /\ waited \in Nat
    BY DEF TimersInv, Types
  <2>4. list[i].h \in Handlers
    BY <2>3, EntryTypes
  <2>5. i \in 0 .. Len(list)
    BY <2>3 DEF Lists
  <2>6. Expiry(list, i) \in Nat
    BY <2>3, <2>5, ExpiryNat
  <2>7. due[list[i].h] \in Nat
    BY <2>3, <2>4
  <2> QED BY <2>2, <2>3, <2>6, <2>7
<1>5. Handling'
  BY DEF TimersInv, Handling
<1>6. CyclicArmed' /\ TcpArmed' /\ PoolTaken'
  BY DEF TimersInv, CyclicArmed, TcpArmed, PoolTaken
<1>7. Kept(list, list')
  BY SameKept DEF TimersInv, Types, InShape
<1> QED
  BY <1>1, <1>2, <1>3, <1>4, <1>5, <1>6, <1>7 DEF TimersInv

LEMMA TickStep ==
  ASSUME TimersInv, Tick
  PROVE  TimersInv' /\ Kept(list, list')
<1>1. /\ list' = list /\ pc' = pc /\ running' = running /\ tcp_active' = tcp_active /\ pcbs' = pcbs
      /\ backlog' = backlog /\ aborted' = aborted
  BY DEF Tick
<1>2. list \in Lists /\ due \in [Handlers -> Nat] /\ waited \in Nat /\ Len(list) \in Nat
  BY DEF TimersInv, Types, Lists
<1>3. \A h \in Handlers : due'[h] = Clip(due[h]) /\ due'[h] \in Nat /\ due'[h] <= due[h] /\ (due[h] > 0 => due'[h] = due[h] - 1)
  <2>1. \A h \in Handlers : due'[h] = Clip(due[h])
    BY DEF Tick
  <2>2. \A n \in Nat : Clip(n) \in Nat /\ Clip(n) <= n /\ (n > 0 => Clip(n) = n - 1)
    BY DEF Clip
  <2> QED BY <1>2, <2>1, <2>2
<1>4. due' \in [Handlers -> Nat]
  BY <1>3 DEF Tick
<1>5. list # << >> => Head(list) = list[1] /\ 1 \in 1 .. Len(list) /\ list[1].t \in Nat
  <2>1. list # << >> => Head(list) = list[1] /\ 1 \in 1 .. Len(list)
    BY <1>2 DEF Lists
  <2> QED BY <1>2, <2>1, EntryTypes
<1>6. \/ waited' = waited
      \/ pc = "wait" /\ list # << >> /\ waited < list[1].t /\ waited' = waited + 1
  BY <1>5 DEF Tick
<1>7. Types'
  BY <1>1, <1>2, <1>4, <1>6 DEF TimersInv, Types
<1>8. InShape' /\ CyclicArmed' /\ TcpArmed' /\ PoolTaken'
  BY <1>1 DEF TimersInv, InShape, CyclicArmed, TcpArmed, PoolTaken
<1>9. Waiting'
  BY <1>1, <1>2, <1>5, <1>6 DEF TimersInv, Waiting
<1>10. Late'
  <2>1. SUFFICES ASSUME NEW i \in 1 .. Len(list)
                 PROVE  due'[list[i].h] + waited' <= Expiry(list, i)
    BY <1>1 DEF Late
  <2>2. due[list[i].h] + waited <= Expiry(list, i)
    BY DEF TimersInv, Late
  <2>3. list[i].h \in Handlers /\ i \in 0 .. Len(list)
    BY <1>2, EntryTypes
  <2>4. Expiry(list, i) \in Nat /\ due[list[i].h] \in Nat
    BY <1>2, <2>3, ExpiryNat
  <2>5. CASE waited' = waited
    BY <1>2, <1>3, <2>2, <2>3, <2>4, <2>5
  <2>6. CASE pc = "wait" /\ list # << >> /\ waited < list[1].t /\ waited' = waited + 1
    <3>1. CASE due[list[i].h] > 0
      BY <1>2, <1>3, <2>2, <2>3, <2>4, <2>6, <3>1
    <3>2. CASE due[list[i].h] = 0
      <4>1. due'[list[i].h] = 0
        BY <1>3, <2>3, <3>2
      <4>2. list[1].t <= Expiry(list, i)
        <5>1. 1 \in 0 .. Len(list) /\ i \in 1 .. Len(list) /\ 1 - 1 = 0
          BY <1>2, <1>5, <2>6
        <5>2. Expiry(list, 1) <= Expiry(list, i)
          BY <1>2, <5>1, ExpiryRises
        <5>3. Expiry(list, 1) = Expiry(list, 1 - 1) + list[1].t /\ Expiry(list, 0) = 0
          BY <1>2, <1>5, <2>6, ExpirySteps
        <5> QED BY <1>5, <2>6, <5>1, <5>2, <5>3
      <4> QED BY <1>2, <1>5, <2>4, <2>6, <4>1, <4>2
    <3> QED BY <2>4, <3>1, <3>2
  <2> QED BY <1>6, <2>5, <2>6
<1>11. Handling'
  <2>1. running \in Handlers /\ due[running] = 0 => due'[running] = 0
    BY <1>2, <1>3
  <2> QED BY <1>1, <2>1 DEF TimersInv, Handling
<1>12. Kept(list, list')
  BY <1>1, SameKept DEF TimersInv, Types, InShape
<1> QED
  BY <1>7, <1>8, <1>9, <1>10, <1>11, <1>12 DEF TimersInv

\* The wait reports its length rounded down, so the head pays no more than was
\* waited.
LEMMA MessageComes ==
  ASSUME TimersInv, GetMessage
  PROVE  TimersInv' /\ (pc \in {"message", "handler"} => Kept(list, list'))
<1>1. /\ due' = due /\ running' = running /\ tcp_active' = tcp_active /\ pcbs' = pcbs /\ aborted' = aborted
      /\ pc' = "message" /\ waited' = 0 /\ backlog' \in 0 .. MaxBacklog /\ pc \in {"again", "wait"}
  <2>1. backlog' = backlog - 1 /\ backlog > 0 /\ backlog \in 0 .. MaxBacklog /\ MaxBacklog \in Nat
    BY TimersAssumption DEF GetMessage, TimersInv, Types
  <2>2. backlog' \in 0 .. MaxBacklog
    BY <2>1
  <2> QED BY <2>2 DEF GetMessage
<1>2. CASE list' = list
  BY <1>1, <1>2, QuietStep
<1>3. ASSUME pc = "wait", list # << >>, NEW n \in {waited, Clip(waited)}, TakeOff(n)
      PROVE  TimersInv'
  <2>1. list \in Lists /\ Len(list) \in Nat /\ waited \in Nat /\ 1 \in 1 .. Len(list) /\ due \in [Handlers -> Nat]
    BY <1>3 DEF TimersInv, Types, Lists
  <2>2. list[1] \in Entries /\ list[1].t \in 0 .. U32 - 1 /\ list[1].t \in Nat
    BY <2>1, EntryTypes
  <2>3. n \in Nat /\ n <= waited /\ n <= list[1].t
    BY <1>3, <2>1, <2>2 DEF Clip, TimersInv, Waiting
  <2> DEFINE u == list[1].t - n
             y == [list[1] EXCEPT !.t = u]
  <2>4. u \in 0 .. U32 - 1 /\ u = IF n < list[1].t THEN list[1].t - n ELSE 0
    BY <2>2, <2>3, U32Nat
  <2>5. y \in Entries /\ y.h = list[1].h /\ y.t = list[1].t - n
    BY <2>2, <2>4 DEF Entries
  <2>6. list' = [list EXCEPT ![1] = y]
    <3>1. list' = [list EXCEPT ![1].t = IF n < @ THEN @ - n ELSE 0]
      BY <1>3 DEF TakeOff
    <3> QED BY <2>4, <3>1
  <2> HIDE DEF u, y
  <2>7. list' \in Lists /\ Len(list') = Len(list) /\ list'[1] = y /\ \A k \in 1 .. Len(list) : k # 1 => list'[k] = list[k]
    BY <2>1, <2>5, <2>6 DEF Lists
  <2>8. \A k \in 1 .. Len(list) : list'[k].h = list[k].h /\ Expiry(list', k) = Expiry(list, k) - n
    <3>1. list'[1].h = list[1].h /\ list'[1].t = list[1].t - n
      BY <2>5, <2>7
    <3>2. \A l2 \in Lists : Len(l2) = Len(list) /\ l2[1].h = list[1].h /\ l2[1].t = list[1].t - n
                              /\ (\A k \in 1 .. Len(list) : k # 1 => l2[k] = list[k])
             => \A k \in 1 .. Len(list) : l2[k].h = list[k].h /\ Expiry(l2, k) = Expiry(list, k) - n
      BY <1>3, <2>1, <2>3, TakenOff
    <3> QED BY <2>7, <3>1, <3>2
  <2>9. \A k \in 1 .. Len(list) : Expiry(list, k) \in Nat /\ list[k].h \in Handlers
    <3>1. \A k \in 1 .. Len(list) : k \in 0 .. Len(list)
      BY <2>1
    <3> QED BY <2>1, <3>1, ExpiryNat, EntryTypes
  <2>10. Types'
    BY <1>1, <2>7 DEF TimersInv, Types
  <2>11. InShape'
    <3>1. Unique(list')
      BY <2>7, <2>8 DEF TimersInv, InShape, Unique
    <3>2. ASSUME NEW k \in 1 .. Len(list') PROVE Expiry(list', k) < U32
      <4>1. Expiry(list, k) < U32
        BY <2>7 DEF TimersInv, InShape, Near
      <4> QED BY <2>3, <2>7, <2>8, <2>9, <4>1, U32Nat
    <3> QED BY <3>1, <3>2 DEF InShape, Near
  <2>12. Waiting'
    <3>1. list' # << >> /\ list'[1].t \in Nat
      <4>1. list' # << >>
        BY <2>1, <2>7 DEF Lists
      <4>2. 1 \in 1 .. Len(list')
        BY <2>1, <2>7
      <4> QED BY <2>7, <4>1, <4>2, EntryTypes
    <3> QED BY <1>1, <3>1 DEF Waiting
  <2>13. Late'
    <3>1. SUFFICES ASSUME NEW k \in 1 .. Len(list') PROVE due'[list'[k].h] + waited' <= Expiry(list', k)
      BY DEF Late
    <3>2. due[list[k].h] + waited <= Expiry(list, k)
      BY <2>7 DEF TimersInv, Late
    <3>3. due[list[k].h] \in Nat
      BY <2>1, <2>7, <2>9
    <3>4. Expiry(list', k) = Expiry(list, k) - n /\ list'[k].h = list[k].h /\ Expiry(list, k) \in Nat
      BY <2>7, <2>8, <2>9
    <3> QED BY SMTT(30), <1>1, <2>1, <2>3, <3>2, <3>3, <3>4
  <2>14. \A g : Armed(list', g) <=> Armed(list, g)
    BY <2>7, <2>8 DEF Armed
  <2>15. Handling' /\ CyclicArmed' /\ TcpArmed' /\ PoolTaken'
    BY <1>1, <2>14 DEF TimersInv, Handling, CyclicArmed, TcpArmed, PoolTaken
  <2> QED BY <2>10, <2>11, <2>12, <2>13, <2>15 DEF TimersInv
<1> QED
  BY <1>1, <1>2, <1>3 DEF GetMessage

\* The head fires when the wait has lasted as long as it was listed for.
LEMMA FireStep ==
  ASSUME TimersInv, Fire, aborted = "none"
  PROVE  TimersInv' /\ pc \notin {"message", "handler"}
<1> DEFINE h == list[1].h
<1>1. list \in Lists /\ Len(list) \in Nat /\ 1 \in 1 .. Len(list) /\ Head(list) = list[1] /\ list # << >>
  BY DEF Fire, TimersInv, Types, Lists
<1>2. /\ list' = Tail(list) /\ running' = h /\ pc' = "handler" /\ waited' = 0 /\ pc \in {"again", "wait"}
      /\ due' = due /\ tcp_active' = tcp_active /\ pcbs' = pcbs /\ backlog' = backlog /\ aborted' = "none"
  BY <1>1 DEF Fire
<1>3. list[1].t \in Nat /\ h \in Handlers /\ due \in [Handlers -> Nat] /\ waited \in Nat
  BY <1>1, EntryTypes DEF TimersInv, Types
<1>4. waited = list[1].t
  <2>1. pc = "again" => waited = 0 /\ list[1].t = 0
    BY <1>1 DEF Fire, TimersInv, Waiting
  <2>2. pc = "wait" => waited >= list[1].t /\ waited <= list[1].t
    BY <1>1 DEF Fire, TimersInv, Waiting
  <2> QED BY <1>2, <1>3, <2>1, <2>2
<1>5. /\ list' \in Lists /\ Len(list') = Len(list) - 1
      /\ \A k \in 1 .. Len(list) - 1 : list'[k].h = list[k + 1].h /\ Expiry(list', k) = Expiry(list, k + 1) - list[1].t
  BY <1>1, <1>2, TailExpiry
<1>6. \A k \in 1 .. Len(list') : /\ k + 1 \in 1 .. Len(list) /\ k + 1 # 1 /\ list'[k].h = list[k + 1].h
                                  /\ Expiry(list', k) = Expiry(list, k + 1) - list[1].t
                                  /\ Expiry(list, k + 1) \in Nat /\ due[list[k + 1].h] \in Nat
  <2>1. SUFFICES ASSUME NEW k \in 1 .. Len(list')
                 PROVE  /\ k + 1 \in 1 .. Len(list) /\ k + 1 # 1 /\ list'[k].h = list[k + 1].h
                        /\ Expiry(list', k) = Expiry(list, k + 1) - list[1].t
                        /\ Expiry(list, k + 1) \in Nat /\ due[list[k + 1].h] \in Nat
    OBVIOUS
  <2>2. k \in 1 .. Len(list) - 1 /\ k + 1 \in 1 .. Len(list) /\ k + 1 \in 0 .. Len(list) /\ k + 1 # 1
    BY <1>1, <1>5
  <2>3. list[k + 1].h \in Handlers /\ Expiry(list, k + 1) \in Nat
    BY <1>1, <2>2, EntryTypes, ExpiryNat
  <2> QED BY <1>3, <1>5, <2>2, <2>3
<1>7. \A g : Armed(list', g) <=> (Armed(list, g) /\ g # h)
  <2>1. ASSUME NEW g, Armed(list', g) PROVE Armed(list, g) /\ g # h
    <3>1. PICK k \in 1 .. Len(list') : list'[k].h = g
      BY <2>1 DEF Armed
    <3>2. k + 1 \in 1 .. Len(list) /\ k + 1 # 1 /\ list[k + 1].h = g
      BY <1>6, <3>1
    <3>3. list[k + 1].h # list[1].h
      BY <1>1, <3>2 DEF TimersInv, InShape, Unique
    <3> QED BY <3>2, <3>3 DEF Armed
  <2>2. ASSUME NEW g, Armed(list, g), g # h PROVE Armed(list', g)
    <3>1. PICK i \in 1 .. Len(list) : list[i].h = g
      BY <2>2 DEF Armed
    <3>2. i # 1
      BY <2>2, <3>1
    <3>3. i - 1 \in 1 .. Len(list') /\ (i - 1) + 1 = i
      BY <1>1, <1>5, <3>2
    <3>4. list'[i - 1].h = g
      BY <1>6, <3>1, <3>3
    <3> QED BY <3>3, <3>4 DEF Armed
  <2> QED BY <2>1, <2>2
<1>8. Types'
  <2>1. Len(list') <= PoolSize
    BY <1>1, <1>5, TimersAssumption DEF TimersInv, Types
  <2> QED BY <1>2, <1>5, <2>1 DEF TimersInv, Types
<1>9. InShape'
  <2>1. Unique(list')
    <3>1. SUFFICES ASSUME NEW i \in 1 .. Len(list'), NEW k \in 1 .. Len(list'), list'[i].h = list'[k].h PROVE i = k
      BY DEF Unique
    <3>2. i + 1 = k + 1
      BY <1>6, <3>1 DEF TimersInv, InShape, Unique
    <3> QED BY <1>1, <1>5, <3>2
  <2>2. ASSUME NEW k \in 1 .. Len(list') PROVE Expiry(list', k) < U32
    <3>1. Expiry(list, k + 1) < U32
      BY <1>6 DEF TimersInv, InShape, Near
    <3> QED BY <1>3, <1>6, <3>1, U32Nat
  <2> QED BY <2>1, <2>2 DEF InShape, Near
<1>10. Waiting'
  <2>1. list' # << >> => list'[1].t \in Nat
    <3>1. list' # << >> => 1 \in 1 .. Len(list')
      BY <1>5 DEF Lists
    <3> QED BY <1>5, <3>1, EntryTypes
  <2> QED BY <1>2, <2>1 DEF Waiting
<1>11. Late'
  <2>1. SUFFICES ASSUME NEW k \in 1 .. Len(list') PROVE due[list'[k].h] + 0 <= Expiry(list', k)
    BY <1>2 DEF Late
  <2>2. due[list[k + 1].h] + waited <= Expiry(list, k + 1)
    BY <1>6 DEF TimersInv, Late
  <2>3. /\ list'[k].h = list[k + 1].h /\ Expiry(list', k) = Expiry(list, k + 1) - list[1].t
        /\ Expiry(list, k + 1) \in Nat /\ due[list[k + 1].h] \in Nat
    BY <1>6
  <2> QED BY SMTT(30), <1>3, <1>4, <2>2, <2>3
<1>12. due[h] = 0
  <2>1. due[h] + waited <= Expiry(list, 1)
    BY <1>1 DEF TimersInv, Late
  <2>2. Expiry(list, 1) = list[1].t
    <3>1. Expiry(list, 1) = Expiry(list, 1 - 1) + list[1].t /\ Expiry(list, 0) = 0
      BY <1>1, ExpirySteps
    <3> QED BY <1>3, <3>1
  <2>3. due[h] \in Nat
    BY <1>3
  <2> QED BY <1>3, <1>4, <2>1, <2>2, <2>3
<1>13. Handling'
  BY <1>2, <1>3, <1>7, <1>12 DEF Handling
<1>14. Armed(list, h) /\ running = "none"
  BY <1>1, <1>2 DEF Armed, TimersInv, Handling
<1>15. CyclicArmed'
  <2>1. \A g \in Cyclic : Armed(list, g)
    BY <1>14, HandlerSets DEF TimersInv, CyclicArmed
  <2> QED BY <1>2, <1>7, <2>1 DEF CyclicArmed
<1>16. TcpArmed'
  <2>1. (tcp_active <=> Armed(list, Tcp)) /\ (pcbs => tcp_active)
    BY <1>14, HandlerSets DEF TimersInv, TcpArmed
  <2>2. Armed(list, Tcp) <=> (Armed(list', Tcp) \/ running' = Tcp)
    BY <1>2, <1>7, <1>14
  <2> QED BY <1>2, <2>1, <2>2 DEF TcpArmed
<1>17. PoolTaken'
  BY <1>2, HandlerSets DEF PoolTaken
<1> QED
  BY <1>2, <1>8, <1>9, <1>10, <1>11, <1>13, <1>15, <1>16, <1>17 DEF TimersInv

\* The handlers and messages that arm a timeout, with what they do besides.
LEMMA ArmStep ==
  ASSUME TimersInv, aborted = "none", pc \in {"message", "handler"},
         NEW h \in Handlers, ~Armed(list, h), NEW m \in 0 .. U32 - 1, sys_timeout(m, h),
         pc' = "again", running' = "none", waited' = waited, backlog' = backlog,
         tcp_active' \in BOOLEAN, pcbs' \in BOOLEAN,
         \A g \in Cyclic : g = h \/ Armed(list, g),
         tcp_active' <=> (h = Tcp \/ Armed(list, Tcp)), pcbs' => tcp_active'
  PROVE  TimersInv' /\ Kept(list, list')
<1>1. /\ list' \in Lists /\ Len(list') <= PoolSize /\ due' \in [Handlers -> Nat]
      /\ InShape' /\ Late' /\ Kept(list, list')
      /\ \/ aborted' = "none" /\ \A g : Armed(list', g) <=> (g = h \/ Armed(list, g))
         \/ /\ aborted' = h /\ list' = list
            /\ h \in Cyclic \cup {Tcp} => \E g \in App : Armed(list, g)
  BY TimeoutStep
<1>2. waited' = 0
  BY DEF TimersInv, Waiting
<1>3. Types'
  BY <1>1, <1>2 DEF TimersInv, Types
<1>4. Waiting'
  <2>1. list' # << >> => list'[1].t \in Nat
    <3>1. list' # << >> => 1 \in 1 .. Len(list')
      BY <1>1 DEF Lists
    <3> QED BY <1>1, <3>1, EntryTypes
  <2> QED BY <1>2, <2>1 DEF Waiting
<1>5. Handling'
  BY DEF Handling
<1>6. CASE aborted' = "none" /\ \A g : Armed(list', g) <=> (g = h \/ Armed(list, g))
  <2>1. CyclicArmed'
    BY <1>6, HandlerSets DEF CyclicArmed
  <2>2. TcpArmed'
    BY <1>6, HandlerSets DEF TcpArmed
  <2>3. PoolTaken'
    BY <1>6, HandlerSets DEF PoolTaken
  <2> QED BY <1>1, <1>3, <1>4, <1>5, <2>1, <2>2, <2>3 DEF TimersInv
<1>7. CASE /\ aborted' = h /\ list' = list
           /\ h \in Cyclic \cup {Tcp} => \E g \in App : Armed(list, g)
  <2>1. aborted' # "none"
    BY <1>7, HandlerSets
  <2>2. CyclicArmed' /\ TcpArmed'
    BY <2>1 DEF CyclicArmed, TcpArmed
  <2>3. PoolTaken'
    BY <1>7 DEF PoolTaken
  <2> QED BY <1>1, <1>3, <1>4, <1>5, <2>2, <2>3 DEF TimersInv
<1> QED
  BY <1>1, <1>6, <1>7

\* A handler or message that arms nothing.
LEMMA NoArmStep ==
  ASSUME TimersInv, aborted = "none", pc \in {"message", "handler"},
         list' = list, due' = due, aborted' = aborted, pc' = "again", running' = "none",
         waited' = waited, backlog' = backlog, tcp_active' \in BOOLEAN, pcbs' \in BOOLEAN,
         \A g \in Cyclic : Armed(list, g),
         tcp_active' <=> Armed(list, Tcp), pcbs' => tcp_active'
  PROVE  TimersInv' /\ Kept(list, list')
<1>1. Types'
  BY DEF TimersInv, Types
<1>2. InShape' /\ Late'
  BY DEF TimersInv, InShape, Late
<1>3. Waiting'
  BY DEF TimersInv, Waiting
<1>4. Handling'
  BY DEF Handling
<1>5. CyclicArmed' /\ TcpArmed' /\ PoolTaken'
  BY HandlerSets DEF CyclicArmed, TcpArmed, PoolTaken
<1>6. Kept(list, list')
  BY SameKept DEF TimersInv, Types, InShape
<1> QED
  BY <1>1, <1>2, <1>3, <1>4, <1>5, <1>6 DEF TimersInv

LEMMA UntimeoutStep ==
  ASSUME TimersInv, aborted = "none", NEW h \in App, AppUntimeout(h)
  PROVE  TimersInv' /\ Kept(list, list')
<1>1. /\ pc = "message" /\ pc' = "again" /\ waited' = waited /\ running' = running /\ backlog' = backlog
      /\ list' = WithoutTimeout(list, h) /\ due' = [due EXCEPT ![h] = 0]
      /\ tcp_active' = tcp_active /\ pcbs' = pcbs /\ aborted' = aborted
  BY DEF AppUntimeout, MessageDone
<1>2. /\ list \in Lists /\ Unique(list) /\ Near(list) /\ Len(list) <= PoolSize /\ Len(list) \in Nat
      /\ due \in [Handlers -> Nat] /\ waited = 0 /\ running = "none" /\ h \in Handlers
  BY <1>1, HandlerSets DEF TimersInv, Types, InShape, Waiting, Handling, Lists
<1>3. Dropped(list, h, list')
  BY <1>1, <1>2, UntimeoutDrops
<1>4. /\ list' \in Lists /\ Len(list') <= Len(list) /\ Unique(list') /\ Near(list')
      /\ \A g : Armed(list', g) <=> (g # h /\ Armed(list, g))
  BY <1>3 DEF Dropped
<1>5. due' \in [Handlers -> Nat] /\ \A g \in Handlers : due'[g] <= due[g] /\ due'[g] \in Nat
  BY <1>1, <1>2
<1>6. Types'
  <2>1. Len(list') <= PoolSize
    <3>1. Len(list') \in Nat /\ PoolSize \in Nat
      BY <1>4, TimersAssumption DEF Lists
    <3> QED BY <1>2, <1>4, <3>1
  <2> QED BY <1>1, <1>2, <1>4, <1>5, <2>1 DEF TimersInv, Types
<1>7. InShape'
  BY <1>4 DEF InShape
<1>8. Waiting'
  <2>1. list' # << >> => list'[1].t \in Nat
    <3>1. list' # << >> => 1 \in 1 .. Len(list')
      BY <1>4 DEF Lists
    <3> QED BY <1>4, <3>1, EntryTypes
  <2> QED BY <1>1, <1>2, <2>1 DEF Waiting
<1>9. Late'
  <2>1. SUFFICES ASSUME NEW k \in 1 .. Len(list') PROVE due'[list'[k].h] + waited' <= Expiry(list', k)
    BY DEF Late
  <2>2. PICK i \in 1 .. Len(list) : list'[k].h = list[i].h /\ Expiry(list', k) = Expiry(list, i)
    BY <1>3 DEF Dropped
  <2>3. due[list[i].h] + waited <= Expiry(list, i)
    BY DEF TimersInv, Late
  <2>4. list[i].h \in Handlers /\ i \in 0 .. Len(list)
    BY <1>2, EntryTypes
  <2>5. Expiry(list, i) \in Nat /\ due[list[i].h] \in Nat /\ due'[list[i].h] <= due[list[i].h] /\ due'[list[i].h] \in Nat
    BY <1>2, <1>5, <2>4, ExpiryNat
  <2> QED BY <1>1, <1>2, <2>2, <2>3, <2>5
<1>10. Handling'
  BY <1>1, <1>2 DEF Handling
<1>11. CyclicArmed' /\ TcpArmed' /\ PoolTaken'
  BY <1>1, <1>2, <1>4, HandlerSets DEF TimersInv, CyclicArmed, TcpArmed, PoolTaken
<1>12. Kept(list, list')
  <2>1. SUFFICES ASSUME NEW i \in 1 .. Len(list), NEW k \in 1 .. Len(list'), list[i].h = list'[k].h
                 PROVE  Expiry(list, i) = Expiry(list', k)
    BY DEF Kept
  <2>2. PICK j \in 1 .. Len(list) : list'[k].h = list[j].h /\ Expiry(list', k) = Expiry(list, j)
    BY <1>3 DEF Dropped
  <2>3. i = j
    BY <1>2, <2>1, <2>2 DEF Unique
  <2> QED BY <2>2, <2>3
<1> QED
  BY <1>6, <1>7, <1>8, <1>9, <1>10, <1>11, <1>12 DEF TimersInv

\* Every step preserves the invariant, and sys_timeout and sys_untimeout move
\* nothing else.
LEMMA TimersStep ==
  ASSUME TimersInv, [Next]_vars
  PROVE  TimersInv' /\ (pc \in {"message", "handler"} => Kept(list, list'))
<1>1. CASE UNCHANGED vars
  <2>1. waited \in Nat /\ backlog \in 0 .. MaxBacklog
    BY DEF TimersInv, Types
  <2> QED BY <1>1, <2>1, QuietStep DEF vars
<1> SUFFICES ASSUME aborted = "none", Tick \/ Post \/ WaitAgain \/ ThreadStep
             PROVE  TimersInv' /\ (pc \in {"message", "handler"} => Kept(list, list'))
  BY <1>1 DEF Next
<1>2. /\ backlog \in 0 .. MaxBacklog /\ MaxBacklog \in Nat /\ tcp_active \in BOOLEAN /\ pcbs \in BOOLEAN
      /\ list \in Lists /\ Interval \in [Cyclic \cup {Tcp} -> 1 .. U32 - 1]
  BY TimersAssumption DEF TimersInv, Types
<1>3. pc # "handler" => running = "none" /\ (\A g \in Cyclic : Armed(list, g)) /\ (tcp_active <=> Armed(list, Tcp))
  <2>1. pc # "handler" => running = "none"
    BY DEF TimersInv, Handling
  <2>2. \A g \in Cyclic : running # g <=> Armed(list, g)
    BY DEF TimersInv, CyclicArmed
  <2>3. tcp_active <=> (Armed(list, Tcp) \/ running = Tcp)
    BY DEF TimersInv, TcpArmed
  <2> QED BY <2>1, <2>2, <2>3, HandlerSets
<1>4. pcbs => tcp_active
  BY DEF TimersInv, TcpArmed
<1>5. pc = "handler" => ~Armed(list, running)
  BY DEF TimersInv, Handling
<1>6. \A h \in Cyclic \cup {Tcp} : Interval[h] \in 0 .. U32 - 1
  BY <1>2, U32Nat
<1>7. CASE Tick
  BY <1>7, TickStep
<1>8. CASE Post
  <2>1. backlog' \in 0 .. MaxBacklog
    BY <1>2, <1>8 DEF Post
  <2> QED BY <1>8, <2>1, QuietStep DEF Post
<1>9. CASE WaitAgain
  BY <1>2, <1>9, QuietStep DEF WaitAgain
<1>10. CASE BeginWait
  <2>1. pc = "again" /\ pc' = "wait" /\ waited' = 0
    BY <1>10 DEF BeginWait
  <2> QED BY <1>2, <1>10, <2>1, QuietStep DEF BeginWait
<1>11. CASE GetMessage
  BY <1>11, MessageComes
<1>12. CASE Fire
  BY <1>12, FireStep
<1>13. CASE CyclicTimer
  <2>1. /\ pc = "handler" /\ running \in Cyclic /\ sys_timeout(Interval[running], running)
        /\ pc' = "again" /\ running' = "none" /\ waited' = waited /\ backlog' = backlog
        /\ tcp_active' = tcp_active /\ pcbs' = pcbs
    BY <1>13 DEF CyclicTimer
  <2>2. running \in Handlers /\ ~Armed(list, running) /\ Interval[running] \in 0 .. U32 - 1 /\ running # Tcp
    BY <1>5, <1>6, <2>1, HandlerSets
  <2>3. \A g \in Cyclic : g = running \/ Armed(list, g)
    BY DEF TimersInv, CyclicArmed
  <2>4. tcp_active' <=> (running = Tcp \/ Armed(list, Tcp))
    BY <2>1 DEF TimersInv, TcpArmed
  <2>5. tcp_active' \in BOOLEAN /\ pcbs' \in BOOLEAN /\ (pcbs' => tcp_active')
    BY <1>2, <1>4, <2>1
  <2> QED BY <2>1, <2>2, <2>3, <2>4, <2>5, ArmStep
<1>14. CASE tcpip_tcp_timer
  <2>1. /\ pc = "handler" /\ running = Tcp /\ pcbs' \in {pcbs, FALSE}
        /\ pc' = "again" /\ running' = "none" /\ waited' = waited /\ backlog' = backlog
    BY <1>14 DEF tcpip_tcp_timer
  <2>2. ~Armed(list, Tcp) /\ \A g \in Cyclic : Armed(list, g)
    BY <1>5, <2>1, HandlerSets DEF TimersInv, CyclicArmed
  <2>3. pcbs' \in BOOLEAN
    BY <1>2, <2>1
  <2>4. CASE pcbs'
    <3>1. sys_timeout(Interval[Tcp], Tcp) /\ tcp_active' = tcp_active
      BY <1>14, <2>4 DEF tcpip_tcp_timer
    <3>2. tcp_active
      BY <2>1 DEF TimersInv, TcpArmed
    <3>3. Tcp \in Handlers /\ Interval[Tcp] \in 0 .. U32 - 1
      BY <1>6, HandlerSets
    <3>4. tcp_active' \in BOOLEAN /\ (tcp_active' <=> (Tcp = Tcp \/ Armed(list, Tcp))) /\ (pcbs' => tcp_active')
      BY <1>2, <3>1, <3>2
    <3>5. \A g \in Cyclic : g = Tcp \/ Armed(list, g)
      BY <2>2
    <3> QED BY <2>1, <2>2, <2>3, <3>1, <3>3, <3>4, <3>5, ArmStep
  <2>5. CASE ~pcbs'
    <3>1. tcp_active' = FALSE /\ list' = list /\ due' = due /\ aborted' = aborted
      BY <1>14, <2>5 DEF tcpip_tcp_timer
    <3>2. tcp_active' \in BOOLEAN /\ (tcp_active' <=> Armed(list, Tcp)) /\ (pcbs' => tcp_active')
      BY <2>2, <2>5, <3>1
    <3> QED BY <2>1, <2>2, <2>3, <3>1, <3>2, NoArmStep
  <2> QED BY <2>4, <2>5
<1>15. CASE AppTimer
  <2>1. /\ pc = "handler" /\ running \in App
        /\ pc' = "again" /\ running' = "none" /\ waited' = waited /\ backlog' = backlog
        /\ list' = list /\ due' = due /\ tcp_active' = tcp_active /\ pcbs' = pcbs /\ aborted' = aborted
    BY <1>15 DEF AppTimer
  <2>2. running \notin Cyclic /\ running # Tcp
    BY <2>1, HandlerSets
  <2>3. \A g \in Cyclic : Armed(list, g)
    BY <2>2 DEF TimersInv, CyclicArmed
  <2>4. tcp_active' <=> Armed(list, Tcp)
    BY <2>1, <2>2 DEF TimersInv, TcpArmed
  <2>5. tcp_active' \in BOOLEAN /\ pcbs' \in BOOLEAN /\ (pcbs' => tcp_active')
    BY <1>2, <1>4, <2>1
  <2> QED BY <2>1, <2>3, <2>4, <2>5, NoArmStep
<1>16. ASSUME MessageDone
       PROVE  /\ pc = "message" /\ pc' = "again" /\ waited' = waited /\ backlog' = backlog /\ running' = "none"
              /\ (\A g \in Cyclic : Armed(list, g)) /\ (tcp_active <=> Armed(list, Tcp))
  BY <1>3, <1>16 DEF MessageDone
<1>17. CASE PlainMessage
  <2>1. MessageDone /\ list' = list /\ due' = due /\ tcp_active' = tcp_active /\ pcbs' = pcbs /\ aborted' = aborted
    BY <1>17 DEF PlainMessage
  <2>2. tcp_active' \in BOOLEAN /\ pcbs' \in BOOLEAN /\ (pcbs' => tcp_active') /\ (tcp_active' <=> Armed(list, Tcp))
    BY <1>2, <1>4, <1>16, <2>1
  <2> QED BY <1>16, <2>1, <2>2, NoArmStep
<1>18. CASE RegisterPcb
  <2>1. MessageDone /\ pcbs' = TRUE /\ tcp_timer_needed
    BY <1>18 DEF RegisterPcb
  <2>2. CASE ~tcp_active
    <3>1. tcp_active' = TRUE /\ sys_timeout(Interval[Tcp], Tcp)
      BY <2>1, <2>2 DEF tcp_timer_needed
    <3>2. Tcp \in Handlers /\ Interval[Tcp] \in 0 .. U32 - 1 /\ ~Armed(list, Tcp)
      BY <1>6, <1>16, <2>1, <2>2, HandlerSets
    <3>3. /\ tcp_active' \in BOOLEAN /\ pcbs' \in BOOLEAN
          /\ (tcp_active' <=> (Tcp = Tcp \/ Armed(list, Tcp))) /\ (pcbs' => tcp_active')
      BY <2>1, <3>1
    <3>4. \A g \in Cyclic : g = Tcp \/ Armed(list, g)
      BY <1>16, <2>1
    <3> QED BY <1>16, <2>1, <3>1, <3>2, <3>3, <3>4, ArmStep
  <2>3. CASE tcp_active
    <3>1. tcp_active' = tcp_active /\ list' = list /\ due' = due /\ aborted' = aborted
      BY <2>1, <2>3 DEF tcp_timer_needed
    <3>2. tcp_active' \in BOOLEAN /\ pcbs' \in BOOLEAN /\ (pcbs' => tcp_active') /\ (tcp_active' <=> Armed(list, Tcp))
      BY <1>2, <1>16, <2>1, <2>3, <3>1
    <3> QED BY <1>16, <2>1, <3>1, <3>2, NoArmStep
  <2> QED BY <2>2, <2>3
<1>19. CASE RemoveLastPcb
  <2>1. MessageDone /\ pcbs' = FALSE /\ list' = list /\ due' = due /\ tcp_active' = tcp_active /\ aborted' = aborted
    BY <1>19 DEF RemoveLastPcb
  <2>2. tcp_active' \in BOOLEAN /\ pcbs' \in BOOLEAN /\ (pcbs' => tcp_active') /\ (tcp_active' <=> Armed(list, Tcp))
    BY <1>2, <1>16, <2>1
  <2> QED BY <1>16, <2>1, <2>2, NoArmStep
<1>20. ASSUME NEW h \in App, NEW msecs \in AppMsecs, AppTimeout(h, msecs)
       PROVE  TimersInv' /\ Kept(list, list')
  <2>1. MessageDone /\ Find(list, h) = 0 /\ sys_timeout(msecs, h) /\ tcp_active' = tcp_active /\ pcbs' = pcbs
    BY <1>20 DEF AppTimeout
  <2>2. h \in Handlers /\ ~Armed(list, h) /\ h # Tcp
    BY <1>2, <2>1, HandlerSets, FindArmed
  <2>3. msecs \in 0 .. U32 - 1
    BY TimersAssumption
  <2>4. /\ tcp_active' \in BOOLEAN /\ pcbs' \in BOOLEAN /\ (pcbs' => tcp_active')
        /\ (tcp_active' <=> (h = Tcp \/ Armed(list, Tcp)))
    BY <1>2, <1>4, <1>16, <2>1, <2>2
  <2>5. \A g \in Cyclic : g = h \/ Armed(list, g)
    BY <1>16, <2>1
  <2> QED BY <1>16, <2>1, <2>2, <2>3, <2>4, <2>5, ArmStep
<1>21. ASSUME NEW h \in App, AppUntimeout(h) PROVE TimersInv' /\ Kept(list, list')
  BY <1>21, UntimeoutStep
<1> QED
  BY <1>7, <1>8, <1>9, <1>10, <1>11, <1>12, <1>13, <1>14, <1>15, <1>17, <1>18, <1>19, <1>20, <1>21
     DEF ThreadStep, HandlerStep, MessageStep

-----------------------------------------------------------------------------
(* Initially *)

\* sys_timeouts_init arms every cyclic timer once, at its interval.
LEMMA AllArmed ==
  /\ sys_timeouts_init \in Lists /\ Len(sys_timeouts_init) = Len(InitOrder)
  /\ Unique(sys_timeouts_init) /\ Near(sys_timeouts_init)
  /\ \A g : Armed(sys_timeouts_init, g) <=> g \in Cyclic
  /\ \A k \in 1 .. Len(sys_timeouts_init) :
       Expiry(sys_timeouts_init, k) = Interval[sys_timeouts_init[k].h]
<1> DEFINE N == Len(InitOrder)
           W(l, n) == WithTimeout(l, Interval[InitOrder[n]], InitOrder[n])
           Upto(m, f) == f = [n \in 0 .. m |-> IF n = 0 THEN << >> ELSE W(f[n - 1], n)]
           a == CHOOSE f : Upto(N, f)
<1>1. N \in Nat /\ DOMAIN InitOrder = 1 .. N
  BY TimersAssumption
<1>2. \A n \in 1 .. N : InitOrder[n] \in Cyclic /\ InitOrder[n] \in Handlers /\ Interval[InitOrder[n]] \in 0 .. U32 - 1
  BY TimersAssumption, HandlerSets, U32Nat
<1>3. \A n, k \in 1 .. N : InitOrder[n] = InitOrder[k] => n = k
  BY <1>1, TimersAssumption
<1>4. sys_timeouts_init = a[N]
  BY DEF sys_timeouts_init
<1>5. Upto(N, a)
  <2> DEFINE S == {m \in Nat : m <= N => \E f : Upto(m, f)}
  <2> HIDE DEF N, W
  <2>1. 0 \in S
    <3> DEFINE f == [n \in 0 .. 0 |-> << >>]
    <3>1. Upto(0, f)
      OBVIOUS
    <3> QED BY <3>1
  <2>2. ASSUME NEW m \in S PROVE m + 1 \in S
    <3>1. SUFFICES ASSUME m + 1 <= N PROVE \E f : Upto(m + 1, f)
      OBVIOUS
    <3>2. PICK f : Upto(m, f)
      BY <1>1, <2>2, <3>1
    <3> DEFINE g == [n \in 0 .. m + 1 |-> IF n = m + 1 THEN W(f[m], n) ELSE f[n]]
    <3>3. ASSUME NEW n \in 0 .. m + 1 PROVE g[n] = IF n = 0 THEN << >> ELSE W(g[n - 1], n)
      BY <3>2, <3>3
    <3>4. Upto(m + 1, g)
      BY <3>3
    <3> QED BY <3>4
  <2>3. S \subseteq Nat
    OBVIOUS
  <2>4. \A m \in S : m + 1 \in S
    BY <2>2
  <2>5. Nat \subseteq S
    <3> HIDE DEF S
    <3> QED BY <2>1, <2>3, <2>4, NatSet
  <2>6. \E f : Upto(N, f)
    BY <1>1, <2>5
  <2> QED BY <2>6
<1> HIDE DEF a, W, N
<1>6. a[0] = << >> /\ \A n \in 1 .. N : a[n] = W(a[n - 1], n)
  <2>1. a = [n \in 0 .. N |-> IF n = 0 THEN << >> ELSE W(a[n - 1], n)]
    BY <1>5
  <2>2. \A n \in 0 .. N : a[n] = IF n = 0 THEN << >> ELSE W(a[n - 1], n)
    BY <2>1
  <2>3. 0 \in 0 .. N /\ \A n \in 1 .. N : n \in 0 .. N /\ n # 0
    BY <1>1
  <2> QED BY <2>2, <2>3
<1> DEFINE Good(n) ==
             /\ a[n] \in Lists /\ Len(a[n]) = n /\ Unique(a[n]) /\ Near(a[n])
             /\ \A g : Armed(a[n], g) <=> \E i \in 1 .. n : g = InitOrder[i]
             /\ \A k \in 1 .. n : Expiry(a[n], k) = Interval[a[n][k].h]
           S == {n \in Nat : n <= N => Good(n)}
<1>7. 0 \in S
  <2>1. << >> \in Lists /\ Len(<< >>) = 0
    BY DEF Lists
  <2>2. Unique(<< >>) /\ Near(<< >>) /\ \A g : ~Armed(<< >>, g)
    BY DEF Unique, Near, Armed
  <2>3. \A k \in 1 .. 0 : FALSE
    OBVIOUS
  <2>4. Good(0)
    BY <1>6, <2>1, <2>2, <2>3
  <2> QED BY <2>4
<1>8. ASSUME NEW n \in S PROVE n + 1 \in S
  <2>1. SUFFICES ASSUME n + 1 <= N PROVE Good(n + 1)
    OBVIOUS
  <2>2. Good(n) /\ n + 1 \in 1 .. N /\ (n + 1) - 1 = n /\ n \in Nat
    BY <1>1, <2>1
  <2> DEFINE h == InitOrder[n + 1]
             l2 == a[n + 1]
  <2>3. h \in Handlers /\ Interval[h] \in 0 .. U32 - 1
    BY <1>2, <2>2
  <2>4. ~Armed(a[n], h)
    <3>1. ASSUME NEW i \in 1 .. n, h = InitOrder[i] PROVE FALSE
      <4>1. i \in 1 .. N /\ i # n + 1
        BY <1>1, <2>1, <2>2
      <4> QED BY <1>3, <2>2, <3>1, <4>1
    <3> QED BY <2>2, <3>1
  <2>5. l2 = WithTimeout(a[n], Interval[h], h)
    BY <1>6, <2>2 DEF W
  <2>6. Added(a[n], Interval[h], h, l2)
    <3> HIDE DEF h, l2
    <3> QED BY <2>2, <2>3, <2>4, <2>5, TimeoutAdds
  <2> HIDE DEF h, l2
  <2>7. l2 \in Lists /\ Len(l2) = n + 1 /\ Unique(l2) /\ Near(l2) /\ \A g : Armed(l2, g) <=> (g = h \/ Armed(a[n], g))
    BY <2>2, <2>6 DEF Added
  <2>8. ASSUME NEW g PROVE Armed(l2, g) <=> \E i \in 1 .. n + 1 : g = InitOrder[i]
    <3>1. (\E i \in 1 .. n + 1 : g = InitOrder[i]) <=> (g = h \/ \E i \in 1 .. n : g = InitOrder[i])
      BY <2>2 DEF h
    <3> QED BY <2>2, <2>7, <3>1
  <2>9. ASSUME NEW k \in 1 .. n + 1 PROVE Expiry(l2, k) = Interval[l2[k].h]
    <3>1. k \in 1 .. Len(l2)
      BY <2>7
    <3>2. CASE l2[k].h = h /\ Expiry(l2, k) = Interval[h]
      BY <3>2
    <3>3. CASE \E i \in 1 .. Len(a[n]) : l2[k].h = a[n][i].h /\ Expiry(l2, k) = Expiry(a[n], i)
      BY <2>2, <3>3
    <3> QED BY <2>6, <3>1, <3>2, <3>3 DEF Added
  <2> QED BY <2>7, <2>8, <2>9 DEF l2
<1>9. Nat \subseteq S
  <2>1. S \subseteq Nat
    OBVIOUS
  <2>2. \A n \in S : n + 1 \in S
    BY <1>8
  <2> HIDE DEF S
  <2> QED BY <1>7, <2>1, <2>2, NatSet
<1>10. Good(N)
  <2>1. N \in S /\ N <= N
    <3> HIDE DEF S
    <3> QED BY <1>1, <1>9
  <2> HIDE DEF Good
  <2> QED BY <2>1
<1>11. \A g : (\E i \in 1 .. N : g = InitOrder[i]) <=> g \in Cyclic
  BY <1>1 DEF Cyclic
<1> QED
  BY <1>4, <1>10, <1>11 DEF N

LEMMA TimersInitially ==
  ASSUME Init
  PROVE  TimersInv
<1>1. /\ list = sys_timeouts_init /\ due = [h \in Handlers |-> IF h \in Cyclic THEN Interval[h] ELSE 0]
      /\ waited = 0 /\ pc = "again" /\ running = "none" /\ tcp_active = FALSE /\ pcbs = FALSE
      /\ backlog = 0 /\ aborted = "none"
  BY DEF Init
<1>2. /\ list \in Lists /\ Len(list) = Len(InitOrder) /\ Unique(list) /\ Near(list)
      /\ (\A g : Armed(list, g) <=> g \in Cyclic)
      /\ \A k \in 1 .. Len(list) : Expiry(list, k) = Interval[list[k].h]
  BY <1>1, AllArmed
<1>3. \A h \in Cyclic : Interval[h] \in Nat
  BY TimersAssumption, U32Nat
<1>4. Types
  <2>1. Len(list) <= PoolSize /\ backlog \in 0 .. MaxBacklog
    BY <1>1, <1>2, TimersAssumption
  <2>2. due \in [Handlers -> Nat]
    BY <1>1, <1>3
  <2> QED BY <1>1, <1>2, <2>1, <2>2 DEF Types
<1>5. InShape /\ Handling
  BY <1>1, <1>2 DEF InShape, Handling
<1>6. Waiting
  <2>1. list # << >> => list[1].t \in Nat
    <3>1. list # << >> => 1 \in 1 .. Len(list)
      BY <1>2 DEF Lists
    <3> QED BY <1>2, <3>1, EntryTypes
  <2> QED BY <1>1, <2>1 DEF Waiting
<1>7. Late
  <2>1. SUFFICES ASSUME NEW k \in 1 .. Len(list) PROVE due[list[k].h] + 0 <= Expiry(list, k)
    BY <1>1 DEF Late
  <2>2. Armed(list, list[k].h)
    BY DEF Armed
  <2>3. list[k].h \in Cyclic /\ list[k].h \in Handlers
    BY <1>2, <2>2, HandlerSets
  <2> QED BY <1>1, <1>2, <1>3, <2>3
<1>8. CyclicArmed /\ TcpArmed /\ PoolTaken
  BY <1>1, <1>2, HandlerSets DEF CyclicArmed, TcpArmed, PoolTaken
<1> QED
  BY <1>4, <1>5, <1>6, <1>7, <1>8 DEF TimersInv

-----------------------------------------------------------------------------

LEMMA TimersInvariant == Spec => []TimersInv
<1>1. Init => TimersInv
  BY TimersInitially
<1>2. TimersInv /\ [Next]_vars => TimersInv'
  BY TimersStep
<1> QED
  BY <1>1, <1>2, PTL DEF Spec

LEMMA TimersInvSound ==
  ASSUME TimersInv
  PROVE  TimeoutsSound
<1>1. /\ list \in Lists /\ DOMAIN list = 1 .. Len(list)
      /\ \A h : Find(list, h) # 0 <=> Armed(list, h)
  <2>1. list \in Lists /\ DOMAIN list = 1 .. Len(list)
    BY DEF TimersInv, Types, Lists
  <2> QED BY <2>1, FindArmed
<1>2. TypeOK
  <2>1. running \in Handlers \cup {"none"}
    BY DEF TimersInv, Handling
  <2>2. \A i \in DOMAIN list : list[i] \in [h : Handlers, t : 0 .. U32 - 1]
    BY <1>1, EntryTypes DEF Entries
  <2> QED BY <2>1, <2>2 DEF TimersInv, Types, TypeOK
<1>3. NeverEarly
  BY DEF TimersInv, Handling, NeverEarly
<1>4. ArmedOnce
  BY <1>1 DEF TimersInv, InShape, Unique, CyclicArmed, ArmedOnce
<1>5. TcpTimerCoherent
  BY <1>1 DEF TimersInv, TcpArmed, TcpTimerCoherent
<1>6. PoolSuffices
  BY <1>1 DEF TimersInv, PoolTaken, PoolSuffices
<1> QED
  BY <1>2, <1>3, <1>4, <1>5, <1>6 DEF TimeoutsSound

\* For any timers, intervals and traffic of the tcpip thread: no handler of
\* timers.c is called before its time, none is lost or doubled, the TCP timer's
\* flag is true to it, and the pool is found empty for a timer of the stack
\* only when applications have taken elements of it.
THEOREM TimersTimeoutsSound == Spec => []TimeoutsSound
<1>1. TimersInv => TimeoutsSound
  BY TimersInvSound
<1> QED
  BY <1>1, TimersInvariant, PTL

\* sys_timeout and sys_untimeout move no other timeout, wherever in the list
\* they insert and remove, and without wrapping a delta.
THEOREM TimersOthersUndisturbed == Spec => OthersUndisturbed
<1>1. ASSUME TimersInv, TimersInv', [Next]_vars PROVE [KeepsExpiries]_vars
  <2>1. pc \in {"message", "handler"} => Kept(list, list')
    BY <1>1, TimersStep
  <2>2. DOMAIN list = 1 .. Len(list) /\ DOMAIN list' = 1 .. Len(list')
    BY <1>1 DEF TimersInv, Types, Lists
  <2> QED BY <2>1, <2>2 DEF Kept, KeepsExpiries
<1> QED
  BY <1>1, TimersInvariant, PTL DEF Spec, OthersUndisturbed

=============================================================================
