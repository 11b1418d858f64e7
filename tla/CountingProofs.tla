--------------------------- MODULE CountingProofs ---------------------------
(***************************************************************************)
(* Lemmas about numbers: induction and least elements, and what appending, *)
(* removing the head and concatenating do to the number of occurrences of  *)
(* a value.                                                                *)
(***************************************************************************)
EXTENDS Counting, FiniteSetTheorems, WellFoundedInduction, TLAPS

\* A set of naturals with 0 and every successor is all of them.
LEMMA NatSet ==
  ASSUME NEW S, S \subseteq Nat, 0 \in S, \A n \in S : n + 1 \in S
  PROVE  Nat \subseteq S
<1>1. IsWellFoundedOn(OpToRel(<, Nat), Nat)
  BY NatLessThanWellFounded
<1>2. SUFFICES ASSUME Nat \ S # {} PROVE FALSE
  OBVIOUS
<1>3. \E x \in Nat \ S : \A y \in Nat \ S : <<y, x>> \notin OpToRel(<, Nat)
  BY <1>1, <1>2, WFMin
<1>4. PICK x \in Nat \ S : \A y \in Nat \ S : ~(y < x)
  BY <1>3 DEF OpToRel
<1> QED
  BY <1>4

\* Every set of naturals has a least element, if it has any.
LEMMA NatLeast ==
  ASSUME NEW S, S \subseteq Nat, S # {}
  PROVE  \E x \in S : \A y \in S : x <= y
<1>1. IsWellFoundedOn(OpToRel(<, Nat), Nat)
  BY NatLessThanWellFounded
<1>2. \E x \in S : \A y \in S : <<y, x>> \notin OpToRel(<, Nat)
  BY <1>1, WFMin
<1>3. PICK x \in S : \A y \in S : ~(y < x)
  BY <1>2 DEF OpToRel
<1> QED
  BY <1>3

(* A sequence without its element i. *)
LEMMA Spliced ==
  ASSUME NEW S, NEW s \in Seq(S), NEW i \in 1 .. Len(s),
         NEW r, r = SubSeq(s, 1, i - 1) \o SubSeq(s, i + 1, Len(s))
  PROVE  /\ r \in Seq(S)
         /\ Len(r) = Len(s) - 1
         /\ \A k \in 1 .. Len(s) - 1 : r[k] = IF k < i THEN s[k] ELSE s[k + 1]
<1> DEFINE a == SubSeq(s, 1, i - 1)
           b == SubSeq(s, i + 1, Len(s))
<1>0. Len(s) \in Nat /\ i \in Int
  OBVIOUS
<1>1. a \in Seq(S) /\ Len(a) = i - 1 /\ \A k \in 1 .. i - 1 : a[k] = s[k]
  OBVIOUS
<1>2. b \in Seq(S) /\ Len(b) = Len(s) - i /\ \A k \in 1 .. Len(s) - i : b[k] = s[i + k]
  OBVIOUS
<1>3. r = a \o b
  OBVIOUS
<1> HIDE DEF a, b
<1>4. /\ a \o b \in Seq(S) /\ Len(a \o b) = Len(s) - 1
      /\ \A k \in 1 .. Len(s) - 1 : (a \o b)[k] = IF k < i THEN a[k] ELSE b[k - (i - 1)]
  <2>1. a \o b \in Seq(S)
    BY <1>1, <1>2
  <2>2. Len(a \o b) = Len(s) - 1
    <3>1. a \in Seq(S) /\ b \in Seq(S)
      BY <1>1, <1>2
    <3>2. Len(a \o b) = Len(a) + Len(b)
      BY <3>1
    <3>3. Len(a) = i - 1 /\ Len(b) = Len(s) - i
      BY <1>1, <1>2
    <3> QED BY <1>0, <3>2, <3>3
  <2>3. \A k \in 1 .. Len(a) + Len(b) : (a \o b)[k] = IF k <= Len(a) THEN a[k] ELSE b[k - Len(a)]
    BY <1>1, <1>2
  <2>4. Len(a) + Len(b) = Len(s) - 1
    BY <1>0, <1>1, <1>2
  <2>5. \A k \in 1 .. Len(s) - 1 : k < i <=> k <= Len(a)
    BY <1>0, <1>1
  <2> QED BY <1>1, <2>1, <2>2, <2>3, <2>4, <2>5
<1>5. ASSUME NEW k \in 1 .. Len(s) - 1
      PROVE  (a \o b)[k] = IF k < i THEN s[k] ELSE s[k + 1]
  <2>0. k \in Int BY <1>0
  <2>1. CASE k < i
    BY <1>1, <1>4, <2>1
  <2>2. CASE k >= i
    <3>1. k - (i - 1) \in 1 .. Len(s) - i /\ i + (k - (i - 1)) = k + 1
      BY <1>0, <2>0, <2>2
    <3>2. b[k - (i - 1)] = s[k + 1]
      BY <1>2, <3>1
    <3> QED BY <1>0, <1>4, <2>0, <2>2, <3>2
  <2>3. k < i \/ k >= i
    BY <1>0, <2>0
  <2> QED BY <2>1, <2>2, <2>3, Zenon
<1> QED
  BY <1>3, <1>4, <1>5

LEMMA PlacesFinite ==
  ASSUME NEW S, NEW s \in Seq(S), NEW x
  PROVE  IsFiniteSet(Places(s, x)) /\ Times(s, x) \in Nat
<1>1. IsFiniteSet(1 .. Len(s)) /\ Places(s, x) \in SUBSET (1 .. Len(s))
  BY FS_Interval DEF Places
<1>2. IsFiniteSet(Places(s, x))
  BY <1>1, FS_Subset
<1> QED
  BY <1>2, FS_CardinalityType DEF Times

LEMMA TimesEmpty == ASSUME NEW x PROVE Times(<< >>, x) = 0
<1>1. Places(<< >>, x) = {}
  BY DEF Places
<1> QED
  BY <1>1, FS_EmptySet DEF Times

LEMMA TimesAppend ==
  ASSUME NEW S, NEW s \in Seq(S), NEW e \in S, NEW x
  PROVE  Times(Append(s, e), x) = Times(s, x) + (IF e = x THEN 1 ELSE 0)
<1>1. CASE e = x
  <2>1. Places(Append(s, e), x) = Places(s, x) \cup {Len(s) + 1}
    BY <1>1 DEF Places
  <2>2. Len(s) + 1 \notin Places(s, x)
    BY DEF Places
  <2> QED
    BY <1>1, <2>1, <2>2, PlacesFinite, FS_AddElement DEF Times
<1>2. CASE e # x
  <2>1. Places(Append(s, e), x) = Places(s, x)
    BY <1>2 DEF Places
  <2> QED
    BY <1>2, <2>1, PlacesFinite DEF Times
<1> QED
  BY <1>1, <1>2

(* Moving every element of a set of positions by the same distance does    *)
(* not change how many there are.                                          *)
LEMMA Shifted ==
  ASSUME NEW P, IsFiniteSet(P), P \subseteq Int, NEW d \in Int,
         NEW Q, Q \subseteq Int, \A j \in Int : j \in Q <=> j + d \in P
  PROVE  IsFiniteSet(Q) /\ Cardinality(Q) = Cardinality(P)
<1> DEFINE f == [i \in P |-> i - d]
<1>1. f \in [P -> Q]
  OBVIOUS
<1>2. \A i, j \in P : f[i] = f[j] => i = j
  OBVIOUS
<1>3. \A j \in Q : \E i \in P : f[i] = j
  <2> TAKE j \in Q
  <2>1. j + d \in P /\ f[j + d] = j
    OBVIOUS
  <2> QED
    BY <2>1
<1>4. f \in Bijection(P, Q)
  BY <1>1, <1>2, <1>3 DEF Bijection, Injection, Surjection, IsInjective
<1> QED
  BY <1>4, FS_Bijection DEF ExistsBijection

LEMMA TimesConcat ==
  ASSUME NEW S, NEW s \in Seq(S), NEW t \in Seq(S), NEW x
  PROVE  Times(s \o t, x) = Times(s, x) + Times(t, x)
<1> DEFINE Q == {i \in Len(s) + 1 .. Len(s) + Len(t) : t[i - Len(s)] = x}
<1>1. Places(s \o t, x) = Places(s, x) \cup Q
  BY DEF Places
<1>2. Places(s, x) \cap Q = {}
  BY DEF Places
<1>3. IsFiniteSet(Q) /\ Cardinality(Q) = Times(t, x)
  <2>1. \A j \in Int : j \in Q <=> j + (0 - Len(s)) \in Places(t, x)
    BY DEF Places
  <2>2. Q \subseteq Int /\ Places(t, x) \subseteq Int /\ 0 - Len(s) \in Int
    BY DEF Places
  <2> HIDE DEF Q
  <2> QED
    BY <2>1, <2>2, PlacesFinite, Shifted DEF Times
<1> HIDE DEF Q
<1>4. Cardinality(Places(s, x) \cup Q) = Times(s, x) + Times(t, x) - Cardinality({})
  BY <1>2, <1>3, PlacesFinite, FS_Union DEF Times
<1>5. Cardinality({}) = 0 /\ Times(s, x) \in Nat /\ Times(t, x) \in Nat
  BY FS_EmptySet, PlacesFinite
<1>6. Times(s \o t, x) = Cardinality(Places(s, x) \cup Q)
  BY <1>1 DEF Times
<1> QED
  BY <1>4, <1>5, <1>6

LEMMA TimesHeadTail ==
  ASSUME NEW S, NEW s \in Seq(S), s # << >>, NEW x
  PROVE  Times(s, x) = Times(Tail(s), x) + (IF Head(s) = x THEN 1 ELSE 0)
<1> DEFINE Q == {i \in 2 .. Len(s) : s[i] = x}
<1>1. IsFiniteSet(Q) /\ Cardinality(Q) = Times(Tail(s), x)
  <2>1. \A j \in Int : j \in Q <=> j + (0 - 1) \in Places(Tail(s), x)
    BY DEF Places
  <2>2. Q \subseteq Int /\ Places(Tail(s), x) \subseteq Int /\ 0 - 1 \in Int /\ Tail(s) \in Seq(S)
    BY DEF Places
  <2> HIDE DEF Q
  <2> QED
    BY <2>1, <2>2, PlacesFinite, Shifted DEF Times
<1>2. 1 \notin Q
  OBVIOUS
<1>3. CASE Head(s) = x
  <2>1. Places(s, x) = Q \cup {1}
    BY <1>3 DEF Places
  <2> HIDE DEF Q
  <2> QED
    BY <1>1, <1>2, <1>3, <2>1, FS_AddElement DEF Times
<1>4. CASE Head(s) # x
  <2>1. Places(s, x) = Q
    BY <1>4 DEF Places
  <2> HIDE DEF Q
  <2> QED
    BY <1>1, <1>4, <2>1, FS_CardinalityType DEF Times
<1> QED
  BY <1>3, <1>4

(* A value that occurs in a sequence occurs at least once. *)
LEMMA TimesOccurs ==
  ASSUME NEW S, NEW s \in Seq(S), NEW i \in 1 .. Len(s)
  PROVE  Times(s, s[i]) > 0
<1>1. Places(s, s[i]) # {}
  BY DEF Places
<1> QED
  BY <1>1, PlacesFinite, FS_EmptySet DEF Times
=============================================================================
