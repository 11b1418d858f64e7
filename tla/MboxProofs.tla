----------------------------- MODULE MboxProofs -----------------------------
(***************************************************************************)
(* Mbox for any number of posters, any ring size and any life span short   *)
(* of the overflow of its cursors.                                         *)
(***************************************************************************)
EXTENDS Mbox, FiniteSetTheorems, SequenceTheorems, TLAPS

LifeBounded == last + Cardinality(Owing) <= MaxMsgs

IInv ==
  /\ TypeOK
  /\ RingBounded
  /\ LifeBounded
  /\ MutualExclusion
  /\ WaitSendCounts
  /\ FetcherNotForgotten
  /\ PosterNotForgotten

-----------------------------------------------------------------------------
(* Counting posters *)

LEMMA Enter ==
  ASSUME NEW S, IsFiniteSet(S), NEW x, x \notin S
  PROVE  Cardinality(S \cup {x}) = Cardinality(S) + 1
  BY FS_AddElement

LEMMA Leave ==
  ASSUME NEW S, IsFiniteSet(S), NEW x, x \in S
  PROVE  /\ Cardinality(S \ {x}) = Cardinality(S) - 1
         /\ Cardinality(S) >= 1
<1>1. IsFiniteSet(S \ {x})
  BY FS_RemoveElement
<1>2. /\ Cardinality(S) \in Nat
      /\ Cardinality(S \ {x}) \in Nat
  BY <1>1, FS_CardinalityType
<1>3. Cardinality(S \ {x}) = Cardinality(S) - 1
  BY FS_RemoveElement
<1> QED
  BY <1>2, <1>3

LEMMA PosterSets ==
  /\ IsFiniteSet(Blocked) /\ Cardinality(Blocked) \in Nat
  /\ IsFiniteSet(Owing) /\ Cardinality(Owing) \in Nat
<1>1. Blocked \subseteq Posters /\ Owing \subseteq Posters
  BY DEF Blocked, Owing
<1>2. IsFiniteSet(Blocked) /\ IsFiniteSet(Owing)
  BY <1>1, PostersAssumption, FS_Subset
<1> QED
  BY <1>2, FS_CardinalityType

\* Below the overflow the full test compares the distance of the cursors.
LEMMA FullMeans ==
  ASSUME NoOverflow, TypeOK
  PROVE  /\ Full <=> last + 1 >= first + Size
         /\ Wrap(first + 1) = first + 1
         /\ Wrap(last + 1) = last + 1
  BY SizeAssumption, BoundsAssumption DEF NoOverflow, TypeOK, Full, Wrap

-----------------------------------------------------------------------------

LEMMA InitIInv == Init => IInv
<1> SUFFICES ASSUME Init PROVE IInv
  OBVIOUS
<1>1. Blocked = {} /\ Owing = {}
  BY DEF Init, sys_mbox_new, Threads, Blocked, Owing
<1>2. TypeOK
  BY BoundsAssumption, SizeAssumption
  DEF Init, sys_mbox_new, Threads, TypeOK, Locations, PostOps, FetchOps
<1>3. WaitSendCounts /\ LifeBounded /\ RingBounded
  BY <1>1, FS_EmptySet, BoundsAssumption, SizeAssumption
  DEF Init, sys_mbox_new, WaitSendCounts, LifeBounded, RingBounded
<1>4. MutualExclusion /\ FetcherNotForgotten /\ PosterNotForgotten
  BY DEF Init, sys_mbox_new, MutualExclusion, FetcherNotForgotten,
         PosterNotForgotten, Empty, Holding, Threads
<1> QED
  BY <1>2, <1>3, <1>4 DEF IInv

LEMMA StepIInv == NoOverflow /\ IInv /\ [Next]_vars => IInv'
<1> SUFFICES ASSUME NoOverflow, IInv, [Next]_vars PROVE IInv'
  OBVIOUS
<1> USE SizeAssumption, BoundsAssumption, FetcherAssumption, NoMsgAssumption
<1> USE DEF ring, sems, Goto, Outcome
<1>a. TypeOK /\ RingBounded /\ MutualExclusion
  BY DEF IInv
<1>b. /\ Full <=> last + 1 >= first + Size
      /\ Wrap(first + 1) = first + 1
      /\ Wrap(last + 1) = last + 1
  BY <1>a, FullMeans
<1>c. /\ IsFiniteSet(Blocked) /\ Cardinality(Blocked) \in Nat
      /\ IsFiniteSet(Owing) /\ Cardinality(Owing) \in Nat
  BY PosterSets
\* A poster that sleeps is seen by every fetch, and one that wakes was counted.
<1>w. (\E q \in Posters : pc[q] \in {"sleep", "relock"}) => wait_send >= 1
  BY <1>c, Leave DEF IInv, WaitSendCounts, Blocked
<1>u. CASE UNCHANGED vars
  <2>1. Blocked' = Blocked /\ Owing' = Owing
    BY <1>u DEF vars, Blocked, Owing
  <2> QED
    BY <1>u, <2>1
    DEF vars, IInv, TypeOK, RingBounded, LifeBounded, MutualExclusion, WaitSendCounts,
        FetcherNotForgotten, PosterNotForgotten, Empty
<1>1. ASSUME NEW p \in Posters, NEW o \in PostOps, NEW m \in Msgs, PostCall(p, o, m) PROVE IInv'
  <2>1. TypeOK' /\ RingBounded'
    BY <1>1, <1>a DEF PostCall, TypeOK, RingBounded, Locations, PostOps, FetchOps, Empty, Threads
  <2>2. MutualExclusion'
    BY <1>1, <1>a DEF PostCall, TypeOK, MutualExclusion, Holding, Locations, Threads
  <2>3. Blocked' = Blocked
    BY <1>1, <1>a DEF PostCall, TypeOK, Blocked, Threads
  <2>4. Owing' = Owing \cup {p} /\ p \notin Owing
    BY <1>1, <1>a DEF PostCall, TypeOK, Owing, Threads
  <2>5. WaitSendCounts' /\ LifeBounded'
    BY <1>1, <1>a, <1>c, <2>3, <2>4, Enter DEF PostCall, IInv, TypeOK, WaitSendCounts, LifeBounded
  <2>6. FetcherNotForgotten' /\ PosterNotForgotten'
    BY <1>1, <1>a DEF PostCall, IInv, TypeOK, RingBounded, FetcherNotForgotten,
       PosterNotForgotten, Empty, Threads
  <2> QED
    BY <2>1, <2>2, <2>5, <2>6 DEF IInv
<1>2. ASSUME NEW t \in Threads, Lock(t) PROVE IInv'
  <2>1. TypeOK' /\ RingBounded'
    BY <1>2, <1>a DEF Lock, TypeOK, RingBounded, Locations, PostOps, FetchOps, Empty, Threads
  <2>2. MutualExclusion'
    BY <1>2, <1>a DEF Lock, TypeOK, MutualExclusion, Holding, Locations, Threads
  <2>3. Blocked' = Blocked
    BY <1>2, <1>a DEF Lock, TypeOK, Blocked, Threads
  <2>4. Owing' = Owing
    BY <1>2, <1>a DEF Lock, TypeOK, Owing, Threads
  <2>5. WaitSendCounts' /\ LifeBounded'
    BY <1>2, <1>a, <2>3, <2>4 DEF Lock, IInv, TypeOK, WaitSendCounts, LifeBounded
  <2>6. FetcherNotForgotten' /\ PosterNotForgotten'
    BY <1>2, <1>a DEF Lock, IInv, TypeOK, RingBounded, FetcherNotForgotten,
       PosterNotForgotten, Empty, Threads
  <2> QED
    BY <2>1, <2>2, <2>5, <2>6 DEF IInv
<1>3. ASSUME NEW p \in Posters, PostStore(p) PROVE IInv'
  <2>0. last < MaxMsgs
    <3>1. p \in Owing
      BY <1>3 DEF PostStore, Owing
    <3>2. Cardinality(Owing) >= 1
      BY <3>1, <1>c, Leave
    <3> QED
      BY <3>2, <1>a, <1>c DEF IInv, TypeOK, LifeBounded
  <2>1. TypeOK' /\ RingBounded'
    BY <1>3, <1>a, <1>b, <2>0 DEF PostStore, TypeOK, RingBounded, Locations, PostOps, FetchOps, Empty, Threads
  <2>2. MutualExclusion'
    BY <1>3, <1>a DEF PostStore, TypeOK, MutualExclusion, Holding, Locations, Threads
  <2>3. Blocked' = Blocked
    BY <1>3, <1>a DEF PostStore, TypeOK, Blocked, Threads
  <2>4. Owing' = Owing \ {p} /\ p \in Owing
    BY <1>3, <1>a DEF PostStore, TypeOK, Owing, Threads
  <2>5. WaitSendCounts' /\ LifeBounded'
    BY SMTT(30), <1>3, <1>a, <1>b, <1>c, <2>3, <2>4, Leave DEF PostStore, IInv, TypeOK, WaitSendCounts, LifeBounded
  <2>6. FetcherNotForgotten' /\ PosterNotForgotten'
    BY <1>3, <1>a, <1>b DEF PostStore, IInv, TypeOK, RingBounded, FetcherNotForgotten,
       PosterNotForgotten, Empty, Threads
  <2> QED
    BY <2>1, <2>2, <2>5, <2>6 DEF IInv
<1>4. ASSUME NEW p \in Posters, PostWake(p) PROVE IInv'
  <2>1. TypeOK' /\ RingBounded'
    BY <1>4, <1>a DEF PostWake, TypeOK, RingBounded, Locations, PostOps, FetchOps, Empty, Threads
  <2>2. MutualExclusion'
    BY <1>4, <1>a DEF PostWake, TypeOK, MutualExclusion, Holding, Locations, Threads
  <2>3. Blocked' = Blocked
    BY <1>4, <1>a DEF PostWake, TypeOK, Blocked, Threads
  <2>4. Owing' = Owing
    BY <1>4, <1>a DEF PostWake, TypeOK, Owing, Threads
  <2>5. WaitSendCounts' /\ LifeBounded'
    BY <1>4, <1>a, <2>3, <2>4 DEF PostWake, IInv, TypeOK, WaitSendCounts, LifeBounded
  <2>6. FetcherNotForgotten' /\ PosterNotForgotten'
    BY <1>4, <1>a DEF PostWake, IInv, TypeOK, RingBounded, FetcherNotForgotten,
       PosterNotForgotten, Empty, Threads
  <2> QED
    BY <2>1, <2>2, <2>5, <2>6 DEF IInv
<1>5. ASSUME NEW p \in Posters, PostReturn(p) PROVE IInv'
  <2>1. TypeOK' /\ RingBounded'
    BY <1>5, <1>a DEF PostReturn, TypeOK, RingBounded, Locations, PostOps, FetchOps, Empty, Threads
  <2>2. MutualExclusion'
    BY <1>5, <1>a DEF PostReturn, TypeOK, MutualExclusion, Holding, Locations, Threads
  <2>3. Blocked' = Blocked
    BY <1>5, <1>a DEF PostReturn, TypeOK, Blocked, Threads
  <2>4. Owing' = Owing
    BY <1>5, <1>a DEF PostReturn, TypeOK, Owing, Threads
  <2>5. WaitSendCounts' /\ LifeBounded'
    BY <1>5, <1>a, <2>3, <2>4 DEF PostReturn, IInv, TypeOK, WaitSendCounts, LifeBounded
  <2>6. FetcherNotForgotten' /\ PosterNotForgotten'
    BY <1>5, <1>a DEF PostReturn, IInv, TypeOK, RingBounded, FetcherNotForgotten,
       PosterNotForgotten, Empty, Threads
  <2> QED
    BY <2>1, <2>2, <2>5, <2>6 DEF IInv
<1>6. ASSUME NEW p \in Posters, TryPostFull(p) PROVE IInv'
  <2>1. TypeOK' /\ RingBounded'
    BY <1>6, <1>a DEF TryPostFull, TypeOK, RingBounded, Locations, PostOps, FetchOps, Empty, Threads
  <2>2. MutualExclusion'
    BY <1>6, <1>a DEF TryPostFull, TypeOK, MutualExclusion, Holding, Locations, Threads
  <2>3. Blocked' = Blocked
    BY <1>6, <1>a DEF TryPostFull, TypeOK, Blocked, Threads
  <2>4. Owing' = Owing \ {p} /\ p \in Owing
    BY <1>6, <1>a DEF TryPostFull, TypeOK, Owing, Threads
  <2>5. WaitSendCounts' /\ LifeBounded'
    BY <1>6, <1>a, <1>c, <2>3, <2>4, Leave DEF TryPostFull, IInv, TypeOK, WaitSendCounts, LifeBounded
  <2>6. FetcherNotForgotten' /\ PosterNotForgotten'
    BY <1>6, <1>a, <1>b DEF TryPostFull, IInv, TypeOK, RingBounded, FetcherNotForgotten,
       PosterNotForgotten, Empty, Threads
  <2> QED
    BY <2>1, <2>2, <2>5, <2>6 DEF IInv
<1>7. ASSUME NEW p \in Posters, PostSleep(p) PROVE IInv'
  <2>1. TypeOK' /\ RingBounded'
    BY <1>7, <1>a DEF PostSleep, TypeOK, RingBounded, Locations, PostOps, FetchOps, Empty, Threads
  <2>2. MutualExclusion'
    BY <1>7, <1>a DEF PostSleep, TypeOK, MutualExclusion, Holding, Locations, Threads
  <2>3. Blocked' = Blocked \cup {p} /\ p \notin Blocked
    BY <1>7, <1>a DEF PostSleep, TypeOK, Blocked, Threads
  <2>4. Owing' = Owing
    BY <1>7, <1>a DEF PostSleep, TypeOK, Owing, Threads
  <2>5. WaitSendCounts' /\ LifeBounded'
    BY <1>7, <1>a, <1>c, <2>3, <2>4, Enter DEF PostSleep, IInv, TypeOK, WaitSendCounts, LifeBounded
  <2>6. FetcherNotForgotten' /\ PosterNotForgotten'
    BY <1>7, <1>a, <1>b DEF PostSleep, IInv, TypeOK, RingBounded, FetcherNotForgotten,
       PosterNotForgotten, Empty, Threads
  <2> QED
    BY <2>1, <2>2, <2>5, <2>6 DEF IInv
<1>8. ASSUME NEW p \in Posters, PostWoken(p) PROVE IInv'
  <2>1. TypeOK' /\ RingBounded'
    BY <1>8, <1>a DEF PostWoken, TypeOK, RingBounded, Locations, PostOps, FetchOps, Empty, Threads
  <2>2. MutualExclusion'
    BY <1>8, <1>a DEF PostWoken, TypeOK, MutualExclusion, Holding, Locations, Threads
  <2>3. Blocked' = Blocked
    BY <1>8, <1>a DEF PostWoken, TypeOK, Blocked, Threads
  <2>4. Owing' = Owing
    BY <1>8, <1>a DEF PostWoken, TypeOK, Owing, Threads
  <2>5. WaitSendCounts' /\ LifeBounded'
    BY <1>8, <1>a, <2>3, <2>4 DEF PostWoken, IInv, TypeOK, WaitSendCounts, LifeBounded
  <2>6. FetcherNotForgotten' /\ PosterNotForgotten'
    BY <1>8, <1>a DEF PostWoken, IInv, TypeOK, RingBounded, FetcherNotForgotten,
       PosterNotForgotten, Empty, Threads
  <2> QED
    BY <2>1, <2>2, <2>5, <2>6 DEF IInv
<1>9. ASSUME NEW p \in Posters, PostRelock(p) PROVE IInv'
  <2>1. TypeOK' /\ RingBounded'
    BY <1>9, <1>a, <1>w DEF PostRelock, TypeOK, RingBounded, Locations, PostOps, FetchOps, Empty, Threads
  <2>2. MutualExclusion'
    BY <1>9, <1>a DEF PostRelock, TypeOK, MutualExclusion, Holding, Locations, Threads
  <2>3. Blocked' = Blocked \ {p} /\ p \in Blocked
    BY <1>9, <1>a DEF PostRelock, TypeOK, Blocked, Threads
  <2>4. Owing' = Owing
    BY <1>9, <1>a DEF PostRelock, TypeOK, Owing, Threads
  <2>5. WaitSendCounts' /\ LifeBounded'
    BY <1>9, <1>a, <1>c, <2>3, <2>4, Leave DEF PostRelock, IInv, TypeOK, WaitSendCounts, LifeBounded
  <2>6. FetcherNotForgotten' /\ PosterNotForgotten'
    BY <1>9, <1>a DEF PostRelock, IInv, TypeOK, RingBounded, FetcherNotForgotten,
       PosterNotForgotten, Empty, Threads
  <2> QED
    BY <2>1, <2>2, <2>5, <2>6 DEF IInv
<1>10. ASSUME NEW o \in FetchOps, FetchCall(o) PROVE IInv'
  <2>1. TypeOK' /\ RingBounded'
    BY <1>10, <1>a DEF FetchCall, TypeOK, RingBounded, Locations, PostOps, FetchOps, Empty, Threads
  <2>2. MutualExclusion'
    BY <1>10, <1>a DEF FetchCall, TypeOK, MutualExclusion, Holding, Locations, Threads
  <2>3. Blocked' = Blocked
    BY <1>10, <1>a DEF FetchCall, TypeOK, Blocked, Threads
  <2>4. Owing' = Owing
    BY <1>10, <1>a DEF FetchCall, TypeOK, Owing, Threads
  <2>5. WaitSendCounts' /\ LifeBounded'
    BY <1>10, <1>a, <2>3, <2>4 DEF FetchCall, IInv, TypeOK, WaitSendCounts, LifeBounded
  <2>6. FetcherNotForgotten' /\ PosterNotForgotten'
    BY <1>10, <1>a DEF FetchCall, IInv, TypeOK, RingBounded, FetcherNotForgotten,
       PosterNotForgotten, Empty, Threads
  <2> QED
    BY <2>1, <2>2, <2>5, <2>6 DEF IInv
<1>11. ASSUME FetchTake PROVE IInv'
  <2>1. TypeOK' /\ RingBounded'
    BY <1>11, <1>a, <1>b DEF FetchTake, TypeOK, RingBounded, Locations, PostOps, FetchOps, Empty, Threads
  <2>2. MutualExclusion'
    BY <1>11, <1>a DEF FetchTake, TypeOK, MutualExclusion, Holding, Locations, Threads
  <2>3. Blocked' = Blocked
    BY <1>11, <1>a DEF FetchTake, TypeOK, Blocked, Threads
  <2>4. Owing' = Owing
    BY <1>11, <1>a DEF FetchTake, TypeOK, Owing, Threads
  <2>5. WaitSendCounts' /\ LifeBounded'
    BY <1>11, <1>a, <2>3, <2>4 DEF FetchTake, IInv, TypeOK, WaitSendCounts, LifeBounded
  <2>6. FetcherNotForgotten' /\ PosterNotForgotten'
    BY <1>11, <1>a, <1>b, <1>w DEF FetchTake, IInv, TypeOK, RingBounded, FetcherNotForgotten,
       PosterNotForgotten, Empty, Threads
  <2> QED
    BY <2>1, <2>2, <2>5, <2>6 DEF IInv
<1>12. ASSUME FetchWake PROVE IInv'
  <2>1. TypeOK' /\ RingBounded'
    BY <1>12, <1>a DEF FetchWake, TypeOK, RingBounded, Locations, PostOps, FetchOps, Empty, Threads
  <2>2. MutualExclusion'
    BY <1>12, <1>a DEF FetchWake, TypeOK, MutualExclusion, Holding, Locations, Threads
  <2>3. Blocked' = Blocked
    BY <1>12, <1>a DEF FetchWake, TypeOK, Blocked, Threads
  <2>4. Owing' = Owing
    BY <1>12, <1>a DEF FetchWake, TypeOK, Owing, Threads
  <2>5. WaitSendCounts' /\ LifeBounded'
    BY <1>12, <1>a, <2>3, <2>4 DEF FetchWake, IInv, TypeOK, WaitSendCounts, LifeBounded
  <2>6. FetcherNotForgotten' /\ PosterNotForgotten'
    BY <1>12, <1>a DEF FetchWake, IInv, TypeOK, RingBounded, FetcherNotForgotten,
       PosterNotForgotten, Empty, Threads
  <2> QED
    BY <2>1, <2>2, <2>5, <2>6 DEF IInv
<1>13. ASSUME FetchReturn PROVE IInv'
  <2>1. TypeOK' /\ RingBounded'
    BY <1>13, <1>a DEF FetchReturn, TypeOK, RingBounded, Locations, PostOps, FetchOps, Empty, Threads
  <2>2. MutualExclusion'
    BY <1>13, <1>a DEF FetchReturn, TypeOK, MutualExclusion, Holding, Locations, Threads
  <2>3. Blocked' = Blocked
    BY <1>13, <1>a DEF FetchReturn, TypeOK, Blocked, Threads
  <2>4. Owing' = Owing
    BY <1>13, <1>a DEF FetchReturn, TypeOK, Owing, Threads
  <2>5. WaitSendCounts' /\ LifeBounded'
    BY <1>13, <1>a, <2>3, <2>4 DEF FetchReturn, IInv, TypeOK, WaitSendCounts, LifeBounded
  <2>6. FetcherNotForgotten' /\ PosterNotForgotten'
    BY <1>13, <1>a DEF FetchReturn, IInv, TypeOK, RingBounded, FetcherNotForgotten,
       PosterNotForgotten, Empty, Threads
  <2> QED
    BY <2>1, <2>2, <2>5, <2>6 DEF IInv
<1>14. ASSUME TryFetchEmpty PROVE IInv'
  <2>1. TypeOK' /\ RingBounded'
    BY <1>14, <1>a DEF TryFetchEmpty, TypeOK, RingBounded, Locations, PostOps, FetchOps, Empty, Threads
  <2>2. MutualExclusion'
    BY <1>14, <1>a DEF TryFetchEmpty, TypeOK, MutualExclusion, Holding, Locations, Threads
  <2>3. Blocked' = Blocked
    BY <1>14, <1>a DEF TryFetchEmpty, TypeOK, Blocked, Threads
  <2>4. Owing' = Owing
    BY <1>14, <1>a DEF TryFetchEmpty, TypeOK, Owing, Threads
  <2>5. WaitSendCounts' /\ LifeBounded'
    BY <1>14, <1>a, <2>3, <2>4 DEF TryFetchEmpty, IInv, TypeOK, WaitSendCounts, LifeBounded
  <2>6. FetcherNotForgotten' /\ PosterNotForgotten'
    BY <1>14, <1>a DEF TryFetchEmpty, IInv, TypeOK, RingBounded, FetcherNotForgotten,
       PosterNotForgotten, Empty, Threads
  <2> QED
    BY <2>1, <2>2, <2>5, <2>6 DEF IInv
<1>15. ASSUME FetchSleep PROVE IInv'
  <2>1. TypeOK' /\ RingBounded'
    BY <1>15, <1>a DEF FetchSleep, TypeOK, RingBounded, Locations, PostOps, FetchOps, Empty, Threads
  <2>2. MutualExclusion'
    BY <1>15, <1>a DEF FetchSleep, TypeOK, MutualExclusion, Holding, Locations, Threads
  <2>3. Blocked' = Blocked
    BY <1>15, <1>a DEF FetchSleep, TypeOK, Blocked, Threads
  <2>4. Owing' = Owing
    BY <1>15, <1>a DEF FetchSleep, TypeOK, Owing, Threads
  <2>5. WaitSendCounts' /\ LifeBounded'
    BY <1>15, <1>a, <2>3, <2>4 DEF FetchSleep, IInv, TypeOK, WaitSendCounts, LifeBounded
  <2>6. FetcherNotForgotten' /\ PosterNotForgotten'
    BY <1>15, <1>a DEF FetchSleep, IInv, TypeOK, RingBounded, FetcherNotForgotten,
       PosterNotForgotten, Empty, Threads
  <2> QED
    BY <2>1, <2>2, <2>5, <2>6 DEF IInv
<1>16. ASSUME FetchWoken PROVE IInv'
  <2>1. TypeOK' /\ RingBounded'
    BY <1>16, <1>a DEF FetchWoken, TypeOK, RingBounded, Locations, PostOps, FetchOps, Empty, Threads
  <2>2. MutualExclusion'
    BY <1>16, <1>a DEF FetchWoken, TypeOK, MutualExclusion, Holding, Locations, Threads
  <2>3. Blocked' = Blocked
    BY <1>16, <1>a DEF FetchWoken, TypeOK, Blocked, Threads
  <2>4. Owing' = Owing
    BY <1>16, <1>a DEF FetchWoken, TypeOK, Owing, Threads
  <2>5. WaitSendCounts' /\ LifeBounded'
    BY <1>16, <1>a, <2>3, <2>4 DEF FetchWoken, IInv, TypeOK, WaitSendCounts, LifeBounded
  <2>6. FetcherNotForgotten' /\ PosterNotForgotten'
    BY <1>16, <1>a DEF FetchWoken, IInv, TypeOK, RingBounded, FetcherNotForgotten,
       PosterNotForgotten, Empty, Threads
  <2> QED
    BY <2>1, <2>2, <2>5, <2>6 DEF IInv
<1>17. ASSUME FetchRelock PROVE IInv'
  <2>1. TypeOK' /\ RingBounded'
    BY <1>17, <1>a DEF FetchRelock, TypeOK, RingBounded, Locations, PostOps, FetchOps, Empty, Threads
  <2>2. MutualExclusion'
    BY <1>17, <1>a DEF FetchRelock, TypeOK, MutualExclusion, Holding, Locations, Threads
  <2>3. Blocked' = Blocked
    BY <1>17, <1>a DEF FetchRelock, TypeOK, Blocked, Threads
  <2>4. Owing' = Owing
    BY <1>17, <1>a DEF FetchRelock, TypeOK, Owing, Threads
  <2>5. WaitSendCounts' /\ LifeBounded'
    BY <1>17, <1>a, <2>3, <2>4 DEF FetchRelock, IInv, TypeOK, WaitSendCounts, LifeBounded
  <2>6. FetcherNotForgotten' /\ PosterNotForgotten'
    BY <1>17, <1>a DEF FetchRelock, IInv, TypeOK, RingBounded, FetcherNotForgotten,
       PosterNotForgotten, Empty, Threads
  <2> QED
    BY <2>1, <2>2, <2>5, <2>6 DEF IInv
<1>18. ASSUME FetchTimeout PROVE IInv'
  <2>1. TypeOK' /\ RingBounded'
    BY <1>18, <1>a DEF FetchTimeout, TypeOK, RingBounded, Locations, PostOps, FetchOps, Empty, Threads
  <2>2. MutualExclusion'
    BY <1>18, <1>a DEF FetchTimeout, TypeOK, MutualExclusion, Holding, Locations, Threads
  <2>3. Blocked' = Blocked
    BY <1>18, <1>a DEF FetchTimeout, TypeOK, Blocked, Threads
  <2>4. Owing' = Owing
    BY <1>18, <1>a DEF FetchTimeout, TypeOK, Owing, Threads
  <2>5. WaitSendCounts' /\ LifeBounded'
    BY <1>18, <1>a, <2>3, <2>4 DEF FetchTimeout, IInv, TypeOK, WaitSendCounts, LifeBounded
  <2>6. FetcherNotForgotten' /\ PosterNotForgotten'
    BY <1>18, <1>a DEF FetchTimeout, IInv, TypeOK, RingBounded, FetcherNotForgotten,
       PosterNotForgotten, Empty, Threads
  <2> QED
    BY <2>1, <2>2, <2>5, <2>6 DEF IInv
<1> QED
  BY <1>u, <1>1, <1>2, <1>3, <1>4, <1>5, <1>6, <1>7, <1>8, <1>9, <1>10, <1>11, <1>12, <1>13, <1>14, <1>15, <1>16, <1>17, <1>18
  DEF Next, PostStep, FetchStep, Threads

\* For every number of posters and every ring size: the cursors stay within a
\* ring of each other, one thread at a time works on it, wait_send counts the
\* sleeping posters, and neither kind of sleeper is ever forgotten.
THEOREM MboxInvariant == NoOverflow => (Spec => []IInv)
<1> SUFFICES ASSUME NoOverflow PROVE Spec => []IInv
  OBVIOUS
<1>1. IInv /\ [Next]_vars => IInv'
  BY StepIInv
<1> QED
  BY InitIInv, <1>1, PTL DEF Spec

\* A sleeping fetcher with mail always has its wake-up in flight.
THEOREM MboxFetcherNotForgotten == NoOverflow => (Spec => []FetcherNotForgotten)
<1>1. IInv => FetcherNotForgotten
  BY DEF IInv
<1> QED
  BY MboxInvariant, <1>1, PTL

\* A poster sleeping beside an empty mailbox always has its wake-up in flight.
THEOREM MboxPosterNotForgotten == NoOverflow => (Spec => []PosterNotForgotten)
<1>1. IInv => PosterNotForgotten
  BY DEF IInv
<1> QED
  BY MboxInvariant, <1>1, PTL

-----------------------------------------------------------------------------
(* Refinement of the bounded queue *)

LEMMA DivMod ==
  ASSUME NEW a \in Nat
  PROVE  /\ a = Size * (a \div Size) + (a % Size)
         /\ a % Size \in 0 .. Size - 1
         /\ a \div Size \in Nat
  BY SizeAssumption

\* Cursors less than a ring apart address different slots.
LEMMA DistinctSlots ==
  ASSUME NEW a \in Nat, NEW b \in Nat, a < b, b - a < Size
  PROVE  a % Size # b % Size
<1> SUFFICES ASSUME a % Size = b % Size PROVE FALSE
  OBVIOUS
<1> USE SizeAssumption
<1> DEFINE qa == a \div Size
<1> DEFINE qb == b \div Size
<1> DEFINE r == a % Size
<1>1. /\ a = Size * qa + r /\ b = Size * qb + r
      /\ qa \in Nat /\ qb \in Nat /\ r \in Nat
  BY DivMod
<1> HIDE DEF qa, qb, r
<1>2. Size * qb - Size * qa = b - a
  BY <1>1
<1>3. CASE qb <= qa
  <2>1. Size * (qa - qb) >= 0
    BY <1>3, <1>1
  <2>2. Size * (qa - qb) = Size * qa - Size * qb
    BY <1>1
  <2> QED
    BY <1>2, <2>1, <2>2, <1>1
<1>4. CASE qb > qa
  <2>1. qb - qa >= 1 /\ qb - qa \in Nat
    BY <1>4, <1>1
  <2>2. \A k \in Nat : k >= 1 => Size * k >= Size
    OBVIOUS
  <2>3. Size * (qb - qa) = Size * qb - Size * qa
    BY <1>1
  <2> QED
    BY <1>2, <2>1, <2>2, <2>3, <1>1
<1> QED
  BY <1>3, <1>4, <1>1

LEMMA AppendLast ==
  ASSUME NEW n \in Nat, NEW S, NEW f \in [1 .. n + 1 -> S]
  PROVE  f = Append([i \in 1 .. n |-> f[i]], f[n + 1])
<1> DEFINE g == [i \in 1 .. n |-> f[i]]
<1>1. g \in Seq(S) /\ Len(g) = n /\ f[n + 1] \in S
  OBVIOUS
<1>2. f \in Seq(S) /\ Len(f) = n + 1
  OBVIOUS
<1>3. /\ Append(g, f[n + 1]) \in Seq(S)
      /\ Len(Append(g, f[n + 1])) = n + 1
      /\ \A i \in 1 .. n : Append(g, f[n + 1])[i] = g[i]
      /\ Append(g, f[n + 1])[n + 1] = f[n + 1]
  BY <1>1, AppendProperties
<1>4. \A i \in 1 .. n + 1 : f[i] = Append(g, f[n + 1])[i]
  BY <1>3
<1> QED
  BY <1>2, <1>3, <1>4, SeqEqual

LEMMA TailShifts ==
  ASSUME NEW S, NEW n \in Nat, n >= 1,
         NEW f \in [1 .. n -> S], NEW g \in [1 .. n - 1 -> S],
         \A i \in 1 .. n - 1 : g[i] = f[i + 1]
  PROVE  f # << >> /\ Head(f) = f[1] /\ Tail(f) = g
<1>1. f \in Seq(S) /\ Len(f) = n
  OBVIOUS
<1>2. f # << >>
  BY <1>1
<1>3. /\ Tail(f) \in Seq(S) /\ Len(Tail(f)) = n - 1
      /\ \A i \in 1 .. Len(Tail(f)) : Tail(f)[i] = f[i + 1]
      /\ Head(f) = f[1]
  BY <1>1, <1>2, HeadTailProperties
<1>4. g \in Seq(S) /\ Len(g) = n - 1
  OBVIOUS
<1> QED
  BY <1>2, <1>3, <1>4, SeqEqual

LEMMA ModSmall ==
  ASSUME NEW a \in Nat, NEW b \in Nat, a < b
  PROVE  a % b = a
  OBVIOUS

\* The shape of the abstract queue below the overflow of the cursors.
LEMMA QueueShape ==
  ASSUME NoOverflow, TypeOK, RingBounded
  PROVE  /\ Count = last - first
         /\ Count \in 0 .. Size - 1
         /\ queue \in [1 .. Count -> Msgs \cup {NoMsg}]
         /\ Len(queue) = Count
         /\ queue = << >> <=> Empty
<1> USE SizeAssumption, BoundsAssumption
<1>1. Count = last - first /\ Count \in 0 .. Size - 1
  BY DEF NoOverflow, TypeOK, RingBounded, Count
<1>2. \A i \in 1 .. Count : first + i - 1 \in Nat
  BY <1>1 DEF TypeOK
<1>3. \A i \in 1 .. Count : (first + i - 1) % Size \in 0 .. Size - 1
  BY <1>2, DivMod
<1>4. queue \in [1 .. Count -> Msgs \cup {NoMsg}]
  BY <1>3 DEF queue, TypeOK
<1>5. queue \in Seq(Msgs \cup {NoMsg}) /\ Len(queue) = Count
  BY <1>1, <1>4
<1>6. queue = << >> <=> Count = 0
  BY <1>5, <1>1, EmptySeq
<1> QED
  BY <1>1, <1>4, <1>5, <1>6 DEF Empty, TypeOK

LEMMA InitRefines == NoOverflow /\ Init => Abs!Init
<1> SUFFICES ASSUME NoOverflow, Init PROVE Abs!Init
  OBVIOUS
<1>1. TypeOK /\ RingBounded /\ Empty
  BY InitIInv DEF IInv, Init, sys_mbox_new, Empty
<1>2. queue = << >>
  BY <1>1, QueueShape
<1> QED
  BY <1>2 DEF Init, Abs!Init, Abs!Threads, Threads, phase

\* A post that finds room appends to the queue.
LEMMA StoreAppends ==
  ASSUME NoOverflow, IInv, IInv', NEW p \in Posters, PostStore(p)
  PROVE  Len(queue) < Size - 1 /\ queue' = Append(queue, arg[p])
<1> USE SizeAssumption, BoundsAssumption
<1>1. TypeOK /\ RingBounded /\ TypeOK' /\ RingBounded'
  BY DEF IInv
<1>2. /\ last' = last + 1 /\ first' = first
      /\ last + 1 < first + Size
      /\ msgs' = [msgs EXCEPT ![last % Size] = arg[p]]
  BY <1>1, FullMeans DEF PostStore, TypeOK
<1>3. /\ Count = last - first /\ Count \in Nat
      /\ queue \in [1 .. Count -> Msgs \cup {NoMsg}] /\ Len(queue) = Count
  BY <1>1, QueueShape
<1>4. Count' = last' - first'
  <2>1. /\ last' - first' \in Nat /\ 2 * (IntMax + 1) \in Nat
        /\ last' - first' < 2 * (IntMax + 1)
    BY <1>1, <1>2 DEF NoOverflow, TypeOK, RingBounded
  <2>2. Count' = (last' - first') % (2 * (IntMax + 1))
    BY DEF Count
  <2> QED
    BY <2>1, <2>2, ModSmall
<1>5. Count' = Count + 1
  BY <1>1, <1>2, <1>3, <1>4 DEF TypeOK
<1>6. /\ DOMAIN msgs = 0 .. Size - 1
      /\ last % Size \in 0 .. Size - 1
      /\ \A j \in Nat : j % Size \in 0 .. Size - 1
  <2>1. DOMAIN msgs = 0 .. Size - 1 /\ last \in Nat
    BY <1>1 DEF TypeOK
  <2>2. \A j \in Nat : j % Size \in 0 .. Size - 1
    BY DivMod
  <2> QED
    BY <2>1, <2>2
<1>7. \A i \in 1 .. Count : queue'[i] = queue[i]
  <2> SUFFICES ASSUME NEW i \in 1 .. Count PROVE queue'[i] = queue[i]
    OBVIOUS
  <2> DEFINE j == first + i - 1
  <2>1. j \in Nat /\ j < last /\ last - j < Size /\ last \in Nat
    BY <1>1, <1>2, <1>3 DEF TypeOK
  <2>2. j % Size # last % Size
    BY <2>1, DistinctSlots
  <2>3. msgs'[j % Size] = msgs[j % Size]
    BY <1>2, <1>6, <2>1, <2>2 DEF TypeOK
  <2>4. queue'[i] = msgs'[(first' + i - 1) % Size]
    BY <1>3, <1>5 DEF queue
  <2> QED
    BY <2>3, <2>4, <1>2 DEF queue
<1>8. queue'[Count + 1] = arg[p]
  <2>1. queue'[Count + 1] = msgs'[(first' + (Count + 1) - 1) % Size]
    BY <1>3, <1>5 DEF queue
  <2>2. first' + (Count + 1) - 1 = last
    BY <1>1, <1>2, <1>3 DEF TypeOK
  <2>3. msgs'[last % Size] = arg[p]
    BY <1>1, <1>2, <1>6 DEF TypeOK
  <2> QED
    BY <2>1, <2>2, <2>3
<1>9. queue' \in [1 .. Count + 1 -> Msgs \cup {NoMsg}]
  <2>1. \A i \in 1 .. Count + 1 : queue'[i] \in Msgs \cup {NoMsg}
    <3>1. arg[p] \in Msgs \cup {NoMsg}
      BY <1>1 DEF TypeOK, Threads
    <3>2. \A i \in 1 .. Count + 1 : i \in 1 .. Count \/ i = Count + 1
      BY <1>3
    <3> QED
      BY <1>3, <1>7, <1>8, <3>1, <3>2
  <2>2. queue' = [i \in 1 .. Count + 1 |-> queue'[i]]
    BY <1>5 DEF queue
  <2> QED
    BY <2>1, <2>2
<1>10. queue = [i \in 1 .. Count |-> queue'[i]]
  BY <1>3, <1>7
<1>11. queue' = Append(queue, queue'[Count + 1])
  BY <1>3, <1>9, <1>10, AppendLast
<1> QED
  BY <1>1, <1>2, <1>3, <1>8, <1>11 DEF TypeOK

\* A fetch that finds a message removes the oldest.
LEMMA TakeRemoves ==
  ASSUME NoOverflow, IInv, IInv', FetchTake
  PROVE  /\ queue # << >>
         /\ arg' = [arg EXCEPT ![Fetcher] = Head(queue)]
         /\ queue' = Tail(queue)
<1> USE SizeAssumption, BoundsAssumption
<1>1. TypeOK /\ RingBounded /\ TypeOK' /\ RingBounded'
  BY DEF IInv
<1>2. first' = first + 1 /\ last' = last /\ msgs' = msgs /\ first # last
  BY <1>1, FullMeans DEF FetchTake, Empty
<1>3. /\ Count = last - first /\ Count \in Nat /\ Count >= 1
      /\ queue \in [1 .. Count -> Msgs \cup {NoMsg}]
  BY <1>1, <1>2, QueueShape DEF TypeOK, RingBounded
<1>4. queue[1] = msgs[first % Size]
  <2>1. queue[1] = msgs[(first + 1 - 1) % Size]
    BY <1>3 DEF queue
  <2>2. first + 1 - 1 = first
    BY <1>1 DEF TypeOK
  <2> QED
    BY <2>1, <2>2
<1>5. Count' = Count - 1
  <2>1. /\ last' - first' \in Nat /\ 2 * (IntMax + 1) \in Nat
        /\ last' - first' < 2 * (IntMax + 1)
    BY <1>1, <1>2 DEF NoOverflow, TypeOK, RingBounded
  <2>2. Count' = (last' - first') % (2 * (IntMax + 1))
    BY DEF Count
  <2>3. Count' = last' - first'
    BY <2>1, <2>2, ModSmall
  <2> QED
    BY <1>1, <1>2, <1>3, <2>3 DEF TypeOK
<1>6. \A i \in 1 .. Count - 1 : queue'[i] = queue[i + 1]
  <2> SUFFICES ASSUME NEW i \in 1 .. Count - 1 PROVE queue'[i] = queue[i + 1]
    OBVIOUS
  <2>1. i + 1 \in 1 .. Count /\ first + (i + 1) - 1 = first' + i - 1
    BY <1>1, <1>2, <1>3 DEF TypeOK
  <2>2. queue'[i] = msgs'[(first' + i - 1) % Size]
    BY <1>5 DEF queue
  <2> QED
    BY <2>1, <2>2, <1>2 DEF queue
<1>7. queue' \in [1 .. Count - 1 -> Msgs \cup {NoMsg}]
  <2>1. \A i \in 1 .. Count - 1 : queue'[i] \in Msgs \cup {NoMsg}
    BY <1>3, <1>6
  <2>2. queue' = [i \in 1 .. Count - 1 |-> queue'[i]]
    BY <1>5 DEF queue
  <2> QED
    BY <2>1, <2>2
<1>8. queue # << >> /\ Head(queue) = queue[1] /\ Tail(queue) = queue'
  BY <1>3, <1>6, <1>7, TailShifts
<1> QED
  BY <1>4, <1>8 DEF FetchTake

LEMMA StepRefines ==
  NoOverflow /\ IInv /\ IInv' /\ [Next]_vars => [Abs!Next]_(Abs!vars)
<1> SUFFICES ASSUME NoOverflow, IInv, IInv', [Next]_vars
             PROVE  [Abs!Next]_(Abs!vars)
  OBVIOUS
<1> USE FetcherAssumption DEF ring, sems, Goto, Outcome
<1>a. /\ TypeOK
      /\ Len(queue) = Count /\ Count = last - first /\ Count \in 0 .. Size - 1
      /\ queue = << >> <=> Empty
  BY QueueShape DEF IInv
<1>b. UNCHANGED ring => queue' = queue
  BY DEF queue, Count
<1>u. CASE UNCHANGED vars
  BY <1>u, <1>b DEF vars, Abs!vars, phase
<1>1. ASSUME NEW p \in Posters, NEW o \in PostOps, NEW m \in Msgs, PostCall(p, o, m)
      PROVE  Abs!PostCall(p, o, m)
  BY <1>1, <1>a, <1>b DEF PostCall, Abs!PostCall, TypeOK, Threads, phase
<1>2. ASSUME NEW t \in Threads, Lock(t) PROVE UNCHANGED Abs!vars
  BY <1>2, <1>a, <1>b DEF Lock, Abs!vars, TypeOK, phase
<1>3. ASSUME NEW p \in Posters, PostStore(p) PROVE Abs!Enqueue(p)
  <2>1. Len(queue) < Size - 1 /\ queue' = Append(queue, arg[p])
    BY <1>3, StoreAppends
  <2>2. phase[p] = "called" /\ phase' = [phase EXCEPT ![p] = "done"]
    BY <1>3, <1>a DEF PostStore, TypeOK, Threads, phase
  <2> QED
    BY <1>3, <2>1, <2>2 DEF PostStore, Abs!Enqueue
<1>4. ASSUME NEW p \in Posters, PostWake(p) PROVE UNCHANGED Abs!vars
  BY <1>4, <1>a, <1>b DEF PostWake, Abs!vars, TypeOK, Threads, phase
<1>5. ASSUME NEW p \in Posters, PostReturn(p) PROVE Abs!Return(p)
  BY <1>5, <1>a, <1>b DEF PostReturn, Abs!Return, TypeOK, Threads, phase
<1>6. ASSUME NEW p \in Posters, TryPostFull(p) PROVE Abs!RefusePost(p)
  <2>1. Full <=> last + 1 >= first + Size
    BY <1>a, FullMeans
  <2>2. Len(queue) = Size - 1
    BY <1>6, <1>a, <2>1, SizeAssumption DEF TryPostFull, TypeOK
  <2>3. phase[p] = "called" /\ phase' = [phase EXCEPT ![p] = "idle"]
    BY <1>6, <1>a DEF TryPostFull, TypeOK, Threads, phase
  <2> QED
    BY <1>6, <1>b, <2>2, <2>3 DEF TryPostFull, Abs!RefusePost
<1>7. ASSUME NEW p \in Posters, PostSleep(p) PROVE UNCHANGED Abs!vars
  BY <1>7, <1>a, <1>b DEF PostSleep, Abs!vars, TypeOK, Threads, phase
<1>8. ASSUME NEW p \in Posters, PostWoken(p) PROVE UNCHANGED Abs!vars
  BY <1>8, <1>a, <1>b DEF PostWoken, Abs!vars, TypeOK, Threads, phase
<1>9. ASSUME NEW p \in Posters, PostRelock(p) PROVE UNCHANGED Abs!vars
  BY <1>9, <1>a, <1>b DEF PostRelock, Abs!vars, TypeOK, Threads, phase
<1>10. ASSUME NEW o \in FetchOps, FetchCall(o) PROVE Abs!FetchCall(o)
  BY <1>10, <1>a, <1>b DEF FetchCall, Abs!FetchCall, TypeOK, Threads, phase
<1>11. ASSUME FetchTake PROVE Abs!Dequeue
  <2>1. phase[Fetcher] = "called" /\ phase' = [phase EXCEPT ![Fetcher] = "done"]
    BY <1>11, <1>a DEF FetchTake, TypeOK, Threads, phase
  <2> QED
    BY <1>11, <2>1, TakeRemoves DEF FetchTake, Abs!Dequeue
<1>12. ASSUME FetchWake PROVE UNCHANGED Abs!vars
  BY <1>12, <1>a, <1>b DEF FetchWake, Abs!vars, TypeOK, Threads, phase
<1>13. ASSUME FetchReturn PROVE Abs!Return(Fetcher)
  BY <1>13, <1>a, <1>b DEF FetchReturn, Abs!Return, TypeOK, Threads, phase
<1>14. ASSUME TryFetchEmpty PROVE Abs!RefuseFetch
  BY <1>14, <1>a, <1>b DEF TryFetchEmpty, Abs!RefuseFetch, TypeOK, Threads, phase
<1>15. ASSUME FetchSleep PROVE UNCHANGED Abs!vars
  BY <1>15, <1>a, <1>b DEF FetchSleep, Abs!vars, TypeOK, Threads, phase
<1>16. ASSUME FetchWoken PROVE UNCHANGED Abs!vars
  BY <1>16, <1>a, <1>b DEF FetchWoken, Abs!vars, TypeOK, Threads, phase
<1>17. ASSUME FetchRelock PROVE UNCHANGED Abs!vars
  BY <1>17, <1>a, <1>b DEF FetchRelock, Abs!vars, TypeOK, Threads, phase
<1>18. ASSUME FetchTimeout PROVE Abs!GiveUp
  BY <1>18, <1>a, <1>b DEF FetchTimeout, Abs!GiveUp, TypeOK, Threads, phase
<1> QED
  BY <1>u, <1>1, <1>2, <1>3, <1>4, <1>5, <1>6, <1>7, <1>8, <1>9, <1>10, <1>11,
     <1>12, <1>13, <1>14, <1>15, <1>16, <1>17, <1>18
  DEF Next, PostStep, FetchStep, PostOps, FetchOps, Threads, Abs!Next, Abs!Threads

\* The mailbox of sys_arch.c implements the bounded FIFO queue, whatever the
\* interleaving of its posters with the fetcher.
THEOREM MboxRefinement == NoOverflow => (Spec => Refinement)
<1> SUFFICES ASSUME NoOverflow PROVE Spec => Abs!Spec
  BY DEF Refinement
<1>1. Init => Abs!Init
  BY InitRefines
<1>2. IInv /\ IInv' /\ [Next]_vars => [Abs!Next]_(Abs!vars)
  BY StepRefines
<1>3. Spec => []IInv
  BY MboxInvariant
<1> QED
  BY <1>1, <1>2, <1>3, PTL DEF Spec, Abs!Spec

=============================================================================
