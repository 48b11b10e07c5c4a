-------------------------- MODULE Partition_proofs --------------------------
(***************************************************************************)
(* What partitionDB guarantees for every number of ids, positions, threads *)
(* and rows; and that its search loops implement the choice of module      *)
(* Partition.                                                              *)
(***************************************************************************)
EXTENDS PartitionSearch, DivisionLemmas, FiniteSetTheorems

\* There is at least one enrolled id, and there are finitely many.
LEMMA CountType == Count \in Nat \ {0}
BY IdsOK, FS_CardinalityType, FS_EmptySet DEF Count

\* The ranges of the splits start below Count and end at most there.
LEMMA IncrementType ==
    /\ Increment \in Nat
    /\ Increment * NrofSplits <= Count
    /\ Count < Increment * NrofSplits + NrofSplits
BY CountType, SizesOK DEF Increment

\* First and Last stay within the id list (f_ind and l_ind, sender.cc:94-104).
LEMMA RangesFit ==
    ASSUME NEW s \in Splits
    PROVE  /\ First(s) \in 0 .. Count - 1
           /\ Last(s) \in 0 .. Count
           /\ s # NrofSplits - 1 => Last(s) = First(s + 1)
<1>1. s \in Nat /\ s <= NrofSplits - 1 /\ NrofSplits \in Nat \ {0}
  BY SizesOK DEF Splits
<1>2. Increment \in Nat /\ Count \in Nat \ {0}
  BY IncrementType, CountType
<1>3. s * Increment <= (NrofSplits - 1) * Increment
  BY <1>1, <1>2, MulMono
<1>4. (NrofSplits - 1) * Increment = NrofSplits * Increment - Increment
  BY <1>1, <1>2
<1>5. Increment * NrofSplits = NrofSplits * Increment
  BY <1>1, <1>2
<1>6. s * Increment < Count
  BY <1>1, <1>2, <1>3, <1>4, <1>5, IncrementType
<1>7. s * Increment \in Nat
  BY <1>1, <1>2
<1>8. (s + 1) * Increment = s * Increment + Increment
  BY <1>1, <1>2
<1>9. (s + 1) * Increment <= Count
  BY <1>1, <1>2, <1>3, <1>4, <1>5, <1>7, <1>8, IncrementType
<1> QED
  BY <1>1, <1>2, <1>6, <1>7, <1>8, <1>9 DEF First, Last

----------------------------------------------------------------------------

\* Type correctness of the partitioning.
LEMMA TypeInit == Init => TypeOK
BY RangesFit, CountType DEF Init, TypeOK

\* An index of the id list gives an enrolled id.
LEMMA NextId ==
    ASSUME TypeOK, NEW s \in Splits, Searching(s)
    PROVE  i_next[s] + 1 \in 0 .. Count /\ Order[i_next[s]] \in Ids
<1>1. i_next[s] \in 0 .. Count - 1
  BY RangesFit, CountType DEF Searching, TypeOK
<1> QED
  BY <1>1, OrderOK, CountType

\* What appending one element does to a sequence.
LEMMA AppendFacts ==
    ASSUME NEW S, NEW q \in Seq(S), NEW e \in S
    PROVE  /\ Append(q, e) \in Seq(S)
           /\ Append(q, e) # <<>>
           /\ Len(Append(q, e)) = Len(q) + 1
           /\ DOMAIN Append(q, e) = DOMAIN q \cup {Len(q) + 1}
           /\ Len(q) + 1 \notin DOMAIN q
           /\ Append(q, e)[Len(q) + 1] = e
           /\ \A d \in DOMAIN q : Append(q, e)[d] = q[d]
OBVIOUS

\* Every step of a split keeps the types.
LEMMA TypeStep == TypeOK /\ [Next]_vars => TypeOK'
<1> SUFFICES ASSUME TypeOK, [Next]_vars PROVE TypeOK'
  OBVIOUS
<1> USE DEF TypeOK
<1>1. ASSUME NEW s \in Splits, SeedSplit(s) PROVE TypeOK'
  <2>1. First(s) \in 0 .. Count - 1 /\ Order[First(s)] \in Ids
    BY RangesFit, OrderOK
  <2>2. <<{Order[First(s)]}>> \in Seq(SUBSET Ids)
    BY <2>1
  <2>3. First(s) + 1 \in 0 .. Count
    BY <2>1, CountType
  <2> QED
    BY <1>1, <2>2, <2>3 DEF SeedSplit
<1>2. ASSUME NEW s \in Splits, AddToPartition(s) PROVE TypeOK'
  <2>1. PICK c \in Candidates(s, Order[i_next[s]]) :
           /\ partitions' = [partitions EXCEPT ![s][c] = @ \cup {Order[i_next[s]]}]
           /\ next_part' = [next_part EXCEPT ![s] = c]
    BY <1>2 DEF AddToPartition
  <2>2. c \in DOMAIN partitions[s] /\ c \in 1 .. Len(partitions[s])
    BY <2>1 DEF Candidates, Tried, NonFull
  <2>3. partitions[s][c] \cup {Order[i_next[s]]} \in SUBSET Ids
    BY NextId, <1>2, <2>2 DEF AddToPartition
  <2>4. [partitions[s] EXCEPT ![c] = @ \cup {Order[i_next[s]]}] \in Seq(SUBSET Ids)
    BY <2>2, <2>3
  <2>5. partitions'[s] = [partitions[s] EXCEPT ![c] = @ \cup {Order[i_next[s]]}]
    BY <2>1
  <2>6. Len(partitions'[s]) = Len(partitions[s])
    BY <2>2, <2>5
  <2> QED
    BY NextId, <1>2, <2>1, <2>2, <2>4, <2>5, <2>6 DEF AddToPartition
<1>3. ASSUME NEW s \in Splits, OpenPartition(s) PROVE TypeOK'
  <2>1. partitions' = [partitions EXCEPT ![s] = Append(@, {Order[i_next[s]]})]
    BY <1>3 DEF OpenPartition
  <2>2. /\ Append(partitions[s], {Order[i_next[s]]}) \in Seq(SUBSET Ids)
        /\ Len(Append(partitions[s], {Order[i_next[s]]})) = Len(partitions[s]) + 1
    BY <1>3, NextId, AppendFacts DEF OpenPartition
  <2> QED
    BY <1>3, <2>1, <2>2, NextId DEF OpenPartition, Newest
<1>4. ASSUME Join \/ UNCHANGED vars PROVE TypeOK'
  BY <1>4 DEF Join, vars
<1> QED
  BY <1>1, <1>2, <1>3, <1>4 DEF Next, SplitStep

\* The partitioning keeps its types for every number of ids and threads.
THEOREM TypeCorrect == Spec => []TypeOK
BY TypeInit, TypeStep, PTL DEF Spec

----------------------------------------------------------------------------
(* Every step of a split, the seed, an addition and a new partition alike,  *)
(* puts the next id of the range into one partition.                        *)

Progress ==
    \A s \in Splits :
        IF partitions[s] = <<>> THEN i_next[s] = First(s)
                                ELSE First(s) < i_next[s]

Before(s, c) == IF c \in DOMAIN partitions[s] THEN partitions[s][c] ELSE {}

Puts(s, c) ==
    /\ c \in DOMAIN partitions'[s]
    /\ DOMAIN partitions'[s] = DOMAIN partitions[s] \cup {c}
    /\ partitions'[s][c] = Before(s, c) \cup {Order[i_next[s]]}
    /\ \A d \in DOMAIN partitions[s] \ {c} : partitions'[s][d] = partitions[s][d]
    /\ IsDistinct(Order[i_next[s]], Before(s, c))
    /\ Cardinality(Before(s, c)) < PartitionSize
    /\ partitions'[s] # <<>>
    /\ \A t \in Splits \ {s} : partitions'[t] = partitions[t]
    /\ i_next' = [i_next EXCEPT ![s] = @ + 1]
    /\ UNCHANGED enr_ss_map

\* Whichever of the three ways a split places an id, it puts one id of the
\* list into one partition and leaves the others alone.
LEMMA StepPuts ==
    ASSUME TypeOK, Progress, NEW s \in Splits, SplitStep(s)
    PROVE  \E c : Puts(s, c)
<1> USE DEF TypeOK
<1>0. Cardinality({}) = 0 /\ 0 < PartitionSize
  BY FS_EmptySet, SizesOK
<1>1. CASE SeedSplit(s)
  <2>1. i_next[s] = First(s)
    BY <1>1 DEF Progress, SeedSplit
  <2>2. partitions'[s] = <<{Order[First(s)]}>>
    BY <1>1 DEF SeedSplit
  <2>3. Puts(s, 1)
    BY <1>0, <1>1, <2>1, <2>2 DEF Puts, Before, IsDistinct, SeedSplit
  <2> QED
    BY <2>3
<1>2. CASE AddToPartition(s)
  <2> DEFINE id == Order[i_next[s]]
  <2>1. PICK c \in Candidates(s, id) :
           partitions' = [partitions EXCEPT ![s][c] = @ \cup {id}]
    BY <1>2 DEF AddToPartition
  <2>2. /\ c \in DOMAIN partitions[s]
        /\ Cardinality(partitions[s][c]) < PartitionSize
        /\ IsDistinct(id, partitions[s][c])
    BY <2>1 DEF Candidates, Tried, NonFull
  <2>3. partitions'[s] = [partitions[s] EXCEPT ![c] = @ \cup {id}]
    BY <2>1
  <2>4. partitions[s] # <<>>
    BY <1>2 DEF AddToPartition, Searching
  <2>5. partitions'[s] # <<>>
    BY <2>2, <2>3
  <2>6. Puts(s, c)
    BY <1>2, <2>1, <2>2, <2>3, <2>5 DEF Puts, Before, AddToPartition
  <2> QED
    BY <2>6
<1>3. CASE OpenPartition(s)
  <2> DEFINE id == Order[i_next[s]]
  <2> DEFINE n == Len(partitions[s]) + 1
  <2>1. partitions'[s] = Append(partitions[s], {id})
    BY <1>3 DEF OpenPartition
  <2>2. partitions[s] \in Seq(SUBSET Ids) /\ {id} \in SUBSET Ids
    BY <1>3, NextId DEF OpenPartition
  <2>3. /\ DOMAIN partitions'[s] = DOMAIN partitions[s] \cup {n}
        /\ n \notin DOMAIN partitions[s]
        /\ partitions'[s][n] = {id}
        /\ partitions'[s] # <<>>
        /\ \A d \in DOMAIN partitions[s] : partitions'[s][d] = partitions[s][d]
    <3> HIDE DEF TypeOK, id
    <3> QED
      BY <2>1, <2>2, AppendFacts
  <2>4. Puts(s, n)
    BY <1>0, <1>3, <2>3 DEF Puts, Before, IsDistinct, OpenPartition
  <2> QED
    BY <2>4
<1> QED
  BY <1>1, <1>2, <1>3 DEF SplitStep

\* Every step keeps a split between the start of its range and the end.
LEMMA ProgressStep == TypeOK /\ Progress /\ [Next]_vars => Progress'
<1> SUFFICES ASSUME TypeOK, Progress, [Next]_vars PROVE Progress'
  OBVIOUS
<1>1. ASSUME NEW s \in Splits, SplitStep(s) PROVE Progress'
  <2>1. PICK c : Puts(s, c)
    BY <1>1, StepPuts
  <2>2. i_next[s] \in Int /\ First(s) \in Int /\ First(s) <= i_next[s]
    BY RangesFit DEF Progress, TypeOK
  <2> QED
    BY <2>1, <2>2 DEF Progress, Puts, TypeOK, First, Increment, Count
<1>2. ASSUME Join \/ UNCHANGED vars PROVE Progress'
  BY <1>2 DEF Progress, Join, vars, First, Increment, Count
<1> QED
  BY <1>1, <1>2 DEF Next

\* Types and loop indices are right in every reachable state.
LEMMA TypeAndProgress == Spec => [](TypeOK /\ Progress)
<1>1. Init => TypeOK /\ Progress
  BY TypeInit DEF Init, Progress
<1>2. TypeOK /\ Progress /\ [Next]_vars => (TypeOK /\ Progress)'
  BY TypeStep, ProgressStep
<1> QED
  BY <1>1, <1>2, PTL DEF Spec

----------------------------------------------------------------------------

\* No two ids of a partition share a subsample at a position.
LEMMA DistinctStep ==
    TypeOK /\ Progress /\ PositionsDistinct /\ [Next]_vars => PositionsDistinct'
<1> SUFFICES ASSUME TypeOK, Progress, PositionsDistinct, [Next]_vars
             PROVE  PositionsDistinct'
  OBVIOUS
<1>1. ASSUME NEW s \in Splits, SplitStep(s) PROVE PositionsDistinct'
  <2>1. PICK c : Puts(s, c)
    BY <1>1, StepPuts
  <2> DEFINE id == Order[i_next[s]]
  <2>2. \A a, b \in Before(s, c) : a # b => ~Collide(a, b)
    BY DEF Before, PositionsDistinct
  <2>3. \A a \in Before(s, c) : ~Collide(id, a) /\ ~Collide(a, id)
    BY <2>1 DEF Puts, IsDistinct, Collide
  <2>4. \A a, b \in Before(s, c) \cup {id} : a # b => ~Collide(a, b)
    BY <2>2, <2>3
  <2>5. \A a, b : Collide(a, b)' = Collide(a, b)
    BY <2>1 DEF Puts, Collide
  <2> QED
    BY <2>1, <2>4, <2>5 DEF Puts, PositionsDistinct
<1>2. ASSUME Join \/ UNCHANGED vars PROVE PositionsDistinct'
  BY <1>2 DEF PositionsDistinct, Collide, Join, vars
<1> QED
  BY <1>1, <1>2 DEF Next

\* The interpolation of a partition always has distinct x-coordinates.
THEOREM AlwaysDistinct == Spec => []PositionsDistinct
<1>1. Init => PositionsDistinct
  BY DEF Init, PositionsDistinct
<1> QED
  BY <1>1, DistinctStep, TypeAndProgress, PTL DEF Spec

\* An id goes to a partition that has room, or opens one of its own.
LEMMA FitStep == TypeOK /\ Progress /\ PartitionsFit /\ [Next]_vars => PartitionsFit'
<1> SUFFICES ASSUME TypeOK, Progress, PartitionsFit, [Next]_vars
             PROVE  PartitionsFit'
  OBVIOUS
<1>1. ASSUME NEW s \in Splits, SplitStep(s) PROVE PartitionsFit'
  <2>1. PICK c : Puts(s, c)
    BY <1>1, StepPuts
  <2>2. Before(s, c) \in SUBSET Ids
    BY DEF Before, TypeOK
  <2>3. IsFiniteSet(Before(s, c)) /\ Cardinality(Before(s, c)) \in Nat
    BY <2>2, IdsOK, FS_Subset, FS_CardinalityType
  <2>4. Cardinality(Before(s, c) \cup {Order[i_next[s]]}) <= Cardinality(Before(s, c)) + 1
    BY <2>3, FS_AddElement
  <2>5. Cardinality(Before(s, c) \cup {Order[i_next[s]]}) \in Nat
    BY <2>3, FS_AddElement, FS_CardinalityType
  <2>6. Cardinality(Before(s, c) \cup {Order[i_next[s]]}) <= PartitionSize
    BY <2>1, <2>3, <2>4, <2>5, SizesOK DEF Puts
  <2> QED
    BY <2>1, <2>6 DEF Puts, PartitionsFit
<1>2. ASSUME Join \/ UNCHANGED vars PROVE PartitionsFit'
  BY <1>2 DEF PartitionsFit, Join, vars
<1> QED
  BY <1>1, <1>2 DEF Next

\* No partition ever outgrows partition_size.
THEOREM AlwaysFit == Spec => []PartitionsFit
<1>1. Init => PartitionsFit
  BY DEF Init, PartitionsFit
<1> QED
  BY <1>1, FitStep, TypeAndProgress, PTL DEF Spec

----------------------------------------------------------------------------
(* Every id is placed exactly once, provided no range is empty.             *)

PlacedIn(s, id) == \E c \in DOMAIN partitions[s] : id \in partitions[s][c]

\* What a split has placed are the ids from the start of its range to i_next.
Placed ==
    \A s \in Splits, id \in Ids :
        PlacedIn(s, id) <=> \E i \in 0 .. Count - 1 :
                               First(s) <= i /\ i < i_next[s] /\ Order[i] = id

OncePerSplit ==
    \A s \in Splits : \A c, d \in DOMAIN partitions[s] :
        \A id \in partitions[s][c] \cap partitions[s][d] : c = d

PlacementInv == TypeOK /\ Progress /\ Placed /\ OncePerSplit

WithinRange == \A s \in Splits : i_next[s] <= Last(s)

\* With at least one id per split no range is empty.
LEMMA RangesNotEmpty ==
    ASSUME NrofSplits <= Count, NEW s \in Splits
    PROVE  First(s) < Last(s)
<1>1. s \in Nat /\ s <= NrofSplits - 1 /\ NrofSplits \in Nat \ {0}
  BY SizesOK DEF Splits
<1>2. Increment \in Nat /\ Increment >= 1
  BY <1>1, IncrementType, CountType DEF Increment
<1>3. (s + 1) * Increment = s * Increment + Increment /\ s * Increment \in Nat
  BY <1>1, <1>2
<1> QED
  BY <1>2, <1>3, RangesFit, CountType DEF First, Last

\* Ranges of different splits do not meet.
LEMMA RangesDisjoint ==
    ASSUME NEW s \in Splits, NEW t \in Splits, s < t
    PROVE  Last(s) <= First(t)
<1>1. s \in Nat /\ t \in Nat /\ s + 1 <= t /\ t <= NrofSplits - 1 /\ NrofSplits \in Nat
  BY SizesOK DEF Splits
<1>2. Increment \in Nat
  BY IncrementType
<1>3. (s + 1) * Increment <= t * Increment
  BY <1>1, <1>2, MulMono
<1> QED
  BY <1>1, <1>3 DEF First, Last

\* Every place of Order lies in the range of some split.
LEMMA RangesCover ==
    ASSUME NrofSplits <= Count, NEW i \in 0 .. Count - 1
    PROVE  \E s \in Splits : First(s) <= i /\ i < Last(s)
<1>1. Increment \in Nat \ {0} /\ NrofSplits \in Nat \ {0} /\ i \in Nat /\ i < Count
  BY IncrementType, CountType, SizesOK DEF Increment
<1> DEFINE q == i \div Increment
<1>2. q \in Nat /\ q * Increment <= i /\ i < (q + 1) * Increment
  BY <1>1
<1>3. CASE q <= NrofSplits - 1
  <2>1. q \in Splits
    BY <1>1, <1>2, <1>3 DEF Splits
  <2>2. First(q) <= i /\ i < Last(q)
    BY <1>1, <1>2 DEF First, Last
  <2> QED
    BY <2>1, <2>2
<1>4. CASE q > NrofSplits - 1
  <2> DEFINE n == NrofSplits - 1
  <2>1. n \in Splits /\ n \in Nat /\ n <= q
    BY <1>1, <1>2, <1>4 DEF Splits
  <2>2. n * Increment <= q * Increment
    BY <2>1, <1>1, <1>2, MulMono
  <2>3. n * Increment \in Nat /\ q * Increment \in Nat
    BY <1>1, <1>2, <2>1
  <2>4. First(n) <= i /\ i < Last(n)
    BY <1>1, <1>2, <2>2, <2>3 DEF First, Last
  <2> QED
    BY <2>1, <2>4
<1> QED
  BY <1>1, <1>2, <1>3, <1>4

\* Before the first id nothing is placed.
LEMMA PlacementInit == Init => PlacementInv
<1> SUFFICES ASSUME Init PROVE PlacementInv
  OBVIOUS
<1>1. \A s \in Splits : First(s) \in Int
  BY RangesFit
<1>2. Placed
  BY <1>1 DEF Init, Placed, PlacedIn
<1> QED
  BY TypeInit, <1>2 DEF Init, PlacementInv, Progress, OncePerSplit

\* What each split has placed is exactly the part of its range behind it.
LEMMA PlacementStep == PlacementInv /\ [Next]_vars => PlacementInv'
<1> SUFFICES ASSUME PlacementInv, [Next]_vars PROVE PlacementInv'
  OBVIOUS
<1>1. TypeOK' /\ Progress'
  BY TypeStep, ProgressStep DEF PlacementInv
<1>2. ASSUME NEW s \in Splits, SplitStep(s)
      PROVE  (Placed /\ OncePerSplit)'
  <2> DEFINE k == i_next[s]
  <2> DEFINE id == Order[k]
  <2>1. PICK c : Puts(s, c)
    BY <1>2, StepPuts DEF PlacementInv
  <2>2. First(s) <= k /\ k \in 0 .. Count - 1
    <3>1. First(s) <= k /\ k \in 0 .. Count
      BY RangesFit DEF PlacementInv, Progress, TypeOK
    <3>2. k = First(s) \/ k < Last(s)
      BY <1>2 DEF SplitStep, SeedSplit, AddToPartition, OpenPartition, Searching,
                  PlacementInv, Progress
    <3> QED
      BY <3>1, <3>2, RangesFit, CountType
  <2>3. id \in Ids
    BY <2>2, OrderOK
  <2>4. i_next'[s] = k + 1 /\ \A t \in Splits \ {s} : i_next'[t] = i_next[t]
    BY <2>1 DEF Puts, PlacementInv, TypeOK
  <2>5. ~PlacedIn(s, id)
    <3>1. SUFFICES ASSUME NEW i \in 0 .. Count - 1, i < k, Order[i] = id
                   PROVE  FALSE
      BY <2>3 DEF PlacementInv, Placed
    <3> QED
      BY <3>1, <2>2, OrderOK
  <2>6. \A x : PlacedIn(s, x)' <=> PlacedIn(s, x) \/ x = id
    BY <2>1 DEF Puts, PlacedIn, Before
  <2>7. \A t \in Splits \ {s} : \A x : PlacedIn(t, x)' <=> PlacedIn(t, x)
    BY <2>1 DEF Puts, PlacedIn
  <2>8. Placed'
    <3> SUFFICES ASSUME NEW t \in Splits, NEW x \in Ids
                 PROVE  PlacedIn(t, x)' <=> \E i \in 0 .. Count - 1 :
                            First(t) <= i /\ i < i_next'[t] /\ Order[i] = x
      BY DEF Placed, First, Increment, Count
    <3>1. CASE t # s
      BY <3>1, <2>4, <2>7 DEF PlacementInv, Placed
    <3>2. CASE t = s
      <4>1. PlacedIn(s, x) <=> \E i \in 0 .. Count - 1 :
                            First(s) <= i /\ i < k /\ Order[i] = x
        BY DEF PlacementInv, Placed
      <4>2. \A i \in 0 .. Count - 1 : i < k + 1 <=> (i < k \/ i = k)
        BY <2>2
      <4> QED
        BY <3>2, <4>1, <4>2, <2>2, <2>4, <2>6
    <3> QED
      BY <3>1, <3>2
  <2>9. OncePerSplit'
    <3> SUFFICES ASSUME NEW t \in Splits,
                        NEW d \in DOMAIN partitions'[t],
                        NEW e \in DOMAIN partitions'[t],
                        NEW x \in partitions'[t][d] \cap partitions'[t][e]
                 PROVE  d = e
      BY DEF OncePerSplit
    <3>1. CASE t # s
      BY <3>1, <2>1 DEF Puts, PlacementInv, OncePerSplit
    <3>2. CASE t = s /\ x = id
      BY <3>2, <2>1, <2>5 DEF Puts, PlacedIn
    <3>3. CASE t = s /\ x # id
      BY <3>3, <2>1 DEF Puts, Before, PlacementInv, OncePerSplit
    <3> QED
      BY <3>1, <3>2, <3>3
  <2> QED
    BY <2>8, <2>9
<1>3. ASSUME Join \/ UNCHANGED vars PROVE (Placed /\ OncePerSplit)'
  BY <1>3 DEF Join, vars, PlacementInv, Placed, PlacedIn, OncePerSplit,
              First, Increment, Count
<1> QED
  BY <1>1, <1>2, <1>3 DEF Next, PlacementInv

\* A split does not run over the end of its range.
LEMMA WithinRangeStep ==
    ASSUME NrofSplits <= Count
    PROVE  TypeOK /\ Progress /\ WithinRange /\ [Next]_vars => WithinRange'
<1> SUFFICES ASSUME TypeOK, Progress, WithinRange, [Next]_vars PROVE WithinRange'
  OBVIOUS
<1> USE DEF Last, Increment, Count
<1>1. ASSUME NEW s \in Splits, SplitStep(s) PROVE WithinRange'
  <2>1. PICK c : Puts(s, c)
    BY <1>1, StepPuts
  <2>2. i_next[s] < Last(s)
    BY <1>1, RangesNotEmpty DEF SplitStep, SeedSplit, AddToPartition,
       OpenPartition, Searching, Progress
  <2>3. \A t \in Splits : i_next'[t] <= Last(t)
    <3> HIDE DEF Last
    <3> QED
      BY <2>1, <2>2, RangesFit DEF Puts, TypeOK, WithinRange
  <2> QED
    BY <2>3 DEF WithinRange
<1>2. ASSUME Join \/ UNCHANGED vars PROVE WithinRange'
  BY <1>2 DEF Join, vars, WithinRange
<1> QED
  BY <1>1, <1>2 DEF Next

\* When all splits are through, the ranges together are the whole list.
LEMMA PlacementImplies ==
    ASSUME NrofSplits <= Count
    PROVE  PlacementInv /\ WithinRange => PlacedExactlyOnce
<1> SUFFICES ASSUME PlacementInv, WithinRange, Finished, NEW id \in Ids
             PROVE  \E s \in Splits : \E c \in DOMAIN partitions[s] :
                       \A t \in Splits : \A d \in DOMAIN partitions[t] :
                          id \in partitions[t][d] <=> (t = s /\ d = c)
  BY DEF PlacedExactlyOnce
<1>1. \A s \in Splits : i_next[s] = Last(s)
  BY RangesFit DEF PlacementInv, TypeOK, WithinRange, Finished, SplitFinished
<1>2. PICK i \in 0 .. Count - 1 : Order[i] = id
  BY OrderOK
<1>3. PICK s \in Splits : First(s) <= i /\ i < Last(s)
  BY RangesCover
<1>4. PICK c \in DOMAIN partitions[s] : id \in partitions[s][c]
  BY <1>1, <1>2, <1>3 DEF PlacementInv, Placed, PlacedIn
<1>5. ASSUME NEW t \in Splits, NEW d \in DOMAIN partitions[t], id \in partitions[t][d]
      PROVE  t = s /\ d = c
  <2>1. PICK k \in 0 .. Count - 1 : First(t) <= k /\ k < Last(t) /\ Order[k] = id
    BY <1>1, <1>5 DEF PlacementInv, Placed, PlacedIn
  <2>2. k = i
    BY <2>1, <1>2, OrderOK
  <2>3. s \in Int /\ t \in Int
    BY SizesOK DEF Splits
  <2>4. t = s
    BY <1>3, <2>1, <2>2, <2>3, RangesDisjoint, RangesFit
  <2> QED
    BY <1>4, <1>5, <2>4 DEF PlacementInv, OncePerSplit
<1> QED
  BY <1>4, <1>5

\* With at least one id per split, every enrolled id ends in exactly one
\* partition.
THEOREM AlwaysExactlyOnce ==
    ASSUME NrofSplits <= Count PROVE Spec => []PlacedExactlyOnce
<1>1. Init => PlacementInv /\ WithinRange
  BY PlacementInit, RangesNotEmpty, RangesFit DEF Init, WithinRange
<1>2. PlacementInv /\ WithinRange /\ [Next]_vars => (PlacementInv /\ WithinRange)'
  BY PlacementStep, WithinRangeStep DEF PlacementInv
<1> QED
  BY <1>1, <1>2, PlacementImplies, PTL DEF Spec

----------------------------------------------------------------------------
(* The search wastes at most one partition.                                 *)

\* A step that fills, joins or opens a partition leaves at most two of them
\* partly filled when ids do not collide.
LEMMA FewStep ==
    PlacementInv /\ FewPartlyFilled /\ [Next]_vars => FewPartlyFilled'
<1> SUFFICES ASSUME PlacementInv, FewPartlyFilled, [Next]_vars,
                    NEW s \in Splits, NoCollisions(s)'
             PROVE  (Cardinality(NonFull(s)) <= 2)'
  BY DEF FewPartlyFilled
<1> DEFINE id == Order[i_next[s]]
<1> DEFINE n == Len(partitions[s]) + 1
<1>0. ASSUME NEW a, NEW b, NEW T \in SUBSET {a, b}
      PROVE  IsFiniteSet(T) /\ Cardinality(T) \in Nat /\ Cardinality(T) <= 2
  <2>1. IsFiniteSet({a}) /\ Cardinality({a}) = 1
    BY FS_Singleton
  <2>2. {a, b} = {a} \cup {b}
    OBVIOUS
  <2>3. IsFiniteSet({a, b}) /\ Cardinality({a, b}) <= 2
    BY <2>1, <2>2, FS_AddElement
  <2>4. IsFiniteSet(T) /\ Cardinality(T) <= Cardinality({a, b})
    BY <2>3, FS_Subset
  <2>5. Cardinality(T) \in Nat /\ Cardinality({a, b}) \in Nat
    BY <2>3, <2>4, FS_CardinalityType
  <2> QED
    BY <2>3, <2>4, <2>5
<1>1. IsFiniteSet(NonFull(s)) /\ Cardinality(NonFull(s)) \in Nat
  <2>1. NonFull(s) \in SUBSET (1 .. Len(partitions[s])) /\ Len(partitions[s]) \in Nat
    BY DEF NonFull, PlacementInv, TypeOK
  <2>2. IsFiniteSet(1 .. Len(partitions[s]))
    BY <2>1, FS_Interval
  <2>3. IsFiniteSet(NonFull(s))
    BY <2>1, <2>2, FS_Subset
  <2> QED
    BY <2>3, FS_CardinalityType
<1>2. CASE SeedSplit(s)
  <2>1. NonFull(s)' \in SUBSET {1, 1}
    BY <1>2 DEF SeedSplit, NonFull, PlacementInv, TypeOK
  <2> QED
    BY <1>0, <2>1
<1>3. CASE AddToPartition(s)
  <2>1. PICK c \in Candidates(s, id) :
           /\ partitions' = [partitions EXCEPT ![s][c] = @ \cup {id}]
           /\ UNCHANGED enr_ss_map
    BY <1>3 DEF AddToPartition
  <2>2. c \in NonFull(s) /\ c \in DOMAIN partitions[s]
    BY <2>1 DEF Candidates, Tried, NonFull
  <2>3. partitions'[s] = [partitions[s] EXCEPT ![c] = @ \cup {id}]
    BY <2>1 DEF PlacementInv, TypeOK
  <2>4. NoCollisions(s)
    BY <2>1, <2>3 DEF NoCollisions, Collide
  <2>5. NonFull(s)' \in SUBSET NonFull(s)
    BY <2>2, <2>3 DEF NonFull
  <2>6. Cardinality(NonFull(s)') <= Cardinality(NonFull(s))
    BY <1>1, <2>5, FS_Subset
  <2>7. Cardinality(NonFull(s)') \in Nat
    BY <1>1, <2>5, FS_Subset, FS_CardinalityType
  <2> QED
    BY <1>1, <2>4, <2>6, <2>7 DEF FewPartlyFilled
<1>4. CASE OpenPartition(s)
  <2>1. partitions[s] \in Seq(SUBSET Ids) /\ {id} \in SUBSET Ids /\ TypeOK
    BY <1>4, NextId DEF OpenPartition, PlacementInv, TypeOK
  <2>2. partitions'[s] = Append(partitions[s], {id})
    BY <1>4, <2>1 DEF OpenPartition, TypeOK
  <2>3. /\ DOMAIN partitions'[s] = DOMAIN partitions[s] \cup {n}
        /\ partitions'[s][n] = {id}
        /\ \A d \in DOMAIN partitions[s] : partitions'[s][d] = partitions[s][d]
    <3> HIDE DEF id
    <3> QED
      BY <2>1, <2>2, AppendFacts
  <2>4. ~PlacedIn(s, id)
    <3>1. i_next[s] \in 0 .. Count - 1
      BY <1>4, RangesFit, CountType DEF OpenPartition, Searching, PlacementInv, TypeOK
    <3>2. SUFFICES ASSUME NEW i \in 0 .. Count - 1, i < i_next[s], Order[i] = id
                   PROVE  FALSE
      BY <2>1 DEF PlacementInv, Placed
    <3> QED
      BY <3>1, <3>2, OrderOK
  <2>5. \A d \in DOMAIN partitions[s] : IsDistinct(id, partitions[s][d])
    <3> SUFFICES ASSUME NEW d \in DOMAIN partitions[s], NEW x \in partitions[s][d]
                 PROVE  ~Collide(id, x)
      BY DEF IsDistinct
    <3>1. x # id
      BY <2>4 DEF PlacedIn
    <3>2. \A p \in Positions : enr_ss_map'[id][p] # enr_ss_map'[x][p]
      BY <2>3, <3>1 DEF NoCollisions, Collide
    <3> QED
      BY <1>4, <3>2 DEF OpenPartition, Collide
  <2>6. Tried(s) = {}
    BY <1>4, <2>5 DEF OpenPartition, Candidates, Tried, NonFull
  <2>7. NonFull(s) \in SUBSET {next_part[s]}
    BY <2>6 DEF Tried
  <2>8. NonFull(s)' \in SUBSET {next_part[s], n}
    BY <2>3, <2>7 DEF NonFull
  <2> QED
    BY <1>0, <2>8
<1>5. CASE UNCHANGED <<enr_ss_map, partitions[s]>>
  BY <1>5 DEF FewPartlyFilled, NoCollisions, Collide, NonFull
<1>6. ASSUME NEW t \in Splits \ {s}, SplitStep(t)
      PROVE  UNCHANGED <<enr_ss_map, partitions[s]>>
  BY <1>6, StepPuts DEF PlacementInv, Puts
<1> QED
  BY <1>2, <1>3, <1>4, <1>5, <1>6 DEF Next, SplitStep, Join, vars

\* Without collisions at most two partitions of a split are partly filled.
THEOREM AlwaysFewPartlyFilled == Spec => []FewPartlyFilled
<1>1. Init => FewPartlyFilled
  <2>1. Cardinality({}) = 0
    BY FS_EmptySet
  <2>2. Init => \A s \in Splits : NonFull(s) = {}
    BY DEF Init, NonFull
  <2> QED
    BY <2>1, <2>2 DEF FewPartlyFilled
<1> QED
  BY <1>1, PlacementInit, PlacementStep, FewStep, PTL DEF Spec

----------------------------------------------------------------------------
(* The search loop.                                                         *)

Hopeless(s) == Candidates(s, Id(s)) = {}
At(s) == Distance(s, at_part[s])

\* Between two turns of the for loop: the search has come at least one
\* partition further with every turn, and no candidate is behind it.
BetweenTurns(s) ==
    /\ InHand(s) /\ loop[s] = "for" /\ j[s] \in 1 .. Len(partitions[s])
    /\ at_part[s] \in DOMAIN partitions[s]
    /\ next_part[s] = 0 => NonFull(s) # {}
    /\ at_part[s] = next_part[s] \/ at_part[s] \in NonFull(s)
    /\ \/ Hopeless(s)
       \/ /\ At(s) >= j[s] - 1
          /\ \A d \in Candidates(s, Id(s)) : Distance(s, d) > At(s)

\* In a turn: what the while loop stepped over is full, and where the turn
\* started is behind, unless the search started there, too.
InTurn(s) ==
    /\ InHand(s) /\ loop[s] = "while" /\ j[s] \in 0 .. Len(partitions[s]) - 1
    /\ at_part[s] \in DOMAIN partitions[s]
    /\ next_part[s] = 0 => IF j[s] = 0 THEN bak_part[s] = 0 ELSE NonFull(s) # {}
    /\ bak_part[s] = next_part[s] \/ bak_part[s] \in NonFull(s)
    /\ \/ Hopeless(s)
       \/ /\ At(s) >= j[s]
          /\ \A d \in Candidates(s, Id(s)) : Distance(s, d) >= At(s)
          /\ IF bak_part[s] = next_part[s]
               THEN \A d \in NonFull(s) \ {next_part[s]} : Distance(s, d) >= At(s)
               ELSE Distance(s, bak_part[s]) < At(s)

BeforeSearch(s) == loop[s] = "for" /\ j[s] = 0 /\ at_part[s] = next_part[s]

\* Only the first search of a split starts from the -1 of the code, and then
\* there is one partition.
SearchAt(s) ==
    /\ next_part[s] = 0 /\ partitions[s] # <<>> => Len(partitions[s]) = 1
    /\ BeforeSearch(s) \/ BetweenTurns(s) \/ InTurn(s)

SearchInv ==
    /\ TypeOK
    /\ j \in [Splits -> Nat] /\ at_part \in [Splits -> Nat] /\ bak_part \in [Splits -> Nat]
    /\ loop \in [Splits -> {"for", "while"}]
    /\ \A s \in Splits : SearchAt(s)

\* The remainder of a number that is less than d below zero.
LEMMA ModBelowZero ==
    ASSUME NEW d \in Nat \ {0}, NEW a \in Int, -d <= a, a < d
    PROVE  a % d = IF a < 0 THEN a + d ELSE a
OBVIOUS

\* Numbers 1 .. n in a circle, seen from m: how far c is behind it, and what comes
\* after it.  From 0 only a circle of one is looked at.
LEMMA Circle ==
    ASSUME NEW n \in Nat \ {0}, NEW m \in 0 .. n, m = 0 => n = 1
    PROVE  /\ \A c \in 1 .. n : (c - m - 1) % n = IF c > m THEN c - m - 1 ELSE c - m - 1 + n
           /\ \A c \in 0 .. n : (c % n) + 1 = IF c = n THEN 1 ELSE c + 1
<1>1. ASSUME NEW c \in 1 .. n
      PROVE  (c - m - 1) % n = IF c > m THEN c - m - 1 ELSE c - m - 1 + n
  <2>1. c - m - 1 \in Int /\ -n <= c - m - 1 /\ c - m - 1 < n
    OBVIOUS
  <2>2. (c - m - 1) % n = IF c - m - 1 < 0 THEN c - m - 1 + n ELSE c - m - 1
    BY <2>1, ModBelowZero
  <2> QED
    BY <2>2
<1>2. ASSUME NEW c \in 0 .. n
      PROVE  (c % n) + 1 = IF c = n THEN 1 ELSE c + 1
  <2>1. CASE c = n
    <3>1. c = n * 1 + 0 /\ 0 < n
      BY <2>1
    <3>2. c % n = 0
      BY <3>1, DivModUnique
    <3> QED
      BY <2>1, <3>2
  <2>2. CASE c < n
    <3>1. -n <= c
      OBVIOUS
    <3>2. c % n = c
      BY <2>2, <3>1, ModBelowZero
    <3> QED
      BY <2>2, <3>2
  <2> QED
    BY <2>1, <2>2
<1> QED
  BY <1>1, <1>2

\* The following one is one further away, but from m.
LEMMA OneFurther ==
    ASSUME NEW n \in Nat \ {0}, NEW m \in 0 .. n, m = 0 => n = 1, NEW c \in 1 .. n,
           NEW f \in Int, f = IF c = n THEN 1 ELSE c + 1,
           NEW x \in Int, x = IF c > m THEN c - m - 1 ELSE c - m - 1 + n,
           NEW y \in Int, y = IF f > m THEN f - m - 1 ELSE f - m - 1 + n
    PROVE  /\ x = n - 1 => m = 0 \/ c = m
           /\ c = m => x = n - 1
           /\ x < n - 1 => y = x + 1
OBVIOUS

\* No two of them are equally far from m.
LEMMA OnePlaceEach ==
    ASSUME NEW n \in Nat \ {0}, NEW m \in 0 .. n, NEW c \in 1 .. n, NEW d \in 1 .. n,
           (IF c > m THEN c - m - 1 ELSE c - m - 1 + n) = (IF d > m THEN d - m - 1 ELSE d - m - 1 + n)
    PROVE  c = d
OBVIOUS

\* Going on to the following of n partitions is one step further on the way
\* around, but from partition m, which the search started at.
Laps(s, n, m) ==
    /\ n \in Nat \ {0} /\ m \in 0 .. n /\ DOMAIN partitions[s] = 1 .. n
    /\ m = 0 => n = 1
    /\ \A c \in 1 .. n :
          /\ Distance(s, c) \in 0 .. n - 1
          /\ Following(s, c) \in 1 .. n
          /\ Distance(s, c) = n - 1 => m = 0 \/ c = m
          /\ c = m => Distance(s, c) = n - 1
          /\ Distance(s, c) < n - 1 => Distance(s, Following(s, c)) = Distance(s, c) + 1
    /\ \A c, d \in 1 .. n : Distance(s, c) = Distance(s, d) => c = d
    /\ Following(s, m) \in 1 .. n
    /\ Distance(s, Following(s, m)) = 0

LEMMA Around ==
    ASSUME TypeOK, NEW s \in Splits, partitions[s] # <<>>,
           next_part[s] = 0 => Len(partitions[s]) = 1
    PROVE  Laps(s, Len(partitions[s]), next_part[s])
<1> SUFFICES ASSUME NEW n, n = Len(partitions[s]), NEW m, m = next_part[s]
             PROVE  Laps(s, n, m)
  OBVIOUS
<1>1. n \in Nat \ {0} /\ m \in 0 .. n /\ DOMAIN partitions[s] = 1 .. n
  BY DEF TypeOK
<1>2. m = 0 => n = 1
  OBVIOUS
<1>3. \A c \in 1 .. n : Distance(s, c) = IF c > m THEN c - m - 1 ELSE c - m - 1 + n
  BY <1>1, <1>2, Circle DEF Distance
<1>4. \A c \in 0 .. n : Following(s, c) = IF c = n THEN 1 ELSE c + 1
  BY <1>1, <1>2, Circle DEF Following
<1>5. \A c \in 1 .. n : Following(s, c) \in 1 .. n
  BY <1>1, <1>4
<1>6. \A c \in 1 .. n : Distance(s, c) \in 0 .. n - 1
  BY <1>1, <1>3
<1>7. ASSUME NEW c \in 1 .. n
      PROVE  /\ Distance(s, c) = n - 1 => m = 0 \/ c = m
             /\ c = m => Distance(s, c) = n - 1
             /\ Distance(s, c) < n - 1 =>
                   Distance(s, Following(s, c)) = Distance(s, c) + 1
  <2>1. /\ Distance(s, c) = IF c > m THEN c - m - 1 ELSE c - m - 1 + n
        /\ Following(s, c) = IF c = n THEN 1 ELSE c + 1
    BY <1>1, <1>3, <1>4
  <2>2. Distance(s, Following(s, c)) =
           IF Following(s, c) > m THEN Following(s, c) - m - 1 ELSE Following(s, c) - m - 1 + n
    BY <1>3, <1>5
  <2>3. Following(s, c) \in Int /\ Distance(s, c) \in Int /\ Distance(s, Following(s, c)) \in Int
    BY <1>5, <1>6
  <2>4. PICK f \in Int, x \in Int, y \in Int :
           f = Following(s, c) /\ x = Distance(s, c) /\ y = Distance(s, Following(s, c))
    BY <2>3
  <2>5. /\ f = IF c = n THEN 1 ELSE c + 1
        /\ x = IF c > m THEN c - m - 1 ELSE c - m - 1 + n
    BY <2>1, <2>4
  <2>6. y = IF f > m THEN f - m - 1 ELSE f - m - 1 + n
    BY <2>2, <2>4
  <2>7. (x = n - 1 => m = 0 \/ c = m) /\ (c = m => x = n - 1) /\ (x < n - 1 => y = x + 1)
    <3>1. PICK k \in Nat \ {0} : k = n
      BY <1>1
    <3>2. PICK l \in 0 .. k, e \in 1 .. k : l = m /\ e = c
      BY <1>1, <3>1
    <3>3. /\ l = 0 => k = 1
          /\ f = IF e = k THEN 1 ELSE e + 1
          /\ x = IF e > l THEN e - l - 1 ELSE e - l - 1 + k
          /\ y = IF f > l THEN f - l - 1 ELSE f - l - 1 + k
      BY <1>2, <2>5, <2>6, <3>1, <3>2
    <3>4. (x = k - 1 => l = 0 \/ e = l) /\ (e = l => x = k - 1) /\ (x < k - 1 => y = x + 1)
      BY <3>3, OneFurther
    <3> QED
      BY <3>1, <3>2, <3>4
  <2> QED
    BY <2>4, <2>7
<1>8. ASSUME NEW c \in 1 .. n, NEW d \in 1 .. n, Distance(s, c) = Distance(s, d)
      PROVE  c = d
  <2>1. /\ Distance(s, c) = IF c > m THEN c - m - 1 ELSE c - m - 1 + n
        /\ Distance(s, d) = IF d > m THEN d - m - 1 ELSE d - m - 1 + n
    BY <1>3
  <2>2. PICK k \in Nat \ {0} : k = n
    BY <1>1
  <2>3. PICK l \in 0 .. k, e \in 1 .. k, g \in 1 .. k : l = m /\ e = c /\ g = d
    BY <1>1, <2>2
  <2>4. (IF e > l THEN e - l - 1 ELSE e - l - 1 + k) = (IF g > l THEN g - l - 1 ELSE g - l - 1 + k)
    BY <1>8, <2>1, <2>2, <2>3
  <2>5. e = g
    BY <2>4, OnePlaceEach
  <2> QED
    BY <2>3, <2>5
<1>9. Following(s, m) \in 1 .. n /\ Distance(s, Following(s, m)) = 0
  <2>1. Following(s, m) = IF m = n THEN 1 ELSE m + 1
    BY <1>1, <1>4
  <2>2. Following(s, m) \in 1 .. n
    BY <1>1, <2>1
  <2> QED
    BY <1>1, <1>2, <1>3, <2>1, <2>2
<1> QED
  BY <1>1, <1>2, <1>5, <1>6, <1>7, <1>8, <1>9 DEF Laps

\* What the search looks at changes only when an id is put away.
LEMMA LooksTheSame ==
    ASSUME NEW s \in Splits, UNCHANGED vars
    PROVE  /\ InHand(s)' = InHand(s) /\ NonFull(s)' = NonFull(s)
           /\ Candidates(s, Id(s))' = Candidates(s, Id(s))
           /\ \A c : Distance(s, c)' = Distance(s, c)
           /\ \A c : Following(s, c)' = Following(s, c)
           /\ partitions' = partitions /\ next_part' = next_part /\ i_next' = i_next
BY DEF vars, InHand, Id, Candidates, Tried, NonFull, IsDistinct, Collide, Distance, Following

\* The search of a split is its own.
LEMMA OtherSplit ==
    ASSUME NEW s \in Splits, SearchAt(s), UNCHANGED enr_ss_map,
           partitions'[s] = partitions[s], next_part'[s] = next_part[s],
           i_next'[s] = i_next[s], j'[s] = j[s], bak_part'[s] = bak_part[s],
           at_part'[s] = at_part[s], loop'[s] = loop[s]
    PROVE  SearchAt(s)'
<1>1. /\ InHand(s)' = InHand(s) /\ NonFull(s)' = NonFull(s)
      /\ \A c : Distance(s, c)' = Distance(s, c)
  BY DEF InHand, NonFull, Distance
<1>2. Candidates(s, Id(s))' = Candidates(s, Id(s))
  BY DEF Id, Candidates, Tried, NonFull, IsDistinct, Collide
<1>3. /\ Hopeless(s)' = Hopeless(s) /\ At(s)' = At(s)
      /\ BeforeSearch(s)' = BeforeSearch(s)
  BY <1>1, <1>2 DEF Hopeless, At, Distance, BeforeSearch
<1>4. BetweenTurns(s) => BetweenTurns(s)'
  BY <1>1, <1>2, <1>3 DEF BetweenTurns
<1>5. InTurn(s) => InTurn(s)'
  BY <1>1, <1>2, <1>3 DEF InTurn
<1> QED
  BY <1>3, <1>4, <1>5 DEF SearchAt

\* Candidates are partitions with room.
LEMMA CandidatesHaveRoom ==
    ASSUME NEW s \in Splits, NEW id
    PROVE  /\ Candidates(s, id) \subseteq NonFull(s)
           /\ NonFull(s) \subseteq DOMAIN partitions[s]
           /\ NonFull(s) \ {next_part[s]} = {} => Candidates(s, id) = {}
BY DEF Candidates, Tried, NonFull

\* What a search step does to the loop variables of its split.
LEMMA TurnTypes ==
    ASSUME SearchInv, NEW s \in Splits, InHand(s)
    PROVE  /\ TypeOK /\ SearchAt(s) /\ partitions[s] # <<>>
           /\ next_part[s] = 0 => Len(partitions[s]) = 1
           /\ j[s] \in Nat /\ at_part[s] \in Nat /\ bak_part[s] \in Nat
BY DEF SearchInv, SearchAt, InHand

\* A turn of the for loop begins: it goes on to the following partition.
LEMMA TurnBegins ==
    ASSUME SearchInv, NEW s \in Splits, Turn(s) PROVE SearchAt(s)'
<1>1. /\ InHand(s) /\ loop[s] = "for" /\ j[s] < Len(partitions[s])
      /\ UNCHANGED vars /\ j' = j
  BY DEF Turn, MoreTurns
<1>2. bak_part'[s] = at_part[s] /\ at_part'[s] = Following(s, at_part[s]) /\ loop'[s] = "while"
  BY DEF Turn, SearchInv
<1>3. /\ TypeOK /\ SearchAt(s) /\ partitions[s] # <<>> /\ j[s] \in Nat
      /\ next_part[s] = 0 => Len(partitions[s]) = 1
  BY <1>1, TurnTypes
<1>4. PICK n, m : n = Len(partitions[s]) /\ m = next_part[s]
  OBVIOUS
<1>5. Laps(s, n, m)
  BY <1>3, <1>4, Around
<1> USE DEF Laps
<1>6. BeforeSearch(s) \/ BetweenTurns(s)
  BY <1>1, <1>3 DEF SearchAt, InTurn
<1>7. \A d \in Candidates(s, Id(s)) : d \in 1 .. n
  BY <1>5, CandidatesHaveRoom
<1>8. InTurn(s)'
  <2>1. SUFFICES
           /\ at_part'[s] \in 1 .. n
           /\ next_part[s] = 0 => IF j[s] = 0 THEN at_part[s] = 0 ELSE NonFull(s) # {}
           /\ at_part[s] = next_part[s] \/ at_part[s] \in NonFull(s)
           /\ \/ Hopeless(s)
              \/ /\ Distance(s, at_part'[s]) >= j[s]
                 /\ \A d \in Candidates(s, Id(s)) : Distance(s, d) >= Distance(s, at_part'[s])
                 /\ IF at_part[s] = next_part[s]
                      THEN \A d \in NonFull(s) \ {next_part[s]} :
                              Distance(s, d) >= Distance(s, at_part'[s])
                      ELSE Distance(s, at_part[s]) < Distance(s, at_part'[s])
    <3>1. j[s] \in 0 .. Len(partitions[s]) - 1
      BY <1>1, <1>3, <1>4, <1>5
    <3>2. /\ InHand(s)' /\ loop'[s] = "while" /\ j'[s] \in 0 .. Len(partitions'[s]) - 1
          /\ DOMAIN partitions'[s] = 1 .. n
      BY <1>1, <1>2, <1>5, <3>1, LooksTheSame
    <3>3. /\ Hopeless(s)' = Hopeless(s) /\ NonFull(s)' = NonFull(s)
          /\ Candidates(s, Id(s))' = Candidates(s, Id(s))
          /\ \A c : Distance(s, c)' = Distance(s, c)
          /\ next_part' = next_part
      BY <1>1, LooksTheSame DEF Hopeless
    <3> QED
      BY <1>1, <1>2, <2>1, <3>2, <3>3 DEF InTurn, At
  <2>2. CASE BeforeSearch(s)
    <3>1. /\ at_part[s] = m /\ j[s] = 0 /\ at_part'[s] = Following(s, m)
          /\ Distance(s, at_part'[s]) = 0
      BY <1>2, <1>4, <1>5, <2>2 DEF BeforeSearch
    <3>2. \A d \in NonFull(s) : d \in 1 .. n /\ Distance(s, d) >= 0
      <4>1. \A d \in NonFull(s) : d \in 1 .. n
        BY <1>5, CandidatesHaveRoom
      <4>2. \A d \in 1 .. n : Distance(s, d) >= 0
        BY <1>5
      <4> QED
        BY <4>1, <4>2
    <3>3. \A d \in Candidates(s, Id(s)) : Distance(s, d) >= 0
      BY <3>2, CandidatesHaveRoom
    <3> QED
      BY <1>4, <1>5, <3>1, <3>2, <3>3
  <2>3. CASE BetweenTurns(s)
    <3>1. /\ at_part[s] \in 1 .. n /\ j[s] \in 1 .. n
          /\ next_part[s] = 0 => NonFull(s) # {}
          /\ at_part[s] = next_part[s] \/ at_part[s] \in NonFull(s)
          /\ \/ Hopeless(s)
             \/ /\ Distance(s, at_part[s]) >= j[s] - 1
                /\ \A d \in Candidates(s, Id(s)) : Distance(s, d) > Distance(s, at_part[s])
      BY <1>4, <1>5, <2>3 DEF BetweenTurns, At
    <3>2. at_part'[s] \in 1 .. n
      BY <1>2, <1>5, <3>1
    <3>3. CASE Hopeless(s)
      BY <3>1, <3>2, <3>3
    <3>4. CASE ~Hopeless(s)
      <4>1. /\ Distance(s, at_part[s]) >= j[s] - 1
            /\ \A d \in Candidates(s, Id(s)) : Distance(s, d) > Distance(s, at_part[s])
        BY <3>1, <3>4
      <4>2. PICK d \in Candidates(s, Id(s)) : TRUE
        BY <3>4 DEF Hopeless
      <4>3. Distance(s, at_part[s]) \in 0 .. n - 1 /\ Distance(s, d) \in 0 .. n - 1
        BY <1>5, <1>7, <3>1
      <4>4. Distance(s, at_part[s]) < n - 1
        <5>1. Distance(s, d) > Distance(s, at_part[s])
          BY <4>1
        <5> QED
          BY <1>5, <4>3, <5>1
      <4>5. Distance(s, at_part'[s]) = Distance(s, at_part[s]) + 1
        BY <1>2, <1>5, <3>1, <4>4
      <4>6. at_part[s] # next_part[s]
        BY <1>4, <1>5, <3>1, <4>4
      <4>7. ASSUME NEW e \in Candidates(s, Id(s))
            PROVE  Distance(s, e) >= Distance(s, at_part'[s])
        <5>1. Distance(s, e) > Distance(s, at_part[s]) /\ Distance(s, e) \in 0 .. n - 1
          BY <1>5, <1>7, <4>1
        <5> QED
          BY <4>3, <4>5, <5>1
      <4>8. /\ Distance(s, at_part'[s]) >= j[s]
            /\ Distance(s, at_part[s]) < Distance(s, at_part'[s])
        BY <3>1, <4>1, <4>3, <4>5
      <4> QED
        BY <3>1, <3>2, <4>6, <4>7, <4>8
    <3> QED
      BY <3>3, <3>4
  <2> QED
    BY <1>6, <2>2, <2>3
<1> QED
  <2>1. next_part' = next_part /\ partitions' = partitions
    BY <1>1 DEF vars
  <2>2. next_part'[s] = 0 /\ partitions'[s] # <<>> => Len(partitions'[s]) = 1
    BY <1>3, <2>1
  <2> QED
    BY <1>8, <2>2 DEF SearchAt

\* The while loop steps over a full partition, which is no candidate.
LEMMA SkipGoesOn ==
    ASSUME SearchInv, NEW s \in Splits, SkipFull(s) PROVE SearchAt(s)'
<1>1. /\ loop[s] = "while" /\ bak_part[s] # at_part[s]
      /\ Cardinality(partitions[s][at_part[s]]) >= PartitionSize
      /\ UNCHANGED vars /\ j' = j /\ bak_part' = bak_part /\ loop' = loop
  BY DEF SkipFull, StepsOver
<1>2. at_part'[s] = Following(s, at_part[s])
  BY DEF SkipFull, SearchInv
<1>3. SearchAt(s) /\ InTurn(s)
  BY <1>1 DEF SearchInv, SearchAt, BeforeSearch, BetweenTurns
<1>4. PICK n, m : n = Len(partitions[s]) /\ m = next_part[s]
  OBVIOUS
<1>5. Laps(s, n, m)
  <2>1. InHand(s)
    BY <1>3 DEF InTurn
  <2> QED
    BY <1>4, <2>1, TurnTypes, Around
<1> USE DEF Laps
<1>6. /\ at_part[s] \in 1 .. n /\ j[s] \in 0 .. n - 1
      /\ next_part[s] = 0 => IF j[s] = 0 THEN bak_part[s] = 0 ELSE NonFull(s) # {}
      /\ bak_part[s] = next_part[s] \/ bak_part[s] \in NonFull(s)
      /\ \/ Hopeless(s)
         \/ /\ Distance(s, at_part[s]) >= j[s]
            /\ \A d \in Candidates(s, Id(s)) : Distance(s, d) >= Distance(s, at_part[s])
            /\ IF bak_part[s] = next_part[s]
                 THEN \A d \in NonFull(s) \ {next_part[s]} :
                         Distance(s, d) >= Distance(s, at_part[s])
                 ELSE Distance(s, bak_part[s]) < Distance(s, at_part[s])
  BY <1>3, <1>4, <1>5 DEF InTurn, At
<1>7. at_part'[s] \in 1 .. n
  BY <1>2, <1>5, <1>6
<1>8. \A d \in NonFull(s) : d \in 1 .. n /\ d # at_part[s]
  <2>1. \A d \in NonFull(s) : d \in 1 .. n
    BY <1>5, CandidatesHaveRoom
  <2>2. at_part[s] \notin NonFull(s)
    <3>1. SUFFICES ASSUME Cardinality(partitions[s][at_part[s]]) < PartitionSize PROVE FALSE
      BY DEF NonFull
    <3>2. /\ partitions[s][at_part[s]] \in SUBSET Ids
          /\ PartitionSize \in Nat
      <4>1. partitions[s] \in Seq(SUBSET Ids) /\ at_part[s] \in DOMAIN partitions[s]
        BY <1>3 DEF InTurn, SearchInv, TypeOK
      <4> QED
        BY <4>1, SizesOK
    <3>3. Cardinality(partitions[s][at_part[s]]) \in Nat
      BY <3>2, IdsOK, FS_Subset, FS_CardinalityType
    <3> QED
      BY <1>1, <3>1, <3>2, <3>3
  <2> QED
    BY <2>1, <2>2
<1>9. \/ Hopeless(s)
      \/ /\ Distance(s, at_part'[s]) >= j[s]
         /\ \A d \in Candidates(s, Id(s)) : Distance(s, d) >= Distance(s, at_part'[s])
         /\ IF bak_part[s] = next_part[s]
              THEN \A d \in NonFull(s) \ {next_part[s]} :
                      Distance(s, d) >= Distance(s, at_part'[s])
              ELSE Distance(s, bak_part[s]) < Distance(s, at_part'[s])
  <2> SUFFICES ASSUME ~Hopeless(s)
               PROVE  /\ Distance(s, at_part'[s]) >= j[s]
                      /\ \A d \in Candidates(s, Id(s)) :
                            Distance(s, d) >= Distance(s, at_part'[s])
                      /\ IF bak_part[s] = next_part[s]
                           THEN \A d \in NonFull(s) \ {next_part[s]} :
                                   Distance(s, d) >= Distance(s, at_part'[s])
                           ELSE Distance(s, bak_part[s]) < Distance(s, at_part'[s])
    OBVIOUS
  <2>1. /\ Distance(s, at_part[s]) \in 0 .. n - 1
        /\ \A d \in NonFull(s) : Distance(s, d) \in 0 .. n - 1 /\ Distance(s, d) # Distance(s, at_part[s])
    BY <1>5, <1>6, <1>8
  <2>2. Candidates(s, Id(s)) \subseteq NonFull(s)
    BY CandidatesHaveRoom
  <2>3. PICK d \in Candidates(s, Id(s)) : TRUE
    BY DEF Hopeless
  <2>4. Distance(s, at_part[s]) < n - 1
    <3>1. /\ Distance(s, d) >= Distance(s, at_part[s]) /\ Distance(s, d) # Distance(s, at_part[s])
          /\ Distance(s, d) \in 0 .. n - 1
      BY <1>6, <2>1, <2>2, <2>3
    <3> QED
      BY <1>5, <2>1, <3>1
  <2>5. Distance(s, at_part'[s]) = Distance(s, at_part[s]) + 1
    BY <1>2, <1>5, <1>6, <2>4
  <2>6. ASSUME NEW e \in NonFull(s), Distance(s, e) >= Distance(s, at_part[s])
        PROVE  Distance(s, e) >= Distance(s, at_part'[s])
    <3>1. Distance(s, e) \in 0 .. n - 1 /\ Distance(s, e) # Distance(s, at_part[s])
      BY <2>1
    <3> QED
      BY <2>1, <2>5, <2>6, <3>1
  <2>7. Distance(s, at_part'[s]) >= j[s]
    BY <1>6, <2>1, <2>5
  <2>8. \A e \in Candidates(s, Id(s)) : Distance(s, e) >= Distance(s, at_part'[s])
    BY <1>6, <2>2, <2>6
  <2>9. CASE bak_part[s] = next_part[s]
    BY <1>6, <2>6, <2>7, <2>8, <2>9
  <2>10. CASE bak_part[s] # next_part[s]
    <3>1. bak_part[s] \in NonFull(s) /\ Distance(s, bak_part[s]) < Distance(s, at_part[s])
      BY <1>6, <2>10
    <3>2. Distance(s, bak_part[s]) \in 0 .. n - 1
      BY <2>1, <3>1
    <3>3. Distance(s, bak_part[s]) < Distance(s, at_part'[s])
      BY <2>1, <2>5, <3>1, <3>2
    <3> QED
      BY <2>7, <2>8, <2>10, <3>3
  <2> QED
    BY <2>9, <2>10
<1>10. InTurn(s)'
  <2>1. /\ Hopeless(s)' = Hopeless(s) /\ NonFull(s)' = NonFull(s) /\ InHand(s)' = InHand(s)
        /\ Candidates(s, Id(s))' = Candidates(s, Id(s))
        /\ \A c : Distance(s, c)' = Distance(s, c)
        /\ next_part' = next_part /\ partitions' = partitions
    BY <1>1, LooksTheSame DEF Hopeless
  <2>2. InHand(s)' /\ loop'[s] = "while" /\ at_part'[s] \in DOMAIN partitions'[s]
    BY <1>1, <1>3, <1>5, <1>7, <2>1 DEF InTurn
  <2>3. j'[s] \in 0 .. Len(partitions'[s]) - 1
    BY <1>1, <1>3, <2>1 DEF InTurn
  <2> QED
    BY <1>1, <1>6, <1>9, <2>1, <2>2, <2>3 DEF InTurn, At
<1> QED
  <2>1. next_part' = next_part /\ partitions' = partitions
    BY <1>1 DEF vars
  <2>2. next_part'[s] = 0 /\ partitions'[s] # <<>> => Len(partitions'[s]) = 1
    BY <1>3, <2>1 DEF SearchAt
  <2> QED
    BY <1>10, <2>2 DEF SearchAt

\* What a place of the search is.
LEMMA PartitionIsASet ==
    ASSUME TypeOK, NEW s \in Splits, NEW c \in DOMAIN partitions[s]
    PROVE  /\ Cardinality(partitions[s][c]) \in Nat /\ PartitionSize \in Nat
           /\ c \in NonFull(s) <=> ~(Cardinality(partitions[s][c]) >= PartitionSize)
<1>1. partitions[s] \in Seq(SUBSET Ids) /\ PartitionSize \in Nat
  BY SizesOK DEF TypeOK
<1>2. partitions[s][c] \in SUBSET Ids
  BY <1>1
<1>3. Cardinality(partitions[s][c]) \in Nat
  BY <1>2, IdsOK, FS_Subset, FS_CardinalityType
<1> QED
  BY <1>1, <1>3 DEF NonFull

\* A turn that has not taken the partition it came to: either that one is no
\* candidate, or the search is back where the turn started.
LEMMA RejectGoesOn ==
    ASSUME SearchInv, NEW s \in Splits, Reject(s) PROVE SearchAt(s)'
<1>1. /\ loop[s] = "while" /\ ~StepsOver(s) /\ ~Takes(s)
      /\ UNCHANGED vars /\ bak_part' = bak_part /\ at_part' = at_part
  BY DEF Reject
<1>2. j'[s] = j[s] + 1 /\ loop'[s] = "for"
  BY DEF Reject, NextTurn, SearchInv
<1>3. SearchAt(s) /\ InTurn(s) /\ TypeOK
  BY <1>1 DEF SearchInv, SearchAt, BeforeSearch, BetweenTurns
<1>4. PICK n, m : n = Len(partitions[s]) /\ m = next_part[s]
  OBVIOUS
<1>5. Laps(s, n, m)
  <2>1. InHand(s)
    BY <1>3 DEF InTurn
  <2> QED
    BY <1>4, <2>1, TurnTypes, Around
<1> USE DEF Laps
<1>6. /\ at_part[s] \in 1 .. n /\ j[s] \in 0 .. n - 1
      /\ next_part[s] = 0 => IF j[s] = 0 THEN bak_part[s] = 0 ELSE NonFull(s) # {}
      /\ bak_part[s] = next_part[s] \/ bak_part[s] \in NonFull(s)
      /\ \/ Hopeless(s)
         \/ /\ Distance(s, at_part[s]) >= j[s]
            /\ \A d \in Candidates(s, Id(s)) : Distance(s, d) >= Distance(s, at_part[s])
            /\ IF bak_part[s] = next_part[s]
                 THEN \A d \in NonFull(s) \ {next_part[s]} :
                         Distance(s, d) >= Distance(s, at_part[s])
                 ELSE Distance(s, bak_part[s]) < Distance(s, at_part[s])
  BY <1>3, <1>4, <1>5 DEF InTurn, At
<1>7. \/ bak_part[s] = at_part[s]
      \/ at_part[s] \in NonFull(s) /\ ~IsDistinct(Id(s), partitions[s][at_part[s]])
  BY <1>1, <1>3, <1>5, <1>6, PartitionIsASet DEF StepsOver, Takes
<1>8. at_part[s] = next_part[s] \/ at_part[s] \in NonFull(s)
  BY <1>6, <1>7
<1>9. next_part[s] = 0 => NonFull(s) # {}
  BY <1>5, <1>6, <1>7
<1>10. Hopeless(s) \/ /\ Distance(s, at_part[s]) >= j'[s] - 1
                      /\ \A d \in Candidates(s, Id(s)) : Distance(s, d) > Distance(s, at_part[s])
  <2> SUFFICES ASSUME ~Hopeless(s)
               PROVE  /\ Distance(s, at_part[s]) >= j'[s] - 1
                      /\ \A d \in Candidates(s, Id(s)) : Distance(s, d) > Distance(s, at_part[s])
    OBVIOUS
  <2>1. /\ Distance(s, at_part[s]) \in 0 .. n - 1 /\ j[s] \in Int
        /\ \A d \in NonFull(s) : d \in 1 .. n /\ Distance(s, d) \in 0 .. n - 1
    <3>1. \A d \in NonFull(s) : d \in 1 .. n
      BY <1>5, CandidatesHaveRoom
    <3>2. \A d \in 1 .. n : Distance(s, d) \in 0 .. n - 1
      BY <1>5
    <3>3. n \in Nat
      BY <1>5
    <3> QED
      BY <1>6, <3>1, <3>2, <3>3
  <2>2. Candidates(s, Id(s)) \subseteq NonFull(s)
    BY CandidatesHaveRoom
  <2>3. Distance(s, at_part[s]) >= j'[s] - 1
    BY <1>2, <1>6, <2>1
  <2>4. at_part[s] \notin Candidates(s, Id(s))
    <3>1. SUFFICES ASSUME at_part[s] \in Candidates(s, Id(s)) PROVE FALSE
      OBVIOUS
    <3>2. IsDistinct(Id(s), partitions[s][at_part[s]])
      BY <3>1 DEF Candidates
    <3>3. bak_part[s] = at_part[s]
      BY <1>7, <3>2
    <3>4. bak_part[s] = next_part[s]
      <4>1. ~(Distance(s, at_part[s]) < Distance(s, at_part[s]))
        BY <2>1
      <4> QED
        BY <1>6, <3>3, <4>1
    <3>5. Distance(s, at_part[s]) = n - 1
      BY <1>4, <1>5, <1>6, <3>3, <3>4
    <3>6. PICK e \in NonFull(s) \ {next_part[s]} : TRUE
      BY <3>1, CandidatesHaveRoom
    <3>7. Distance(s, e) >= n - 1 /\ Distance(s, e) \in 0 .. n - 1 /\ e \in 1 .. n
      BY <1>6, <2>1, <3>4, <3>5, <3>6
    <3>8. Distance(s, e) = n - 1
      <4>1. n \in Nat
        BY <1>5
      <4> HIDE DEF Laps
      <4> QED
        BY <3>7, <4>1
    <3>9. e = at_part[s]
      BY <1>5, <1>6, <3>5, <3>7, <3>8
    <3> QED
      BY <3>3, <3>4, <3>6, <3>9
  <2>5. ASSUME NEW d \in Candidates(s, Id(s))
        PROVE  Distance(s, d) > Distance(s, at_part[s])
    <3>1. d \in 1 .. n /\ Distance(s, d) \in 0 .. n - 1 /\ d # at_part[s]
      BY <2>1, <2>2, <2>4
    <3>2. Distance(s, d) # Distance(s, at_part[s])
      BY <1>5, <1>6, <3>1
    <3>3. Distance(s, d) >= Distance(s, at_part[s])
      BY <1>6
    <3> QED
      BY <2>1, <3>1, <3>2, <3>3
  <2> QED
    BY <2>3, <2>5
<1>11. BetweenTurns(s)'
  <2>1. /\ Hopeless(s)' = Hopeless(s) /\ NonFull(s)' = NonFull(s) /\ InHand(s)' = InHand(s)
        /\ Candidates(s, Id(s))' = Candidates(s, Id(s))
        /\ \A c : Distance(s, c)' = Distance(s, c)
        /\ next_part' = next_part /\ partitions' = partitions
    BY <1>1, LooksTheSame DEF Hopeless
  <2>2. InHand(s)' /\ loop'[s] = "for" /\ at_part'[s] \in DOMAIN partitions'[s]
    BY <1>1, <1>2, <1>3, <2>1 DEF InTurn
  <2>3. j'[s] \in 1 .. Len(partitions'[s])
    BY <1>2, <1>4, <1>5, <1>6, <2>1
  <2> QED
    BY <1>1, <1>8, <1>9, <1>10, <2>1, <2>2, <2>3 DEF BetweenTurns, At
<1> QED
  <2>1. next_part' = next_part /\ partitions' = partitions
    BY <1>1 DEF vars
  <2>2. next_part'[s] = 0 /\ partitions'[s] # <<>> => Len(partitions'[s]) = 1
    BY <1>3, <2>1 DEF SearchAt
  <2> QED
    BY <1>11, <2>2 DEF SearchAt

\* What the loops take is the first candidate on the way around.
LEMMA IncludeAdds ==
    ASSUME SearchInv, NEW s \in Splits, Include(s)
    PROVE  AddToPartition(s) /\ SearchAt(s)'
<1>1. /\ loop[s] = "while" /\ ~StepsOver(s) /\ Takes(s) /\ enr_ss_map' = enr_ss_map
      /\ partitions' = [partitions EXCEPT ![s][at_part[s]] = @ \cup {Id(s)}]
      /\ next_part' = [next_part EXCEPT ![s] = at_part[s]]
      /\ i_next' = [i_next EXCEPT ![s] = @ + 1]
      /\ at_part' = at_part
  BY DEF Include
<1>2. j'[s] = 0 /\ loop'[s] = "for" /\ next_part'[s] = at_part[s]
  BY DEF Include, SearchInv, TypeOK
<1>3. SearchAt(s) /\ InTurn(s) /\ TypeOK /\ InHand(s)
  BY <1>1 DEF SearchInv, SearchAt, BeforeSearch, BetweenTurns, InTurn
<1>4. at_part[s] \in DOMAIN partitions[s]
  BY <1>3 DEF InTurn
<1>5. /\ at_part[s] \in NonFull(s) /\ bak_part[s] # at_part[s]
      /\ IsDistinct(Id(s), partitions[s][at_part[s]])
  BY <1>1, <1>3, <1>4, PartitionIsASet DEF StepsOver, Takes
<1>6. at_part[s] \in Candidates(s, Id(s))
  <2>1. NonFull(s) \ {next_part[s]} # {}
    BY <1>3, <1>5 DEF InTurn
  <2> QED
    BY <1>5, <2>1 DEF Candidates, Tried
<1>7. \A d \in Candidates(s, Id(s)) : Distance(s, at_part[s]) <= Distance(s, d)
  <2>1. \A d \in Candidates(s, Id(s)) : Distance(s, d) >= Distance(s, at_part[s])
    BY <1>3, <1>6 DEF InTurn, Hopeless, At
  <2>2. Laps(s, Len(partitions[s]), next_part[s])
    BY <1>3, TurnTypes, Around
  <2>3. \A d \in Candidates(s, Id(s)) : d \in DOMAIN partitions[s]
    BY CandidatesHaveRoom
  <2>4. ASSUME NEW d \in Candidates(s, Id(s))
        PROVE  Distance(s, at_part[s]) <= Distance(s, d)
    <3>1. Distance(s, d) \in Int /\ Distance(s, at_part[s]) \in Int
      <4>1. PICK n : n = Len(partitions[s]) /\ Laps(s, n, next_part[s])
        BY <2>2
      <4>2. n \in Nat /\ \A c \in DOMAIN partitions[s] : Distance(s, c) \in 0 .. n - 1
        BY <4>1 DEF Laps
      <4> QED
        BY <1>4, <2>3, <4>2
    <3> QED
      BY <2>1, <3>1
  <2> QED
    BY <2>4
<1>8. Searching(s)
  BY <1>3, <1>5 DEF InHand, Searching
<1>9. AddToPartition(s)
  BY <1>1, <1>6, <1>7, <1>8 DEF AddToPartition, Id
<1>10. next_part'[s] # 0
  BY <1>2, <1>3, <1>4 DEF TypeOK
<1> QED
  BY <1>1, <1>2, <1>9, <1>10 DEF SearchAt, BeforeSearch

\* After a turn for every partition there is no candidate.
LEMMA OpenNewOpens ==
    ASSUME SearchInv, NEW s \in Splits, OpenNew(s)
    PROVE  OpenPartition(s) /\ SearchAt(s)'
<1>1. /\ InHand(s) /\ loop[s] = "for" /\ ~(j[s] < Len(partitions[s]))
      /\ partitions' = [partitions EXCEPT ![s] = Append(@, {Id(s)})]
      /\ next_part' = [next_part EXCEPT ![s] = Newest(s)]
      /\ i_next' = [i_next EXCEPT ![s] = @ + 1]
      /\ loop' = loop /\ enr_ss_map' = enr_ss_map
  BY DEF OpenNew, MoreTurns
<1>2. j'[s] = 0 /\ next_part'[s] = Newest(s) /\ at_part'[s] = Newest(s)
  BY DEF OpenNew, SearchInv, TypeOK
<1>3. Laps(s, Len(partitions[s]), next_part[s])
  BY <1>1, TurnTypes, Around
<1>4. BetweenTurns(s)
  <2>1. Len(partitions[s]) \in Nat \ {0} /\ j[s] \in Nat
    BY <1>3 DEF Laps, SearchInv
  <2>2. j[s] # 0
    BY <1>1, <2>1
  <2> QED
    BY <1>1, <2>2 DEF SearchInv, SearchAt, BeforeSearch, InTurn
<1>5. Candidates(s, Id(s)) = {}
  <2>1. SUFFICES ASSUME NEW d \in Candidates(s, Id(s)) PROVE FALSE
    OBVIOUS
  <2>2. /\ Distance(s, at_part[s]) >= j[s] - 1
        /\ Distance(s, d) > Distance(s, at_part[s])
    BY <1>4, <2>1 DEF BetweenTurns, Hopeless, At
  <2>3. d \in DOMAIN partitions[s] /\ at_part[s] \in DOMAIN partitions[s]
    BY <1>4, CandidatesHaveRoom DEF BetweenTurns
  <2>4. PICK n : n = Len(partitions[s])
    OBVIOUS
  <2>5. n \in Nat /\ Distance(s, d) \in 0 .. n - 1 /\ Distance(s, at_part[s]) \in 0 .. n - 1
    BY <1>3, <2>3, <2>4 DEF Laps
  <2>6. j[s] = n
    BY <1>1, <1>4, <2>4, <2>5 DEF BetweenTurns
  <2> QED
    BY <2>2, <2>5, <2>6
<1>6. Searching(s)
  BY <1>1, <1>4 DEF InHand, Searching, BetweenTurns
<1>7. OpenPartition(s)
  BY <1>1, <1>5, <1>6 DEF OpenPartition, Id
<1>8. next_part'[s] # 0
  BY <1>2, <1>3 DEF Laps, Newest
<1> QED
  BY <1>1, <1>2, <1>7, <1>8 DEF SearchAt, BeforeSearch

\* The seed is put down before any search.
LEMMA SeedIsFirst ==
    ASSUME SearchInv, NEW s \in Splits, Seed(s) PROVE SearchAt(s)'
<1>1. /\ partitions[s] = <<>> /\ partitions'[s] = <<{Order[First(s)]}>>
      /\ UNCHANGED <<next_part, j, at_part, loop>>
  BY DEF Seed, SeedSplit, search_vars, SearchInv, TypeOK
<1>2. BeforeSearch(s)
  BY <1>1 DEF SearchInv, SearchAt, BetweenTurns, InTurn, InHand
<1>3. Len(partitions'[s]) = 1
  BY <1>1
<1> QED
  BY <1>1, <1>2, <1>3 DEF SearchAt, BeforeSearch

\* A step of the search is a step of Partition, or does not concern it.
LEMMA SearchStepIsAStep ==
    ASSUME SearchInv, NEW s \in Splits, SearchStep(s)
    PROVE  SplitStep(s) \/ UNCHANGED vars
<1>1. Seed(s) => SeedSplit(s)
  BY DEF Seed
<1>2. Turn(s) \/ SkipFull(s) \/ Reject(s) => UNCHANGED vars
  BY DEF Turn, SkipFull, Reject
<1> QED
  BY <1>1, <1>2, IncludeAdds, OpenNewOpens DEF SearchStep, SplitStep

LEMMA SearchNextIsNext == SearchInv /\ [SearchNext]_<<vars, search_vars>> => [Next]_vars
BY SearchStepIsAStep DEF SearchNext, Next

\* The inductive invariant of the loops.
LEMMA SearchInvInit == SearchInit => SearchInv
<1> SUFFICES ASSUME SearchInit PROVE SearchInv
  OBVIOUS
<1>1. TypeOK
  BY TypeInit DEF SearchInit
<1>2. \A s \in Splits : partitions[s] = <<>> /\ next_part[s] = 0
  BY DEF SearchInit, Init
<1> QED
  BY <1>1, <1>2 DEF SearchInit, SearchInv, SearchAt, BeforeSearch

\* A step of a split changes the loop variables of that split alone.
OnlyOwn(s) ==
    /\ j' \in [Splits -> Nat] /\ at_part' \in [Splits -> Nat]
    /\ bak_part' \in [Splits -> Nat] /\ loop' \in [Splits -> {"for", "while"}]
    /\ enr_ss_map' = enr_ss_map
    /\ \A t \in Splits \ {s} :
          /\ partitions'[t] = partitions[t] /\ next_part'[t] = next_part[t]
          /\ i_next'[t] = i_next[t] /\ j'[t] = j[t] /\ bak_part'[t] = bak_part[t]
          /\ at_part'[t] = at_part[t] /\ loop'[t] = loop[t]

LEMMA OwnStep ==
    ASSUME SearchInv, NEW s \in Splits, SearchStep(s) PROVE OnlyOwn(s)
<1> USE DEF SearchInv, TypeOK, OnlyOwn
<1>1. ASSUME Seed(s) PROVE OnlyOwn(s)
  BY <1>1 DEF Seed, SeedSplit, search_vars
<1>2. ASSUME Turn(s) \/ SkipFull(s) PROVE OnlyOwn(s)
  <2>1. InHand(s)
    BY <1>2 DEF Turn, SkipFull, SearchAt, BeforeSearch, BetweenTurns, InTurn
  <2>2. Len(partitions[s]) \in Nat \ {0}
    BY <2>1 DEF InHand
  <2>3. Following(s, at_part[s]) \in Nat
    BY <2>2, DivMod DEF Following
  <2> QED
    BY <1>2, <2>3 DEF Turn, SkipFull, vars
<1>3. ASSUME Include(s) PROVE OnlyOwn(s)
  BY <1>3 DEF Include
<1>4. ASSUME Reject(s) PROVE OnlyOwn(s)
  BY <1>4 DEF Reject, NextTurn, vars
<1>5. ASSUME OpenNew(s) PROVE OnlyOwn(s)
  <2>1. Newest(s) \in Nat
    BY DEF Newest
  <2> QED
    BY <1>5, <2>1 DEF OpenNew
<1> QED
  BY <1>1, <1>2, <1>3, <1>4, <1>5 DEF SearchStep

LEMMA SearchInvNext ==
    ASSUME SearchInv, [SearchNext]_<<vars, search_vars>> PROVE SearchInv'
<1>1. TypeOK'
  BY SearchNextIsNext, TypeStep DEF SearchInv
<1>2. ASSUME NEW s \in Splits, SearchStep(s) PROVE SearchInv'
  <2> USE DEF SearchInv
  <2>1. SearchAt(s)'
    BY <1>2, TurnBegins, SkipGoesOn, RejectGoesOn, IncludeAdds, OpenNewOpens, SeedIsFirst
       DEF SearchStep
  <2>2. OnlyOwn(s)
    BY <1>2, OwnStep
  <2>3. \A t \in Splits \ {s} : SearchAt(t)'
    BY <2>2, OtherSplit DEF OnlyOwn
  <2> QED
    BY <1>1, <2>1, <2>2, <2>3 DEF OnlyOwn
<1>3. ASSUME UNCHANGED <<vars, search_vars>> PROVE SearchInv'
  <2>1. UNCHANGED <<enr_ss_map, partitions, next_part, i_next, j, bak_part, at_part, loop>>
    BY <1>3 DEF vars, search_vars
  <2>2. \A s \in Splits : SearchAt(s)'
    BY <2>1, OtherSplit DEF SearchInv
  <2> QED
    BY <1>1, <2>1, <2>2 DEF SearchInv
<1> QED
  BY <1>2, <1>3 DEF SearchNext, Join

\* The loops of partitionDB (sender.cc:56-81) put every id where Partition says,
\* for every number of ids, partitions and rows and wherever the search begins:
\* into the first partition on the way around that has room and no collision, and
\* into a new one exactly when there is none.
THEOREM SearchImplements == SearchSpec => ImplementsPartition
<1>1. SearchInit => Init
  BY DEF SearchInit
<1> QED
  BY <1>1, SearchInvInit, SearchInvNext, SearchNextIsNext, PTL
     DEF SearchSpec, ImplementsPartition, Spec

----------------------------------------------------------------------------
(* Every search ends.                                                       *)

\* As long as a split has not taken up its first search, or is in it, its one
\* partition holds nothing but the seed.
OnlyTheSeed ==
    \A s \in Splits : next_part[s] = 0 /\ partitions[s] # <<>>
                         => partitions[s] = <<{Order[First(s)]}>>

EndsInv == SearchInv /\ PlacementInv /\ OnlyTheSeed

LEMMA OnlyTheSeedStep ==
    ASSUME TypeOK, OnlyTheSeed, [Next]_vars PROVE OnlyTheSeed'
<1>1. ASSUME NEW s \in Splits, SplitStep(s), NEW t \in Splits,
             next_part'[t] = 0, partitions'[t] # <<>>
      PROVE  partitions'[t] = <<{Order[First(t)]}>>
  <2>1. CASE t # s
    <3>1. partitions'[t] = partitions[t] /\ next_part'[t] = next_part[t]
      BY <1>1, <2>1 DEF SplitStep, SeedSplit, AddToPartition, OpenPartition, TypeOK
    <3> QED
      BY <1>1, <3>1 DEF OnlyTheSeed
  <2>2. CASE t = s /\ SeedSplit(s)
    BY <2>2 DEF SeedSplit, TypeOK
  <2>3. CASE t = s /\ AddToPartition(s)
    <3>1. PICK c \in Candidates(s, Order[i_next[s]]) : next_part' = [next_part EXCEPT ![s] = c]
      BY <2>3 DEF AddToPartition
    <3>2. c \in DOMAIN partitions[s]
      BY <3>1, CandidatesHaveRoom
    <3>3. next_part'[s] # 0
      BY <3>1, <3>2 DEF TypeOK
    <3> QED
      BY <1>1, <2>3, <3>3
  <2>4. CASE t = s /\ OpenPartition(s)
    BY <1>1, <2>4 DEF OpenPartition, Newest, TypeOK
  <2> QED
    BY <1>1, <2>1, <2>2, <2>3, <2>4 DEF SplitStep
<1>2. ASSUME Join \/ UNCHANGED vars PROVE OnlyTheSeed'
  BY <1>2 DEF Join, vars, OnlyTheSeed, First, Increment, Count
<1>3. \A t \in Splits : First(t)' = First(t)
  BY DEF First, Increment, Count
<1> QED
  BY <1>1, <1>2, <1>3 DEF Next, OnlyTheSeed

LEMMA EndsInvAlways == SearchSpec => []EndsInv
<1>1. SearchInit => EndsInv
  <2>1. SearchInit => OnlyTheSeed
    BY DEF SearchInit, Init, OnlyTheSeed
  <2> QED
    BY <2>1, SearchInvInit, PlacementInit DEF SearchInit, EndsInv
<1>2. EndsInv /\ [SearchNext]_<<vars, search_vars>> => EndsInv'
  BY SearchInvNext, SearchNextIsNext, PlacementStep, OnlyTheSeedStep
     DEF EndsInv, PlacementInv
<1> QED
  BY <1>1, <1>2, PTL DEF SearchSpec

\* How far the end of a turn is in a circle of n, and that a step of the loop is
\* one step nearer.
LEMMA OneNearer ==
    ASSUME NEW n \in Nat \ {0}, NEW bak \in 1 .. n, NEW at \in 1 .. n,
           NEW following \in Int, following = (at % n) + 1
    PROVE  /\ (bak - at) % n \in 0 .. n - 1
           /\ bak # at => /\ (bak - at) % n # 0
                          /\ (bak - following) % n \in 0 .. ((bak - at) % n) - 1
<1>1. (bak - at) % n = IF bak < at THEN bak - at + n ELSE bak - at
  <2>1. bak - at \in Int /\ -n <= bak - at /\ bak - at < n
    OBVIOUS
  <2>2. (bak - at) % n = IF bak - at < 0 THEN bak - at + n ELSE bak - at
    BY <2>1, ModBelowZero
  <2> QED
    BY <2>2
<1>2. following = IF at = n THEN 1 ELSE at + 1
  <2>1. at \in 0 .. n /\ 0 \in 0 .. n /\ n \in 0 .. n /\ n # 0
    OBVIOUS
  <2> QED
    BY <2>1, Circle
<1>3. (bak - following) % n = IF bak < following THEN bak - following + n ELSE bak - following
  <2>1. bak - following \in Int /\ -n <= bak - following /\ bak - following < n
    BY <1>2
  <2>2. (bak - following) % n =
           IF bak - following < 0 THEN bak - following + n ELSE bak - following
    BY <2>1, ModBelowZero
  <2> QED
    BY <2>2
<1> QED
  BY <1>1, <1>2, <1>3

\* What is known in a turn about where it started and where it is.
LEMMA InTurnAt ==
    ASSUME EndsInv, NEW s \in Splits, loop[s] = "while"
    PROVE  /\ InTurn(s) /\ TypeOK
           /\ Len(partitions[s]) \in Nat \ {0}
           /\ at_part[s] \in 1 .. Len(partitions[s])
           /\ bak_part[s] \in 0 .. Len(partitions[s])
           /\ bak_part[s] = 0 => /\ partitions[s] = <<{Order[First(s)]}>>
                                 /\ Len(partitions[s]) = 1 /\ at_part[s] = 1
<1>1. InTurn(s) /\ TypeOK
  BY DEF EndsInv, SearchInv, SearchAt, BeforeSearch, BetweenTurns
<1>2. /\ Len(partitions[s]) \in Nat \ {0} /\ DOMAIN partitions[s] = 1 .. Len(partitions[s])
      /\ partitions[s] # <<>>
  BY <1>1 DEF InTurn, InHand, TypeOK
<1>3. at_part[s] \in 1 .. Len(partitions[s])
  BY <1>1, <1>2 DEF InTurn
<1>4. bak_part[s] = next_part[s] \/ bak_part[s] \in 1 .. Len(partitions[s])
  BY <1>1, <1>2, CandidatesHaveRoom DEF InTurn
<1>5. next_part[s] \in 0 .. Len(partitions[s])
  BY <1>1, <1>2 DEF TypeOK
<1>6. ASSUME bak_part[s] = 0
      PROVE  /\ partitions[s] = <<{Order[First(s)]}>>
             /\ Len(partitions[s]) = 1 /\ at_part[s] = 1
  <2>1. next_part[s] = 0
    BY <1>4, <1>6
  <2>2. partitions[s] = <<{Order[First(s)]}>>
    BY <1>2, <2>1 DEF EndsInv, OnlyTheSeed
  <2>3. Len(partitions[s]) = 1
    BY <2>2
  <2> QED
    BY <1>3, <2>2, <2>3
<1>7. PICK n \in Nat \ {0} : n = Len(partitions[s])
  BY <1>2
<1>8. bak_part[s] \in 0 .. n
  <2>1. bak_part[s] \in 0 .. n \/ bak_part[s] \in 1 .. n
    BY <1>4, <1>5, <1>7
  <2> QED
    BY <2>1
<1> QED
  BY <1>1, <1>2, <1>3, <1>6, <1>7, <1>8

\* The id in hand is in no partition yet, so putting it away is a change.
LEMMA PuttingAwayShows ==
    ASSUME EndsInv, NEW s \in Splits, Seed(s) \/ Include(s) \/ OpenNew(s)
    PROVE  partitions'[s] # partitions[s]
<1>1. SplitStep(s) /\ TypeOK /\ Progress
  BY IncludeAdds, OpenNewOpens DEF Seed, SplitStep, EndsInv, PlacementInv
<1>2. PICK c : Puts(s, c)
  BY <1>1, StepPuts
<1>3. i_next[s] = First(s) \/ i_next[s] < Last(s)
  BY <1>1 DEF SplitStep, SeedSplit, AddToPartition, OpenPartition, Searching, Progress
<1>4. i_next[s] \in 0 .. Count - 1
  BY <1>1, <1>3, RangesFit, CountType DEF TypeOK
<1>5. Order[i_next[s]] \in Ids
  BY <1>4, OrderOK
<1>6. ~PlacedIn(s, Order[i_next[s]])
  <2>1. SUFFICES ASSUME NEW i \in 0 .. Count - 1, i < i_next[s], Order[i] = Order[i_next[s]]
                 PROVE  FALSE
    BY <1>5 DEF EndsInv, PlacementInv, Placed
  <2> QED
    BY <2>1, <1>4, OrderOK
<1> QED
  BY <1>2, <1>6 DEF Puts, PlacedIn

\* A step that puts nothing away is a turn begun, a full partition stepped over,
\* or a turn done with; each brings the search nearer to its end.
LEMMA OwnStepIsNearer ==
    ASSUME EndsInv, NEW s \in Splits, SearchStep(s), partitions'[s] = partitions[s]
    PROVE  Nearer(s) \/ <<j[s], bak_part[s], at_part[s], loop[s]>>'
                           = <<j[s], bak_part[s], at_part[s], loop[s]>>
<1>1. Turn(s) \/ SkipFull(s) \/ Reject(s)
  BY PuttingAwayShows DEF SearchStep
<1>2. UNCHANGED vars /\ OnlyOwn(s) /\ EndsInv'
  <2>1. UNCHANGED vars
    BY <1>1 DEF Turn, SkipFull, Reject
  <2>2. SearchNext
    BY DEF SearchNext
  <2> QED
    BY <2>1, <2>2, OwnStep, SearchInvNext, SearchNextIsNext, PlacementStep, OnlyTheSeedStep
       DEF EndsInv, PlacementInv
<1>3. /\ j \in [Splits -> Nat] /\ at_part \in [Splits -> Nat]
      /\ bak_part \in [Splits -> Nat] /\ loop \in [Splits -> {"for", "while"}]
  BY DEF EndsInv, SearchInv
<1>4. CASE Turn(s)
  <2>1. /\ loop[s] = "for" /\ loop'[s] = "while" /\ j'[s] = j[s]
    BY <1>3, <1>4 DEF Turn
  <2>2. TurnsLeft(s)' = TurnsLeft(s) /\ StepsLeft(s) = Len(partitions[s])
    BY <2>1 DEF TurnsLeft, StepsLeft
  <2>3. /\ Len(partitions[s]) \in Nat \ {0} /\ bak_part'[s] \in Int /\ at_part'[s] \in Int
    BY <1>2, <1>4 DEF Turn, InHand, EndsInv, SearchInv, TypeOK, OnlyOwn
  <2>4. StepsLeft(s)' = (bak_part'[s] - at_part'[s]) % Len(partitions[s])
    BY <2>1 DEF StepsLeft
  <2>5. (bak_part'[s] - at_part'[s]) % Len(partitions[s]) \in 0 .. Len(partitions[s]) - 1
    BY <2>3
  <2> QED
    BY <2>2, <2>4, <2>5 DEF Nearer
<1>5. CASE SkipFull(s)
  <2>1. /\ loop[s] = "while" /\ loop' = loop /\ j' = j /\ bak_part' = bak_part
        /\ bak_part[s] # at_part[s]
    BY <1>5 DEF SkipFull, StepsOver
  <2>2. at_part'[s] = Following(s, at_part[s])
    BY <1>3, <1>5 DEF SkipFull
  <2>3. /\ Len(partitions[s]) \in Nat \ {0} /\ at_part[s] \in 1 .. Len(partitions[s])
        /\ bak_part[s] \in 0 .. Len(partitions[s])
        /\ bak_part[s] = 0 => Len(partitions[s]) = 1 /\ at_part[s] = 1
    BY <2>1, InTurnAt
  <2>4. TurnsLeft(s)' = TurnsLeft(s)
    BY <2>1 DEF TurnsLeft
  <2>5. /\ StepsLeft(s) = (bak_part[s] - at_part[s]) % Len(partitions[s])
        /\ StepsLeft(s)' = (bak_part[s] - at_part'[s]) % Len(partitions[s])
    BY <2>1 DEF StepsLeft
  <2>6. CASE bak_part[s] = 0
    <3>1. (1 % 1) + 1 = 1
      OBVIOUS
    <3>2. at_part'[s] = at_part[s]
      BY <2>2, <2>3, <2>6, <3>1 DEF Following
    <3> QED
      BY <2>1, <3>2
  <2>7. CASE bak_part[s] # 0
    <3>1. bak_part[s] \in 1 .. Len(partitions[s]) /\ at_part'[s] \in Int
      BY <1>2, <2>3, <2>7 DEF OnlyOwn
    <3>2. at_part'[s] = (at_part[s] % Len(partitions[s])) + 1
      BY <2>2 DEF Following
    <3>3. StepsLeft(s)' \in 0 .. StepsLeft(s) - 1
      BY <2>1, <2>3, <2>5, <3>1, <3>2, OneNearer
    <3> QED
      BY <2>4, <3>3 DEF Nearer
  <2> QED
    BY <2>6, <2>7
<1>6. CASE Reject(s)
  <2>1. j'[s] = j[s] + 1 /\ loop[s] = "while"
    BY <1>3, <1>6 DEF Reject, NextTurn
  <2>2. j[s] \in 0 .. Len(partitions[s]) - 1 /\ Len(partitions[s]) \in Nat
    BY <2>1, InTurnAt DEF InTurn
  <2>3. TurnsLeft(s)' = Len(partitions[s]) - (j[s] + 1)
    BY <2>1 DEF TurnsLeft
  <2> QED
    BY <2>2, <2>3 DEF Nearer, TurnsLeft
<1> QED
  BY <1>1, <1>4, <1>5, <1>6

\* No search goes round for ever (sender.cc:58-63), for every number of ids and
\* rows: every step that puts no id away takes the search nearer to its end or
\* leaves it alone, and no thread moves the search of another.
THEOREM AlwaysNearer == SearchSpec => SearchesEnd
<1>1. ASSUME EndsInv, [SearchNext]_<<vars, search_vars>>, NEW s \in Splits,
             partitions'[s] = partitions[s]
      PROVE  \/ Nearer(s)
             \/ <<j[s], bak_part[s], at_part[s], loop[s]>>'
                   = <<j[s], bak_part[s], at_part[s], loop[s]>>
  <2>1. CASE SearchStep(s)
    BY <1>1, <2>1, OwnStepIsNearer
  <2>2. ASSUME NEW t \in Splits \ {s}, SearchStep(t)
        PROVE  <<j[s], bak_part[s], at_part[s], loop[s]>>'
                  = <<j[s], bak_part[s], at_part[s], loop[s]>>
    <3>1. OnlyOwn(t)
      BY <1>1, <2>2, OwnStep DEF EndsInv
    <3> QED
      BY <3>1 DEF OnlyOwn
  <2>3. CASE UNCHANGED search_vars
    BY <2>3 DEF search_vars
  <2> QED
    BY <1>1, <2>1, <2>2, <2>3 DEF SearchNext
<1>2. EndsInv /\ [SearchNext]_<<vars, search_vars>>
         => [\A s \in Splits :
                partitions'[s] = partitions[s]
                    => \/ Nearer(s)
                       \/ <<j[s], bak_part[s], at_part[s], loop[s]>>'
                             = <<j[s], bak_part[s], at_part[s], loop[s]>>]_<<vars, search_vars>>
  BY <1>1
<1> QED
  BY <1>2, EndsInvAlways, PTL DEF SearchSpec, SearchesEnd

\* With room for more than one id in a partition the while loop always has
\* somewhere to stop, the first search of a split, which starts from -1,
\* included (sender.cc:52, 62).
THEOREM NeverStuck ==
    ASSUME PartitionSize > 1 PROVE SearchSpec => []NoSearchIsStuck
<1>1. ASSUME EndsInv, NEW s \in Splits, loop[s] = "while", StepsOver(s)
      PROVE  StepsLeft(s) # 0
  <2>1. /\ bak_part[s] # at_part[s]
        /\ Cardinality(partitions[s][at_part[s]]) >= PartitionSize
    BY <1>1 DEF StepsOver
  <2>2. /\ Len(partitions[s]) \in Nat \ {0} /\ at_part[s] \in 1 .. Len(partitions[s])
        /\ bak_part[s] \in 0 .. Len(partitions[s])
        /\ bak_part[s] = 0 => partitions[s] = <<{Order[First(s)]}>> /\ at_part[s] = 1
    BY <1>1, InTurnAt
  <2>3. bak_part[s] # 0
    <3>1. Cardinality({Order[First(s)]}) = 1
      BY FS_Singleton
    <3>2. SUFFICES ASSUME bak_part[s] = 0 PROVE FALSE
      OBVIOUS
    <3>3. partitions[s][at_part[s]] = {Order[First(s)]}
      BY <2>2, <3>2
    <3> QED
      BY <2>1, <3>1, <3>3, SizesOK
  <2>4. (bak_part[s] - at_part[s]) % Len(partitions[s]) # 0
    <3>1. PICK n \in Nat \ {0} : n = Len(partitions[s])
      BY <2>2
    <3>2. PICK a \in 1 .. n, b \in 1 .. n : a = at_part[s] /\ b = bak_part[s]
      BY <2>2, <2>3, <3>1
    <3>3. (a % n) + 1 \in Int /\ a # b
      BY <2>1, <3>2
    <3>4. (b - a) % n # 0
      BY <3>3, OneNearer
    <3> QED
      BY <3>1, <3>2, <3>4
  <2> QED
    BY <1>1, <2>4 DEF StepsLeft
<1>2. EndsInv => NoSearchIsStuck
  BY <1>1 DEF NoSearchIsStuck
<1> QED
  BY <1>2, EndsInvAlways, PTL

\* What Partition guarantees, its loops guarantee: the places of the ids are
\* right in every state of every search.
THEOREM LoopsKeepThePromises ==
    SearchSpec => [](TypeOK /\ PositionsDistinct /\ PartitionsFit /\ FewPartlyFilled)
BY SearchImplements, TypeCorrect, AlwaysDistinct, AlwaysFit, AlwaysFewPartlyFilled, PTL
   DEF ImplementsPartition

\* And with at least one id per thread every id ends up in exactly one place.
THEOREM LoopsPlaceEveryId ==
    ASSUME NrofSplits <= Count PROVE SearchSpec => []PlacedExactlyOnce
BY SearchImplements, AlwaysExactlyOnce, PTL DEF ImplementsPartition
=============================================================================
