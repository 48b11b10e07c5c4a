----------------------------- MODULE Partition -----------------------------
(***************************************************************************)
(* The sender's first offline step: parallelPartitionDB and partitionDB of *)
(* protocol/sender.cc put every enrolled id into a partition, such that no *)
(* two ids of a partition have the same subsample at the same position.    *)
(* The shuffled id list is cut into NrofSplits ranges and each range is    *)
(* partitioned by an OpenMP thread.  A subsample vector is a function from *)
(* positions to values; only equality of values matters.                   *)
(***************************************************************************)
EXTENDS Integers, Sequences, FiniteSets

CONSTANTS
    Ids,            \* the keys of enr_ss_map, the enrolled ids
    Positions,      \* the subsample positions 0 .. inN - 1
    Vectors,        \* the subsample vectors an id may have
    Order,          \* Order[i] is enr_keys[rand_db_ind[i]]: the shuffled ids
    PartitionSize,  \* partition_size
    NrofSplits      \* nrof_splits

Count == Cardinality(Ids)
Splits == 0 .. NrofSplits - 1

ASSUME IdsOK == IsFiniteSet(Ids) /\ Ids # {}
ASSUME SizesOK == PartitionSize \in Nat \ {0} /\ NrofSplits \in Nat \ {0}
ASSUME OrderOK ==
    /\ Order \in [0 .. Count - 1 -> Ids]
    /\ \A i, j \in 0 .. Count - 1 : Order[i] = Order[j] => i = j
    /\ \A id \in Ids : \E i \in 0 .. Count - 1 : Order[i] = id

VARIABLES
    enr_ss_map,  \* the subsample vector of every id; read-only here
    partitions,  \* partitions[s]: the partitions of split s, as sets of ids
    next_part,   \* number of the partition that got the last id, 0 for -1
    i_next       \* the loop index of partitionDB: the next place of Order

vars == <<enr_ss_map, partitions, next_part, i_next>>

\* f_ind and l_ind: equal ranges, the last one extended to the end.
Increment == Count \div NrofSplits
First(s) == s * Increment
\* Mutant: the last range is not extended.
LastNotExtended(s) == (s + 1) * Increment
Last(s) == IF s = NrofSplits - 1 THEN Count ELSE (s + 1) * Increment

TypeOK ==
    /\ enr_ss_map \in [Ids -> Vectors]
    /\ partitions \in [Splits -> Seq(SUBSET Ids)]
    /\ next_part \in [Splits -> Nat]
    /\ i_next \in [Splits -> 0 .. Count]
    /\ \A s \in Splits : next_part[s] <= Len(partitions[s])

Init ==
    /\ enr_ss_map \in [Ids -> Vectors]
    /\ partitions = [s \in Splits |-> <<>>]
    /\ next_part = [s \in Splits |-> 0]
    /\ i_next = [s \in Splits |-> First(s)]

Collide(a, b) == \E x \in Positions : enr_ss_map[a][x] = enr_ss_map[b][x]

\* Mutant: one collision is tolerated, as nrof_collisions once allowed.
IsDistinctButOne(id, ids) ==
    \A other \in ids :
        Cardinality({x \in Positions : enr_ss_map[id][x] = enr_ss_map[other][x]}) <= 1
IsDistinct(id, ids) == \A other \in ids : ~Collide(id, other)

NonFull(s) ==
    {c \in DOMAIN partitions[s] : Cardinality(partitions[s][c]) < PartitionSize}

\* The partitions that are tried: the search steps over full ones, and comes
\* back to the partition it started from only by way of another one.
Tried(s) == IF NonFull(s) \ {next_part[s]} = {} THEN {} ELSE NonFull(s)

Candidates(s, id) == {c \in Tried(s) : IsDistinct(id, partitions[s][c])}

\* Steps of the cyclic search from next_part to partition c.
Distance(s, c) == (c - next_part[s] - 1) % Len(partitions[s])

\* partitionDB indexes the list before its loop: an empty range is not noticed.
SeedSplit(s) ==
    /\ partitions[s] = <<>>
    /\ partitions' = [partitions EXCEPT ![s] = <<{Order[First(s)]}>>]
    /\ i_next' = [i_next EXCEPT ![s] = First(s) + 1]
    /\ UNCHANGED <<enr_ss_map, next_part>>

\* The first search starts from -1, which no partition number ever equals:
\* with only a full partition to look at, it would not end.
Searching(s) ==
    /\ partitions[s] # <<>>
    /\ i_next[s] < Last(s)
    /\ next_part[s] = 0 => NonFull(s) # {}

AddToPartition(s) ==
    /\ Searching(s)
    /\ LET id == Order[i_next[s]] IN
       \E c \in Candidates(s, id) :
          /\ \A d \in Candidates(s, id) : Distance(s, c) <= Distance(s, d)
          /\ partitions' = [partitions EXCEPT ![s][c] = @ \cup {id}]
          /\ next_part' = [next_part EXCEPT ![s] = c]
    /\ i_next' = [i_next EXCEPT ![s] = @ + 1]
    /\ UNCHANGED enr_ss_map

\* Mutant: next_part = nrof_parts instead of nrof_parts - 1.
NewestOffByOne(s) == Len(partitions[s]) + 2
Newest(s) == Len(partitions[s]) + 1

OpenPartition(s) ==
    /\ Searching(s)
    /\ LET id == Order[i_next[s]] IN
       /\ Candidates(s, id) = {}
       /\ partitions' = [partitions EXCEPT ![s] = Append(@, {id})]
    /\ next_part' = [next_part EXCEPT ![s] = Newest(s)]
    /\ i_next' = [i_next EXCEPT ![s] = @ + 1]
    /\ UNCHANGED enr_ss_map

SplitStep(s) == SeedSplit(s) \/ AddToPartition(s) \/ OpenPartition(s)

SplitFinished(s) == partitions[s] # <<>> /\ i_next[s] >= Last(s)
Finished == \A s \in Splits : SplitFinished(s)

\* The end of the parallel region.
Join == Finished /\ UNCHANGED vars

Next == (\E s \in Splits : SplitStep(s)) \/ Join

Spec == Init /\ [][Next]_vars

----------------------------------------------------------------------------

\* The interpolation's x-coordinates are distinct: no two ids of a partition
\* share a subsample at any position (sender.cc:13-24).
PositionsDistinct ==
    \A s \in Splits : \A c \in DOMAIN partitions[s] :
        \A a, b \in partitions[s][c] : a # b => ~Collide(a, b)

\* A partition holds at most partition_size ids, the rows that
\* getSplitCoefficients has room for.
PartitionsFit ==
    \A s \in Splits : \A c \in DOMAIN partitions[s] :
        Cardinality(partitions[s][c]) <= PartitionSize

\* When every thread is through, every enrolled id is in exactly one partition
\* of exactly one split (test_partition_completeness.cc:13-14).
PlacedExactlyOnce ==
    Finished =>
        \A id \in Ids : \E s \in Splits : \E c \in DOMAIN partitions[s] :
            \A t \in Splits : \A d \in DOMAIN partitions[t] :
                id \in partitions[t][d] <=> (t = s /\ d = c)

\* As long as the ids of a split do not collide, the search leaves at most two
\* of its partitions partly filled: it may open one partition too many, never
\* more (sender.cc:56-80).
NoCollisions(s) ==
    \A c, d \in DOMAIN partitions[s] :
        \A a \in partitions[s][c], b \in partitions[s][d] : a # b => ~Collide(a, b)
FewPartlyFilled ==
    \A s \in Splits : NoCollisions(s) => Cardinality(NonFull(s)) <= 2
============================================================================
