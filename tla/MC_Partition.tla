---------------------------- MODULE MC_Partition ----------------------------
(***************************************************************************)
(* Instances of the partitioning for TLC.  Because every map from ids to   *)
(* vectors is an initial state, one fixed order of the ids loses nothing.  *)
(***************************************************************************)
EXTENDS PartitionSearch

MCIds == 1 .. 7
MCFewIds == 1 .. 3
MCPositions == {1, 2}
\* Three values for a position, and two vectors that share just one of them.
MCVectors == {<<1, 1>>, <<2, 2>>, <<3, 3>>, <<1, 2>>}
MCOrder == [i \in 0 .. Count - 1 |-> i + 1]
=============================================================================
