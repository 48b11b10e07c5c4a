-------------------------- MODULE PartitionSearch --------------------------
(***************************************************************************)
(* How partitionDB looks for a partition: the two nested loops of          *)
(* protocol/sender.cc, one action per turn.  Module Partition says which   *)
(* partition the search settles on; that the loops settle on that one, and *)
(* open a new partition only when there is none, is ImplementsPartition.   *)
(***************************************************************************)
EXTENDS Partition

VARIABLES
    j,         \* j[s]: turns of the for loop done for the id in hand
    bak_part,  \* the partition a turn started from
    at_part,   \* the next_part of the code, which also moves during a search
    loop       \* "while" inside of a turn, otherwise "for"

search_vars == <<j, bak_part, at_part, loop>>

SearchInit ==
    /\ Init
    /\ j = [s \in Splits |-> 0]
    /\ bak_part = [s \in Splits |-> 0]
    /\ at_part = [s \in Splits |-> 0]
    /\ loop = [s \in Splits |-> "for"]

Seed(s) == SeedSplit(s) /\ UNCHANGED search_vars

\* The loop of partitionDB over its range, with an id in hand.
InHand(s) == partitions[s] # <<>> /\ i_next[s] < Last(s)
Id(s) == Order[i_next[s]]

\* Partition numbers start at 1 here, so 0 stands for the -1 of the code.
\* Mutant: the step to the next partition is left out.
FollowingStays(s, c) == c
Following(s, c) == (c % Len(partitions[s])) + 1

\* Mutant: the for loop stops one turn early.
OneTurnLess(s) == j[s] + 1 < Len(partitions[s])
MoreTurns(s) == j[s] < Len(partitions[s])

Turn(s) ==
    /\ InHand(s)
    /\ loop[s] = "for" /\ MoreTurns(s)
    /\ bak_part' = [bak_part EXCEPT ![s] = at_part[s]]
    /\ at_part' = [at_part EXCEPT ![s] = Following(s, at_part[s])]
    /\ loop' = [loop EXCEPT ![s] = "while"]
    /\ UNCHANGED <<vars, j>>

\* Mutant: the while loop does not stop where the turn started.
StepsOverAnyFull(s) == Cardinality(partitions[s][at_part[s]]) >= PartitionSize
\* Mutant: > for >=.
StepsOverOffByOne(s) ==
    /\ bak_part[s] # at_part[s]
    /\ Cardinality(partitions[s][at_part[s]]) > PartitionSize
StepsOver(s) ==
    /\ bak_part[s] # at_part[s]
    /\ Cardinality(partitions[s][at_part[s]]) >= PartitionSize

SkipFull(s) ==
    /\ loop[s] = "while" /\ StepsOver(s)
    /\ at_part' = [at_part EXCEPT ![s] = Following(s, at_part[s])]
    /\ UNCHANGED <<vars, j, bak_part, loop>>

Takes(s) == bak_part[s] # at_part[s] /\ IsDistinct(Id(s), partitions[s][at_part[s]])

Include(s) ==
    /\ loop[s] = "while" /\ ~StepsOver(s) /\ Takes(s)
    /\ partitions' = [partitions EXCEPT ![s][at_part[s]] = @ \cup {Id(s)}]
    /\ next_part' = [next_part EXCEPT ![s] = at_part[s]]
    /\ i_next' = [i_next EXCEPT ![s] = @ + 1]
    /\ j' = [j EXCEPT ![s] = 0]
    /\ loop' = [loop EXCEPT ![s] = "for"]
    /\ UNCHANGED <<enr_ss_map, bak_part, at_part>>

\* Mutant: a turn that finds nothing is not counted.
SameTurn(s) == j[s]
NextTurn(s) == j[s] + 1

Reject(s) ==
    /\ loop[s] = "while" /\ ~StepsOver(s) /\ ~Takes(s)
    /\ j' = [j EXCEPT ![s] = NextTurn(s)]
    /\ loop' = [loop EXCEPT ![s] = "for"]
    /\ UNCHANGED <<vars, bak_part, at_part>>

OpenNew(s) ==
    /\ InHand(s)
    /\ loop[s] = "for" /\ ~MoreTurns(s)
    /\ partitions' = [partitions EXCEPT ![s] = Append(@, {Id(s)})]
    /\ next_part' = [next_part EXCEPT ![s] = Newest(s)]
    /\ at_part' = [at_part EXCEPT ![s] = Newest(s)]
    /\ i_next' = [i_next EXCEPT ![s] = @ + 1]
    /\ j' = [j EXCEPT ![s] = 0]
    /\ UNCHANGED <<enr_ss_map, bak_part, loop>>

SearchStep(s) ==
    Seed(s) \/ Turn(s) \/ SkipFull(s) \/ Include(s) \/ Reject(s) \/ OpenNew(s)

SearchNext ==
    \/ \E s \in Splits : SearchStep(s)
    \/ Join /\ UNCHANGED search_vars

SearchSpec == SearchInit /\ [][SearchNext]_<<vars, search_vars>>

----------------------------------------------------------------------------

\* The loops at sender.cc:58-81 put every id where Partition says: into the
\* first partition after the last one used that has room and no collision, and
\* into a new one exactly when there is none, however the search wraps around.
ImplementsPartition == Spec

\* What is left of a search: turns of the for loop, and in a turn the partitions
\* up to the one where it began.
TurnsLeft(s) == Len(partitions[s]) - j[s]
StepsLeft(s) ==
    IF loop[s] = "for" THEN Len(partitions[s])
                       ELSE (bak_part[s] - at_part[s]) % Len(partitions[s])
Nearer(s) ==
    \/ TurnsLeft(s)' \in 0 .. TurnsLeft(s) - 1
    \/ TurnsLeft(s)' = TurnsLeft(s) /\ StepsLeft(s)' \in 0 .. StepsLeft(s) - 1

\* No search goes round for ever (sender.cc:58-63): whatever it does without
\* putting its id away, a turn or a step over a full partition, brings it nearer to
\* its end, and no thread moves the search of another.
SearchesEnd ==
    [][\A s \in Splits :
          partitions'[s] = partitions[s]
              => \/ Nearer(s)
                 \/ <<j[s], bak_part[s], at_part[s], loop[s]>>'
                       = <<j[s], bak_part[s], at_part[s], loop[s]>>]_<<vars, search_vars>>

\* The while loop never steps over a full partition with no other one to come to:
\* the first search, which starts from -1 and so has nowhere to stop, finds room
\* in the one partition there is (sender.cc:52, 62).
NoSearchIsStuck ==
    \A s \in Splits : loop[s] = "while" /\ StepsOver(s) => StepsLeft(s) # 0
============================================================================
