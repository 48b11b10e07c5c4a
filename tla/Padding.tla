------------------------------- MODULE Padding -------------------------------
(***************************************************************************)
(* The x-coordinates of one partition (getSplitCoefficients).  At each of  *)
(* the inN positions a polynomial goes through partition_size points: the  *)
(* blinded subsamples of the partition's ids, and dummies for the rows     *)
(* that are still free.  Interpolation needs the x-coordinates of a        *)
(* position to differ; a second loop replaces a value that was there       *)
(* before by the next dummy.                                               *)
(*                                                                         *)
(* The y-coordinates of the dummies are random and play no part.           *)
(***************************************************************************)
EXTENDS Naturals

CONSTANTS
    FIELD_MODULUS,   \* the plain modulus
    MaxSubs,         \* the values MAX_SUB may have
    Blinded,         \* the values of a blinded subsample
    inN,             \* positions
    partition_size   \* rows

ASSUME FieldOK == FIELD_MODULUS \in Nat \ {0}
ASSUME SizesOK == inN \in Nat \ {0} /\ partition_size \in Nat \ {0}
ASSUME MaxSubsOK == MaxSubs \subseteq Nat
ASSUME BlindedOK == Blinded \subseteq 0 .. FIELD_MODULUS - 1

VARIABLES
    MAX_SUB,                  \* the dummies start behind it
    current_partition_size,   \* ids of the partition
    real,                     \* their blinded subsamples, by position and row
    x,                        \* the x-coordinates, by position and row
    dummy_item,               \* the dummy used last
    i, j,                     \* position and row of the loops
    pc                        \* "pad", "guard" or "interpolate"

input == <<MAX_SUB, current_partition_size, real>>
vars == <<input, x, dummy_item, i, j, pc>>

Positions == 0 .. inN - 1
Rows == 0 .. partition_size - 1
RealRows == 0 .. current_partition_size - 1
Field == 0 .. FIELD_MODULUS - 1

TypeOK ==
    /\ MAX_SUB \in MaxSubs
    /\ current_partition_size \in 1 .. partition_size
    /\ real \in [Positions -> [RealRows -> Blinded]]
    /\ x \in [Positions -> [Rows -> Field]]
    /\ dummy_item \in Nat
    /\ i \in 0 .. inN /\ j \in 0 .. partition_size
    /\ pc = "pad" => i < inN
    /\ pc \in {"pad", "guard", "interpolate"}

\* The ids of a partition differ at every position: see Partition.
Distinct(f) == \A r1, r2 \in DOMAIN f : f[r1] = f[r2] => r1 = r2

Init ==
    /\ MAX_SUB \in MaxSubs
    /\ current_partition_size \in 1 .. partition_size
    /\ real \in [Positions -> {f \in [RealRows -> Blinded] : Distinct(f)}]
    /\ x = [p \in Positions |-> [r \in Rows |-> IF r \in RealRows THEN real[p][r] ELSE 0]]
    /\ dummy_item = MAX_SUB
    /\ i = 0 /\ j = current_partition_size
    /\ pc = "pad"

\* Mutants: the dummy is not reduced; it is used before it is counted on.
DummyNotReduced == dummy_item + 1
StaleDummy == dummy_item % FIELD_MODULUS
NextDummy == (dummy_item + 1) % FIELD_MODULUS

WriteDummy ==
    /\ x' = [x EXCEPT ![i][j] = NextDummy]
    /\ dummy_item' = dummy_item + 1

\* The padding goes row by row.
Pad ==
    /\ pc = "pad" /\ j < partition_size
    /\ WriteDummy
    /\ i' = (i + 1) % inN
    /\ j' = IF i + 1 = inN THEN j + 1 ELSE j
    /\ UNCHANGED <<input, pc>>

StartGuard ==
    /\ pc = "pad" /\ j = partition_size
    /\ pc' = "guard"
    /\ i' = 0 /\ j' = 1
    /\ UNCHANGED <<input, x, dummy_item>>

\* dup_map: the values of the rows before j, replaced ones included.
\* Mutant: the row itself is entered first.
SeenWithItself == {x[i][r] : r \in 0 .. j}
Seen == {x[i][r] : r \in 0 .. j - 1}

\* Mutant: the guard leaves out the last row.
GuardedButLast == j < partition_size - 1
Guarded == j < partition_size

\* The guard goes position by position.
KeepValue ==
    /\ pc = "guard" /\ i < inN /\ Guarded
    /\ x[i][j] \notin Seen
    /\ j' = j + 1
    /\ UNCHANGED <<input, x, dummy_item, i, pc>>

\* The new value is not looked up.
ReplaceDuplicate ==
    /\ pc = "guard" /\ i < inN /\ Guarded
    /\ x[i][j] \in Seen
    /\ WriteDummy
    /\ j' = j + 1
    /\ UNCHANGED <<input, i, pc>>

NextPosition ==
    /\ pc = "guard" /\ i < inN /\ ~Guarded
    /\ i' = i + 1 /\ j' = 1
    /\ UNCHANGED <<input, x, dummy_item, pc>>

Interpolate ==
    /\ pc = "guard" /\ i = inN
    /\ pc' = "interpolate"
    /\ UNCHANGED <<input, x, dummy_item, i, j>>

Next == Pad \/ StartGuard \/ KeepValue \/ ReplaceDuplicate \/ NextPosition \/ Interpolate

Spec == Init /\ [][Next]_vars

----------------------------------------------------------------------------

\* A real id keeps its x-coordinates, whatever the dummies collide with
\* (sender.cc:165-166: "a real subject's x is never overwritten").
RealsUntouched == \A p \in Positions, r \in RealRows : x[p][r] = real[p][r]

\* The dummies of the padding, and its last one.
PaddedDummy(p, r) ==
    (MAX_SUB + (r - current_partition_size) * inN + p + 1) % FIELD_MODULUS
LastPadded == MAX_SUB + (partition_size - current_partition_size) * inN

\* What is left of the danger: two equal x-coordinates take two coincidences,
\* a dummy that met a value of its position and a replacement that met a real
\* one.  Dummies never meet each other before their counter has gone once
\* around the field (sender.cc:158-186).
DuplicatesAreRepairs ==
    (pc = "interpolate" /\ dummy_item - MAX_SUB <= FIELD_MODULUS) =>
        \A p \in Positions, r1, r2 \in Rows :
            (r1 < r2 /\ x[p][r1] = x[p][r2]) =>
                /\ r1 \in RealRows /\ r2 \notin RealRows
                /\ x[p][r2] # PaddedDummy(p, r2)
                /\ \E r \in RealRows : real[p][r] = PaddedDummy(p, r2)

\* The callers that set MAX_SUB to the largest value of their data get what they
\* want (flpsi_experiment.cc:186: "dummy padding will use values > MAX_SUB"), as
\* long as the dummies stay in the field: distinct points, and no repair.
DistinctAboveTheData ==
    (/\ \A p \in Positions, r \in RealRows : real[p][r] <= MAX_SUB
     /\ LastPadded < FIELD_MODULUS
     /\ pc = "interpolate") =>
        /\ \A p \in Positions : Distinct(x[p])
        /\ dummy_item = LastPadded

\* "FLINT interpolation requires distinct x-coords per position"
\* (sender.cc:158-159).
PointsDistinct == pc = "interpolate" => \A p \in Positions : Distinct(x[p])
============================================================================
