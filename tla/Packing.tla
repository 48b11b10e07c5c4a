------------------------------- MODULE Packing -------------------------------
(***************************************************************************)
(* Partitions share ciphertexts.  The sender lays m / inN partitions side  *)
(* by side in the m slots of a plaintext (simdPartitions), the receiver    *)
(* repeats its query in the same slots (simdQueryPowers), the evaluation   *)
(* works slot by slot, and the receiver cuts the slots into rows again     *)
(* (extendPartitionRows) and drops the rows that are only padding          *)
(* (decryptQueryResult).                                                   *)
(*                                                                         *)
(* The layout is the same for every coefficient and both channels, so one  *)
(* value per slot stands for them: the pair <<partition, position>> whose  *)
(* coefficients the slot holds, or Dummy.                                  *)
(***************************************************************************)
EXTENDS Naturals

CONSTANTS
    Shapes,         \* the pairs <<m, inN>> that are configured
    MaxPartitions,  \* bound: partitions of the database
    Dummy           \* dummy_coeff

ASSUME ShapesOK ==
    Shapes \subseteq {h \in (Nat \ {0}) \X (Nat \ {0}) : h[2] <= h[1]}
ASSUME MaxPartitionsOK == MaxPartitions \in Nat \ {0}

VARIABLES
    m,                      \* SIMD slots of a plaintext
    inN,                    \* subsamples of an id
    nrof_partitions,        \* partition_coeffs.size(), nrof_real_partitions
    simd_partition_coeffs,  \* what each slot of each plaintext holds
    i, m_cnt,               \* loop index and slot counter of simdPartitions
    packing                 \* "running", "packed" or "overrun"

parameters == <<m, inN, nrof_partitions>>
vars == <<parameters, simd_partition_coeffs, i, m_cnt, packing>>

Slots == 0 .. m - 1
Subsamples == 0 .. inN - 1
nrof_ids_in_row == m \div inN

\* Mutant: the number of plaintexts rounded down.
SimdPartsRoundedDown == nrof_partitions \div nrof_ids_in_row
nrof_simd_parts == (nrof_partitions + nrof_ids_in_row - 1) \div nrof_ids_in_row
SimdParts == 0 .. nrof_simd_parts - 1

TypeOK ==
    /\ <<m, inN>> \in Shapes
    /\ nrof_partitions \in 1 .. MaxPartitions
    /\ simd_partition_coeffs \in
          [SimdParts -> [Slots -> ((0 .. nrof_partitions - 1) \X Subsamples)
                                  \cup {Dummy}]]
    /\ i \in 0 .. nrof_partitions
    /\ m_cnt \in 0 .. m
    /\ packing \in {"running", "packed", "overrun"}

Init ==
    /\ \E h \in Shapes : m = h[1] /\ inN = h[2]
    /\ nrof_partitions \in 1 .. MaxPartitions
    /\ simd_partition_coeffs = [part \in SimdParts |-> [s \in Slots |-> Dummy]]
    /\ i = 0 /\ m_cnt = 0
    /\ packing = "running"

\* Mutant: one partition too many per plaintext.
PartOfRowsPlusOne(n) == n \div (nrof_ids_in_row + 1)
simd_part_ind(n) == n \div nrof_ids_in_row

\* m_cnt is taken modulo m once per partition, not once per slot.
\* Mutant: the counter is not wrapped.
FirstSlotNotWrapped == m_cnt
FirstSlot == m_cnt % m

\* Mutant: one turn too many.
MorePartitionsOffByOne == i <= nrof_partitions
MorePartitions == i < nrof_partitions

\* One turn of the loop over the partitions.
PackPartition ==
    /\ packing = "running" /\ MorePartitions
    /\ FirstSlot + inN <= m
    /\ simd_partition_coeffs' =
          [simd_partition_coeffs EXCEPT ![simd_part_ind(i)] =
              [s \in Slots |-> IF FirstSlot <= s /\ s < FirstSlot + inN
                                 THEN <<i, s - FirstSlot>>
                                 ELSE @[s]]]
    /\ m_cnt' = FirstSlot + inN
    /\ i' = i + 1
    /\ UNCHANGED <<parameters, packing>>

\* The slots left in the row are fewer than inN: the loop writes past the end
\* of the vector, and nothing is known from then on.
Overrun ==
    /\ packing = "running" /\ MorePartitions
    /\ FirstSlot + inN > m
    /\ packing' = "overrun"
    /\ UNCHANGED <<parameters, simd_partition_coeffs, i, m_cnt>>

ReturnPacked ==
    /\ packing = "running" /\ ~MorePartitions
    /\ packing' = "packed"
    /\ UNCHANGED <<parameters, simd_partition_coeffs, i, m_cnt>>

Next == PackPartition \/ Overrun \/ ReturnPacked

Spec == Init /\ [][Next]_vars

----------------------------------------------------------------------------
(* What the receiver reads out of the slots.                                *)

\* simdQueryPowers: the subsample of the query in slot s; the slots behind
\* the last whole repetition hold the constant one.
QuerySubsample(s) == IF s < nrof_ids_in_row * inN THEN s % inN ELSE Dummy

\* A slot of an evaluated plaintext: the polynomial and the subsample it met.
Evaluated(part, s) == <<simd_partition_coeffs[part][s], QuerySubsample(s)>>

\* extendPartitionRows.
\* Mutant: rows interleaved instead of side by side.
SlotOfRowInterleaved(c, k) == k * nrof_ids_in_row + (c % nrof_ids_in_row)
SlotOfRow(c, k) == (c % nrof_ids_in_row) * inN + k
ExtendedRow(c) ==
    [k \in Subsamples |-> Evaluated(c \div nrof_ids_in_row, SlotOfRow(c, k))]
nrof_extended_parts == nrof_simd_parts * nrof_ids_in_row

\* decryptQueryResult keeps the rows of nrof_real_partitions.
KeptRows == {c \in 0 .. nrof_extended_parts - 1 : c < nrof_partitions}

----------------------------------------------------------------------------

\* Row c of the receiver's result is partition c of the sender: each of its
\* positions is that partition's polynomial at that position, evaluated at the
\* query's subsample of the position; no partition is lost and no padding row
\* is left (sender.cc:221-251, receiver.cc:39-140).
RowsAreThePartitions ==
    packing = "packed" =>
        /\ KeptRows = 0 .. nrof_partitions - 1
        /\ \A c \in KeptRows : ExtendedRow(c) = [k \in Subsamples |-> <<<<c, k>>, k>>]

\* The packing writes past the end of a row only if inN does not divide m and
\* the partitions need more than one plaintext.
OverrunsOnlyUnaligned ==
    packing = "overrun" => m % inN # 0 /\ nrof_partitions > nrof_ids_in_row

\* A slot that holds a partition's coefficients is never written again.
NoSlotIsOverwritten ==
    [][\A part \in SimdParts, s \in Slots :
          simd_partition_coeffs[part][s] # Dummy =>
              simd_partition_coeffs'[part][s] = simd_partition_coeffs[part][s]]_vars

\* No slot is written outside its row.  docs/PARAMETERS.md:58 lists 96 as a
\* typical N, and line 70 m = 1024, 2048 and 4096, which it does not divide.
NeverOverruns == packing # "overrun"
============================================================================
