--------------------------- MODULE Packing_proofs ---------------------------
(***************************************************************************)
(* The packing of partitions into plaintexts and the receiver's rows agree *)
(* for every number of slots, subsamples and partitions.                   *)
(***************************************************************************)
EXTENDS Packing, DivisionLemmas

\* Whole rows of inN subsamples fit into the m slots, and one more does not.
LEMMA RowFacts ==
    ASSUME m \in Nat \ {0}, inN \in Nat \ {0}, inN <= m
    PROVE  /\ nrof_ids_in_row \in Nat \ {0}
           /\ nrof_ids_in_row * inN \in Nat
           /\ nrof_ids_in_row * inN <= m
           /\ m < nrof_ids_in_row * inN + inN
<1>1. m \div inN \in Nat /\ m % inN \in Nat /\ m % inN < inN
      /\ m = inN * (m \div inN) + (m % inN)
  BY DivMod
<1>2. inN * (m \div inN) = (m \div inN) * inN /\ (m \div inN) * inN \in Nat
  BY <1>1
<1>3. m \div inN # 0
  BY <1>1, <1>2
<1> QED
  BY <1>1, <1>2, <1>3 DEF nrof_ids_in_row

\* A number below nrof_partitions has its plaintext.
LEMMA PartFacts ==
    ASSUME NEW d \in Nat \ {0}, NEW p \in Nat \ {0}, NEW n \in 0 .. p - 1
    PROVE  /\ (p + d - 1) \div d \in Nat
           /\ n \div d \in 0 .. ((p + d - 1) \div d) - 1
           /\ p <= ((p + d - 1) \div d) * d
<1>1. n \in Nat /\ p + d - 1 \in Nat
  OBVIOUS
<1>2. n \div d \in Nat /\ n % d \in Nat /\ n % d < d /\ n = d * (n \div d) + (n % d)
  BY <1>1, DivMod
<1> DEFINE q == (p + d - 1) \div d
<1>3. q \in Nat /\ p + d - 1 < d * q + d /\ d * q = q * d
  BY <1>1, DivMod
<1>4. p <= q * d
  BY <1>3
<1>5. ASSUME q <= n \div d PROVE FALSE
  <2>1. q * d <= (n \div d) * d
    BY <1>2, <1>3, <1>5, MulMono
  <2>2. (n \div d) * d = d * (n \div d) /\ d * (n \div d) \in Nat /\ q * d \in Nat
    BY <1>2, <1>3
  <2> QED
    BY <1>1, <1>2, <1>4, <2>1, <2>2
<1> QED
  BY <1>2, <1>3, <1>4, <1>5

----------------------------------------------------------------------------

\* The parameters are numbers, and a slot number wraps into the row.
LEMMA Shape ==
    ASSUME TypeOK
    PROVE  /\ m \in Nat \ {0} /\ inN \in Nat \ {0} /\ inN <= m
           /\ nrof_partitions \in Nat \ {0}
           /\ i \in Nat /\ m_cnt \in Nat /\ FirstSlot \in Nat
<1>1. m \in Nat \ {0} /\ inN \in Nat \ {0} /\ inN <= m
  BY ShapesOK DEF TypeOK
<1>2. nrof_partitions \in Nat \ {0} /\ i \in Nat /\ m_cnt \in Nat
  BY <1>1, MaxPartitionsOK DEF TypeOK
<1> QED
  BY <1>1, <1>2, DivMod DEF FirstSlot

\* The initial layout holds nothing but the dummy.
LEMMA TypeInit == Init => TypeOK
<1> SUFFICES ASSUME Init PROVE TypeOK
  OBVIOUS
<1>1. <<m, inN>> \in Shapes /\ m \in Nat
  <2>1. PICK h \in Shapes : m = h[1] /\ inN = h[2]
    BY DEF Init
  <2> QED
    BY <2>1, ShapesOK
<1> QED
  BY <1>1, MaxPartitionsOK DEF Init, TypeOK

\* A turn of the loop writes pairs into slots of the row and counts on.
LEMMA TypeStep == TypeOK /\ [Next]_vars => TypeOK'
<1> SUFFICES ASSUME TypeOK, [Next]_vars PROVE TypeOK'
  OBVIOUS
<1> USE Shape DEF Slots, Subsamples, SimdParts, nrof_simd_parts, nrof_ids_in_row
<1>1. CASE PackPartition
  <2>1. /\ i + 1 \in 0 .. nrof_partitions /\ i \in 0 .. nrof_partitions - 1
        /\ m_cnt' \in 0 .. m /\ UNCHANGED <<m, inN, nrof_partitions, packing>>
    BY <1>1 DEF PackPartition, MorePartitions, parameters
  <2>2. \A s \in Slots : (FirstSlot <= s /\ s < FirstSlot + inN) =>
            <<i, s - FirstSlot>> \in (0 .. nrof_partitions - 1) \X Subsamples
    BY <2>1
  <2>3. simd_partition_coeffs' \in
          [SimdParts -> [Slots -> ((0 .. nrof_partitions - 1) \X Subsamples) \cup {Dummy}]]
    BY <1>1, <2>2 DEF PackPartition, TypeOK
  <2> QED
    BY <1>1, <2>1, <2>3 DEF PackPartition, TypeOK
<1>2. CASE Overrun \/ ReturnPacked
  BY <1>2 DEF Overrun, ReturnPacked, TypeOK, parameters
<1>3. CASE UNCHANGED vars
  BY <1>3 DEF TypeOK, vars, parameters
<1> QED
  BY <1>1, <1>2, <1>3 DEF Next

\* The packing keeps its types for every shape and number of partitions.
THEOREM TypeCorrect == Spec => []TypeOK
BY TypeInit, TypeStep, PTL DEF Spec

----------------------------------------------------------------------------
(* The slot counter runs through the row with the loop index, until a row   *)
(* that inN does not fill is left.                                          *)

Counter ==
    /\ i = 0 => m_cnt = 0
    /\ i > 0 => m_cnt = (((i - 1) % nrof_ids_in_row) + 1) * inN
    /\ packing = "packed" => i = nrof_partitions
    /\ packing = "overrun" => i < nrof_partitions /\ FirstSlot + inN > m

\* As long as a partition fits, it starts at its place in the row; when it does
\* not, a row is full and inN does not divide m.
LEMMA FirstSlotIs ==
    ASSUME TypeOK, Counter
    PROVE  /\ FirstSlot + inN <= m => FirstSlot = (i % nrof_ids_in_row) * inN
           /\ FirstSlot + inN > m => m % inN # 0 /\ nrof_ids_in_row <= i
<1> DEFINE d == nrof_ids_in_row
<1>1. /\ m \in Nat \ {0} /\ inN \in Nat \ {0} /\ inN <= m
      /\ i \in Nat /\ m_cnt \in Nat
  BY Shape
<1>2. d \in Nat \ {0} /\ d * inN \in Nat /\ d * inN <= m /\ m < d * inN + inN
  BY <1>1, RowFacts
<1> HIDE DEF d
<1>3. CASE i = 0
  <2>1. 0 % d = 0
    BY <1>2, DivModUnique
  <2>2. FirstSlot = 0 /\ 0 * inN = 0
    BY <1>1, <1>3, DivModUnique DEF FirstSlot, Counter
  <2> QED
    BY <1>1, <1>3, <2>1, <2>2 DEF d
<1>4. CASE i > 0
  <2> DEFINE w == (i - 1) % d
  <2>1. i - 1 \in Nat /\ i - 1 + 1 = i
    BY <1>1, <1>4
  <2>2. w \in Nat /\ w < d /\ i - 1 >= w
    BY <1>2, <2>1, DivMod
  <2>3. m_cnt = (w + 1) * inN
    BY <1>4 DEF Counter, d
  <2>4. IF w + 1 = d THEN i % d = 0 ELSE i % d = w + 1
    BY <1>2, <2>1, NextDivMod, ZenonT(30)
  <2> HIDE DEF w
  <2>5. CASE w + 1 # d
    <3>1. (w + 2) * inN <= d * inN /\ (w + 2) * inN = (w + 1) * inN + inN
      BY <1>1, <1>2, <2>2, <2>5, MulMono
    <3>2. m_cnt < m /\ m_cnt + inN <= m
      BY <1>1, <1>2, <2>3, <3>1
    <3>3. m_cnt % m = m_cnt
      BY <1>1, <3>2, DivModUnique
    <3> QED
      BY <1>1, <2>3, <2>4, <2>5, <3>2, <3>3 DEF FirstSlot, d
  <2>6. CASE w + 1 = d
    <3>1. m_cnt = d * inN /\ i % d = 0 /\ d <= i
      BY <1>1, <2>1, <2>2, <2>3, <2>4, <2>6
    <3>2. CASE d * inN = m
      <4>1. m_cnt = m * 1 + 0
        BY <1>1, <3>1, <3>2
      <4>2. m_cnt % m = 0
        BY <1>1, <4>1, DivModUnique
      <4>3. 0 * inN = 0
        BY <1>1
      <4> QED
        BY <1>1, <3>1, <4>2, <4>3 DEF FirstSlot, d
    <3>3. CASE d * inN # m
      <4>1. m_cnt % m = m_cnt
        BY <1>1, <1>2, <3>1, <3>3, DivModUnique
      <4>2. m % inN # 0
        <5>1. m = inN * d + (m - d * inN) /\ m - d * inN \in Nat
              /\ m - d * inN < inN /\ m - d * inN # 0
          BY <1>1, <1>2, <3>3
        <5> QED
          BY <1>1, <1>2, <5>1, DivModUnique
      <4>3. FirstSlot + inN > m
        BY <1>1, <1>2, <3>1, <4>1 DEF FirstSlot
      <4> QED
        BY <1>1, <3>1, <4>2, <4>3 DEF d, FirstSlot
    <3> QED
      BY <3>2, <3>3
  <2> QED
    BY <2>5, <2>6
<1> QED
  BY <1>1, <1>3, <1>4

\* The counter keeps to its place in the row.
LEMMA CounterStep == TypeOK /\ Counter /\ [Next]_vars => Counter'
<1> SUFFICES ASSUME TypeOK, Counter, [Next]_vars PROVE Counter'
  OBVIOUS
<1>1. /\ m \in Nat \ {0} /\ inN \in Nat \ {0} /\ inN <= m
      /\ nrof_partitions \in Nat \ {0} /\ i \in Nat /\ FirstSlot \in Nat
  BY Shape
<1>2. CASE PackPartition
  <2>1. /\ i' = i + 1 /\ m_cnt' = FirstSlot + inN /\ FirstSlot + inN <= m
        /\ m' = m /\ inN' = inN /\ packing' = "running"
    BY <1>2 DEF PackPartition, parameters
  <2>2. FirstSlot = (i % nrof_ids_in_row) * inN
    BY <2>1, FirstSlotIs
  <2>3. i % nrof_ids_in_row \in Nat
    BY <1>1, RowFacts, DivMod
  <2>4. m_cnt' = ((i % nrof_ids_in_row) + 1) * inN
    BY <1>1, <2>1, <2>2, <2>3
  <2>5. i' - 1 = i /\ i' > 0 /\ nrof_ids_in_row' = nrof_ids_in_row
    BY <1>1, <2>1 DEF nrof_ids_in_row
  <2> QED
    BY <1>1, <2>1, <2>4, <2>5 DEF Counter
<1>3. CASE Overrun
  BY <1>1, <1>3 DEF Overrun, MorePartitions, Counter, parameters, FirstSlot, nrof_ids_in_row
<1>4. CASE ReturnPacked
  <2>1. i = nrof_partitions
    BY <1>1, <1>4 DEF ReturnPacked, MorePartitions, TypeOK
  <2> QED
    BY <1>4, <2>1 DEF ReturnPacked, Counter, parameters, FirstSlot, nrof_ids_in_row
<1>5. CASE UNCHANGED vars
  BY <1>5 DEF Counter, vars, parameters, FirstSlot, nrof_ids_in_row
<1> QED
  BY <1>2, <1>3, <1>4, <1>5 DEF Next

\* The counter is right in every reachable state.
LEMMA CounterInvariant == Spec => [](TypeOK /\ Counter)
<1>1. Init => TypeOK /\ Counter
  <2>1. Init => Counter
    BY DEF Init, Counter
  <2> QED
    BY <2>1, TypeInit
<1> QED
  BY <1>1, TypeStep, CounterStep, PTL DEF Spec

\* Only a shape whose m is not a multiple of inN overruns a row, and only with
\* more partitions than one plaintext takes.
THEOREM AlwaysAligned == Spec => []OverrunsOnlyUnaligned
<1>1. TypeOK /\ Counter => OverrunsOnlyUnaligned
  <2> SUFFICES ASSUME TypeOK, Counter, packing = "overrun"
               PROVE  m % inN # 0 /\ nrof_partitions > nrof_ids_in_row
    BY DEF OverrunsOnlyUnaligned
  <2>1. m % inN # 0 /\ nrof_ids_in_row <= i /\ i < nrof_partitions
    BY FirstSlotIs DEF Counter
  <2>2. nrof_ids_in_row \in Nat /\ i \in Nat /\ nrof_partitions \in Nat
    BY Shape, RowFacts
  <2> QED
    BY <2>1, <2>2
<1> QED
  BY <1>1, CounterInvariant, PTL

----------------------------------------------------------------------------
(* What the slots hold: each packed partition at its place, and nothing at  *)
(* the places of the partitions to come.                                    *)

At(n, k) == simd_partition_coeffs[n \div nrof_ids_in_row][(n % nrof_ids_in_row) * inN + k]

Contents == \A n \in 0 .. i - 1, k \in Subsamples : At(n, k) = <<n, k>>

NothingAhead ==
    \A part \in SimdParts, s \in Slots :
        simd_partition_coeffs[part][s] # Dummy =>
            \E n \in 0 .. i - 1 :
                /\ part = n \div nrof_ids_in_row
                /\ (n % nrof_ids_in_row) * inN <= s
                /\ s < (n % nrof_ids_in_row) * inN + inN

\* The place of partition n exists, and no two partitions share a slot.
LEMMA Places ==
    ASSUME TypeOK, NEW n \in 0 .. nrof_partitions - 1
    PROVE  /\ n \div nrof_ids_in_row \in SimdParts
           /\ (n % nrof_ids_in_row) * inN \in Nat
           /\ (n % nrof_ids_in_row) * inN + inN <= m
           /\ \A l \in 0 .. nrof_partitions - 1 :
                (l # n /\ l \div nrof_ids_in_row = n \div nrof_ids_in_row) =>
                    \/ (l % nrof_ids_in_row) * inN + inN <= (n % nrof_ids_in_row) * inN
                    \/ (n % nrof_ids_in_row) * inN + inN <= (l % nrof_ids_in_row) * inN
<1> DEFINE d == nrof_ids_in_row
<1>1. m \in Nat \ {0} /\ inN \in Nat \ {0} /\ inN <= m /\ nrof_partitions \in Nat \ {0}
  BY Shape
<1>2. d \in Nat \ {0} /\ d * inN \in Nat /\ d * inN <= m
  BY <1>1, RowFacts
<1>3. n \div d \in SimdParts
  BY <1>1, <1>2, PartFacts DEF SimdParts, nrof_simd_parts
<1> HIDE DEF d
<1>4. ASSUME NEW l \in 0 .. nrof_partitions - 1
      PROVE  /\ l % d \in Nat /\ l % d < d /\ l = d * (l \div d) + (l % d)
             /\ (l % d) * inN \in Nat
             /\ ((l % d) + 1) * inN = (l % d) * inN + inN
             /\ ((l % d) + 1) * inN <= d * inN
  <2>1. l % d \in Nat /\ l % d < d /\ l = d * (l \div d) + (l % d) /\ l \in Nat
    BY <1>1, <1>2, DivMod
  <2>2. (l % d) + 1 \in Nat /\ (l % d) + 1 <= d
    BY <1>2, <2>1
  <2> QED
    BY <1>1, <1>2, <2>1, <2>2, MulMono
<1>5. ASSUME NEW l \in 0 .. nrof_partitions - 1, l # n, l \div d = n \div d
      PROVE  \/ (l % d) * inN + inN <= (n % d) * inN
             \/ (n % d) * inN + inN <= (l % d) * inN
  <2>1. l % d # n % d
    BY <1>4, <1>5
  <2>2. CASE l % d < n % d
    <3>1. ((l % d) + 1) * inN <= (n % d) * inN
      BY <1>1, <1>4, <2>2, MulMono
    <3> QED
      BY <1>4, <3>1
  <2>3. CASE n % d < l % d
    <3>1. ((n % d) + 1) * inN <= (l % d) * inN
      BY <1>1, <1>4, <2>3, MulMono
    <3> QED
      BY <1>4, <3>1
  <2> QED
    BY <1>4, <2>1, <2>2, <2>3
<1>6. (n % d) * inN \in Nat /\ (n % d) * inN + inN <= m
  BY <1>1, <1>2, <1>4
<1> QED
  BY <1>3, <1>5, <1>6 DEF d

\* A turn of the loop writes the place of partition i and nothing else.
LEMMA Written ==
    ASSUME TypeOK, Counter, PackPartition
    PROVE  /\ i \in 0 .. nrof_partitions - 1 /\ i' = i + 1 /\ parameters' = parameters
           /\ \A part \in SimdParts, s \in Slots :
                simd_partition_coeffs'[part][s] =
                    IF /\ part = i \div nrof_ids_in_row
                       /\ (i % nrof_ids_in_row) * inN <= s
                       /\ s < (i % nrof_ids_in_row) * inN + inN
                      THEN <<i, s - (i % nrof_ids_in_row) * inN>>
                      ELSE simd_partition_coeffs[part][s]
<1>1. i \in 0 .. nrof_partitions - 1 /\ i' = i + 1 /\ parameters' = parameters
  BY Shape DEF PackPartition, MorePartitions, parameters
<1>2. FirstSlot = (i % nrof_ids_in_row) * inN
  BY FirstSlotIs DEF PackPartition
<1> DEFINE new(row) == [s \in Slots |-> IF FirstSlot <= s /\ s < FirstSlot + inN
                                           THEN <<i, s - FirstSlot>> ELSE row[s]]
<1>3. simd_partition_coeffs' = [simd_partition_coeffs EXCEPT
          ![simd_part_ind(i)] = new(simd_partition_coeffs[simd_part_ind(i)])]
  BY DEF PackPartition
<1>4. DOMAIN simd_partition_coeffs = SimdParts
  BY DEF TypeOK
<1>5. ASSUME NEW part \in SimdParts, NEW s \in Slots
      PROVE  simd_partition_coeffs'[part][s] =
                IF part = simd_part_ind(i) /\ FirstSlot <= s /\ s < FirstSlot + inN
                  THEN <<i, s - FirstSlot>>
                  ELSE simd_partition_coeffs[part][s]
  <2>1. CASE part = simd_part_ind(i)
    <3>1. simd_partition_coeffs'[part] = new(simd_partition_coeffs[part])
      BY <1>3, <1>4, <2>1
    <3> QED
      BY <2>1, <3>1
  <2>2. CASE part # simd_part_ind(i)
    <3>1. simd_partition_coeffs'[part] = simd_partition_coeffs[part]
      BY <1>3, <1>4, <2>2
    <3> QED
      BY <2>2, <3>1
  <2> QED
    BY <2>1, <2>2
<1> QED
  BY <1>1, <1>2, <1>5 DEF simd_part_ind

\* The place of partition i has not been written when its turn comes.
LEMMA PlaceIsFree ==
    ASSUME TypeOK, NothingAhead, i \in 0 .. nrof_partitions - 1, NEW s \in Slots,
           (i % nrof_ids_in_row) * inN <= s, s < (i % nrof_ids_in_row) * inN + inN
    PROVE  simd_partition_coeffs[i \div nrof_ids_in_row][s] = Dummy
<1> DEFINE b(n) == (n % nrof_ids_in_row) * inN
<1> SUFFICES ASSUME simd_partition_coeffs[i \div nrof_ids_in_row][s] # Dummy
             PROVE  FALSE
  OBVIOUS
<1>1. nrof_partitions \in Nat \ {0} /\ inN \in Nat \ {0} /\ m \in Nat
  BY Shape
<1>2. i \div nrof_ids_in_row \in SimdParts
  BY Places
<1>3. PICK n \in 0 .. i - 1 : /\ i \div nrof_ids_in_row = n \div nrof_ids_in_row
                              /\ b(n) <= s /\ s < b(n) + inN
  BY <1>2 DEF NothingAhead
<1>4. n \in 0 .. nrof_partitions - 1 /\ n # i
  BY <1>1
<1>5. b(i) + inN <= b(n) \/ b(n) + inN <= b(i)
  BY <1>3, <1>4, Places
<1>6. b(i) \in Nat /\ b(n) \in Nat /\ s \in Nat
  BY <1>1, <1>4, Places DEF Slots
<1> HIDE DEF b
<1>7. b(i) <= s /\ s < b(i) + inN
  BY DEF b
<1> QED
  BY <1>1, <1>3, <1>5, <1>6, <1>7

\* Packed partitions stay, and the new one is in its place.
LEMMA ContentsStep ==
    TypeOK /\ Counter /\ Contents /\ NothingAhead /\ [Next]_vars =>
        Contents' /\ NothingAhead'
<1> SUFFICES ASSUME TypeOK, Counter, Contents, NothingAhead, [Next]_vars
             PROVE  Contents' /\ NothingAhead'
  OBVIOUS
<1> DEFINE d == nrof_ids_in_row
           b(n) == (n % d) * inN
<1>1. CASE PackPartition
  <2>1. /\ i \in 0 .. nrof_partitions - 1 /\ i' = i + 1
        /\ m' = m /\ inN' = inN /\ nrof_partitions' = nrof_partitions
    BY <1>1, Written DEF parameters
  <2>2. /\ nrof_ids_in_row' = d /\ SimdParts' = SimdParts
        /\ Slots' = Slots /\ Subsamples' = Subsamples
    BY <2>1 DEF nrof_ids_in_row, SimdParts, nrof_simd_parts, Slots, Subsamples
  <2>3. m \in Nat /\ inN \in Nat \ {0} /\ nrof_partitions \in Nat /\ i \in Nat
    BY Shape
  <2>4. \A part \in SimdParts, s \in Slots :
          simd_partition_coeffs'[part][s] =
              IF part = i \div d /\ b(i) <= s /\ s < b(i) + inN
                THEN <<i, s - b(i)>>
                ELSE simd_partition_coeffs[part][s]
    BY <1>1, Written
  <2>5. \A n \in 0 .. i : n \in 0 .. nrof_partitions - 1
    BY <2>1, <2>3
  <2>6. \A n \in 0 .. i : n \div d \in SimdParts /\ b(n) \in Nat /\ b(n) + inN <= m
    BY <2>5, Places
  <2>7. \A n \in 0 .. i - 1 : n \div d = i \div d =>
            b(n) + inN <= b(i) \/ b(i) + inN <= b(n)
    <3> SUFFICES ASSUME NEW n \in 0 .. i - 1, n \div d = i \div d
                 PROVE  b(n) + inN <= b(i) \/ b(i) + inN <= b(n)
      OBVIOUS
    <3>1. n \in 0 .. nrof_partitions - 1 /\ n # i
      BY <2>1, <2>3
    <3> QED
      BY <2>1, <3>1, Places
  <2>8. \A n \in 0 .. i, k \in Subsamples : b(n) + k \in Slots
    BY <2>3, <2>6 DEF Slots, Subsamples
  <2> HIDE DEF b, d
  <2>9. ASSUME NEW n \in 0 .. i, NEW k \in Subsamples
        PROVE  simd_partition_coeffs'[n \div d][b(n) + k] = <<n, k>>
    <3>1. k \in Nat /\ k < inN /\ b(n) \in Nat /\ b(i) \in Nat /\ i \in 0 .. i
      BY <2>3, <2>6 DEF Subsamples
    <3>2. CASE n = i
      <4>1. i \div d \in SimdParts /\ b(i) + k \in Slots
        BY <2>6, <2>8, <3>1
      <4>2. \A s \in Slots : b(i) <= s /\ s < b(i) + inN =>
                simd_partition_coeffs'[i \div d][s] = <<i, s - b(i)>>
        BY <2>4, <4>1
      <4>3. PICK s \in Slots : s = b(i) + k
        BY <4>1
      <4>4. b(i) <= s /\ s < b(i) + inN /\ s - b(i) = k
        BY <2>3, <3>1, <4>3
      <4> QED
        BY <3>2, <4>2, <4>3, <4>4
    <3>3. CASE n # i
      <4>1. n \in 0 .. i - 1
        BY <2>3, <3>3
      <4>2. ~(n \div d = i \div d /\ b(i) <= b(n) + k /\ b(n) + k < b(i) + inN)
        BY <2>3, <2>7, <3>1, <4>1
      <4>3. simd_partition_coeffs'[n \div d][b(n) + k]
              = simd_partition_coeffs[n \div d][b(n) + k]
        BY <2>4, <2>6, <2>8, <4>2
      <4>4. simd_partition_coeffs[n \div d][b(n) + k] = <<n, k>>
        BY <4>1 DEF Contents, At, b, d
      <4> QED
        BY <4>3, <4>4
    <3> QED
      BY <3>2, <3>3
  <2>10. Contents'
    <3>1. i' - 1 = i
      BY <2>1, <2>3
    <3> QED
      BY <2>1, <2>2, <2>9, <3>1 DEF Contents, At, b
  <2>11. ASSUME NEW part \in SimdParts, NEW s \in Slots,
                simd_partition_coeffs'[part][s] # Dummy
         PROVE  \E n \in 0 .. i : part = n \div d /\ b(n) <= s /\ s < b(n) + inN
    <3>1. CASE part = i \div d /\ b(i) <= s /\ s < b(i) + inN
      BY <2>3, <3>1
    <3>2. CASE ~(part = i \div d /\ b(i) <= s /\ s < b(i) + inN)
      <4>1. simd_partition_coeffs[part][s] # Dummy
        BY <2>4, <2>11, <3>2
      <4>2. PICK n \in 0 .. i - 1 : part = n \div d /\ b(n) <= s /\ s < b(n) + inN
        BY <4>1 DEF NothingAhead, b, d
      <4>3. n \in 0 .. i
        BY <2>3
      <4> QED
        BY <4>2, <4>3
    <3> QED
      BY <3>1, <3>2
  <2>12. NothingAhead'
    <3>1. i' - 1 = i
      BY <2>1, <2>3
    <3> QED
      BY <2>1, <2>2, <2>11, <3>1 DEF NothingAhead, b
  <2> QED
    BY <2>10, <2>12
<1>2. CASE Overrun \/ ReturnPacked \/ UNCHANGED vars
  <2>1. UNCHANGED <<m, inN, nrof_partitions, simd_partition_coeffs, i>>
    BY <1>2 DEF Overrun, ReturnPacked, vars, parameters
  <2> QED
    BY <2>1 DEF Contents, NothingAhead, At, nrof_ids_in_row, SimdParts,
                nrof_simd_parts, Slots, Subsamples
<1> QED
  BY <1>1, <1>2 DEF Next

\* The slots are right in every reachable state.
LEMMA ContentsInvariant == Spec => [](TypeOK /\ Counter /\ Contents /\ NothingAhead)
<1>1. Init => Contents /\ NothingAhead
  BY DEF Init, Contents, NothingAhead
<1> QED
  BY <1>1, TypeStep, CounterStep, ContentsStep, CounterInvariant, PTL DEF Spec

\* The receiver's rows are the sender's partitions, for every shape of the
\* slots: none lost, none in another's place, none of the padding left.
THEOREM AlwaysRows == Spec => []RowsAreThePartitions
<1>1. TypeOK /\ Counter /\ Contents => RowsAreThePartitions
  <2> SUFFICES ASSUME TypeOK, Counter, Contents, packing = "packed"
               PROVE  /\ KeptRows = 0 .. nrof_partitions - 1
                      /\ \A c \in KeptRows :
                           ExtendedRow(c) = [k \in Subsamples |-> <<<<c, k>>, k>>]
    BY DEF RowsAreThePartitions
  <2> DEFINE d == nrof_ids_in_row
  <2>1. /\ m \in Nat \ {0} /\ inN \in Nat \ {0} /\ inN <= m
        /\ nrof_partitions \in Nat \ {0}
    BY Shape
  <2>2. d \in Nat \ {0} /\ d * inN \in Nat
    BY <2>1, RowFacts
  <2>3. i = nrof_partitions
    BY DEF Counter
  <2>4. KeptRows = 0 .. nrof_partitions - 1
    <3>1. 0 \in 0 .. nrof_partitions - 1
      BY <2>1
    <3>2. nrof_simd_parts \in Nat /\ nrof_partitions <= nrof_extended_parts
      BY <2>1, <2>2, <3>1, PartFacts DEF nrof_simd_parts, nrof_extended_parts
    <3>3. nrof_extended_parts \in Nat
      BY <2>2, <3>2 DEF nrof_extended_parts
    <3> QED
      BY <2>1, <3>2, <3>3 DEF KeptRows
  <2>5. ASSUME NEW c \in 0 .. nrof_partitions - 1, NEW k \in Subsamples
        PROVE  ExtendedRow(c)[k] = <<<<c, k>>, k>>
    <3>1. c \in Nat /\ k \in Nat /\ k < inN
      BY <2>1 DEF Subsamples
    <3>2. c % d \in Nat /\ c % d < d
      BY <2>2, <3>1, DivMod
    <3> DEFINE w == c % d
    <3> HIDE DEF w, d
    <3>3. w + 1 \in Nat /\ w \in Nat /\ w + 1 <= d /\ (w + 1) * inN = w * inN + inN
      BY <2>1, <2>2, <3>2 DEF w
    <3>4. (w + 1) * inN <= d * inN
      BY <2>1, <2>2, <3>3, MulMono
    <3>5. w * inN + k < d * inN
      BY <2>1, <2>2, <3>1, <3>3, <3>4
    <3>6. w * inN + k \in Nat /\ w * inN + k = inN * w + k
      BY <2>1, <3>1, <3>3
    <3>7. (w * inN + k) % inN = k
      BY <2>1, <3>1, <3>3, <3>6, DivModUnique
    <3>8. QuerySubsample(w * inN + k) = k
      BY <3>5, <3>7 DEF QuerySubsample, d
    <3>9. simd_partition_coeffs[c \div d][w * inN + k] = <<c, k>>
      BY <2>3 DEF Contents, At, w, d
    <3> QED
      BY <3>8, <3>9 DEF ExtendedRow, Evaluated, SlotOfRow, w, d
  <2>6. \A c : ExtendedRow(c) = [k \in Subsamples |-> ExtendedRow(c)[k]]
    BY DEF ExtendedRow
  <2> QED
    BY <2>4, <2>5, <2>6
<1> QED
  BY <1>1, ContentsInvariant, PTL

\* A packed partition is never written over.
THEOREM NeverOverwritten == Spec => NoSlotIsOverwritten
<1>1. TypeOK /\ Counter /\ NothingAhead /\ [Next]_vars =>
        [\A part \in SimdParts, s \in Slots :
            simd_partition_coeffs[part][s] # Dummy =>
                simd_partition_coeffs'[part][s] = simd_partition_coeffs[part][s]]_vars
  <2> SUFFICES ASSUME TypeOK, Counter, NothingAhead, [Next]_vars,
                      NEW part \in SimdParts, NEW s \in Slots,
                      simd_partition_coeffs[part][s] # Dummy
               PROVE  simd_partition_coeffs'[part][s] = simd_partition_coeffs[part][s]
    OBVIOUS
  <2>1. CASE PackPartition
    BY <2>1, Written, PlaceIsFree
  <2>2. CASE Overrun \/ ReturnPacked \/ UNCHANGED vars
    BY <2>2 DEF Overrun, ReturnPacked, vars
  <2> QED
    BY <2>1, <2>2 DEF Next
<1> QED
  BY <1>1, ContentsInvariant, PTL DEF Spec, NoSlotIsOverwritten
=============================================================================
