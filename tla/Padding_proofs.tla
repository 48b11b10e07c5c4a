--------------------------- MODULE Padding_proofs ---------------------------
(***************************************************************************)
(* The x-coordinates of a partition for every field, number of positions   *)
(* and number of rows.                                                     *)
(***************************************************************************)
EXTENDS Padding, DivisionLemmas

\* The initial coordinates are blinded subsamples and zeros.
LEMMA TypeInit == Init => TypeOK
<1> SUFFICES ASSUME Init PROVE TypeOK
  OBVIOUS
<1>1. 0 \in Field /\ Blinded \subseteq Field
  BY FieldOK, BlindedOK DEF Field
<1>2. real \in [Positions -> [RealRows -> Blinded]]
  BY DEF Init
<1>3. x \in [Positions -> [Rows -> Field]]
  BY <1>1, <1>2 DEF Init
<1> QED
  BY <1>2, <1>3, SizesOK, MaxSubsOK DEF Init, TypeOK

\* A dummy is an element of the field.
LEMMA DummyInField == TypeOK => NextDummy \in Field
BY FieldOK DEF TypeOK, NextDummy, Field

\* Writing a dummy keeps the coordinates in the field.
LEMMA WriteKeepsType ==
    ASSUME TypeOK, WriteDummy
    PROVE  x' \in [Positions -> [Rows -> Field]] /\ dummy_item' \in Nat
<1>1. x \in [Positions -> [Rows -> Field]] /\ NextDummy \in Field
  BY DummyInField DEF TypeOK
<1> DEFINE row == [x[i] EXCEPT ![j] = NextDummy]
<1>2. x' = [x EXCEPT ![i] = row]
  BY DEF WriteDummy
<1>3. i \in Positions => row \in [Rows -> Field]
  BY <1>1
<1> HIDE DEF row
<1>4. x' \in [Positions -> [Rows -> Field]]
  BY <1>1, <1>2, <1>3
<1> QED
  BY <1>4 DEF TypeOK, WriteDummy

\* The indices stay within the rows and positions.
LEMMA TypeStep == TypeOK /\ [Next]_vars => TypeOK'
<1> SUFFICES ASSUME TypeOK, [Next]_vars PROVE TypeOK'
  OBVIOUS
<1>1. /\ inN \in Nat \ {0} /\ partition_size \in Nat \ {0}
      /\ current_partition_size \in 1 .. partition_size
      /\ i \in 0 .. inN /\ j \in 0 .. partition_size
  BY SizesOK DEF TypeOK
<1>2. CASE Pad
  <2>1. i < inN
    BY <1>2 DEF Pad, TypeOK
  <2>2. (i + 1) % inN \in 0 .. inN - 1
    BY <1>1
  <2> QED
    BY <1>1, <1>2, <2>1, <2>2, WriteKeepsType DEF Pad, TypeOK, input, RealRows
<1>3. CASE StartGuard
  BY <1>1, <1>3 DEF StartGuard, TypeOK, input, RealRows
<1>4. CASE KeepValue
  BY <1>1, <1>4 DEF KeepValue, Guarded, TypeOK, input, RealRows
<1>5. CASE ReplaceDuplicate
  BY <1>1, <1>5, WriteKeepsType DEF ReplaceDuplicate, Guarded, TypeOK, input, RealRows
<1>6. CASE NextPosition
  BY <1>1, <1>6 DEF NextPosition, TypeOK, input, RealRows
<1>7. CASE Interpolate
  BY <1>7 DEF Interpolate, TypeOK, input, RealRows
<1>8. CASE UNCHANGED vars
  BY <1>8 DEF TypeOK, vars, input, RealRows
<1> QED
  BY <1>2, <1>3, <1>4, <1>5, <1>6, <1>7, <1>8 DEF Next

\* The padding keeps its types for every field and size.
THEOREM TypeCorrect == Spec => []TypeOK
BY TypeInit, TypeStep, PTL DEF Spec

----------------------------------------------------------------------------
(* The real rows.                                                           *)

RealsDistinct == \A p \in Positions : Distinct(real[p])

RealsKept ==
    /\ RealsDistinct
    /\ RealsUntouched
    /\ pc = "pad" => j >= current_partition_size

\* Only rows behind the ids are written.
LEMMA WritesBehindReals ==
    ASSUME TypeOK, RealsKept, Pad \/ ReplaceDuplicate
    PROVE  /\ i \in Positions /\ j \in Rows /\ j \notin RealRows
           /\ x' = [x EXCEPT ![i][j] = NextDummy] /\ dummy_item' = dummy_item + 1
           /\ UNCHANGED <<MAX_SUB, current_partition_size, real, pc>>
<1>1. /\ inN \in Nat /\ partition_size \in Nat
      /\ current_partition_size \in 1 .. partition_size
      /\ i \in 0 .. inN /\ j \in 0 .. partition_size
  BY SizesOK DEF TypeOK
<1>2. i < inN /\ j < partition_size
  BY DEF Pad, ReplaceDuplicate, Guarded, TypeOK
<1>3. CASE Pad
  BY <1>1, <1>2, <1>3 DEF Pad, RealsKept, RealRows, Rows, Positions, WriteDummy, input
<1>4. CASE ReplaceDuplicate
  <2>1. ASSUME j \in RealRows PROVE FALSE
    <3>1. PICK r \in 0 .. j - 1 : x[i][j] = x[i][r]
      BY <1>4 DEF ReplaceDuplicate, Seen
    <3>2. r \in RealRows /\ r # j /\ i \in Positions
      BY <1>1, <1>2, <2>1, <3>1 DEF RealRows, Positions
    <3>3. real[i][j] = real[i][r]
      BY <2>1, <3>1, <3>2 DEF RealsKept, RealsUntouched
    <3>4. DOMAIN real[i] = RealRows
      BY <3>2 DEF TypeOK
    <3> QED
      BY <2>1, <3>2, <3>3, <3>4 DEF RealsKept, RealsDistinct, Distinct
  <2> QED
    BY <1>1, <1>2, <1>4, <2>1 DEF ReplaceDuplicate, WriteDummy, input, Rows, Positions
<1> QED
  BY <1>3, <1>4

\* A written coordinate is the next dummy, and all the others stay.
LEMMA WrittenValue ==
    ASSUME TypeOK, NEW r0 \in Rows, NEW p0 \in Positions,
           x' = [x EXCEPT ![p0][r0] = NextDummy]
    PROVE  \A p \in Positions, r \in Rows :
              x'[p][r] = IF p = p0 /\ r = r0 THEN NextDummy ELSE x[p][r]
<1>1. x \in [Positions -> [Rows -> Field]]
  BY DEF TypeOK
<1>2. x' = [x EXCEPT ![p0] = [x[p0] EXCEPT ![r0] = NextDummy]]
  OBVIOUS
<1> QED
  BY <1>1, <1>2

\* The real rows stay as they are.
LEMMA RealsStep == TypeOK /\ RealsKept /\ [Next]_vars => RealsKept'
<1> SUFFICES ASSUME TypeOK, RealsKept, [Next]_vars PROVE RealsKept'
  OBVIOUS
<1>1. CASE Pad \/ ReplaceDuplicate
  <2>1. /\ i \in Positions /\ j \in Rows /\ j \notin RealRows
        /\ x' = [x EXCEPT ![i][j] = NextDummy]
        /\ UNCHANGED <<MAX_SUB, current_partition_size, real, pc>>
    BY <1>1, WritesBehindReals
  <2>2. \A r \in RealRows : r \in Rows
    BY SizesOK DEF TypeOK, RealRows, Rows
  <2>3. \A p \in Positions, r \in RealRows : x'[p][r] = x[p][r]
    BY <2>1, <2>2, WrittenValue
  <2>4. RealsUntouched' /\ RealsDistinct'
    BY <2>1, <2>3 DEF RealsKept, RealsUntouched, RealsDistinct, RealRows
  <2>5. pc' = "pad" => j' >= current_partition_size'
    BY <1>1, <2>1, SizesOK DEF Pad, ReplaceDuplicate, RealsKept, TypeOK
  <2> QED
    BY <2>4, <2>5 DEF RealsKept
<1>2. CASE StartGuard \/ KeepValue \/ NextPosition \/ Interpolate \/ UNCHANGED vars
  BY <1>2 DEF StartGuard, KeepValue, NextPosition, Interpolate, vars, input,
              RealsKept, RealsDistinct, RealsUntouched, RealRows
<1> QED
  BY <1>1, <1>2 DEF Next

\* The invariant of the real rows.
LEMMA RealsInvariant == Spec => [](TypeOK /\ RealsKept)
<1>1. Init => RealsKept
  <2> SUFFICES ASSUME Init PROVE RealsKept
    OBVIOUS
  <2>1. \A r \in RealRows : r \in Rows
    BY SizesOK DEF Init, RealRows, Rows
  <2>2. RealsUntouched
    BY <2>1 DEF Init, RealsUntouched
  <2>3. RealsDistinct
    BY DEF Init, RealsDistinct
  <2>4. j >= current_partition_size
    BY SizesOK DEF Init
  <2> QED
    BY <2>2, <2>3, <2>4 DEF RealsKept
<1> QED
  BY <1>1, TypeInit, TypeStep, RealsStep, PTL DEF Spec

\* The comment in the code is right: an enrolled id's coordinates are never
\* overwritten, because the ids of a partition differ at every position.
THEOREM AlwaysUntouched == Spec => []RealsUntouched
BY RealsInvariant, PTL DEF RealsKept

----------------------------------------------------------------------------
(* The dummies.  Each one is the remainder of a number the counter has had; *)
(* as long as the counter has not gone once around the field, no two are    *)
(* equal, so a dummy can only collide with a real coordinate.               *)

Number(p, r) == MAX_SUB + (r - current_partition_size) * inN + p + 1

IsPadded(p, r) == r \notin RealRows /\ (pc = "pad" => r < j \/ (r = j /\ p < i))
IsGuarded(p, r) == pc = "interpolate" \/ (pc = "guard" /\ (p < i \/ (p = i /\ r < j)))
NotWrapped == dummy_item - MAX_SUB <= FIELD_MODULUS

Counted ==
    /\ pc = "pad" =>
        /\ dummy_item = MAX_SUB + (j - current_partition_size) * inN + i
        /\ j = partition_size => i = 0
    /\ pc = "guard" => j >= 1
    /\ pc # "pad" => dummy_item >= LastPadded

FromTheCounter ==
    /\ MAX_SUB <= dummy_item
    /\ \A p \in Positions, r \in Rows :
          IsPadded(p, r) => \E k \in MAX_SUB + 1 .. dummy_item : x[p][r] = k % FIELD_MODULUS

DummiesDiffer ==
    NotWrapped => \A p \in Positions, r1, r2 \in Rows :
        IsPadded(p, r1) /\ IsPadded(p, r2) /\ x[p][r1] = x[p][r2] => r1 = r2

AsPadded ==
    \A p \in Positions, r \in Rows :
        IsPadded(p, r) /\ ~IsGuarded(p, r) => x[p][r] = PaddedDummy(p, r)

Repairs ==
    NotWrapped => \A p \in Positions, r1, r2 \in Rows :
        (r1 < r2 /\ r2 \notin RealRows /\ IsGuarded(p, r2) /\ x[p][r1] = x[p][r2]) =>
            /\ x[p][r2] # PaddedDummy(p, r2)
            /\ \E r \in RealRows : real[p][r] = PaddedDummy(p, r2)

Dummies == Counted /\ FromTheCounter /\ DummiesDiffer /\ AsPadded

\* What the type says about the numbers.
LEMMA Numbers ==
    ASSUME TypeOK
    PROVE  /\ MAX_SUB \in Nat /\ dummy_item \in Nat /\ FIELD_MODULUS \in Nat \ {0}
           /\ inN \in Nat \ {0} /\ partition_size \in Nat \ {0}
           /\ current_partition_size \in Nat \ {0}
           /\ current_partition_size <= partition_size
           /\ i \in 0 .. inN /\ j \in 0 .. partition_size
           /\ LastPadded \in Nat
           /\ (partition_size - current_partition_size) * inN \in Nat
<1>1. /\ MAX_SUB \in Nat /\ dummy_item \in Nat /\ FIELD_MODULUS \in Nat \ {0}
      /\ inN \in Nat \ {0} /\ partition_size \in Nat \ {0}
      /\ current_partition_size \in Nat \ {0}
      /\ current_partition_size <= partition_size
      /\ i \in 0 .. inN /\ j \in 0 .. partition_size
  BY MaxSubsOK, FieldOK, SizesOK DEF TypeOK
<1>2. partition_size - current_partition_size \in Nat
  BY <1>1
<1>3. (partition_size - current_partition_size) * inN \in Nat
  BY <1>1, <1>2
<1> QED
  BY <1>1, <1>3 DEF LastPadded

\* The padding's dummies are numbered between MAX_SUB and LastPadded.
LEMMA NumberBounds ==
    ASSUME TypeOK, NEW p \in Positions, NEW r \in Rows, r \notin RealRows
    PROVE  /\ Number(p, r) \in Nat
           /\ MAX_SUB < Number(p, r) /\ Number(p, r) <= LastPadded
           /\ PaddedDummy(p, r) = Number(p, r) % FIELD_MODULUS
<1> DEFINE d == r - current_partition_size
           e == partition_size - current_partition_size
<1>1. /\ d \in Nat /\ e \in Nat /\ d + 1 <= e /\ p \in Nat /\ p + 1 <= inN
      /\ inN \in Nat /\ MAX_SUB \in Nat
  BY Numbers DEF Rows, RealRows, Positions
<1> HIDE DEF d, e
<1>2. (d + 1) * inN <= e * inN /\ (d + 1) * inN = d * inN + inN /\ d * inN \in Nat
  BY <1>1, MulMono
<1>3. MAX_SUB + d * inN + p + 1 \in Nat
  BY <1>1, <1>2
<1>4. Number(p, r) = MAX_SUB + d * inN + p + 1 /\ LastPadded = MAX_SUB + e * inN
  BY DEF Number, LastPadded, d, e
<1>5. e * inN \in Nat
  BY <1>1
<1> QED
  BY <1>1, <1>2, <1>3, <1>4, <1>5 DEF PaddedDummy, Number

\* While the counter has not gone around, the next dummy is a new one.
LEMMA FreshDummy ==
    ASSUME TypeOK, FromTheCounter, dummy_item + 1 - MAX_SUB <= FIELD_MODULUS,
           NEW p \in Positions, NEW r \in Rows, IsPadded(p, r)
    PROVE  x[p][r] # NextDummy
<1>1. PICK k \in MAX_SUB + 1 .. dummy_item : x[p][r] = k % FIELD_MODULUS
  BY DEF FromTheCounter
<1> DEFINE next == dummy_item + 1
<1>2. /\ k \in Nat /\ next \in Nat /\ k < next
      /\ next - k < FIELD_MODULUS /\ FIELD_MODULUS \in Nat \ {0}
  BY Numbers
<1>3. NextDummy = next % FIELD_MODULUS
  BY DEF NextDummy
<1> HIDE DEF next
<1>4. k % FIELD_MODULUS # next % FIELD_MODULUS
  BY <1>2, ModInjective
<1> QED
  BY <1>1, <1>3, <1>4

\* The counter follows the loops.
LEMMA CountedStep == TypeOK /\ RealsKept /\ Counted /\ [Next]_vars => Counted'
<1> SUFFICES ASSUME TypeOK, RealsKept, Counted, [Next]_vars PROVE Counted'
  OBVIOUS
<1>1. /\ MAX_SUB \in Nat /\ dummy_item \in Nat /\ inN \in Nat \ {0}
      /\ partition_size \in Nat /\ current_partition_size \in Nat
      /\ i \in 0 .. inN /\ j \in 0 .. partition_size /\ LastPadded \in Nat
  BY Numbers
<1>2. CASE Pad
  <2>1. /\ pc = "pad" /\ i < inN /\ j < partition_size /\ current_partition_size <= j
        /\ dummy_item' = dummy_item + 1
        /\ UNCHANGED <<MAX_SUB, current_partition_size, real, pc>>
    BY <1>2 DEF Pad, TypeOK, RealsKept, WriteDummy, input
  <2>2. dummy_item = MAX_SUB + (j - current_partition_size) * inN + i
    BY <2>1 DEF Counted
  <2>3. (j - current_partition_size) * inN \in Nat
    BY <1>1, <2>1
  <2>4. CASE i + 1 = inN
    <3>1. i' = 0 /\ j' = j + 1
      BY <1>1, <1>2, <2>4 DEF Pad
    <3>2. (j + 1 - current_partition_size) * inN = (j - current_partition_size) * inN + inN
      BY <1>1, <2>1
    <3>3. dummy_item' = MAX_SUB' + (j' - current_partition_size') * inN + i'
      BY <1>1, <2>1, <2>2, <2>3, <2>4, <3>1, <3>2
    <3> QED
      BY <2>1, <3>1, <3>3 DEF Counted
  <2>5. CASE i + 1 # inN
    <3>1. i' = i + 1 /\ j' = j
      BY <1>1, <1>2, <2>1, <2>5 DEF Pad
    <3>2. dummy_item' = MAX_SUB' + (j' - current_partition_size') * inN + i'
      BY <1>1, <2>1, <2>2, <2>3, <3>1
    <3>3. j' # partition_size
      BY <1>1, <2>1, <3>1
    <3> QED
      BY <2>1, <3>2, <3>3 DEF Counted
  <2> QED
    BY <2>4, <2>5
<1>3. CASE StartGuard
  <2>1. dummy_item = LastPadded
    BY <1>1, <1>3, Numbers DEF StartGuard, Counted, LastPadded
  <2> QED
    BY <1>1, <1>3, <2>1 DEF StartGuard, Counted, LastPadded, input
<1>4. CASE KeepValue \/ NextPosition \/ Interpolate
  BY <1>1, <1>4 DEF KeepValue, NextPosition, Interpolate, Counted, LastPadded, input
<1>5. CASE ReplaceDuplicate
  BY <1>1, <1>5 DEF ReplaceDuplicate, WriteDummy, Counted, LastPadded, input
<1>6. CASE UNCHANGED vars
  BY <1>6 DEF vars, input, Counted, LastPadded
<1> QED
  BY <1>2, <1>3, <1>4, <1>5, <1>6 DEF Next

\* After a padding step one more coordinate is padded; after a replacement the
\* same ones are.
LEMMA PaddedAfterWrite ==
    ASSUME TypeOK, RealsKept, Pad \/ ReplaceDuplicate,
           NEW p \in Positions, NEW r \in Rows
    PROVE  IsPadded(p, r)' <=> (IsPadded(p, r) \/ (p = i /\ r = j))
<1>1. /\ i \in Positions /\ j \in Rows /\ j \notin RealRows /\ RealRows' = RealRows
      /\ pc' = pc
  BY WritesBehindReals DEF RealRows
<1>2. inN \in Nat \ {0} /\ i \in Nat /\ i < inN /\ j \in Nat /\ p \in Nat /\ p < inN /\ r \in Nat
  BY <1>1, Numbers DEF Positions, Rows
<1>3. CASE Pad
  <2>1. pc = "pad"
    BY <1>3 DEF Pad
  <2>2. CASE i + 1 = inN
    <3>1. i' = 0 /\ j' = j + 1
      BY <1>2, <1>3, <2>2 DEF Pad
    <3> QED
      BY <1>1, <1>2, <2>1, <2>2, <3>1 DEF IsPadded
  <2>3. CASE i + 1 # inN
    <3>1. i' = i + 1 /\ j' = j
      BY <1>2, <1>3, <2>3 DEF Pad
    <3> QED
      BY <1>1, <1>2, <2>1, <2>3, <3>1 DEF IsPadded
  <2> QED
    BY <2>2, <2>3
<1>4. CASE ReplaceDuplicate
  BY <1>1, <1>4 DEF ReplaceDuplicate, IsPadded
<1> QED
  BY <1>3, <1>4

\* The dummies come from the counter and differ.
LEMMA DifferStep ==
    TypeOK /\ RealsKept /\ FromTheCounter /\ DummiesDiffer /\ [Next]_vars =>
        FromTheCounter' /\ DummiesDiffer'
<1> SUFFICES ASSUME TypeOK, RealsKept, FromTheCounter, DummiesDiffer, [Next]_vars
             PROVE  FromTheCounter' /\ DummiesDiffer'
  OBVIOUS
<1>1. CASE Pad \/ ReplaceDuplicate
  <2>1. /\ i \in Positions /\ j \in Rows /\ j \notin RealRows
        /\ x' = [x EXCEPT ![i][j] = NextDummy] /\ dummy_item' = dummy_item + 1
        /\ MAX_SUB' = MAX_SUB
    BY <1>1, WritesBehindReals
  <2>2. \A p \in Positions, r \in Rows :
          x'[p][r] = IF p = i /\ r = j THEN NextDummy ELSE x[p][r]
    BY <2>1, WrittenValue
  <2>3. \A p \in Positions, r \in Rows :
          IsPadded(p, r)' <=> (IsPadded(p, r) \/ (p = i /\ r = j))
    BY <1>1, PaddedAfterWrite
  <2>4. MAX_SUB \in Nat /\ dummy_item \in Nat
    BY Numbers
  <2>5. FromTheCounter'
    <3> SUFFICES ASSUME NEW p \in Positions, NEW r \in Rows, IsPadded(p, r)'
                 PROVE  \E k \in MAX_SUB' + 1 .. dummy_item' : x'[p][r] = k % FIELD_MODULUS
      BY <2>1, <2>4 DEF FromTheCounter
    <3>1. CASE p = i /\ r = j
      <4>1. x'[p][r] = (dummy_item + 1) % FIELD_MODULUS
        BY <2>2, <3>1 DEF NextDummy
      <4>2. MAX_SUB <= dummy_item
        BY DEF FromTheCounter
      <4>3. dummy_item' \in MAX_SUB' + 1 .. dummy_item'
        BY <2>1, <2>4, <4>2
      <4> QED
        BY <2>1, <4>1, <4>3
    <3>2. CASE ~(p = i /\ r = j)
      <4>1. PICK k \in MAX_SUB + 1 .. dummy_item : x[p][r] = k % FIELD_MODULUS
        BY <2>3, <3>2 DEF FromTheCounter
      <4>2. k \in MAX_SUB' + 1 .. dummy_item' /\ x'[p][r] = x[p][r]
        BY <2>1, <2>2, <2>4, <3>2
      <4> QED
        BY <4>1, <4>2
    <3> QED
      BY <3>1, <3>2
  <2>6. DummiesDiffer'
    <3> SUFFICES ASSUME NotWrapped', NEW p \in Positions, NEW r1 \in Rows, NEW r2 \in Rows,
                        IsPadded(p, r1)', IsPadded(p, r2)', x'[p][r1] = x'[p][r2]
                 PROVE  r1 = r2
      BY DEF DummiesDiffer
    <3>1. dummy_item + 1 - MAX_SUB <= FIELD_MODULUS /\ NotWrapped
      BY <2>1, <2>4, Numbers DEF NotWrapped
    <3>2. \A r \in Rows : IsPadded(p, r) => x[p][r] # NextDummy
      BY <3>1, FreshDummy
    <3>3. CASE p = i /\ (r1 = j \/ r2 = j)
      BY <2>2, <2>3, <3>2, <3>3
    <3>4. CASE ~(p = i /\ (r1 = j \/ r2 = j))
      BY <2>2, <2>3, <3>1, <3>4 DEF DummiesDiffer
    <3> QED
      BY <3>3, <3>4
  <2> QED
    BY <2>5, <2>6
<1>2. CASE StartGuard \/ KeepValue \/ NextPosition \/ Interpolate \/ UNCHANGED vars
  <2>1. UNCHANGED <<MAX_SUB, current_partition_size, x, dummy_item>>
    BY <1>2 DEF StartGuard, KeepValue, NextPosition, Interpolate, vars, input
  <2>2. \A p \in Positions, r \in Rows : IsPadded(p, r)' => IsPadded(p, r)
    BY <1>2, <2>1, Numbers DEF StartGuard, KeepValue, NextPosition, Interpolate, vars,
                               input, IsPadded, RealRows, Rows
  <2>3. FromTheCounter'
    BY <2>1, <2>2 DEF FromTheCounter
  <2>4. DummiesDiffer'
    BY <2>1, <2>2 DEF DummiesDiffer, NotWrapped
  <2> QED
    BY <2>3, <2>4
<1> QED
  BY <1>1, <1>2 DEF Next

\* Until the guard has passed a dummy it is the one of the padding.
LEMMA AsPaddedStep ==
    TypeOK /\ RealsKept /\ Counted /\ AsPadded /\ [Next]_vars => AsPadded'
<1> SUFFICES ASSUME TypeOK, RealsKept, Counted, AsPadded, [Next]_vars,
                    NEW p \in Positions, NEW r \in Rows, IsPadded(p, r)', ~IsGuarded(p, r)'
             PROVE  x'[p][r] = PaddedDummy(p, r)'
  BY DEF AsPadded
<1>1. /\ inN \in Nat \ {0} /\ partition_size \in Nat \ {0} /\ i \in 0 .. inN
      /\ j \in 0 .. partition_size /\ p \in Nat /\ p < inN /\ r \in Nat
      /\ r < partition_size /\ current_partition_size \in Nat \ {0}
  BY Numbers DEF Positions, Rows
<1>2. UNCHANGED <<MAX_SUB, current_partition_size, real>>
  BY DEF Next, Pad, StartGuard, KeepValue, ReplaceDuplicate, NextPosition, Interpolate,
         vars, input
<1>3. PaddedDummy(p, r)' = PaddedDummy(p, r) /\ RealRows' = RealRows
  BY <1>2 DEF PaddedDummy, RealRows
<1>4. CASE Pad
  <2>1. \A p1 \in Positions, r1 \in Rows :
          x'[p1][r1] = IF p1 = i /\ r1 = j THEN NextDummy ELSE x[p1][r1]
    BY <1>4, WritesBehindReals, WrittenValue
  <2>2. IsPadded(p, r) \/ (p = i /\ r = j)
    BY <1>4, PaddedAfterWrite
  <2>3. CASE p = i /\ r = j
    <3>1. dummy_item + 1 = Number(p, r)
      <4>1. dummy_item = MAX_SUB + (j - current_partition_size) * inN + i
        BY <1>4 DEF Pad, Counted
      <4> QED
        BY <2>3, <4>1 DEF Number
    <3>2. r \notin RealRows
      BY <1>4, <2>3, WritesBehindReals
    <3>3. PaddedDummy(p, r) = Number(p, r) % FIELD_MODULUS
      BY <3>2, NumberBounds
    <3> QED
      BY <1>3, <2>1, <2>3, <3>1, <3>3 DEF NextDummy
  <2>4. CASE ~(p = i /\ r = j)
    <3>1. ~IsGuarded(p, r)
      BY <1>4 DEF Pad, IsGuarded
    <3> QED
      BY <1>3, <2>1, <2>2, <2>4, <3>1 DEF AsPadded
  <2> QED
    BY <2>3, <2>4
<1>5. CASE ReplaceDuplicate
  <2>1. \A p1 \in Positions, r1 \in Rows :
          x'[p1][r1] = IF p1 = i /\ r1 = j THEN NextDummy ELSE x[p1][r1]
    BY <1>5, WritesBehindReals, WrittenValue
  <2>2. i' = i /\ j' = j + 1 /\ pc = "guard" /\ pc' = "guard"
    BY <1>5 DEF ReplaceDuplicate
  <2>3. ~(p = i /\ r = j) /\ ~IsGuarded(p, r) /\ IsPadded(p, r)
    BY <1>1, <1>3, <2>2 DEF IsGuarded, IsPadded
  <2> QED
    BY <1>3, <2>1, <2>3 DEF AsPadded
<1>6. CASE StartGuard \/ KeepValue \/ NextPosition \/ Interpolate \/ UNCHANGED vars
  <2>1. x' = x
    BY <1>6 DEF StartGuard, KeepValue, NextPosition, Interpolate, vars
  <2>2. IsPadded(p, r) /\ ~IsGuarded(p, r)
    BY <1>1, <1>3, <1>6 DEF StartGuard, KeepValue, NextPosition, Interpolate, vars,
                            IsPadded, IsGuarded, Guarded
  <2> QED
    BY <1>3, <2>1, <2>2 DEF AsPadded
<1> QED
  BY <1>4, <1>5, <1>6 DEF Next

\* What the guard leaves equal took two coincidences.
LEMMA RepairsStep ==
    TypeOK /\ RealsKept /\ Dummies /\ Repairs /\ [Next]_vars => Repairs'
<1> SUFFICES ASSUME TypeOK, RealsKept, Dummies, Repairs, [Next]_vars, NotWrapped',
                    NEW p \in Positions, NEW r1 \in Rows, NEW r2 \in Rows,
                    r1 < r2, r2 \notin RealRows', IsGuarded(p, r2)', x'[p][r1] = x'[p][r2]
             PROVE  /\ x'[p][r2] # PaddedDummy(p, r2)'
                    /\ \E r \in RealRows' : real'[p][r] = PaddedDummy(p, r2)'
  BY DEF Repairs
<1>1. /\ inN \in Nat \ {0} /\ partition_size \in Nat \ {0} /\ i \in 0 .. inN
      /\ j \in 0 .. partition_size /\ p \in Nat /\ p < inN /\ r1 \in Nat /\ r2 \in Nat
      /\ r2 < partition_size /\ current_partition_size \in Nat \ {0}
      /\ MAX_SUB \in Nat /\ dummy_item \in Nat /\ FIELD_MODULUS \in Nat \ {0}
  BY Numbers DEF Positions, Rows
<1>2. UNCHANGED <<MAX_SUB, current_partition_size, real>>
  BY DEF Next, Pad, StartGuard, KeepValue, ReplaceDuplicate, NextPosition, Interpolate,
         vars, input
<1>3. PaddedDummy(p, r2)' = PaddedDummy(p, r2) /\ RealRows' = RealRows
  BY <1>2 DEF PaddedDummy, RealRows
<1>4. ASSUME IsGuarded(p, r2), x[p][r1] = x[p][r2], x'[p][r2] = x[p][r2], NotWrapped
      PROVE  /\ x'[p][r2] # PaddedDummy(p, r2)'
             /\ \E r \in RealRows' : real'[p][r] = PaddedDummy(p, r2)'
  BY <1>2, <1>3, <1>4 DEF Repairs
<1>5. CASE Pad
  BY <1>5 DEF Pad, IsGuarded
<1>6. CASE StartGuard
  <2>1. r2 >= 1 /\ ~IsGuarded(p, r2)'
    BY <1>1, <1>6 DEF StartGuard, IsGuarded
  <2> QED
    BY <2>1
<1>7. CASE KeepValue
  <2>1. x' = x /\ NotWrapped
    BY <1>2, <1>7 DEF KeepValue, NotWrapped
  <2>2. CASE IsGuarded(p, r2)
    BY <1>4, <2>1, <2>2
  <2>3. CASE ~IsGuarded(p, r2)
    <3>1. p = i /\ r2 = j
      BY <1>1, <1>7, <2>3 DEF KeepValue, IsGuarded
    <3>2. x[p][r1] \in Seen
      BY <1>1, <3>1 DEF Seen
    <3> QED
      BY <1>7, <2>1, <3>1, <3>2 DEF KeepValue
  <2> QED
    BY <2>2, <2>3
<1>8. CASE ReplaceDuplicate
  <2>1. /\ i \in Positions /\ j \in Rows /\ j \notin RealRows
        /\ x' = [x EXCEPT ![i][j] = NextDummy] /\ dummy_item' = dummy_item + 1
    BY <1>8, WritesBehindReals
  <2>2. \A p1 \in Positions, r \in Rows :
          x'[p1][r] = IF p1 = i /\ r = j THEN NextDummy ELSE x[p1][r]
    BY <2>1, WrittenValue
  <2>3. dummy_item + 1 - MAX_SUB <= FIELD_MODULUS /\ NotWrapped
    BY <1>1, <1>2, <2>1 DEF NotWrapped
  <2>4. pc = "guard" /\ i' = i /\ j' = j + 1 /\ pc' = "guard" /\ x[i][j] \in Seen
    BY <1>8 DEF ReplaceDuplicate
  <2>5. CASE p = i /\ r2 = j
    <3>1. /\ IsPadded(p, r2) /\ ~IsGuarded(p, r2)
      BY <1>1, <2>1, <2>4, <2>5 DEF IsPadded, IsGuarded
    <3>2. x[p][r2] = PaddedDummy(p, r2)
      BY <3>1 DEF Dummies, AsPadded
    <3>3. x'[p][r2] = NextDummy
      BY <2>2, <2>5
    <3>4. NextDummy # PaddedDummy(p, r2)
      BY <2>3, <3>1, <3>2, FreshDummy DEF Dummies
    <3>5. PICK r \in 0 .. j - 1 : x[p][r] = x[p][r2]
      BY <2>4, <2>5 DEF Seen
    <3>6. r \in Rows /\ r # r2
      BY <1>1, <2>5, <3>5 DEF Rows
    <3>7. r \in RealRows
      <4>1. SUFFICES ASSUME r \notin RealRows PROVE FALSE
        OBVIOUS
      <4>2. IsPadded(p, r)
        BY <2>4, <4>1 DEF IsPadded
      <4> QED
        BY <2>3, <3>1, <3>5, <3>6, <4>2 DEF Dummies, DummiesDiffer
    <3>8. real[p][r] = PaddedDummy(p, r2)
      BY <3>2, <3>5, <3>7 DEF RealsKept, RealsUntouched
    <3> QED
      BY <1>2, <1>3, <3>3, <3>4, <3>7, <3>8
  <2>6. CASE ~(p = i /\ r2 = j)
    <3>1. IsGuarded(p, r2)
      BY <1>1, <2>4, <2>6 DEF IsGuarded
    <3>2. ~(p = i /\ r1 = j)
      BY <1>1, <2>4, <3>1 DEF IsGuarded
    <3> QED
      BY <1>4, <2>2, <2>3, <2>6, <3>1, <3>2
  <2> QED
    BY <2>5, <2>6
<1>9. CASE NextPosition
  <2>1. x' = x /\ NotWrapped /\ j = partition_size
    BY <1>1, <1>2, <1>9 DEF NextPosition, NotWrapped, Guarded
  <2>2. r2 >= 1
    BY <1>1
  <2>3. IsGuarded(p, r2)
    BY <1>1, <1>9, <2>1, <2>2 DEF NextPosition, IsGuarded
  <2> QED
    BY <1>4, <2>1, <2>3
<1>10. CASE Interpolate
  <2>1. x' = x /\ NotWrapped /\ IsGuarded(p, r2)
    BY <1>1, <1>2, <1>10 DEF Interpolate, NotWrapped, IsGuarded
  <2> QED
    BY <1>4, <2>1
<1>11. CASE UNCHANGED vars
  <2>1. x' = x /\ NotWrapped /\ IsGuarded(p, r2)
    BY <1>2, <1>11 DEF vars, NotWrapped, IsGuarded
  <2> QED
    BY <1>4, <2>1
<1> QED
  BY <1>5, <1>6, <1>7, <1>8, <1>9, <1>10, <1>11 DEF Next

\* The dummies are right in every reachable state.
LEMMA DummiesInvariant == Spec => [](TypeOK /\ RealsKept /\ Dummies /\ Repairs)
<1>1. Init => Dummies /\ Repairs
  <2> SUFFICES ASSUME Init PROVE Dummies /\ Repairs
    OBVIOUS
  <2>1. TypeOK
    BY TypeInit
  <2>2. /\ pc = "pad" /\ i = 0 /\ j = current_partition_size /\ dummy_item = MAX_SUB
    BY DEF Init
  <2>3. \A p \in Positions, r \in Rows : ~IsPadded(p, r) /\ ~IsGuarded(p, r)
    BY <2>1, <2>2, Numbers DEF IsPadded, IsGuarded, RealRows, Rows, Positions
  <2>4. 0 * inN = 0 /\ Counted
    BY <2>1, <2>2, Numbers DEF Counted
  <2>5. FromTheCounter /\ DummiesDiffer /\ AsPadded
    BY <2>1, <2>2, <2>3, Numbers DEF FromTheCounter, DummiesDiffer, AsPadded
  <2>6. Repairs
    BY <2>3 DEF Repairs
  <2> QED
    BY <2>4, <2>5, <2>6 DEF Dummies
<1>2. TypeOK /\ RealsKept /\ Dummies /\ [Next]_vars => Dummies'
  BY CountedStep, DifferStep, AsPaddedStep DEF Dummies
<1> QED
  BY <1>1, <1>2, RepairsStep, RealsInvariant, PTL DEF Spec

\* Equal x-coordinates are only left when a dummy met a real coordinate and the
\* dummy that replaced it met another one.
THEOREM AlwaysRepairs == Spec => []DuplicatesAreRepairs
<1>1. TypeOK /\ RealsKept /\ Dummies /\ Repairs => DuplicatesAreRepairs
  <2> SUFFICES ASSUME TypeOK, RealsKept, Dummies, Repairs, pc = "interpolate", NotWrapped,
                      NEW p \in Positions, NEW r1 \in Rows, NEW r2 \in Rows,
                      r1 < r2, x[p][r1] = x[p][r2]
               PROVE  /\ r1 \in RealRows /\ r2 \notin RealRows
                      /\ x[p][r2] # PaddedDummy(p, r2)
                      /\ \E r \in RealRows : real[p][r] = PaddedDummy(p, r2)
    BY DEF DuplicatesAreRepairs, NotWrapped
  <2>1. r1 \in Nat /\ r2 \in Nat /\ r1 # r2
    BY DEF Rows
  <2>2. r2 \notin RealRows
    <3>1. SUFFICES ASSUME r2 \in RealRows PROVE FALSE
      OBVIOUS
    <3>2. r1 \in RealRows
      BY <2>1, <3>1, Numbers DEF RealRows
    <3>3. real[p][r1] = real[p][r2] /\ DOMAIN real[p] = RealRows
      BY <3>1, <3>2 DEF RealsKept, RealsUntouched, TypeOK
    <3> QED
      BY <2>1, <3>1, <3>2, <3>3 DEF RealsKept, RealsDistinct, Distinct
  <2>3. r1 \in RealRows
    BY <2>1, <2>2 DEF Dummies, DummiesDiffer, IsPadded
  <2> QED
    BY <2>2, <2>3 DEF Repairs, IsGuarded
<1> QED
  BY <1>1, DummiesInvariant, PTL

----------------------------------------------------------------------------
(* Dummies above the data collide with nothing.                             *)

AboveTheData ==
    /\ \A p \in Positions, r \in RealRows : real[p][r] <= MAX_SUB
    /\ LastPadded < FIELD_MODULUS

NoRepair == (AboveTheData /\ pc # "pad") => dummy_item = LastPadded

\* A dummy of the padding is then greater than every real coordinate.
LEMMA DummiesAbove ==
    ASSUME TypeOK, AboveTheData, NEW p \in Positions,
           NEW r \in RealRows, NEW r2 \in Rows, r2 \notin RealRows
    PROVE  real[p][r] # PaddedDummy(p, r2)
<1>1. /\ Number(p, r2) \in Nat /\ MAX_SUB < Number(p, r2) /\ Number(p, r2) <= LastPadded
      /\ PaddedDummy(p, r2) = Number(p, r2) % FIELD_MODULUS
  BY NumberBounds
<1>2. /\ FIELD_MODULUS \in Nat \ {0} /\ LastPadded \in Nat /\ MAX_SUB \in Nat
      /\ LastPadded < FIELD_MODULUS
  BY Numbers DEF AboveTheData
<1> DEFINE n == Number(p, r2)
<1> HIDE DEF n
<1>3. n \in Nat /\ n < FIELD_MODULUS /\ n = FIELD_MODULUS * 0 + n
  BY <1>1, <1>2 DEF n
<1>4. n % FIELD_MODULUS = n
  BY <1>2, <1>3, DivModUnique
<1>5. real[p][r] <= MAX_SUB /\ real[p][r] \in Nat
  <2>1. real[p][r] \in Blinded
    BY DEF TypeOK
  <2>2. real[p][r] \in 0 .. FIELD_MODULUS - 1
    BY <2>1, BlindedOK
  <2> QED
    BY <2>2 DEF AboveTheData
<1> QED
  BY <1>1, <1>2, <1>4, <1>5 DEF n

\* The guard then finds nothing to replace.
LEMMA NoRepairStep ==
    TypeOK /\ RealsKept /\ Dummies /\ NoRepair /\ [Next]_vars => NoRepair'
<1> SUFFICES ASSUME TypeOK, RealsKept, Dummies, NoRepair, [Next]_vars,
                    AboveTheData', pc' # "pad"
             PROVE  dummy_item' = LastPadded'
  BY DEF NoRepair
<1>1. UNCHANGED <<MAX_SUB, current_partition_size, real>>
  BY DEF Next, Pad, StartGuard, KeepValue, ReplaceDuplicate, NextPosition, Interpolate,
         vars, input
<1>2. AboveTheData /\ LastPadded' = LastPadded
  BY <1>1 DEF AboveTheData, LastPadded, RealRows
<1>3. CASE Pad
  BY <1>3 DEF Pad
<1>4. CASE StartGuard
  BY <1>2, <1>4, Numbers DEF StartGuard, Dummies, Counted, LastPadded
<1>5. CASE ReplaceDuplicate
  <2>1. /\ i \in Positions /\ j \in Rows /\ j \notin RealRows
    BY <1>5, WritesBehindReals
  <2>2. pc = "guard" /\ x[i][j] \in Seen
    BY <1>5 DEF ReplaceDuplicate
  <2>3. IsPadded(i, j) /\ ~IsGuarded(i, j)
    BY <2>1, <2>2 DEF IsPadded, IsGuarded, Positions, Rows
  <2>4. x[i][j] = PaddedDummy(i, j)
    BY <2>1, <2>3 DEF Dummies, AsPadded
  <2>5. PICK r \in 0 .. j - 1 : x[i][r] = x[i][j]
    BY <2>2 DEF Seen
  <2>6. r \in Rows /\ r # j
    BY <2>1, <2>5, Numbers DEF Rows
  <2>7. CASE r \in RealRows
    <3>1. real[i][r] = PaddedDummy(i, j)
      BY <2>1, <2>4, <2>5, <2>7 DEF RealsKept, RealsUntouched
    <3> QED
      BY <1>2, <2>1, <2>7, <3>1, DummiesAbove
  <2>8. CASE r \notin RealRows
    <3>1. IsPadded(i, r)
      BY <2>2, <2>8 DEF IsPadded
    <3>2. NotWrapped
      BY <1>2, <2>2, Numbers DEF NotWrapped, NoRepair, AboveTheData
    <3> QED
      BY <2>1, <2>3, <2>5, <2>6, <3>1, <3>2 DEF Dummies, DummiesDiffer
  <2> QED
    BY <2>7, <2>8
<1>6. CASE KeepValue \/ NextPosition \/ Interpolate \/ UNCHANGED vars
  BY <1>2, <1>6 DEF KeepValue, NextPosition, Interpolate, vars, NoRepair
<1> QED
  BY <1>3, <1>4, <1>5, <1>6 DEF Next

\* A caller that sets MAX_SUB to the largest value of its data gets distinct
\* points without a repair, while the dummies stay in the field.
THEOREM AlwaysDistinctAbove == Spec => []DistinctAboveTheData
<1>1. Init => NoRepair
  BY DEF Init, NoRepair
<1>2. TypeOK /\ RealsKept /\ Dummies /\ Repairs /\ NoRepair => DistinctAboveTheData
  <2> SUFFICES ASSUME TypeOK, RealsKept, Dummies, Repairs, NoRepair,
                      AboveTheData, pc = "interpolate"
               PROVE  /\ \A p \in Positions : Distinct(x[p])
                      /\ dummy_item = LastPadded
    BY DEF DistinctAboveTheData, AboveTheData
  <2>1. dummy_item = LastPadded
    BY DEF NoRepair
  <2>2. NotWrapped
    BY <2>1, Numbers DEF NotWrapped, AboveTheData
  <2>3. ASSUME NEW p \in Positions, NEW r1 \in Rows, NEW r2 \in Rows,
               r1 < r2, x[p][r1] = x[p][r2]
        PROVE  FALSE
    <3>1. CASE r2 \in RealRows
      <4>1. r1 \in RealRows /\ r1 # r2
        BY <2>3, <3>1, Numbers DEF RealRows, Rows
      <4>2. real[p][r1] = real[p][r2] /\ DOMAIN real[p] = RealRows
        BY <2>3, <3>1, <4>1 DEF RealsKept, RealsUntouched, TypeOK
      <4> QED
        BY <3>1, <4>1, <4>2 DEF RealsKept, RealsDistinct, Distinct
    <3>2. CASE r2 \notin RealRows
      <4>1. \E r \in RealRows : real[p][r] = PaddedDummy(p, r2)
        BY <2>2, <2>3, <3>2 DEF Repairs, IsGuarded
      <4> QED
        BY <3>2, <4>1, DummiesAbove
    <3> QED
      BY <3>1, <3>2
  <2>4. \A p \in Positions : DOMAIN x[p] = Rows
    BY DEF TypeOK
  <2>5. \A r1, r2 \in Rows : r1 = r2 \/ r1 < r2 \/ r2 < r1
    BY DEF Rows
  <2> QED
    BY <2>1, <2>3, <2>4, <2>5 DEF Distinct
<1> QED
  BY <1>1, <1>2, NoRepairStep, DummiesInvariant, PTL DEF Spec
=============================================================================
