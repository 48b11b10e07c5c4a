--------------------------- MODULE Programs_proofs ---------------------------
(***************************************************************************)
(* What the programs guarantee for every input and every parameter.        *)
(***************************************************************************)
EXTENDS ProgramsProperties, Kernel_proofs

\* The modulus is one of two, and nothing is built before it is set.
FieldInv ==
    /\ FIELD_MODULUS \in {DefaultModulus, PlainModulus}
    /\ InversesAreCurrent
    /\ ~started => inverses = <<>> /\ todo = <<>>

LEMMA FieldInvInit == Init => FieldInv
BY DEF Init, FieldInv, InversesAreCurrent

\* Every operation but the first leaves the modulus alone, and what builds the
\* table builds that of the modulus in force.
LEMMA FieldInvNext == FieldInv /\ [Next]_vars => FieldInv'
<1> SUFFICES ASSUME FieldInv, [Next]_vars PROVE FieldInv'
  OBVIOUS
<1> USE DEF FieldInv, InversesAreCurrent
<1>1. CASE applyToGlobals
  BY <1>1 DEF applyToGlobals
<1>2. ASSUME UNCHANGED field_vars, started \/ todo # <<>>, UNCHANGED started
      PROVE FieldInv'
  BY <1>2 DEF field_vars
<1>3. ASSUME NEW r, NEW n, Answer(r, n), started, UNCHANGED started PROVE FieldInv'
  BY <1>3 DEF Answer, BuiltTable
<1>4. ASSUME NEW op, Doing(op) PROVE started
  BY <1>4 DEF Doing
<1>5. Advance => UNCHANGED started
  BY DEF Advance
<1>6. Stay => UNCHANGED started
  BY DEF Stay, control_vars
<1>7. CASE ChooseDatabase
  BY <1>2, <1>4, <1>5, <1>7 DEF ChooseDatabase
<1>8. CASE loadEnrollmentCSV
  BY <1>2, <1>4, <1>5, <1>6, <1>8 DEF loadEnrollmentCSV
<1>9. CASE shareAgain
  BY <1>2, <1>4, <1>5, <1>9 DEF shareAgain
<1>10. CASE clearShares
  BY <1>2, <1>4, <1>5, <1>10 DEF clearShares
<1>11. CASE setShares
  BY <1>2, <1>4, <1>5, <1>11 DEF setShares
<1>12. CASE generateAesKey
  BY <1>2, <1>4, <1>5, <1>12 DEF generateAesKey
<1>13. CASE blindDatabaseOffline
  BY <1>2, <1>4, <1>5, <1>13 DEF blindDatabaseOffline
<1>14. CASE parallelPartitionDB
  BY <1>2, <1>4, <1>5, <1>14 DEF parallelPartitionDB
<1>25. CASE seedWithoutIds
  BY <1>2, <1>4, <1>25 DEF seedWithoutIds, Die
<1>15. CASE computeCoefficients
  <2>1. started
    BY <1>4, <1>15 DEF computeCoefficients
  <2>2. UNCHANGED started
    BY <1>5, <1>15 DEF computeCoefficients, ComputeSet, Die
  <2> QED
    BY <1>2, <1>15, <2>1, <2>2 DEF computeCoefficients
<1>16. CASE simdPartitions
  BY <1>2, <1>4, <1>5, <1>16 DEF simdPartitions
<1>17. CASE loadQueries
  BY <1>2, <1>4, <1>5, <1>17 DEF loadQueries
<1>18. CASE prepareQueries
  BY <1>2, <1>4, <1>5, <1>18 DEF prepareQueries
<1>19. CASE submitQuery
  BY <1>3, <1>4, <1>6, <1>19 DEF submitQuery
<1>20. CASE endRound
  BY <1>2, <1>4, <1>5, <1>20 DEF endRound
<1>21. CASE submitRecordedQuery
  BY <1>2, <1>4, <1>21 DEF submitRecordedQuery
<1>22. CASE findRecordedMatches
  BY <1>3, <1>4, <1>5, <1>22 DEF findRecordedMatches
<1>23. CASE record
  <2>1. started
    BY <1>4, <1>23 DEF record
  <2> QED
    BY <1>2, <1>5, <1>23, <2>1 DEF record
<1>24. CASE UNCHANGED vars \/ Exit
  BY <1>24 DEF vars, control_vars, field_vars, Exit
<1> QED
  BY <1>1, <1>7, <1>8, <1>9, <1>10, <1>11, <1>12, <1>13, <1>14, <1>15, <1>16, <1>17,
     <1>18, <1>19, <1>20, <1>21, <1>22, <1>23, <1>24, <1>25 DEF Next

\* No program reconstructs with the inverses of another field than its own.
THEOREM InversesCurrent == Spec => []InversesAreCurrent
<1>1. FieldInv => InversesAreCurrent
  BY DEF FieldInv
<1> QED
  BY FieldInvInit, FieldInvNext, <1>1, PTL DEF Spec

----------------------------------------------------------------------------

\* A sequence, of whatever.
IsSeq(s) == \E S : s \in Seq(S)

LEMMA AppendIsSeq ==
    ASSUME NEW s, IsSeq(s), NEW e
    PROVE  IsSeq(Append(s, e)) /\ Len(Append(s, e)) = Len(s) + 1 /\ Len(s) \in Nat
<1>1. PICK S : s \in Seq(S)
  BY DEF IsSeq
<1>2. s \in Seq(S \cup {e}) /\ e \in S \cup {e}
  BY <1>1
<1>3. Append(s, e) \in Seq(S \cup {e}) /\ Len(Append(s, e)) = Len(s) + 1 /\ Len(s) \in Nat
  BY <1>2
<1> QED
  BY <1>3 DEF IsSeq

ShareInv ==
    /\ ShareMapsAgree
    /\ \A id \in DOMAIN id_share_map : IsSeq(id_share_map[id])

LEMMA SeqOfTokens ==
    ASSUME NEW s, s \in Seq(TokenSharings)
    PROVE  IsSeq(s)
BY DEF IsSeq

\* One sharing more for an id in both maps.
LEMMA BothPushed ==
    ASSUME ShareInv, NEW id, NEW e \in TokenSharings, NEW l,
           token_share_map' = Push(token_share_map, id, e),
           id_share_map' = Push(id_share_map, id, l)
    PROVE  ShareInv'
<1> DEFINE old(map) == IF id \in DOMAIN map THEN map[id] ELSE <<>>
<1>1. \A k \in DOMAIN token_share_map :
         token_share_map[k] \in Seq(TokenSharings) /\ IsSeq(token_share_map[k])
  BY SeqOfTokens DEF ShareInv, ShareMapsAgree
<1>2. \A k \in DOMAIN id_share_map : IsSeq(id_share_map[k])
  BY DEF ShareInv
<1>3. /\ DOMAIN token_share_map' = DOMAIN token_share_map \cup {id}
      /\ token_share_map'[id] = Append(old(token_share_map), e)
      /\ \A k \in DOMAIN token_share_map \ {id} : token_share_map'[k] = token_share_map[k]
  BY <1>1 DEF Push, Put
<1>4. /\ DOMAIN id_share_map' = DOMAIN id_share_map \cup {id}
      /\ id_share_map'[id] = Append(old(id_share_map), l)
      /\ \A k \in DOMAIN id_share_map \ {id} : id_share_map'[k] = id_share_map[k]
  BY <1>2 DEF Push, Put
<1>5. /\ old(token_share_map) \in Seq(TokenSharings)
      /\ IsSeq(old(token_share_map)) /\ IsSeq(old(id_share_map))
      /\ Len(old(token_share_map)) = Len(old(id_share_map))
  <2>1. <<>> \in Seq(TokenSharings) /\ IsSeq(<<>>)
    BY DEF IsSeq
  <2> QED
    BY <1>1, <1>2, <2>1 DEF ShareInv, ShareMapsAgree
<1> HIDE DEF old
<1>6. /\ token_share_map'[id] \in Seq(TokenSharings) \ {<<>>}
      /\ IsSeq(id_share_map'[id])
      /\ Len(token_share_map'[id]) = Len(id_share_map'[id])
  <2>1. Append(old(token_share_map), e) \in Seq(TokenSharings)
    BY <1>5
  <2>2. /\ Len(Append(old(token_share_map), e)) = Len(old(token_share_map)) + 1
        /\ IsSeq(Append(old(id_share_map), l))
        /\ Len(Append(old(id_share_map), l)) = Len(old(id_share_map)) + 1
    BY <1>5, AppendIsSeq
  <2>3. Append(old(token_share_map), e) # <<>>
    <3>1. Len(old(token_share_map)) \in Nat
      BY <1>5
    <3>2. Len(<<>>) = 0
      OBVIOUS
    <3> QED
      BY <2>2, <3>1, <3>2
  <2> QED
    BY <1>3, <1>4, <1>5, <2>1, <2>2, <2>3
<1> QED
  BY <1>3, <1>4, <1>6 DEF ShareInv, ShareMapsAgree

LEMMA SharesUnchanged ==
    ASSUME ShareInv, UNCHANGED <<token_share_map, id_share_map>> PROVE ShareInv'
BY DEF ShareInv, ShareMapsAgree

\* A line that is stored adds one sharing to both maps; one that is given up, none.
LEMMA EnrollKeepsShares ==
    ASSUME ShareInv, NEW column, EnrollLine(column)
    PROVE  ShareInv'
<1>1. ASSUME NEW c \in TokenCoefs, NEW d \in LabelCoefs,
             token_share_map' = Push(token_share_map, Head(rest).id, Sharing(0, c)),
             id_share_map' = Push(id_share_map, Head(rest).id,
                                  Sharing(LabelOf(Head(rest), column), d))
      PROVE  ShareInv'
  <2>1. Sharing(0, c) \in TokenSharings
    BY DEF Sharing, TokenSharings, token
  <2> QED
    BY <1>1, <2>1, BothPushed
<1> QED
  BY <1>1, SharesUnchanged DEF EnrollLine

\* setShares adds one sharing to both maps for every enrolled id.
LEMMA SetSharesKeepsShares ==
    ASSUME ShareInv, setShares
    PROVE  ShareInv'
<1> DEFINE old(map, id) == IF id \in DOMAIN map THEN map[id] ELSE <<>>
           ids == DOMAIN enr_ss_map
<1>1. PICK c \in [ids -> TokenCoefs], d \in [ids -> LabelCoefs] :
        /\ token_share_map' = PushAll(token_share_map, [id \in ids |-> Sharing(token, c[id])])
        /\ id_share_map' = PushAll(id_share_map, [id \in ids |-> Sharing(id, d[id])])
  BY DEF setShares
<1> DEFINE new(id) == Sharing(token, c[id])
           lab(id) == Sharing(id, d[id])
<1>2. /\ DOMAIN token_share_map' = DOMAIN token_share_map \cup ids
      /\ DOMAIN id_share_map' = DOMAIN id_share_map \cup ids
      /\ DOMAIN id_share_map = DOMAIN token_share_map
  BY <1>1 DEF PushAll, ShareInv, ShareMapsAgree
<1>3. SUFFICES ASSUME NEW id \in DOMAIN token_share_map \cup ids
               PROVE  /\ token_share_map'[id] \in Seq(TokenSharings) \ {<<>>}
                      /\ IsSeq(id_share_map'[id])
                      /\ Len(token_share_map'[id]) = Len(id_share_map'[id])
  BY <1>2 DEF ShareInv, ShareMapsAgree
<1>4. CASE id \in ids
  <2>1. /\ token_share_map'[id] = old(token_share_map, id) \o <<new(id)>>
        /\ id_share_map'[id] = old(id_share_map, id) \o <<lab(id)>>
    BY <1>1, <1>2, <1>4 DEF PushAll
  <2>2. new(id) \in TokenSharings
    BY <1>1, <1>4 DEF Sharing, TokenSharings
  <2>3. /\ old(token_share_map, id) \in Seq(TokenSharings)
        /\ IsSeq(old(id_share_map, id))
        /\ Len(old(token_share_map, id)) = Len(old(id_share_map, id))
    <3>1. <<>> \in Seq(TokenSharings) /\ IsSeq(<<>>)
      BY DEF IsSeq
    <3> QED
      BY <1>2, <3>1 DEF ShareInv, ShareMapsAgree
  <2> HIDE DEF old, new, lab
  <2>4. /\ old(token_share_map, id) \o <<new(id)>> \in Seq(TokenSharings) \ {<<>>}
        /\ Len(old(token_share_map, id) \o <<new(id)>>) = Len(old(token_share_map, id)) + 1
    BY <2>2, <2>3
  <2>5. PICK S : old(id_share_map, id) \in Seq(S)
    BY <2>3 DEF IsSeq
  <2>6. old(id_share_map, id) \in Seq(S \cup {lab(id)})
    BY <2>5
  <2>7. /\ old(id_share_map, id) \o <<lab(id)>> \in Seq(S \cup {lab(id)})
        /\ Len(old(id_share_map, id) \o <<lab(id)>>) = Len(old(id_share_map, id)) + 1
    BY <2>6
  <2> QED
    BY <2>1, <2>3, <2>4, <2>7 DEF IsSeq
<1>5. CASE id \notin ids
  <2>1. /\ id \in DOMAIN token_share_map /\ id \in DOMAIN id_share_map
        /\ token_share_map[id] \in Seq(TokenSharings) \ {<<>>} /\ IsSeq(id_share_map[id])
        /\ Len(token_share_map[id]) = Len(id_share_map[id])
    BY <1>2, <1>5 DEF ShareInv, ShareMapsAgree
  <2>2. /\ token_share_map'[id] = token_share_map[id] \o <<>>
        /\ id_share_map'[id] = id_share_map[id] \o <<>>
    BY <1>1, <1>2, <1>5, <2>1 DEF PushAll
  <2>3. PICK S : id_share_map[id] \in Seq(S)
    BY <2>1 DEF IsSeq
  <2>4. /\ token_share_map[id] \o <<>> = token_share_map[id]
        /\ id_share_map[id] \o <<>> = id_share_map[id]
    BY <2>1, <2>3
  <2> QED
    BY <2>1, <2>2, <2>4
<1> QED
  BY <1>4, <1>5

LEMMA ShareInvNext == ShareInv /\ [Next]_vars => ShareInv'
<1> SUFFICES ASSUME ShareInv, [Next]_vars PROVE ShareInv'
  OBVIOUS
<1>1. UNCHANGED enrollment_vars => ShareInv'
  BY SharesUnchanged DEF enrollment_vars
<1>2. CASE applyToGlobals \/ shareAgain \/ generateAesKey
  BY <1>1, <1>2 DEF applyToGlobals, shareAgain, generateAesKey
<1>3. CASE ChooseDatabase \/ blindDatabaseOffline
  BY <1>3, SharesUnchanged DEF ChooseDatabase, blindDatabaseOffline
<1>4. CASE loadEnrollmentCSV
  <2>1. CASE SkipLine
    BY <2>1, SharesUnchanged DEF SkipLine
  <2>2. CASE EnrollLine(program.label_col)
    BY <2>2, EnrollKeepsShares
  <2> QED
    BY <1>1, <1>4, <2>1, <2>2 DEF loadEnrollmentCSV
<1>5. CASE clearShares
  <2>1. token_share_map' = <<>> /\ id_share_map' = <<>>
    BY <1>5 DEF clearShares, NoLabelShares
  <2>2. DOMAIN <<>> = {}
    OBVIOUS
  <2> QED
    BY <2>1, <2>2 DEF ShareInv, ShareMapsAgree
<1>6. CASE setShares
  BY <1>6, SetSharesKeepsShares
<1>7. CASE parallelPartitionDB \/ seedWithoutIds \/ computeCoefficients \/ simdPartitions
  BY <1>1, <1>7 DEF parallelPartitionDB, seedWithoutIds, computeCoefficients, simdPartitions
<1>8. CASE loadQueries \/ prepareQueries \/ endRound
  BY <1>1, <1>8 DEF loadQueries, prepareQueries, endRound
<1>9. ASSUME NEW r, NEW n, Answer(r, n) PROVE UNCHANGED enrollment_vars
  BY <1>9 DEF Answer
<1>10. CASE submitQuery \/ findRecordedMatches
  BY <1>1, <1>9, <1>10 DEF submitQuery, findRecordedMatches
<1>11. CASE submitRecordedQuery \/ record
  BY <1>1, <1>11 DEF submitRecordedQuery, record
<1>12. CASE UNCHANGED vars \/ Exit
  BY <1>1, <1>12 DEF vars, Exit
<1> QED
  BY <1>2, <1>3, <1>4, <1>5, <1>6, <1>7, <1>8, <1>10, <1>11, <1>12 DEF Next

\* The share maps of core.cc stay in step in every program, for every file.
THEOREM ShareMapsStayInStep == Spec => []ShareMapsAgree
<1>1. Init => ShareInv
  <2>1. DOMAIN <<>> = {}
    OBVIOUS
  <2> QED
    BY <2>1 DEF Init, EnrollmentInit, ShareInv, ShareMapsAgree
<1>2. ShareInv => ShareMapsAgree
  BY DEF ShareInv
<1> QED
  BY <1>1, <1>2, ShareInvNext, PTL DEF Spec

----------------------------------------------------------------------------

\* The difference of two positions has an inverse, because it is smaller than
\* every divisor of the modulus.
LEMMA DifferencesInvert ==
    ASSUME NEW M \in {DefaultModulus, PlainModulus}, NEW d \in 1 .. inN - 1
    PROVE  /\ field_mod_inverse(d, M) \in Int
           /\ (field_mod_inverse(d, M) * d) % M = 1
<1>1. M \in Nat \ {0, 1} /\ \A k \in 2 .. inN - 1 : M % k # 0
  BY FieldsOK
<1>2. d \in Nat \ {0} /\ inN \in Nat
  BY inNOK
<1>3. Coprime(M, d)
  <2> SUFFICES ASSUME NEW k \in Nat \ {0, 1}, M % k = 0, d % k = 0 PROVE FALSE
    BY DEF Coprime
  <2>1. PICK q \in Nat : d = k * q
    BY <1>2, NoRemainder
  <2>2. q # 0
    BY <1>2, <2>1
  <2>3. 1 * k <= q * k /\ q * k = d
    BY <2>1, <2>2, MulMono
  <2>4. k \in 2 .. inN - 1
    BY <1>2, <2>3
  <2> QED
    BY <1>1, <2>4
<1> QED
  BY <1>1, <1>2, <1>3, InverseFound

\* After an answer the table has the inverse of every difference.
LEMMA AnswerInverts ==
    ASSUME FieldInv, NEW r, NEW n, Answer(r, n),
           NEW i \in Positions, NEW j \in Positions, i < j
    PROVE  /\ FIELD_MODULUS \in Nat \ {0}
           /\ Inverts(smallDiffInverse(inverses', j - i, FIELD_MODULUS), i, j, FIELD_MODULUS)
<1>1. FIELD_MODULUS \in Nat \ {0}
  BY FieldsOK DEF FieldInv
<1>2. inverses' = InverseTable(FIELD_MODULUS)
  BY DEF Answer, BuiltTable, FieldInv, InversesAreCurrent
<1>3. j - i \in 1 .. inN - 1
  BY inNOK DEF Positions
<1>4. smallDiffInverse(inverses', j - i, FIELD_MODULUS) = field_mod_inverse(j - i, FIELD_MODULUS)
  BY <1>2, <1>3 DEF smallDiffInverse, InverseTable
<1>5. /\ field_mod_inverse(j - i, FIELD_MODULUS) \in Int
      /\ (field_mod_inverse(j - i, FIELD_MODULUS) * (j - i)) % FIELD_MODULUS = 1
  BY <1>3, DifferencesInvert DEF FieldInv
<1> QED
  BY <1>1, <1>4, <1>5 DEF Inverts

\* The pairs and the labels of a round contain those of a row that the query
\* meets twice.
LEMMA PairsHaveMatch ==
    ASSUME FieldInv, NEW r, NEW n, Answer(r, n), NEW set, NEW query, NEW elsewhere,
           NEW part \in set.parts, DOMAIN part \subseteq Nat, NEW k \in DOMAIN part,
           NEW i \in Positions, NEW j \in Positions, i < j,
           Meets(part, set.x, query, k, i), Meets(part, set.x, query, k, j),
           NEW sharing, set.token[part[k]] = sharing,
           sharing.secret = token, sharing.coef \in Int
    PROVE  <<part, <<i, j>>>> \in PairsOf(set, query, elsewhere)
<1> DEFINE e == [h \in {h \in Positions : <<part, h>> \in DOMAIN elsewhere} |->
                   elsewhere[<<part, h>>]]
<1>1. /\ FIELD_MODULUS \in Nat \ {0}
      /\ Inverts(smallDiffInverse(inverses', j - i, FIELD_MODULUS), i, j, FIELD_MODULUS)
  BY AnswerInverts
<1> HIDE DEF e
<1>2. <<i, j>> \in checkPartitionPairs(inverses',
         evalPartition(part, set.x, set.token, query, e, FIELD_MODULUS), FIELD_MODULUS)
  BY <1>1, MatchIsFound
<1>3. Row(set, set.token, part, query, elsewhere)
        = evalPartition(part, set.x, set.token, query, e, FIELD_MODULUS)
  BY DEF Row, e
<1> QED
  BY <1>2, <1>3 DEF PairsOf, Rows

LEMMA LabelsHaveMatch ==
    ASSUME FieldInv, NEW r, NEW n, Answer(r, n), NEW set, NEW query, NEW elsewhere,
           NEW part \in set.parts, DOMAIN part \subseteq Nat, NEW k \in DOMAIN part,
           NEW i \in Positions, NEW j \in Positions, i < j,
           Meets(part, set.x, query, k, i), Meets(part, set.x, query, k, j),
           NEW sharing, set.label[part[k]] = sharing,
           sharing.secret \in Int, sharing.coef \in Int,
           NEW pairs, <<part, <<i, j>>>> \in pairs
    PROVE  sharing.secret % FIELD_MODULUS \in LabelsOf(set, query, elsewhere, pairs)
<1> DEFINE e == [h \in {h \in Positions : <<part, h>> \in DOMAIN elsewhere} |->
                   elsewhere[<<part, h>>]]
           valid_pairs == {p \in Pairs : <<part, p>> \in pairs}
<1>1. /\ FIELD_MODULUS \in Nat \ {0}
      /\ Inverts(smallDiffInverse(inverses', j - i, FIELD_MODULUS), i, j, FIELD_MODULUS)
  BY AnswerInverts
<1>2. <<i, j>> \in valid_pairs
  BY DEF Pairs
<1> HIDE DEF e, valid_pairs
<1>3. sharing.secret % FIELD_MODULUS \in reconstructFromPairs(inverses', valid_pairs,
         evalPartition(part, set.x, set.label, query, e, FIELD_MODULUS), FIELD_MODULUS)
  BY <1>1, <1>2, MatchIsLabelled
<1>4. Row(set, set.label, part, query, elsewhere)
        = evalPartition(part, set.x, set.label, query, e, FIELD_MODULUS)
  BY DEF Row, e
<1> QED
  BY <1>3, <1>4 DEF LabelsOf, Rows, valid_pairs

\* A query meets row k of a partition of a set at two positions, and the shares
\* of that row's id are shares of the token.
Matched(set, query, part, k, i, j) ==
    /\ part \in set.parts /\ DOMAIN part \subseteq Nat /\ k \in DOMAIN part
    /\ Meets(part, set.x, query, k, i) /\ Meets(part, set.x, query, k, j)
TokenShared(set, id) == set.token[id].secret = token /\ set.token[id].coef \in Int
LabelShared(set, id) == set.label[id].secret \in Int /\ set.label[id].coef \in Int

LEMMA MatchIsInPairs ==
    ASSUME FieldInv, NEW r, NEW n, Answer(r, n), NEW set, NEW query, NEW elsewhere,
           NEW part, NEW k, NEW i \in Positions, NEW j \in Positions, i < j,
           Matched(set, query, part, k, i, j), TokenShared(set, part[k])
    PROVE  <<part, <<i, j>>>> \in PairsOf(set, query, elsewhere)
BY PairsHaveMatch DEF Matched, TokenShared

LEMMA MatchIsInLabels ==
    ASSUME FieldInv, NEW r, NEW n, Answer(r, n), NEW set, NEW query, NEW elsewhere,
           NEW part, NEW k, NEW i \in Positions, NEW j \in Positions, i < j,
           Matched(set, query, part, k, i, j), LabelShared(set, part[k]),
           NEW pairs, <<part, <<i, j>>>> \in pairs
    PROVE  set.label[part[k]].secret % FIELD_MODULUS
             \in LabelsOf(set, query, elsewhere, pairs)
BY LabelsHaveMatch DEF Matched, LabelShared

LEMMA FiledIsWhatIsPut ==
    ASSUME NEW r, NEW n, NEW pairs, NEW labels, File(r, n, pairs, labels)
    PROVE  found'[<<r, n>>] = pairs /\ filed'[<<r, n>>] = labels
BY DEF File, Put

\* No answer misses a match: an id whose row a query meets at two positions has
\* its pair among the pairs that are found and its label in the answer, in
\* findMatches and in a token round; in a label round and in the experiment, if
\* it was met in every token round.  The slopes, the values off the rows, the
\* order of the threads and the other rows do not matter.
THEOREM AnswersKeepMatches ==
    ASSUME FieldInv, NEW r, NEW n, Answer(r, n), T \in Nat \ {0},
           NEW part, NEW k, NEW i \in Positions, NEW j \in Positions, i < j,
           NEW set, set = sets[IF Kind(r) = "verify" THEN 1 ELSE r],
           Matched(set, encrypted[n], part, k, i, j), LabelShared(set, part[k]),
           Kind(r) \in {"match", "token"} => TokenShared(set, part[k]),
           Kind(r) = "label" => \A t \in 1 .. T : <<part, <<i, j>>>> \in found[<<t, n>>],
           Kind(r) = "verify" =>
             \A t \in 1 .. T : /\ Matched(sets[t], encrypted[n], part, k, i, j)
                               /\ TokenShared(sets[t], part[k])
    PROVE  /\ <<part, <<i, j>>>> \in found'[<<r, n>>]
           /\ set.label[part[k]].secret % FIELD_MODULUS \in filed'[<<r, n>>]
<1> DEFINE query == encrypted[n]
           pair == <<part, <<i, j>>>>
           label == set.label[part[k]].secret % FIELD_MODULUS
           missed == Missed(set, query)
<1>1. ASSUME NEW ids, NEW pairs, pair \in pairs,
             File(r, n, pairs, LabelsOf(set, query, ids, pairs))
      PROVE  pair \in found'[<<r, n>>] /\ label \in filed'[<<r, n>>]
  <2>1. label \in LabelsOf(set, query, ids, pairs)
    BY <1>1, MatchIsInLabels
  <2>2. found'[<<r, n>>] = pairs /\ filed'[<<r, n>>] = LabelsOf(set, query, ids, pairs)
    BY <1>1, FiledIsWhatIsPut
  <2> QED
    BY <1>1, <2>1, <2>2
<1>2. PICK ids \in [missed -> IdsElsewhere] :
        \/ /\ Kind(r) \in {"match", "token"}
           /\ \E tokens \in [missed -> TokensElsewhere] :
                 LET pairs == PairsOf(set, query, tokens) IN
                 File(r, n, pairs, LabelsOf(set, query, ids, pairs))
        \/ /\ Kind(r) = "label"
           /\ LET pairs == findVerifiedPairs([t \in 1 .. T |-> found[<<t, n>>]]) IN
              File(r, n, pairs, LabelsOf(set, query, ids, pairs))
        \/ /\ Kind(r) = "verify"
           /\ \E tokens \in [1 .. T -> [missed -> TokensElsewhere]] :
                 LET pairs == findVerifiedPairs(
                                [t \in 1 .. T |-> PairsOf(sets[t], query, tokens[t])]) IN
                 File(r, n, pairs, LabelsOf(set, query, ids, pairs))
  BY DEF Answer
<1>3. CASE Kind(r) \in {"match", "token"}
  <2>1. PICK tokens \in [missed -> TokensElsewhere] :
          File(r, n, PairsOf(set, query, tokens),
               LabelsOf(set, query, ids, PairsOf(set, query, tokens)))
    BY <1>2, <1>3
  <2>2. pair \in PairsOf(set, query, tokens)
    BY <1>3, MatchIsInPairs
  <2> QED
    BY <1>1, <2>1, <2>2
<1>4. CASE Kind(r) = "label"
  <2> DEFINE pairs == findVerifiedPairs([t \in 1 .. T |-> found[<<t, n>>]])
  <2>1. File(r, n, pairs, LabelsOf(set, query, ids, pairs))
    BY <1>2, <1>4
  <2>2. pair \in pairs
    BY <1>4, SMTT(30) DEF findVerifiedPairs
  <2> QED
    BY <1>1, <2>1, <2>2
<1>5. CASE Kind(r) = "verify"
  <2>1. PICK tokens \in [1 .. T -> [missed -> TokensElsewhere]] :
          LET pairs == findVerifiedPairs(
                         [t \in 1 .. T |-> PairsOf(sets[t], query, tokens[t])]) IN
          File(r, n, pairs, LabelsOf(set, query, ids, pairs))
    BY <1>2, <1>5
  <2> DEFINE rounds == [t \in 1 .. T |-> PairsOf(sets[t], query, tokens[t])]
             pairs == findVerifiedPairs(rounds)
  <2>2. ASSUME NEW t \in 1 .. T PROVE pair \in rounds[t]
    <3>1. pair \in PairsOf(sets[t], query, tokens[t])
      BY <1>5, MatchIsInPairs
    <3> QED
      BY <3>1
  <2>3. pair \in pairs
    <3>1. DOMAIN rounds = 1 .. T /\ 1 \in 1 .. T
      OBVIOUS
    <3> HIDE DEF rounds
    <3> QED
      BY <2>2, <3>1 DEF findVerifiedPairs
  <2>4. File(r, n, pairs, LabelsOf(set, query, ids, pairs))
    BY <2>1
  <2> QED
    BY <1>1, <2>3, <2>4
<1>6. Kind(r) \in {"match", "token", "label", "verify"}
  BY DEF Kind
<1> QED
  BY <1>3, <1>4, <1>5, <1>6

----------------------------------------------------------------------------
(* The order of the operations of a program                                 *)

Sources == {"generateDatabase", "buildEnrMap", "loadEnrollmentCSV"}
Computes == {"computeCoefficients", "computeTokenSet", "computeLabelSet"}

\* Where an operation stands in its program; 0 where it does not matter.
Phase(op) ==
    IF op \in Sources \cup {"shareAgain"} THEN 1
    ELSE IF op = "generateAesKey" THEN 2
    ELSE IF op = "parallelPartitionDB" THEN (IF program.name = "apps" THEN 6 ELSE 3)
    ELSE IF op \in {"copyQueries", "loadQueryCSV", "chooseProbes"}
      THEN (IF program.name \in {"bench", "csv_run"} THEN 4 ELSE 8)
    ELSE IF op = "blindDatabaseOffline" THEN 5
    ELSE IF op \in {"clearShares", "setShares"}
      THEN (IF program.name = "bench" THEN 6 ELSE IF program.name = "rung_stlpsi" THEN 2 ELSE 7)
    ELSE IF op \in Computes THEN 7
    ELSE IF op = "blindQueries" THEN 9
    ELSE IF op = "encryptQueryPowers" THEN 10
    ELSE IF op \in {"blindForRound", "round"} THEN 11
    ELSE 0

\* The turn of an operation among those of its phase.
Turn(step) ==
    IF step.op = "shareAgain" THEN step.on
    ELSE IF step.op = "clearShares" THEN 3 * step.on - 2
    ELSE IF step.op = "setShares" THEN 3 * step.on - 1
    ELSE IF step.op \in {"computeCoefficients", "computeTokenSet"} THEN 3 * step.on
    ELSE IF step.op = "computeLabelSet" THEN 3 * (T + step.on)
    ELSE IF step.op = "blindForRound" THEN 2 * step.on - 1
    ELSE IF step.op = "round" THEN 2 * step.on
    ELSE 0

Before(a, b) ==
    \/ Phase(a.op) < Phase(b.op)
    \/ Phase(a.op) = Phase(b.op) /\ Turn(a) < Turn(b)

Counted == {"shareAgain", "clearShares", "setShares", "blindForRound", "round"} \cup Computes

IsStep(step) ==
    /\ step = Step(step.op, step.on)
    /\ step.op \in Counted => step.on \in Nat

Elements(s) == {s[k] : k \in DOMAIN s}

InOrder(s) ==
    /\ IsSeq(s)
    /\ \A k \in DOMAIN s : IsStep(s[k])
    /\ \A j, k \in DOMAIN s :
          (j < k /\ Phase(s[j].op) # 0 /\ Phase(s[k].op) # 0) => Before(s[j], s[k])

LEMMA SeqBasics ==
    ASSUME NEW s, IsSeq(s)
    PROVE  /\ Len(s) \in Nat /\ DOMAIN s = 1 .. Len(s)
           /\ s # <<>> => /\ IsSeq(Tail(s)) /\ Len(Tail(s)) = Len(s) - 1 /\ Len(s) > 0
                          /\ Head(s) = s[1]
                          /\ \A k \in 1 .. Len(s) - 1 : Tail(s)[k] = s[k + 1]
<1>1. PICK S : s \in Seq(S)
  BY DEF IsSeq
<1>2. s # <<>> => Tail(s) \in Seq(S) /\ Len(Tail(s)) = Len(s) - 1 /\ Len(s) > 0
  BY <1>1
<1> QED
  BY <1>1, <1>2 DEF IsSeq

LEMMA ConcatBasics ==
    ASSUME NEW s, NEW t, IsSeq(s), IsSeq(t)
    PROVE  /\ IsSeq(s \o t) /\ DOMAIN (s \o t) = 1 .. Len(s) + Len(t)
           /\ \A k \in DOMAIN (s \o t) :
                 (s \o t)[k] = IF k <= Len(s) THEN s[k] ELSE t[k - Len(s)]
<1>1. PICK S : s \in Seq(S)
  BY DEF IsSeq
<1>2. PICK U : t \in Seq(U)
  BY DEF IsSeq
<1>3. s \in Seq(S \cup U) /\ t \in Seq(S \cup U)
  BY <1>1, <1>2
<1>4. s \o t \in Seq(S \cup U) /\ Len(s \o t) = Len(s) + Len(t)
  BY <1>3
<1> QED
  BY <1>3, <1>4 DEF IsSeq

\* The rest of a sequence of operations, and two of them one after the other.
LEMMA TailInOrder ==
    ASSUME NEW s, InOrder(s), s # <<>>
    PROVE  /\ InOrder(Tail(s)) /\ Head(s) \in Elements(s)
           /\ Elements(Tail(s)) \subseteq Elements(s)
           /\ Elements(s) = Elements(Tail(s)) \cup {Head(s)}
           /\ Phase(Head(s).op) # 0 =>
                 \A step \in Elements(Tail(s)) : Phase(step.op) # 0 => Before(Head(s), step)
<1>1. /\ Len(s) \in Nat /\ DOMAIN s = 1 .. Len(s) /\ Len(s) > 0
      /\ IsSeq(Tail(s)) /\ Head(s) = s[1] /\ Len(Tail(s)) = Len(s) - 1
      /\ \A k \in 1 .. Len(s) - 1 : Tail(s)[k] = s[k + 1]
  BY SeqBasics DEF InOrder
<1>2. DOMAIN Tail(s) = 1 .. Len(s) - 1
  BY <1>1, SeqBasics
<1>3. \A k \in DOMAIN Tail(s) : k + 1 \in DOMAIN s /\ Tail(s)[k] = s[k + 1]
  BY <1>1, <1>2
<1>4. InOrder(Tail(s))
  <2>1. ASSUME NEW j \in DOMAIN Tail(s), NEW k \in DOMAIN Tail(s), j < k,
               Phase(Tail(s)[j].op) # 0, Phase(Tail(s)[k].op) # 0
        PROVE  Before(Tail(s)[j], Tail(s)[k])
    <3>1. j + 1 \in DOMAIN s /\ k + 1 \in DOMAIN s /\ j + 1 < k + 1
      BY <1>2, <1>3, <2>1
    <3> QED
      BY <1>3, <2>1, <3>1 DEF InOrder
  <2> QED
    BY <1>1, <1>3, <2>1 DEF InOrder
<1>5. Elements(s) = Elements(Tail(s)) \cup {Head(s)}
  <2>1. ASSUME NEW k \in DOMAIN s, k # 1 PROVE s[k] \in Elements(Tail(s))
    <3>1. k - 1 \in DOMAIN Tail(s) /\ Tail(s)[k - 1] = s[k]
      BY <1>1, <1>2, <2>1
    <3> QED
      BY <3>1 DEF Elements
  <2> QED
    BY <1>1, <1>3, <2>1 DEF Elements
<1>6. ASSUME Phase(Head(s).op) # 0, NEW k \in DOMAIN Tail(s), Phase(Tail(s)[k].op) # 0
      PROVE  Before(Head(s), Tail(s)[k])
  <2>1. k + 1 \in DOMAIN s /\ 1 \in DOMAIN s /\ 1 < k + 1 /\ Tail(s)[k] = s[k + 1]
    BY <1>1, <1>2, <1>3
  <2> QED
    BY <1>1, <1>6, <2>1 DEF InOrder
<1> QED
  BY <1>1, <1>4, <1>5, <1>6 DEF Elements

LEMMA ConcatInOrder ==
    ASSUME NEW s, NEW t, InOrder(s), InOrder(t),
           \A a \in Elements(s), b \in Elements(t) :
              Phase(a.op) # 0 /\ Phase(b.op) # 0 => Before(a, b)
    PROVE  InOrder(s \o t) /\ Elements(s \o t) = Elements(s) \cup Elements(t)
<1> DEFINE u == s \o t
<1>1. /\ Len(s) \in Nat /\ DOMAIN s = 1 .. Len(s) /\ Len(t) \in Nat /\ DOMAIN t = 1 .. Len(t)
      /\ IsSeq(u) /\ DOMAIN u = 1 .. Len(s) + Len(t)
      /\ \A k \in DOMAIN u : u[k] = IF k <= Len(s) THEN s[k] ELSE t[k - Len(s)]
  BY SeqBasics, ConcatBasics DEF InOrder
<1> HIDE DEF u
<1>2. \A k \in DOMAIN u :
         \/ k \in DOMAIN s /\ k <= Len(s) /\ u[k] = s[k]
         \/ k - Len(s) \in DOMAIN t /\ k > Len(s) /\ u[k] = t[k - Len(s)]
  BY <1>1
<1>3. Elements(u) = Elements(s) \cup Elements(t)
  <2>1. \A k \in DOMAIN s : k \in DOMAIN u /\ u[k] = s[k]
    BY <1>1
  <2>2. \A k \in DOMAIN t : k + Len(s) \in DOMAIN u /\ u[k + Len(s)] = t[k]
    BY <1>1
  <2> QED
    BY <1>2, <2>1, <2>2 DEF Elements
<1>4. ASSUME NEW j \in DOMAIN u, NEW k \in DOMAIN u, j < k,
             Phase(u[j].op) # 0, Phase(u[k].op) # 0
      PROVE  Before(u[j], u[k])
  <2>1. CASE k <= Len(s)
    <3>1. j \in DOMAIN s /\ k \in DOMAIN s /\ u[j] = s[j] /\ u[k] = s[k]
      BY <1>1, <1>4, <2>1
    <3> QED
      BY <1>4, <3>1 DEF InOrder
  <2>2. CASE j > Len(s)
    <3>1. /\ j - Len(s) \in DOMAIN t /\ k - Len(s) \in DOMAIN t
          /\ u[j] = t[j - Len(s)] /\ u[k] = t[k - Len(s)]
          /\ j - Len(s) < k - Len(s)
      BY <1>1, <1>4, <2>2
    <3> QED
      BY <1>4, <3>1 DEF InOrder
  <2>3. CASE j <= Len(s) /\ k > Len(s)
    <3>1. u[j] \in Elements(s) /\ u[k] \in Elements(t)
      BY <1>1, <1>2, <2>3 DEF Elements
    <3> QED
      BY <1>4, <3>1
  <2> QED
    BY <1>1, <2>1, <2>2, <2>3
<1>5. \A k \in DOMAIN u : IsStep(u[k])
  BY <1>2 DEF InOrder
<1> QED
  BY <1>1, <1>3, <1>4, <1>5 DEF InOrder, u

----------------------------------------------------------------------------

\* Operations that nothing that comes later depends on.
Quiet == {"recordOfflineStepStart", "recordOfflineStepEnd", "interpolate", "simd_pack",
          "simdPartitions", "finalize"}

\* A part of a program: its operations are those of S, of phases from a to b,
\* and quiet ones.
Part(s, S, a, b) ==
    /\ InOrder(s)
    /\ S \subseteq Elements(s)
    /\ \A step \in Elements(s) : step \in S \/ step.op \in Quiet
    /\ \A step \in S : Phase(step.op) \in a .. b /\ Phase(step.op) # 0

LEMMA PhaseType == \A op : Phase(op) \in 0 .. 11 /\ (op \in Quiet => Phase(op) = 0)
BY DEF Phase, Quiet, Sources, Computes

LEMMA PartOfOne ==
    ASSUME NEW step, IsStep(step), NEW a \in Nat, NEW b \in Nat,
           Phase(step.op) \in a .. b, Phase(step.op) # 0
    PROVE  Part(<<step>>, {step}, a, b)
<1>1. <<step>> \in Seq({step}) /\ DOMAIN <<step>> = {1} /\ <<step>>[1] = step
  OBVIOUS
<1>2. Elements(<<step>>) = {step}
  BY <1>1 DEF Elements
<1>3. IsSeq(<<step>>)
  BY <1>1 DEF IsSeq
<1>4. \A j, k \in {1} : ~(j < k)
  OBVIOUS
<1>5. InOrder(<<step>>)
  BY <1>1, <1>3, <1>4 DEF InOrder
<1> QED
  BY <1>2, <1>5 DEF Part

LEMMA PartOfQuiet ==
    ASSUME NEW op \in Quiet, NEW on
    PROVE  \A a, b : Part(<<Step(op, on)>>, {}, a, b)
<1> DEFINE step == Step(op, on)
<1>1. step.op = op /\ IsStep(step)
  BY DEF Step, IsStep, Quiet, Counted, Computes
<1> HIDE DEF step
<1>2. <<step>> \in Seq({step}) /\ DOMAIN <<step>> = {1} /\ <<step>>[1] = step
  OBVIOUS
<1>3. Elements(<<step>>) = {step}
  BY <1>2 DEF Elements
<1>4. InOrder(<<step>>)
  <2>1. IsSeq(<<step>>)
    BY <1>2 DEF IsSeq
  <2>2. \A j, k \in {1} : ~(j < k)
    OBVIOUS
  <2> QED
    BY <1>1, <1>2, <2>1, <2>2 DEF InOrder
<1>5. \A a, b : Part(<<step>>, {}, a, b)
  BY <1>1, <1>3, <1>4 DEF Part
<1> QED
  BY <1>5 DEF step

LEMMA EmptyPart == \A a, b : Part(<<>>, {}, a, b)
<1>1. <<>> \in Seq({}) /\ DOMAIN <<>> = {}
  OBVIOUS
<1>2. Elements(<<>>) = {}
  BY <1>1 DEF Elements
<1>3. InOrder(<<>>)
  BY <1>1 DEF InOrder, IsSeq
<1> QED
  BY <1>2, <1>3 DEF Part

\* Operations of one phase, counted upwards.
LEMMA PartOfMany ==
    ASSUME NEW n \in Nat, NEW s, s = [k \in 1 .. n |-> s[k]], NEW a \in Nat \ {0},
           \A k \in 1 .. n : IsStep(s[k]) /\ Phase(s[k].op) = a,
           \A j, k \in 1 .. n : j < k => Turn(s[j]) < Turn(s[k])
    PROVE  Part(s, {s[k] : k \in 1 .. n}, a, a)
<1>1. DOMAIN s = 1 .. n
  OBVIOUS
<1>2. s \in Seq({s[k] : k \in 1 .. n})
  <2>1. s \in [1 .. n -> {s[k] : k \in 1 .. n}]
    OBVIOUS
  <2> QED
    BY <2>1, SMTT(30)
<1>3. InOrder(s)
  BY <1>1, <1>2 DEF InOrder, IsSeq, Before
<1>4. Elements(s) = {s[k] : k \in 1 .. n}
  BY <1>1 DEF Elements
<1> QED
  BY <1>3, <1>4 DEF Part

\* Two parts, one after the other: of different phases, or in order anyhow.
LEMMA PartsInOrder ==
    ASSUME NEW s, NEW t, NEW S, NEW U, NEW a \in Nat, NEW b \in Nat, NEW c \in Nat, NEW d \in Nat,
           Part(s, S, a, b), Part(t, U, c, d), a <= b, b <= d, a <= c, c <= d,
           \A x \in S, y \in U : Before(x, y)
    PROVE  Part(s \o t, S \cup U, a, d)
<1>1. \A x \in Elements(s), y \in Elements(t) :
         Phase(x.op) # 0 /\ Phase(y.op) # 0 => Before(x, y)
  BY PhaseType DEF Part
<1>2. InOrder(s \o t) /\ Elements(s \o t) = Elements(s) \cup Elements(t)
  BY <1>1, ConcatInOrder DEF Part
<1>3. ASSUME NEW x \in S \cup U PROVE Phase(x.op) \in a .. d /\ Phase(x.op) # 0
  BY <1>3 DEF Part
<1> QED
  BY <1>2, <1>3 DEF Part

LEMMA PartsJoin ==
    ASSUME NEW s, NEW t, NEW S, NEW U, NEW a \in Nat, NEW b \in Nat, NEW c \in Nat, NEW d \in Nat,
           Part(s, S, a, b), Part(t, U, c, d), a <= b, b < c, c <= d
    PROVE  Part(s \o t, S \cup U, a, d)
<1>1. \A x \in S, y \in U : Before(x, y)
  BY DEF Before, Part
<1> QED
  BY <1>1, PartsInOrder

LEMMA QuietJoin ==
    ASSUME NEW s, NEW t, NEW S, NEW a \in Nat, NEW b \in Nat,
           Part(s, S, a, b), Part(t, {}, a, b), a <= b
    PROVE  Part(s \o t, S, a, b) /\ Part(t \o s, S, a, b)
<1>1. S \cup {} = S /\ {} \cup S = S
  OBVIOUS
<1>2. \A x \in S, y \in {} : Before(x, y) /\ Before(y, x)
  OBVIOUS
<1> QED
  BY <1>1, <1>2, PartsInOrder

\* What is timed, and a quiet sub-step.
LEMMA TimedPart ==
    ASSUME NEW section, NEW s, NEW S, NEW a \in Nat, NEW b \in Nat, Part(s, S, a, b), a <= b
    PROVE  Part(Timed(section, s), S, a, b)
<1>1. /\ Part(<<Step("recordOfflineStepStart", section)>>, {}, a, b)
      /\ Part(<<Step("recordOfflineStepEnd", section)>>, {}, a, b)
  BY PartOfQuiet DEF Quiet
<1>2. Part(<<Step("recordOfflineStepStart", section)>> \o s, S, a, b)
  BY <1>1, QuietJoin
<1>3. Part(<<Step("recordOfflineStepStart", section)>> \o s
             \o <<Step("recordOfflineStepEnd", section)>>, S, a, b)
  BY <1>1, <1>2, QuietJoin
<1> QED
  BY <1>3 DEF Timed

LEMMA SubStepPart ==
    ASSUME NEW op \in Quiet PROVE \A a, b : Part(SubStep(op), {}, a, b)
BY EmptyPart, PartOfQuiet DEF SubStep, Op

LEMMA CountedPart ==
    ASSUME NEW op, Phase(op) # 0, NEW n, op \in Counted => n \in Nat
    PROVE  Part(<<Step(op, n)>>, {Step(op, n)}, Phase(op), Phase(op))
<1>1. IsStep(Step(op, n)) /\ Step(op, n).op = op
  BY DEF IsStep, Step
<1>2. Phase(op) \in Nat /\ Phase(op) \in Phase(op) .. Phase(op)
  BY PhaseType
<1> QED
  BY <1>1, <1>2, PartOfOne

LEMMA OpPart ==
    ASSUME NEW op, Phase(op) # 0
    PROVE  Part(Op(op), {Step(op, 0)}, Phase(op), Phase(op))
BY CountedPart DEF Op

LEMMA TimedOpPart ==
    ASSUME NEW op, Phase(op) # 0, NEW section
    PROVE  Part(Timed(section, Op(op)), {Step(op, 0)}, Phase(op), Phase(op))
<1>1. Phase(op) \in Nat
  BY PhaseType
<1> QED
  BY <1>1, OpPart, TimedPart

LEMMA StepFields ==
    \A op, on : /\ Step(op, on).op = op /\ Step(op, on).on = on
                /\ (op \in Counted => on \in Nat) => IsStep(Step(op, on))
BY DEF Step, IsStep

LEMMA Turns ==
    ASSUME NEW n \in Nat
    PROVE  /\ Turn(Step("shareAgain", n)) = n
           /\ Turn(Step("clearShares", n)) = 3 * n - 2
           /\ Turn(Step("setShares", n)) = 3 * n - 1
           /\ Turn(Step("computeCoefficients", n)) = 3 * n
           /\ Turn(Step("computeTokenSet", n)) = 3 * n
           /\ Turn(Step("computeLabelSet", n)) = 3 * (T + n)
           /\ Turn(Step("blindForRound", n)) = 2 * n - 1
           /\ Turn(Step("round", n)) = 2 * n
BY DEF Step, Turn

LEMMA NoTurn ==
    ASSUME NEW op, op \notin Counted, NEW on
    PROVE  Turn(Step(op, on)) = 0
BY DEF Step, Turn, Counted, Computes

LEMMA TurnsGrow ==
    ASSUME NEW op \in Counted, NEW x \in Nat, NEW y \in Nat, x < y, T \in Int
    PROVE  Turn(Step(op, x)) < Turn(Step(op, y))
<1>1. CASE op = "shareAgain"
  BY <1>1, Turns
<1>2. CASE op \in {"clearShares", "setShares"}
  BY <1>2, Turns
<1>3. CASE op \in {"computeCoefficients", "computeTokenSet"}
  BY <1>3, Turns
<1>4. CASE op = "computeLabelSet"
  <2>1. 3 * (T + x) < 3 * (T + y)
    OBVIOUS
  <2> QED
    BY <1>4, <2>1, Turns
<1>5. CASE op \in {"blindForRound", "round"}
  BY <1>5, Turns
<1> QED
  BY <1>1, <1>2, <1>3, <1>4, <1>5 DEF Counted, Computes

\* n operations of the same kind.
LEMMA PartOfSame ==
    ASSUME NEW op, op \in Counted, Phase(op) # 0, NEW n \in Nat, NEW s,
           DOMAIN s = 1 .. n, s = [k \in 1 .. n |-> s[k]],
           NEW d \in Nat, \A k \in 1 .. n : s[k] = Step(op, k + d), T \in Int,
           NEW S, \A x : x \in S <=> \E k \in 1 .. n : x = Step(op, k + d)
    PROVE  Part(s, S, Phase(op), Phase(op))
<1>1. \A k \in 1 .. n : k + d \in Nat
  OBVIOUS
<1>2. \A k \in 1 .. n : IsStep(s[k]) /\ s[k].op = op
  BY <1>1, StepFields
<1>3. ASSUME NEW j \in 1 .. n, NEW k \in 1 .. n, j < k PROVE Turn(s[j]) < Turn(s[k])
  <2>1. j + d \in Nat /\ k + d \in Nat /\ j + d < k + d
    BY <1>3
  <2> QED
    BY <1>3, <2>1, TurnsGrow
<1>4. {s[k] : k \in 1 .. n} = S
  <2>1. \A x : x \in {s[k] : k \in 1 .. n} <=> \E k \in 1 .. n : x = s[k]
    OBVIOUS
  <2>2. \A x : x \in {s[k] : k \in 1 .. n} <=> x \in S
    BY <2>1
  <2> QED
    BY <2>2
<1>5. Phase(op) \in Nat \ {0}
  BY PhaseType
<1>6. Part(s, {s[k] : k \in 1 .. n}, Phase(op), Phase(op))
  <2>1. \A k \in 1 .. n : IsStep(s[k]) /\ Phase(s[k].op) = Phase(op)
    BY <1>2
  <2>2. \A j, k \in 1 .. n : j < k => Turn(s[j]) < Turn(s[k])
    BY <1>3
  <2> QED
    BY <1>5, <2>1, <2>2, PartOfMany
<1> QED
  BY <1>4, <1>6

----------------------------------------------------------------------------
(* The operations of each program, and that they are in that order          *)

BenchSet ==
    {Step("generateDatabase", 0), Step("generateAesKey", 0), Step("parallelPartitionDB", 0),
     Step("copyQueries", 0), Step("blindDatabaseOffline", 0), Step("setShares", 0),
     Step("computeCoefficients", 1), Step("blindQueries", 0),
     Step("encryptQueryPowers", 0), Step("round", 1)}

CsvRunSet ==
    {Step("loadEnrollmentCSV", 0), Step("parallelPartitionDB", 0), Step("loadQueryCSV", 0),
     Step("computeCoefficients", 1), Step("encryptQueryPowers", 0), Step("round", 1)}

SenderSet ==
    {Step("loadEnrollmentCSV", 0), Step("generateAesKey", 0),
     Step("blindDatabaseOffline", 0), Step("parallelPartitionDB", 0)}
      \cup {Step("shareAgain", t + 1) : t \in 1 .. T - 1}
      \cup IF K > 0 THEN {Step("computeTokenSet", t) : t \in 1 .. T}
                           \cup {Step("computeLabelSet", k) : k \in 1 .. K}
           ELSE {Step("computeCoefficients", 1)}

ReceiverSet ==
    {Step("loadQueryCSV", 0)} \cup {Step("round", k) : k \in 1 .. Rounds}
      \cup IF program.mode = "STLPSI" THEN {Step("blindForRound", k) : k \in 1 .. Rounds}
           ELSE {Step("blindQueries", 0), Step("encryptQueryPowers", 0)}

QueriesSet == {Step("chooseProbes", 0), Step("encryptQueryPowers", 0), Step("round", 1)}

StlpsiSet ==
    {Step("buildEnrMap", 0), Step("clearShares", 1), Step("setShares", 1),
     Step("parallelPartitionDB", 0), Step("computeCoefficients", 1)} \cup QueriesSet

CstpsiSet ==
    {Step("buildEnrMap", 0), Step("parallelPartitionDB", 0)} \cup QueriesSet
      \cup {Step("clearShares", t) : t \in 1 .. T} \cup {Step("setShares", t) : t \in 1 .. T}
      \cup {Step("computeCoefficients", t) : t \in 1 .. T}

LEMMA BenchParts == ASSUME program.name = "bench" PROVE Part(BenchSteps, BenchSet, 1, 11)
<1>0. /\ Phase("generateDatabase") = 1 /\ Phase("generateAesKey") = 2
      /\ Phase("parallelPartitionDB") = 3 /\ Phase("copyQueries") = 4
      /\ Phase("blindDatabaseOffline") = 5 /\ Phase("setShares") = 6
      /\ Phase("computeCoefficients") = 7 /\ Phase("blindQueries") = 9
      /\ Phase("encryptQueryPowers") = 10 /\ Phase("round") = 11
  BY DEF Phase, Sources, Computes
<1>1. Part(Op("generateDatabase"), {Step("generateDatabase", 0)}, 1, 1)
  BY <1>0, OpPart
<1>2. Part(Timed("step_init", Op("generateAesKey")), {Step("generateAesKey", 0)}, 2, 2)
  BY <1>0, TimedOpPart
<1>3. Part(Timed("step_partition", Op("parallelPartitionDB")),
           {Step("parallelPartitionDB", 0)}, 3, 3)
  BY <1>0, TimedOpPart
<1>4. Part(Op("copyQueries"), {Step("copyQueries", 0)}, 4, 4)
  BY <1>0, OpPart
<1>5. Part(Timed("step_blind", Op("blindDatabaseOffline")),
           {Step("blindDatabaseOffline", 0)}, 5, 5)
  BY <1>0, TimedOpPart
<1>6. Part(Timed("step_share", Op("setShares")), {Step("setShares", 0)}, 6, 6)
  BY <1>0, TimedOpPart
<1>7. Part(Timed("step_interp_pack",
               <<Step("computeCoefficients", 1)>> \o SubStep("interpolate")
                 \o Op("simdPartitions") \o SubStep("simd_pack")),
           {Step("computeCoefficients", 1)}, 7, 7)
  <2>1. Part(<<Step("computeCoefficients", 1)>>, {Step("computeCoefficients", 1)}, 7, 7)
    BY <1>0, CountedPart
  <2>2. /\ Part(SubStep("interpolate"), {}, 7, 7) /\ Part(SubStep("simd_pack"), {}, 7, 7)
        /\ Part(Op("simdPartitions"), {}, 7, 7)
    BY SubStepPart, PartOfQuiet DEF Quiet, Op
  <2>3. Part(<<Step("computeCoefficients", 1)>> \o SubStep("interpolate"),
             {Step("computeCoefficients", 1)}, 7, 7)
    BY <2>1, <2>2, QuietJoin
  <2>4. Part(<<Step("computeCoefficients", 1)>> \o SubStep("interpolate")
               \o Op("simdPartitions"), {Step("computeCoefficients", 1)}, 7, 7)
    BY <2>2, <2>3, QuietJoin
  <2>5. Part(<<Step("computeCoefficients", 1)>> \o SubStep("interpolate")
               \o Op("simdPartitions") \o SubStep("simd_pack"),
             {Step("computeCoefficients", 1)}, 7, 7)
    BY <2>2, <2>4, QuietJoin
  <2> QED
    BY <2>5, TimedPart
<1>8. /\ Part(Op("blindQueries"), {Step("blindQueries", 0)}, 9, 9)
      /\ Part(Op("encryptQueryPowers"), {Step("encryptQueryPowers", 0)}, 10, 10)
  BY <1>0, OpPart
<1>9. Part(<<Step("round", 1)>>, {Step("round", 1)}, 11, 11)
  BY <1>0, CountedPart
<1>10. Part(IF program.timed THEN Op("finalize") ELSE <<>>, {}, 1, 11)
  BY EmptyPart, PartOfQuiet DEF Quiet, Op
<1> DEFINE s1 == Op("generateDatabase")
           s2 == Timed("step_init", Op("generateAesKey"))
           s3 == Timed("step_partition", Op("parallelPartitionDB"))
           s45 == CopyAndBlind
           s6 == Timed("step_share", Op("setShares"))
           s7 == Timed("step_interp_pack",
                   <<Step("computeCoefficients", 1)>> \o SubStep("interpolate")
                     \o Op("simdPartitions") \o SubStep("simd_pack"))
           s9 == Op("blindQueries")
           s10 == Op("encryptQueryPowers")
           s11 == <<Step("round", 1)>>
           s12 == IF program.timed THEN Op("finalize") ELSE <<>>
<1>11. Part(s45, {Step("copyQueries", 0)} \cup {Step("blindDatabaseOffline", 0)}, 4, 5)
  BY <1>4, <1>5, PartsJoin DEF CopyAndBlind
<1>12. BenchSteps = s1 \o s2 \o s3 \o s45 \o s6 \o s7 \o s9 \o s10 \o s11 \o s12
  BY DEF BenchSteps
<1> HIDE DEF s1, s2, s3, s45, s6, s7, s9, s10, s11, s12
<1> DEFINE S2 == {Step("generateDatabase", 0)} \cup {Step("generateAesKey", 0)}
           S3 == S2 \cup {Step("parallelPartitionDB", 0)}
           S5 == S3 \cup ({Step("copyQueries", 0)} \cup {Step("blindDatabaseOffline", 0)})
           S6 == S5 \cup {Step("setShares", 0)}
           S7 == S6 \cup {Step("computeCoefficients", 1)}
           S9 == S7 \cup {Step("blindQueries", 0)}
           S10 == S9 \cup {Step("encryptQueryPowers", 0)}
           S11 == S10 \cup {Step("round", 1)}
<1>21. Part(s1 \o s2, S2, 1, 2)
  BY <1>1, <1>2, PartsJoin DEF s1, s2
<1>22. Part(s1 \o s2 \o s3, S3, 1, 3)
  BY <1>21, <1>3, PartsJoin DEF s3
<1>23. Part(s1 \o s2 \o s3 \o s45, S5, 1, 5)
  BY <1>22, <1>11, PartsJoin
<1>24. Part(s1 \o s2 \o s3 \o s45 \o s6, S6, 1, 6)
  BY <1>23, <1>6, PartsJoin DEF s6
<1>25. Part(s1 \o s2 \o s3 \o s45 \o s6 \o s7, S7, 1, 7)
  BY <1>24, <1>7, PartsJoin DEF s7
<1>26. Part(s1 \o s2 \o s3 \o s45 \o s6 \o s7 \o s9, S9, 1, 9)
  BY <1>25, <1>8, PartsJoin DEF s9
<1>27. Part(s1 \o s2 \o s3 \o s45 \o s6 \o s7 \o s9 \o s10, S10, 1, 10)
  BY <1>26, <1>8, PartsJoin DEF s10
<1>28. Part(s1 \o s2 \o s3 \o s45 \o s6 \o s7 \o s9 \o s10 \o s11, S11, 1, 11)
  BY <1>27, <1>9, PartsJoin DEF s11
<1>29. Part(BenchSteps, S11, 1, 11)
  BY <1>12, <1>28, <1>10, QuietJoin DEF s12
<1>30. S11 = BenchSet
  BY DEF BenchSet
<1> QED
  BY <1>29, <1>30

LEMMA CsvRunParts == ASSUME program.name = "csv_run" PROVE Part(CsvRunSteps, CsvRunSet, 1, 11)
<1>0. /\ Phase("loadEnrollmentCSV") = 1 /\ Phase("parallelPartitionDB") = 3
      /\ Phase("loadQueryCSV") = 4 /\ Phase("computeCoefficients") = 7
      /\ Phase("encryptQueryPowers") = 10 /\ Phase("round") = 11
  BY DEF Phase, Sources, Computes
<1> DEFINE s1 == Op("loadEnrollmentCSV")
           s3 == Op("parallelPartitionDB")
           s4 == Op("loadQueryCSV")
           s7 == <<Step("computeCoefficients", 1)>>
           s10 == Op("encryptQueryPowers")
           s11 == <<Step("round", 1)>>
           S3 == {Step("loadEnrollmentCSV", 0)} \cup {Step("parallelPartitionDB", 0)}
           S4 == S3 \cup {Step("loadQueryCSV", 0)}
           S7 == S4 \cup {Step("computeCoefficients", 1)}
           S10 == S7 \cup {Step("encryptQueryPowers", 0)}
           S11 == S10 \cup {Step("round", 1)}
<1>1. /\ Part(s1, {Step("loadEnrollmentCSV", 0)}, 1, 1)
      /\ Part(s3, {Step("parallelPartitionDB", 0)}, 3, 3)
      /\ Part(s4, {Step("loadQueryCSV", 0)}, 4, 4)
      /\ Part(s10, {Step("encryptQueryPowers", 0)}, 10, 10)
  BY <1>0, OpPart
<1>2. /\ Part(s7, {Step("computeCoefficients", 1)}, 7, 7)
      /\ Part(s11, {Step("round", 1)}, 11, 11)
  BY <1>0, CountedPart
<1>3. CsvRunSteps = s1 \o s3 \o s4 \o s7 \o s10 \o s11
  BY DEF CsvRunSteps
<1> HIDE DEF s1, s3, s4, s7, s10, s11
<1>4. Part(s1 \o s3, S3, 1, 3)
  BY <1>1, PartsJoin
<1>5. Part(s1 \o s3 \o s4, S4, 1, 4)
  BY <1>1, <1>4, PartsJoin
<1>6. Part(s1 \o s3 \o s4 \o s7, S7, 1, 7)
  BY <1>2, <1>5, PartsJoin
<1>7. Part(s1 \o s3 \o s4 \o s7 \o s10, S10, 1, 10)
  BY <1>1, <1>6, PartsJoin
<1>8. Part(CsvRunSteps, S11, 1, 11)
  BY <1>2, <1>3, <1>7, PartsJoin
<1>9. S11 = CsvRunSet
  BY DEF CsvRunSet
<1> QED
  BY <1>8, <1>9

LEMMA ConfigTypes ==
    ASSUME program \in Configs
    PROVE  /\ T \in Nat \ {0} /\ K \in Nat /\ Rounds \in Nat \ {0} /\ program.timed \in BOOLEAN
           /\ program.name \in {"bench", "csv_run", "apps", "rung_stlpsi", "rung_cstpsi"}
           /\ program.timed => program.name = "bench"
           /\ K > 0 => program.name = "apps"
BY ConfigsOK DEF T, K, Rounds

LEMMA SenderParts ==
    ASSUME program.name = "apps", program \in Configs PROVE Part(SenderSteps, SenderSet, 1, 7)
<1>0. /\ Phase("loadEnrollmentCSV") = 1 /\ Phase("shareAgain") = 1
      /\ Phase("generateAesKey") = 2 /\ Phase("blindDatabaseOffline") = 5
      /\ Phase("parallelPartitionDB") = 6
      /\ \A op \in Computes : Phase(op) = 7
  BY DEF Phase, Sources, Computes
<1>t. T \in Nat \ {0} /\ K \in Nat
  BY ConfigTypes
<1> DEFINE s1 == Op("loadEnrollmentCSV")
           sa == [t \in 1 .. T - 1 |-> Step("shareAgain", t + 1)]
           s2 == Op("generateAesKey")
           s56 == BlindAndPartition
           st == [t \in 1 .. T |-> Step("computeTokenSet", t)]
           sl == [k \in 1 .. K |-> Step("computeLabelSet", k)]
           s7 == IF K > 0 THEN st \o sl ELSE <<Step("computeCoefficients", 1)>>
           A == {Step("shareAgain", t + 1) : t \in 1 .. T - 1}
           TS == {Step("computeTokenSet", t) : t \in 1 .. T}
           LS == {Step("computeLabelSet", k) : k \in 1 .. K}
           S1 == {Step("loadEnrollmentCSV", 0)} \cup A
           S2 == S1 \cup {Step("generateAesKey", 0)}
           S6 == S2 \cup ({Step("blindDatabaseOffline", 0)} \cup {Step("parallelPartitionDB", 0)})
           S7 == IF K > 0 THEN TS \cup LS ELSE {Step("computeCoefficients", 1)}
<1>1. /\ Part(s1, {Step("loadEnrollmentCSV", 0)}, 1, 1)
      /\ Part(s2, {Step("generateAesKey", 0)}, 2, 2)
      /\ Part(Op("blindDatabaseOffline"), {Step("blindDatabaseOffline", 0)}, 5, 5)
      /\ Part(Op("parallelPartitionDB"), {Step("parallelPartitionDB", 0)}, 6, 6)
  BY <1>0, OpPart
<1>2. Part(s56, {Step("blindDatabaseOffline", 0)} \cup {Step("parallelPartitionDB", 0)}, 5, 6)
  BY <1>1, PartsJoin DEF BlindAndPartition
<1>3. Part(sa, A, 1, 1)
  <2>1. \A t \in 1 .. T - 1 : sa[t] = Step("shareAgain", t + 1)
    OBVIOUS
  <2>2. DOMAIN sa = 1 .. T - 1 /\ sa = [t \in 1 .. T - 1 |-> sa[t]] /\ T - 1 \in Nat
    BY <1>t
  <2>3. \A x : x \in A <=> \E t \in 1 .. T - 1 : x = Step("shareAgain", t + 1)
    OBVIOUS
  <2> HIDE DEF sa, A
  <2>4. Part(sa, A, Phase("shareAgain"), Phase("shareAgain"))
    <3>1. T \in Int /\ Phase("shareAgain") # 0 /\ "shareAgain" \in Counted /\ 1 \in Nat
      BY <1>0, <1>t DEF Counted
    <3> QED
      BY <2>1, <2>2, <2>3, <3>1, PartOfSame
  <2> QED
    BY <1>0, <2>4
<1>4. Part(st, TS, 7, 7)
  <2>1. \A t \in 1 .. T : st[t] = Step("computeTokenSet", t + 0)
    BY <1>t
  <2>2. DOMAIN st = 1 .. T /\ st = [t \in 1 .. T |-> st[t]]
    OBVIOUS
  <2>3. \A x : x \in TS <=> \E t \in 1 .. T : x = Step("computeTokenSet", t + 0)
    BY <1>t
  <2> HIDE DEF st, TS
  <2>4. Part(st, TS, Phase("computeTokenSet"), Phase("computeTokenSet"))
    <3>1. T \in Int /\ Phase("computeTokenSet") # 0 /\ "computeTokenSet" \in Counted /\ 0 \in Nat
      BY <1>0, <1>t DEF Counted, Computes
    <3> QED
      BY <1>t, <2>1, <2>2, <2>3, <3>1, PartOfSame
  <2> QED
    BY <1>0, <2>4 DEF Computes
<1>5. Part(sl, LS, 7, 7)
  <2>1. \A k \in 1 .. K : sl[k] = Step("computeLabelSet", k + 0)
    BY <1>t
  <2>2. DOMAIN sl = 1 .. K /\ sl = [k \in 1 .. K |-> sl[k]]
    OBVIOUS
  <2>3. \A x : x \in LS <=> \E k \in 1 .. K : x = Step("computeLabelSet", k + 0)
    BY <1>t
  <2> HIDE DEF sl, LS
  <2>4. Part(sl, LS, Phase("computeLabelSet"), Phase("computeLabelSet"))
    <3>1. T \in Int /\ Phase("computeLabelSet") # 0 /\ "computeLabelSet" \in Counted /\ 0 \in Nat
      BY <1>0, <1>t DEF Counted, Computes
    <3> QED
      BY <1>t, <2>1, <2>2, <2>3, <3>1, PartOfSame
  <2> QED
    BY <1>0, <2>4 DEF Computes
<1>6. Part(s7, S7, 7, 7)
  <2>1. CASE K > 0
    <3>1. ASSUME NEW x \in TS, NEW y \in LS PROVE Before(x, y)
      <4>1. PICK t \in 1 .. T : x = Step("computeTokenSet", t)
        BY <3>1
      <4>2. PICK k \in 1 .. K : y = Step("computeLabelSet", k)
        BY <3>1
      <4>3. Phase(x.op) = 7 /\ Phase(y.op) = 7
        BY <1>0, <4>1, <4>2 DEF Step, Computes
      <4>4. Turn(x) = 3 * t /\ Turn(y) = 3 * (T + k)
        BY <4>1, <4>2 DEF Step, Turn
      <4> QED
        BY <1>t, <4>3, <4>4 DEF Before
    <3> HIDE DEF st, sl, TS, LS
    <3>2. Part(st \o sl, TS \cup LS, 7, 7)
      BY <1>4, <1>5, <3>1, PartsInOrder
    <3> QED
      BY <2>1, <3>2
  <2>2. CASE ~(K > 0)
    <3>1. Part(<<Step("computeCoefficients", 1)>>, {Step("computeCoefficients", 1)}, 7, 7)
      BY <1>0, CountedPart DEF Computes
    <3> QED
      BY <2>2, <3>1
  <2> QED
    BY <2>1, <2>2
<1>7. Part(s1 \o sa, S1, 1, 1)
  <2>1. ASSUME NEW x \in {Step("loadEnrollmentCSV", 0)}, NEW y \in A PROVE Before(x, y)
    <3>1. PICK t \in 1 .. T - 1 : y = Step("shareAgain", t + 1)
      BY <2>1
    <3>2. x = Step("loadEnrollmentCSV", 0)
      BY <2>1
    <3>3. Phase(x.op) = 1 /\ Phase(y.op) = 1 /\ Turn(x) = 0 /\ Turn(y) = t + 1
      BY <1>0, <3>1, <3>2 DEF Turn, Step
    <3> QED
      BY <1>t, <3>3 DEF Before
  <2> HIDE DEF s1, sa, A
  <2> QED
    BY <1>1, <1>3, <2>1, PartsInOrder
<1>8. SenderSteps = s1 \o sa \o s2 \o s56 \o s7
  BY DEF SenderSteps
<1> HIDE DEF s1, sa, s2, s56, st, sl, s7, S1, S7
<1>9. Part(s1 \o sa \o s2, S2, 1, 2)
  BY <1>1, <1>7, PartsJoin
<1>10. Part(s1 \o sa \o s2 \o s56, S6, 1, 6)
  BY <1>2, <1>9, PartsJoin
<1>11. Part(SenderSteps, S6 \cup S7, 1, 7)
  BY <1>6, <1>8, <1>10, PartsJoin
<1>12. S6 \cup S7 = SenderSet
  BY DEF SenderSet, S1, S7
<1> QED
  BY <1>11, <1>12

\* The rounds, each after its blinding in STLPSI mode.
LEMMA RoundParts ==
    ASSUME program \in Configs
    PROVE  /\ Part([k \in 1 .. Rounds |-> Step("round", k)],
                   {Step("round", k) : k \in 1 .. Rounds}, 11, 11)
           /\ Part([s \in 1 .. 2 * Rounds |->
                      Step(IF s % 2 = 1 THEN "blindForRound" ELSE "round", (s + 1) \div 2)],
                   {Step("round", k) : k \in 1 .. Rounds}
                     \cup {Step("blindForRound", k) : k \in 1 .. Rounds}, 11, 11)
<1>t. Rounds \in Nat \ {0} /\ T \in Int
  BY ConfigTypes
<1>0. Phase("round") = 11 /\ Phase("blindForRound") = 11
  BY DEF Phase, Sources, Computes
<1>c. "round" \in Counted /\ "blindForRound" \in Counted
  BY DEF Counted
<1> DEFINE f == [k \in 1 .. Rounds |-> Step("round", k)]
           R == {Step("round", k) : k \in 1 .. Rounds}
           B == {Step("blindForRound", k) : k \in 1 .. Rounds}
           g == [s \in 1 .. 2 * Rounds |->
                   Step(IF s % 2 = 1 THEN "blindForRound" ELSE "round", (s + 1) \div 2)]
<1>1. Part(f, R, 11, 11)
  <2>1. \A k \in 1 .. Rounds : f[k] = Step("round", k + 0)
    BY <1>t
  <2>2. DOMAIN f = 1 .. Rounds /\ f = [k \in 1 .. Rounds |-> f[k]]
    OBVIOUS
  <2>3. \A x : x \in R <=> \E k \in 1 .. Rounds : x = Step("round", k + 0)
    BY <1>t
  <2> HIDE DEF f, R
  <2>4. Part(f, R, Phase("round"), Phase("round"))
    <3>1. T \in Int /\ Phase("round") # 0 /\ "round" \in Counted /\ 0 \in Nat
      BY <1>0, <1>t, <1>c
    <3> QED
      BY <1>t, <2>1, <2>2, <2>3, <3>1, PartOfSame
  <2> QED
    BY <1>0, <2>4
<1>2. Part(g, R \cup B, 11, 11)
  <2>1. \A s \in 1 .. 2 * Rounds :
           g[s] = Step(IF s % 2 = 1 THEN "blindForRound" ELSE "round", (s + 1) \div 2)
    OBVIOUS
  <2>2. DOMAIN g = 1 .. 2 * Rounds /\ g = [s \in 1 .. 2 * Rounds |-> g[s]]
        /\ 2 * Rounds \in Nat
    BY <1>t
  <2>r. \A x : x \in R <=> \E k \in 1 .. Rounds : x = Step("round", k)
    OBVIOUS
  <2>b. \A x : x \in B <=> \E k \in 1 .. Rounds : x = Step("blindForRound", k)
    OBVIOUS
  <2> HIDE DEF g, R, B
  <2>3. ASSUME NEW s \in 1 .. 2 * Rounds
        PROVE  \E k \in 1 .. Rounds :
                  \/ s = 2 * k - 1 /\ g[s] = Step("blindForRound", k)
                  \/ s = 2 * k /\ g[s] = Step("round", k)
    <3>1. s \in Nat /\ (s + 1) \div 2 \in 1 .. Rounds
      BY <1>t
    <3>2. CASE s % 2 = 1
      <4>1. s = 2 * ((s + 1) \div 2) - 1
        BY <3>1, <3>2
      <4>2. g[s] = Step("blindForRound", (s + 1) \div 2)
        BY <2>1, <3>2
      <4> QED
        BY <3>1, <4>1, <4>2
    <3>3. CASE s % 2 # 1
      <4>1. s = 2 * ((s + 1) \div 2)
        BY <3>1, <3>3
      <4>2. g[s] = Step("round", (s + 1) \div 2)
        BY <2>1, <3>3
      <4> QED
        BY <3>1, <4>1, <4>2
    <3> QED
      BY <3>2, <3>3
  <2>4. ASSUME NEW s \in 1 .. 2 * Rounds
        PROVE  IsStep(g[s]) /\ Phase(g[s].op) = 11 /\ Turn(g[s]) = s
    <3>1. PICK k \in 1 .. Rounds :
                  \/ s = 2 * k - 1 /\ g[s] = Step("blindForRound", k)
                  \/ s = 2 * k /\ g[s] = Step("round", k)
      BY <2>3
    <3>2. k \in Nat
      BY <1>t
    <3>3. CASE s = 2 * k - 1 /\ g[s] = Step("blindForRound", k)
      <4>1. IsStep(Step("blindForRound", k)) /\ Step("blindForRound", k).op = "blindForRound"
        BY <3>2, StepFields
      <4>2. Turn(Step("blindForRound", k)) = 2 * k - 1
        BY <3>2, Turns
      <4> QED
        BY <1>0, <3>3, <4>1, <4>2
    <3>4. CASE s = 2 * k /\ g[s] = Step("round", k)
      <4>1. IsStep(Step("round", k)) /\ Step("round", k).op = "round"
        BY <3>2, StepFields
      <4>2. Turn(Step("round", k)) = 2 * k
        BY <3>2, Turns
      <4> QED
        BY <1>0, <3>4, <4>1, <4>2
    <3> QED
      BY <3>1, <3>3, <3>4
  <2>5. Part(g, {g[s] : s \in 1 .. 2 * Rounds}, 11, 11)
    <3>1. \A s \in 1 .. 2 * Rounds : IsStep(g[s]) /\ Phase(g[s].op) = 11
      BY <2>4
    <3>2. \A j, k \in 1 .. 2 * Rounds : j < k => Turn(g[j]) < Turn(g[k])
      BY <2>4
    <3> QED
      BY <2>2, <3>1, <3>2, PartOfMany
  <2>6. {g[s] : s \in 1 .. 2 * Rounds} = R \cup B
    <3>1. ASSUME NEW k \in 1 .. Rounds
          PROVE  /\ \E s \in 1 .. 2 * Rounds : g[s] = Step("blindForRound", k)
                 /\ \E s \in 1 .. 2 * Rounds : g[s] = Step("round", k)
      <4>1. /\ 2 * k \in 1 .. 2 * Rounds /\ 2 * k - 1 \in 1 .. 2 * Rounds
            /\ (2 * k) % 2 = 0 /\ (2 * k + 1) \div 2 = k
            /\ (2 * k - 1) % 2 = 1 /\ (2 * k - 1 + 1) \div 2 = k
        BY <1>t
      <4>2. g[2 * k] = Step("round", k)
        <5>1. g[2 * k] = Step(IF (2 * k) % 2 = 1 THEN "blindForRound" ELSE "round",
                              (2 * k + 1) \div 2)
          BY <2>1, <4>1
        <5> QED
          BY <4>1, <5>1
      <4>3. g[2 * k - 1] = Step("blindForRound", k)
        <5>1. g[2 * k - 1] = Step(IF (2 * k - 1) % 2 = 1 THEN "blindForRound" ELSE "round",
                                  (2 * k - 1 + 1) \div 2)
          BY <2>1, <4>1
        <5> QED
          BY <4>1, <5>1
      <4> QED
        BY <4>1, <4>2, <4>3
    <3>2. \A x : x \in R \cup B => \E s \in 1 .. 2 * Rounds : x = g[s]
      BY <2>r, <2>b, <3>1
    <3>3. \A s \in 1 .. 2 * Rounds : g[s] \in R \cup B
      BY <2>3, <2>r, <2>b
    <3> QED
      BY <3>2, <3>3
  <2> QED
    BY <2>5, <2>6
<1> QED
  BY <1>1, <1>2

LEMMA ReceiverParts ==
    ASSUME program.name = "apps", program \in Configs
    PROVE  Part(ReceiverSteps, ReceiverSet, 8, 11)
<1>0. /\ Phase("loadQueryCSV") = 8 /\ Phase("blindQueries") = 9
      /\ Phase("encryptQueryPowers") = 10
  BY DEF Phase, Sources, Computes
<1>1. /\ Part(Op("loadQueryCSV"), {Step("loadQueryCSV", 0)}, 8, 8)
      /\ Part(Op("blindQueries"), {Step("blindQueries", 0)}, 9, 9)
      /\ Part(Op("encryptQueryPowers"), {Step("encryptQueryPowers", 0)}, 10, 10)
  BY <1>0, OpPart
<1> DEFINE s1 == Op("loadQueryCSV")
           s2 == Op("blindQueries")
           s3 == Op("encryptQueryPowers")
           f == [k \in 1 .. Rounds |-> Step("round", k)]
           R == {Step("round", k) : k \in 1 .. Rounds}
           B == {Step("blindForRound", k) : k \in 1 .. Rounds}
           g == [s \in 1 .. 2 * Rounds |->
                   Step(IF s % 2 = 1 THEN "blindForRound" ELSE "round", (s + 1) \div 2)]
           S3 == {Step("blindQueries", 0)} \cup {Step("encryptQueryPowers", 0)}
<1>2. Part(f, R, 11, 11) /\ Part(g, R \cup B, 11, 11)
  BY RoundParts
<1>3. ReceiverSteps = s1 \o IF program.mode = "STLPSI" THEN g ELSE s2 \o s3 \o f
  BY DEF ReceiverSteps
<1>4. ReceiverSet = {Step("loadQueryCSV", 0)} \cup R \cup
         IF program.mode = "STLPSI" THEN B ELSE S3
  BY DEF ReceiverSet
<1> HIDE DEF s1, s2, s3, f, g, R, B
<1>5. CASE program.mode = "STLPSI"
  <2>1. Part(s1 \o g, {Step("loadQueryCSV", 0)} \cup (R \cup B), 8, 11)
    BY <1>1, <1>2, PartsJoin DEF s1
  <2>2. ReceiverSet = {Step("loadQueryCSV", 0)} \cup (R \cup B) /\ ReceiverSteps = s1 \o g
    BY <1>3, <1>4, <1>5
  <2> QED
    BY <2>1, <2>2
<1>6. CASE program.mode # "STLPSI"
  <2>1. Part(s2 \o s3, S3, 9, 10)
    BY <1>1, PartsJoin DEF s2, s3
  <2>2. Part(s2 \o s3 \o f, S3 \cup R, 9, 11)
    BY <1>2, <2>1, PartsJoin
  <2>3. Part(s1 \o (s2 \o s3 \o f), {Step("loadQueryCSV", 0)} \cup (S3 \cup R), 8, 11)
    BY <1>1, <2>2, PartsJoin DEF s1
  <2>4. ReceiverSet = {Step("loadQueryCSV", 0)} \cup (S3 \cup R)
        /\ ReceiverSteps = s1 \o (s2 \o s3 \o f)
    BY <1>3, <1>4, <1>6
  <2> QED
    BY <2>3, <2>4
<1> QED
  BY <1>5, <1>6

LEMMA QueriesParts ==
    ASSUME program.name \in {"rung_stlpsi", "rung_cstpsi"}
    PROVE  Part(RungQueries, QueriesSet, 8, 11)
<1>0. /\ Phase("chooseProbes") = 8 /\ Phase("encryptQueryPowers") = 10
      /\ Phase("round") = 11
  BY DEF Phase, Sources, Computes
<1> DEFINE s8 == Op("chooseProbes")
           s10 == Op("encryptQueryPowers")
           s11 == <<Step("round", 1)>>
<1>1. /\ Part(s8, {Step("chooseProbes", 0)}, 8, 8)
      /\ Part(s10, {Step("encryptQueryPowers", 0)}, 10, 10)
      /\ Part(s11, {Step("round", 1)}, 11, 11)
  BY <1>0, OpPart, CountedPart
<1>2. RungQueries = s8 \o s10 \o s11
  BY DEF RungQueries
<1> HIDE DEF s8, s10, s11
<1>3. Part(s8 \o s10, {Step("chooseProbes", 0)} \cup {Step("encryptQueryPowers", 0)}, 8, 10)
  BY <1>1, PartsJoin
<1>4. Part(RungQueries, {Step("chooseProbes", 0)} \cup {Step("encryptQueryPowers", 0)}
                          \cup {Step("round", 1)}, 8, 11)
  BY <1>1, <1>2, <1>3, PartsJoin
<1>5. {Step("chooseProbes", 0)} \cup {Step("encryptQueryPowers", 0)} \cup {Step("round", 1)}
        = QueriesSet
  BY DEF QueriesSet
<1> QED
  BY <1>4, <1>5

LEMMA StlpsiParts ==
    ASSUME program.name = "rung_stlpsi"
    PROVE  Part(StlpsiRung \o RungQueries, StlpsiSet, 1, 11)
<1>0. /\ Phase("buildEnrMap") = 1 /\ Phase("clearShares") = 2 /\ Phase("setShares") = 2
      /\ Phase("parallelPartitionDB") = 3 /\ Phase("computeCoefficients") = 7
  BY DEF Phase, Sources, Computes
<1> DEFINE s1 == Op("buildEnrMap")
           s3 == Op("parallelPartitionDB")
           s7 == <<Step("computeCoefficients", 1)>>
           c == <<Step("clearShares", 1)>>
           d == <<Step("setShares", 1)>>
           S2 == {Step("buildEnrMap", 0)}
                   \cup ({Step("clearShares", 1)} \cup {Step("setShares", 1)})
           S3 == S2 \cup {Step("parallelPartitionDB", 0)}
           S7 == S3 \cup {Step("computeCoefficients", 1)}
<1>1. /\ Part(s1, {Step("buildEnrMap", 0)}, 1, 1)
      /\ Part(s3, {Step("parallelPartitionDB", 0)}, 3, 3)
  BY <1>0, OpPart
<1>2. /\ Part(s7, {Step("computeCoefficients", 1)}, 7, 7)
      /\ Part(c, {Step("clearShares", 1)}, 2, 2) /\ Part(d, {Step("setShares", 1)}, 2, 2)
  BY <1>0, CountedPart
<1>3. FreshShares(1) = c \o d
  BY DEF FreshShares
<1>4. StlpsiRung = s1 \o FreshShares(1) \o s3 \o s7
  BY DEF StlpsiRung
<1>5. Before(Step("clearShares", 1), Step("setShares", 1))
  <2>1. Turn(Step("clearShares", 1)) = 1 /\ Turn(Step("setShares", 1)) = 2
    BY Turns
  <2> QED
    BY <1>0, <2>1, StepFields DEF Before
<1> HIDE DEF s1, s3, s7, c, d
<1>6. Part(c \o d, {Step("clearShares", 1)} \cup {Step("setShares", 1)}, 2, 2)
  BY <1>2, <1>5, PartsInOrder
<1>7. Part(s1 \o (c \o d), S2, 1, 2)
  BY <1>1, <1>6, PartsJoin
<1>8. Part(s1 \o (c \o d) \o s3, S3, 1, 3)
  BY <1>1, <1>7, PartsJoin
<1>9. Part(s1 \o (c \o d) \o s3 \o s7, S7, 1, 7)
  BY <1>2, <1>8, PartsJoin
<1>10. Part(StlpsiRung \o RungQueries, S7 \cup QueriesSet, 1, 11)
  <2>1. Part(RungQueries, QueriesSet, 8, 11)
    BY QueriesParts
  <2>2. Part(StlpsiRung, S7, 1, 7)
    BY <1>3, <1>4, <1>9
  <2> HIDE DEF S7
  <2> QED
    BY <2>1, <2>2, PartsJoin
<1>11. S7 \cup QueriesSet = StlpsiSet
  <2> HIDE DEF QueriesSet
  <2> QED
    BY DEF StlpsiSet
<1> QED
  BY <1>10, <1>11

LEMMA CstpsiParts ==
    ASSUME program.name = "rung_cstpsi", program \in Configs
    PROVE  Part(CstpsiRung \o RungQueries, CstpsiSet, 1, 11)
<1>t. T \in Nat \ {0} /\ T \in Int
  BY ConfigTypes
<1>0. /\ Phase("buildEnrMap") = 1 /\ Phase("clearShares") = 7 /\ Phase("setShares") = 7
      /\ Phase("parallelPartitionDB") = 3 /\ Phase("computeCoefficients") = 7
  BY DEF Phase, Sources, Computes
<1> DEFINE s1 == Op("buildEnrMap")
           s3 == Op("parallelPartitionDB")
           g == [s \in 1 .. 3 * T |-> LET t == (s + 2) \div 3 IN
                   IF s % 3 = 0 THEN Step("computeCoefficients", t) ELSE FreshShares(t)[s % 3]]
           C == {Step("clearShares", t) : t \in 1 .. T}
           D == {Step("setShares", t) : t \in 1 .. T}
           E == {Step("computeCoefficients", t) : t \in 1 .. T}
           S3 == {Step("buildEnrMap", 0)} \cup {Step("parallelPartitionDB", 0)}
<1>1. /\ Part(s1, {Step("buildEnrMap", 0)}, 1, 1)
      /\ Part(s3, {Step("parallelPartitionDB", 0)}, 3, 3)
  BY <1>0, OpPart
<1>2. Part(g, C \cup D \cup E, 7, 7)
  <2>1. ASSUME NEW s \in 1 .. 3 * T
        PROVE  \E t \in 1 .. T :
                  \/ s = 3 * t - 2 /\ g[s] = Step("clearShares", t)
                  \/ s = 3 * t - 1 /\ g[s] = Step("setShares", t)
                  \/ s = 3 * t /\ g[s] = Step("computeCoefficients", t)
    <3> DEFINE t == (s + 2) \div 3
    <3>1. s \in Nat /\ t \in 1 .. T /\ s % 3 \in 0 .. 2
      BY <1>t
    <3>2. g[s] = IF s % 3 = 0 THEN Step("computeCoefficients", t) ELSE FreshShares(t)[s % 3]
      OBVIOUS
    <3>3. CASE s % 3 = 0
      <4>1. s = 3 * t
        BY <3>1, <3>3
      <4> HIDE DEF t, g
      <4> QED
        BY <3>1, <3>2, <3>3, <4>1
    <3>4. CASE s % 3 = 1
      <4>1. s = 3 * t - 2
        BY <3>1, <3>4
      <4> HIDE DEF t, g
      <4>2. g[s] = Step("clearShares", t)
        BY <3>2, <3>4 DEF FreshShares
      <4> QED
        BY <3>1, <4>1, <4>2
    <3>5. CASE s % 3 = 2
      <4>1. s = 3 * t - 1
        BY <3>1, <3>5
      <4> HIDE DEF t, g
      <4>2. g[s] = Step("setShares", t)
        BY <3>2, <3>5 DEF FreshShares
      <4> QED
        BY <3>1, <4>1, <4>2
    <3> QED
      BY <3>1, <3>3, <3>4, <3>5
  <2>2. ASSUME NEW t \in 1 .. T
        PROVE  /\ 3 * t - 2 \in 1 .. 3 * T /\ g[3 * t - 2] = Step("clearShares", t)
               /\ 3 * t - 1 \in 1 .. 3 * T /\ g[3 * t - 1] = Step("setShares", t)
               /\ 3 * t \in 1 .. 3 * T /\ g[3 * t] = Step("computeCoefficients", t)
    <3>1. /\ 3 * t - 2 \in 1 .. 3 * T /\ 3 * t - 1 \in 1 .. 3 * T /\ 3 * t \in 1 .. 3 * T
          /\ t \in Nat
      BY <1>t
    <3>2. PICK a \in 1 .. T :
             \/ 3 * t - 2 = 3 * a - 2 /\ g[3 * t - 2] = Step("clearShares", a)
             \/ 3 * t - 2 = 3 * a - 1 /\ g[3 * t - 2] = Step("setShares", a)
             \/ 3 * t - 2 = 3 * a /\ g[3 * t - 2] = Step("computeCoefficients", a)
      BY <2>1, <3>1
    <3>3. PICK b \in 1 .. T :
             \/ 3 * t - 1 = 3 * b - 2 /\ g[3 * t - 1] = Step("clearShares", b)
             \/ 3 * t - 1 = 3 * b - 1 /\ g[3 * t - 1] = Step("setShares", b)
             \/ 3 * t - 1 = 3 * b /\ g[3 * t - 1] = Step("computeCoefficients", b)
      BY <2>1, <3>1
    <3>4. PICK c \in 1 .. T :
             \/ 3 * t = 3 * c - 2 /\ g[3 * t] = Step("clearShares", c)
             \/ 3 * t = 3 * c - 1 /\ g[3 * t] = Step("setShares", c)
             \/ 3 * t = 3 * c /\ g[3 * t] = Step("computeCoefficients", c)
      BY <2>1, <3>1
    <3> HIDE DEF g
    <3>5. a = t /\ b = t /\ c = t
      BY <1>t, <3>2, <3>3, <3>4
    <3>6. /\ g[3 * t - 2] = Step("clearShares", t)
          /\ g[3 * t - 1] = Step("setShares", t)
          /\ g[3 * t] = Step("computeCoefficients", t)
      BY <1>t, <3>2, <3>3, <3>4, <3>5
    <3> QED
      BY <3>1, <3>6
  <2>3. /\ DOMAIN g = 1 .. 3 * T /\ g = [s \in 1 .. 3 * T |-> g[s]]
        /\ 3 * T \in Nat
    BY <1>t
  <2>c. \A x : x \in C <=> \E t \in 1 .. T : x = Step("clearShares", t)
    OBVIOUS
  <2>d. \A x : x \in D <=> \E t \in 1 .. T : x = Step("setShares", t)
    OBVIOUS
  <2>e. \A x : x \in E <=> \E t \in 1 .. T : x = Step("computeCoefficients", t)
    OBVIOUS
  <2> HIDE DEF g, C, D, E
  <2>4. ASSUME NEW s \in 1 .. 3 * T
        PROVE  IsStep(g[s]) /\ Phase(g[s].op) = 7 /\ Turn(g[s]) = s
    <3>1. PICK t \in 1 .. T :
                  \/ s = 3 * t - 2 /\ g[s] = Step("clearShares", t)
                  \/ s = 3 * t - 1 /\ g[s] = Step("setShares", t)
                  \/ s = 3 * t /\ g[s] = Step("computeCoefficients", t)
      BY <2>1
    <3>2. t \in Nat
      BY <1>t
    <3>3. /\ Turn(Step("clearShares", t)) = 3 * t - 2
          /\ Turn(Step("setShares", t)) = 3 * t - 1
          /\ Turn(Step("computeCoefficients", t)) = 3 * t
      BY <3>2, Turns
    <3>4. \A op \in {"clearShares", "setShares", "computeCoefficients"} :
             IsStep(Step(op, t)) /\ Step(op, t).op = op
      BY <3>2, StepFields
    <3>5. g[s].op \in {"clearShares", "setShares", "computeCoefficients"} /\ IsStep(g[s])
      BY <3>1, <3>4
    <3>6. Turn(g[s]) = s
      BY <3>1, <3>3
    <3> QED
      BY <1>0, <3>5, <3>6
  <2>5. Part(g, {g[s] : s \in 1 .. 3 * T}, 7, 7)
    <3>1. \A s \in 1 .. 3 * T : IsStep(g[s]) /\ Phase(g[s].op) = 7
      BY <2>4
    <3>2. \A j, k \in 1 .. 3 * T : j < k => Turn(g[j]) < Turn(g[k])
      BY <2>4
    <3> QED
      BY <2>3, <3>1, <3>2, PartOfMany
  <2>6. {g[s] : s \in 1 .. 3 * T} = C \cup D \cup E
    <3>1. \A x : x \in C \cup D \cup E => \E s \in 1 .. 3 * T : x = g[s]
      BY <2>2, <2>c, <2>d, <2>e
    <3>2. \A s \in 1 .. 3 * T : g[s] \in C \cup D \cup E
      BY <2>1, <2>c, <2>d, <2>e
    <3> QED
      BY <3>1, <3>2
  <2> QED
    BY <2>5, <2>6
<1>3. CstpsiRung = s1 \o s3 \o g
  BY DEF CstpsiRung
<1>q. Part(RungQueries, QueriesSet, 8, 11)
  BY QueriesParts
<1>6. S3 \cup (C \cup D \cup E) \cup QueriesSet = CstpsiSet
  <2> HIDE DEF C, D, E
  <2>1. CstpsiSet = {Step("buildEnrMap", 0), Step("parallelPartitionDB", 0)} \cup QueriesSet
                      \cup C \cup D \cup E
    BY DEF CstpsiSet, C, D, E
  <2> HIDE DEF QueriesSet
  <2> QED
    BY <2>1
<1> HIDE DEF s1, s3, g, C, D, E
<1>4. Part(s1 \o s3, S3, 1, 3)
  BY <1>1, PartsJoin
<1>5. Part(CstpsiRung, S3 \cup (C \cup D \cup E), 1, 7)
  BY <1>2, <1>3, <1>4, PartsJoin
<1> DEFINE S7 == S3 \cup (C \cup D \cup E)
<1> HIDE DEF S7
<1>7. Part(CstpsiRung \o RungQueries, S7 \cup QueriesSet, 1, 11)
  BY <1>5, <1>q, PartsJoin DEF S7
<1> QED
  BY <1>6, <1>7 DEF S7

\* The operations of the program that runs.
StepSet ==
    IF program.name = "bench" THEN BenchSet
    ELSE IF program.name = "csv_run" THEN CsvRunSet
    ELSE IF program.name = "apps" THEN SenderSet \cup ReceiverSet
    ELSE IF program.name = "rung_stlpsi" THEN StlpsiSet
    ELSE CstpsiSet

LEMMA StepsParts ==
    ASSUME program \in Configs
    PROVE  Part(Steps, StepSet, 1, 11)
<1>1. CASE program.name = "bench"
  <2>1. Steps = BenchSteps /\ StepSet = BenchSet
    BY <1>1 DEF Steps, StepSet
  <2> QED
    BY <1>1, <2>1, BenchParts
<1>2. CASE program.name = "csv_run"
  <2>1. Steps = CsvRunSteps /\ StepSet = CsvRunSet
    BY <1>2 DEF Steps, StepSet
  <2> QED
    BY <1>2, <2>1, CsvRunParts
<1>3. CASE program.name = "apps"
  <2>1. Steps = SenderSteps \o ReceiverSteps /\ StepSet = SenderSet \cup ReceiverSet
    BY <1>3 DEF Steps, StepSet
  <2>2. Part(SenderSteps, SenderSet, 1, 7) /\ Part(ReceiverSteps, ReceiverSet, 8, 11)
    BY <1>3, SenderParts, ReceiverParts
  <2> QED
    BY <2>1, <2>2, PartsJoin
<1>4. CASE program.name = "rung_stlpsi"
  <2>1. Steps = StlpsiRung \o RungQueries /\ StepSet = StlpsiSet
    BY <1>4 DEF Steps, StepSet
  <2> QED
    BY <1>4, <2>1, StlpsiParts
<1>5. CASE program.name = "rung_cstpsi"
  <2>1. Steps = CstpsiRung \o RungQueries /\ StepSet = CstpsiSet
    BY <1>5 DEF Steps, StepSet
  <2> QED
    BY <1>5, <2>1, CstpsiParts
<1> QED
  BY <1>1, <1>2, <1>3, <1>4, <1>5, ConfigTypes

----------------------------------------------------------------------------
(* What is left to do                                                       *)

Pending(op) == \E step \in Elements(todo) : step.op = op
Undone(op) == ~started \/ Pending(op)

\* Nothing of a phase up to p is left.
Past(p) == started /\ \A step \in Elements(todo) : Phase(step.op) = 0 \/ Phase(step.op) > p

OrderInv ==
    /\ program \in Configs
    /\ parseArgs(program)
    /\ InOrder(todo)
    /\ \A step \in Elements(todo) : Phase(step.op) # 0 => step \in StepSet
    /\ ~started => todo = <<>>

\* Every step but the one that dies where nobody is enrolled.  What is shown of
\* these holds until that step, and after it nothing happens any more (Starved).
Lives == Next /\ ~seedWithoutIds

\* What a step may do to the operations that are left.
Begins == ~started /\ started' /\ todo' = Steps /\ crashed' = crashed
Goes == started /\ started' /\ todo # <<>> /\ todo' = Tail(todo) /\ crashed' = crashed
Dies == started /\ started' /\ todo' = <<>> /\ crashed' /\ \E op \in Computes : Doing(op)
Records ==
    /\ started /\ started' /\ crashed' = crashed
    /\ Doing("round") /\ program.timed
    /\ \E n \in Unanswered(On) : todo' = RecordedQuery(n) \o todo
Rests == UNCHANGED <<started, todo, crashed>>

LEMMA TodoSteps ==
    ASSUME [Lives]_vars, started \in BOOLEAN
    PROVE  /\ program' = program /\ db_file' = db_file
           /\ Begins \/ Goes \/ Dies \/ Records \/ Rests
<1> USE DEF Begins, Goes, Dies, Records, Rests
<1>1. ASSUME NEW op, Doing(op), Advance
      PROVE  program' = program /\ db_file' = db_file /\ Goes
  BY <1>1 DEF Doing, Advance
<1>2. ASSUME Stay PROVE UNCHANGED <<program, db_file, started, todo, crashed>>
  BY <1>2 DEF Stay, control_vars
<1>3. CASE applyToGlobals
  BY <1>3 DEF applyToGlobals
<1>4. CASE ChooseDatabase
  BY <1>1, <1>4 DEF ChooseDatabase
<1>5. CASE loadEnrollmentCSV
  BY <1>1, <1>2, <1>5 DEF loadEnrollmentCSV
<1>6. CASE shareAgain \/ clearShares \/ setShares
  BY <1>1, <1>6 DEF shareAgain, clearShares, setShares
<1>7. CASE generateAesKey \/ blindDatabaseOffline \/ parallelPartitionDB
  BY <1>1, <1>7 DEF generateAesKey, blindDatabaseOffline, parallelPartitionDB
<1>8. CASE computeCoefficients
  <2>1. PICK op \in Computes : Doing(op)
    BY <1>8 DEF computeCoefficients, Computes
  <2>2. \E a, b : ComputeSet(a, b)
    BY <1>8 DEF computeCoefficients
  <2>3. Advance \/ (todo' = <<>> /\ crashed' /\ UNCHANGED <<program, db_file, started>>)
    BY <2>2 DEF ComputeSet, Die
  <2>4. started
    BY <2>1 DEF Doing
  <2> QED
    BY <1>1, <2>1, <2>3, <2>4
<1>9. CASE simdPartitions \/ loadQueries \/ prepareQueries \/ endRound
  BY <1>1, <1>9 DEF simdPartitions, loadQueries, prepareQueries, endRound
<1>10. CASE submitQuery
  BY <1>2, <1>10 DEF submitQuery
<1>11. CASE submitRecordedQuery
  BY <1>11 DEF submitRecordedQuery, Doing
<1>12. CASE findRecordedMatches
  BY <1>1, <1>12 DEF findRecordedMatches
<1>13. CASE record
  BY <1>1, <1>13 DEF record
<1>14. CASE UNCHANGED vars \/ Exit
  BY <1>14 DEF vars, control_vars, Exit
<1> QED
  BY <1>3, <1>4, <1>5, <1>6, <1>7, <1>8, <1>9, <1>10, <1>11, <1>12, <1>13, <1>14 DEF Lives, Next

\* Where an operation stands depends on the program only.
LEMMA OrderIsOfTheProgram ==
    ASSUME program' = program
    PROVE  /\ \A op : Phase(op)' = Phase(op)
           /\ \A a, b : Before(a, b)' = Before(a, b)
           /\ StepSet' = StepSet
           /\ InOrder(todo)' <=> InOrder(todo')
<1>1. \A op : Phase(op)' = Phase(op)
  BY DEF Phase, Sources, Computes
<1>2. T' = T /\ K' = K
  BY DEF T, K
<1>3. \A a : Turn(a)' = Turn(a)
  BY <1>2 DEF Turn
<1>4. \A a, b : Before(a, b)' = Before(a, b)
  BY <1>1, <1>3 DEF Before
<1>5. Rounds' = Rounds
  BY <1>2 DEF Rounds
<1>6. StepSet' = StepSet
  <2>1. /\ BenchSet' = BenchSet /\ CsvRunSet' = CsvRunSet /\ SenderSet' = SenderSet
        /\ StlpsiSet' = StlpsiSet /\ CstpsiSet' = CstpsiSet
    BY <1>2 DEF BenchSet, CsvRunSet, SenderSet, StlpsiSet, CstpsiSet, QueriesSet
  <2>2. ReceiverSet' = ReceiverSet
    BY <1>5 DEF ReceiverSet
  <2> QED
    BY <2>1, <2>2 DEF StepSet
<1>7. InOrder(todo)' <=> InOrder(todo')
  BY <1>1, <1>4 DEF InOrder
<1> QED
  BY <1>1, <1>4, <1>6, <1>7

\* The recorder's calls and the check of a query come at no phase.
LEMMA RecordedQueryIsQuiet ==
    \A n : /\ InOrder(RecordedQuery(n))
           /\ \A step \in Elements(RecordedQuery(n)) : Phase(step.op) = 0
<1> SUFFICES ASSUME NEW n
             PROVE  /\ InOrder(RecordedQuery(n))
                    /\ \A step \in Elements(RecordedQuery(n)) : Phase(step.op) = 0
  OBVIOUS
<1> DEFINE s == RecordedQuery(n)
           ops == {"startQuery", "recordStepGC", "recordStepQueryPowers", "startHomRound",
                   "ctxt_inner_product", "wall", "recordHomRoundReceiverSubStep",
                   "endHomRound", "findMatches", "recordStepTokenCheck",
                   "recordStepLabelRecovery", "recordQueryResult", "endQuery"}
           S == {Step(op, n) : op \in ops}
<1>1. s \in Seq(S) /\ DOMAIN s = 1 .. 13 /\ \A k \in 1 .. 13 : s[k] \in S
  BY DEF RecordedQuery
<1>2. \A op \in ops : Phase(op) = 0 /\ op \notin Counted
  BY DEF Phase, Sources, Computes, Counted
<1>3. \A step \in S : IsStep(step) /\ Phase(step.op) = 0
  BY <1>2, StepFields
<1> HIDE DEF s, S
<1>4. \A k \in DOMAIN s : IsStep(s[k]) /\ Phase(s[k].op) = 0
  BY <1>1, <1>3
<1>5. IsSeq(s)
  BY <1>1 DEF IsSeq
<1>6. InOrder(s) /\ \A step \in Elements(s) : Phase(step.op) = 0
  BY <1>4, <1>5 DEF InOrder, Elements
<1> QED
  BY <1>6 DEF s

LEMMA OrderInvInit == Init => OrderInv /\ started \in BOOLEAN
<1> SUFFICES ASSUME Init PROVE OrderInv /\ started \in BOOLEAN
  OBVIOUS
<1>1. InOrder(<<>>) /\ Elements(<<>>) = {}
  BY EmptyPart DEF Part, Elements
<1> QED
  BY <1>1 DEF Init, OrderInv

\* What is left is in the order of the program; nothing that is past comes back.
LEMMA OrderStep ==
    ASSUME OrderInv, started \in BOOLEAN, [Lives]_vars
    PROVE  /\ OrderInv' /\ started' \in BOOLEAN /\ program' = program
           /\ \A p : Past(p) => Past(p)'
           /\ \A op : Phase(op) # 0 /\ Undone(op)' => Undone(op)
           /\ started => started'
<1>1. /\ program' = program
      /\ Begins \/ Goes \/ Dies \/ Records \/ Rests
  BY TodoSteps
<1>2. /\ \A op : Phase(op)' = Phase(op)
      /\ StepSet' = StepSet
      /\ InOrder(todo)' <=> InOrder(todo')
  BY <1>1, OrderIsOfTheProgram
<1>3. (program \in Configs /\ parseArgs(program))'
  BY <1>1 DEF OrderInv, parseArgs
<1>4. ASSUME InOrder(todo'), started', started' \in BOOLEAN,
             \A step \in Elements(todo') : Phase(step.op) # 0 => step \in StepSet,
             started => \A step \in Elements(todo') : Phase(step.op) # 0 => step \in Elements(todo)
      PROVE  /\ OrderInv' /\ started' \in BOOLEAN
             /\ \A p : Past(p) => Past(p)'
             /\ \A op : Phase(op) # 0 /\ Undone(op)' => Undone(op)
  <2>1. Elements(todo)' = Elements(todo')
    BY DEF Elements
  <2>2. OrderInv'
    BY <1>2, <1>3, <1>4, <2>1 DEF OrderInv
  <2>3. \A p : Past(p) => Past(p)'
    BY <1>2, <1>4, <2>1 DEF Past
  <2>4. \A op : Phase(op) # 0 /\ Undone(op)' => Undone(op)
    BY <1>4, <2>1 DEF Undone, Pending
  <2> QED
    BY <1>4, <2>2, <2>3, <2>4
<1>5. CASE Begins
  <2>1. Part(Steps, StepSet, 1, 11)
    BY StepsParts DEF OrderInv
  <2>2. \A step \in Elements(Steps) : Phase(step.op) # 0 => step \in StepSet
    BY <2>1, PhaseType DEF Part
  <2> QED
    BY <1>1, <1>4, <1>5, <2>1, <2>2 DEF Begins, Part
<1>6. CASE Goes
  <2>1. InOrder(Tail(todo)) /\ Elements(Tail(todo)) \subseteq Elements(todo)
    BY <1>6, TailInOrder DEF Goes, OrderInv
  <2> QED
    BY <1>1, <1>4, <1>6, <2>1 DEF Goes, OrderInv
<1>7. CASE Dies
  <2>1. InOrder(<<>>) /\ Elements(<<>>) = {}
    BY EmptyPart DEF Part, Elements
  <2> QED
    BY <1>1, <1>4, <1>7, <2>1 DEF Dies, OrderInv
<1>8. CASE Records
  <2>1. PICK n : todo' = RecordedQuery(n) \o todo
    BY <1>8 DEF Records
  <2>2. /\ InOrder(todo')
        /\ Elements(todo') = Elements(RecordedQuery(n)) \cup Elements(todo)
    BY <2>1, ConcatInOrder, RecordedQueryIsQuiet DEF OrderInv
  <2> QED
    BY <1>1, <1>4, <1>8, <2>2, RecordedQueryIsQuiet DEF Records, OrderInv
<1>9. CASE Rests
  <2>1. Elements(todo)' = Elements(todo) /\ todo' = todo /\ started' = started
    BY <1>9 DEF Elements, Rests
  <2>2. OrderInv'
    BY <1>2, <1>3, <2>1 DEF OrderInv
  <2> QED
    BY <1>1, <1>2, <2>1, <2>2 DEF Past, Undone, Pending
<1> QED
  BY <1>1, <1>5, <1>6, <1>7, <1>8, <1>9 DEF Begins, Goes, Dies, Records

\* An operation that is done is the first of those that are left.
LEMMA DoingIsFirst ==
    ASSUME OrderInv, NEW op, Doing(op), Phase(op) # 0
    PROVE  /\ Past(Phase(op) - 1) /\ \A p \in Nat : p >= Phase(op) => ~Past(p)
           /\ Undone(op)
           /\ Head(todo) \in StepSet /\ IsStep(Head(todo)) /\ Head(todo).op = op
<1>1. Head(todo).op = op /\ todo # <<>> /\ started
  BY DEF Doing
<1>2. /\ Head(todo) \in Elements(todo)
      /\ Elements(todo) = Elements(Tail(todo)) \cup {Head(todo)}
      /\ \A step \in Elements(Tail(todo)) : Phase(step.op) # 0 => Before(Head(todo), step)
  BY <1>1, TailInOrder DEF OrderInv
<1>3. Phase(op) \in Nat /\ \A o : Phase(o) \in Nat
  BY PhaseType
<1>4. \A step \in Elements(todo) : Phase(step.op) = 0 \/ Phase(step.op) >= Phase(op)
  BY <1>1, <1>2, <1>3 DEF Before
<1> QED
  <2>1. Past(Phase(op) - 1)
    BY <1>1, <1>3, <1>4 DEF Past
  <2>2. \A p \in Nat : p >= Phase(op) => ~Past(p)
    BY <1>1, <1>2, <1>3 DEF Past
  <2>3. Undone(op)
    BY <1>1, <1>2 DEF Undone, Pending
  <2>4. Head(todo) \in StepSet
    BY <1>1, <1>2 DEF OrderInv
  <2>5. IsStep(Head(todo))
    BY <1>2 DEF OrderInv, InOrder, Elements
  <2> QED
    BY <1>1, <2>1, <2>2, <2>3, <2>4, <2>5

\* What is done once is not left.
Once == {"parallelPartitionDB", "copyQueries", "loadQueryCSV", "chooseProbes",
         "blindDatabaseOffline", "blindQueries", "encryptQueryPowers"}
LEMMA DoneIsPast ==
    ASSUME OrderInv, started \in BOOLEAN, [Lives]_vars,
           NEW op, Doing(op), Phase(op) # 0, op \notin Counted, Advance
    PROVE  ~Undone(op)' /\ (op \in Once => Past(Phase(op))')
<1>1. Head(todo).op = op /\ todo # <<>> /\ started /\ todo' = Tail(todo) /\ started'
      /\ program' = program
  BY DEF Doing, Advance
<1>2. /\ \A step \in Elements(Tail(todo)) : Phase(step.op) # 0 => Before(Head(todo), step)
      /\ Elements(Tail(todo)) \subseteq Elements(todo)
  BY <1>1, TailInOrder DEF OrderInv
<1>3. \A o : Phase(o) \in Nat
  BY PhaseType
<1>4. \A step \in Elements(todo) : IsStep(step) /\ (step.op \notin Counted => Turn(step) = 0)
  <2>1. ASSUME NEW step \in Elements(todo), step.op \notin Counted PROVE Turn(step) = 0
    <3>1. IsStep(step)
      BY DEF OrderInv, InOrder, Elements
    <3> QED
      BY <2>1, <3>1, NoTurn DEF IsStep
  <2> QED
    BY <2>1 DEF OrderInv, InOrder, Elements
<1>5. Turn(Head(todo)) = 0
  <2>1. Head(todo) \in Elements(todo)
    BY <1>1, TailInOrder DEF OrderInv
  <2> QED
    BY <1>1, <1>4, <2>1
<1>6. ASSUME NEW step \in Elements(Tail(todo)), Phase(step.op) # 0
      PROVE  step.op # op /\ (op \in Once => Phase(step.op) > Phase(op))
  <2>1. Before(Head(todo), step) /\ step \in Elements(todo)
    BY <1>2, <1>6
  <2>2. CASE Phase(op) < Phase(step.op)
    BY <1>3, <2>2
  <2>3. CASE Phase(op) = Phase(step.op)
    <3>1. 0 < Turn(step)
      BY <1>1, <1>3, <1>5, <2>1, <2>3 DEF Before
    <3>2. step.op \in Counted
      BY <1>4, <2>1, <3>1
    <3>3. op \notin Once
      BY <2>3, <3>2 DEF Once, Counted, Phase, Sources, Computes
    <3> QED
      BY <3>2, <3>3
  <2> QED
    BY <1>1, <2>1, <2>2, <2>3 DEF Before
<1>7. Elements(todo)' = Elements(Tail(todo)) /\ \A o : Phase(o)' = Phase(o)
  BY <1>1, OrderIsOfTheProgram DEF Elements
<1>8. op \in Once => Past(Phase(op))'
  BY <1>1, <1>6, <1>7 DEF Past
<1>9. ~Undone(op)'
  BY <1>1, <1>6, <1>7 DEF Undone, Pending
<1> QED
  BY <1>8, <1>9

----------------------------------------------------------------------------
(* The database, its partitions and the sets                                *)

\* The database is as it was enrolled until it is blinded.
Unblinded == ~Blinds \/ Undone("blindDatabaseOffline")
EnrInv ==
    IF Unblinded THEN enr_ss_map = enrolled
    ELSE Past(5) /\ enr_ss_map = Blinded(enrolled)

\* The partitions are a layout of what they are made from.
Source == IF program.name = "bench" THEN enrolled ELSE enr_ss_map
PartsInv ==
    IF Undone("parallelPartitionDB") THEN db_partitions = {}
    ELSE /\ Past(Phase("parallelPartitionDB"))
         /\ db_partitions \in Layouts(Source) /\ DOMAIN enrolled # {}

\* What the guard replaces in a partition, and the points that it leaves.
LostIn(part) == CHOOSE lost : lost \in Repairs(part)
Coordinates ==
    [part \in db_partitions |->
        [k \in 1 .. partition_size |-> [i \in Positions |-> Point(part, LostIn(part), k, i)]]]

\* The sets are made from the database and the partitions as they stay.
SetsInv ==
    /\ IsSeq(sets)
    /\ sets # <<>> =>
         /\ Past(6)
         /\ \A part \in db_partitions : LostIn(part) \in Repairs(part) /\ ~Singular(part)
    /\ \A s \in DOMAIN sets : sets[s].x = Coordinates /\ sets[s].parts = db_partitions

DataInv == OrderInv /\ started \in BOOLEAN /\ EnrInv /\ PartsInv /\ SetsInv

LEMMA StepSetHas ==
    ASSUME program \in Configs
    PROVE  /\ Step("parallelPartitionDB", 0) \in StepSet
           /\ Blinds => Step("blindDatabaseOffline", 0) \in StepSet
           /\ ~Blinds => \A step \in StepSet : step.op # "blindDatabaseOffline"
<1>1. CASE program.name = "bench"
  <2>1. StepSet = BenchSet
    BY <1>1 DEF StepSet
  <2> QED
    BY <1>1, <2>1 DEF BenchSet, Blinds
<1>2. CASE program.name = "apps"
  <2>1. StepSet = SenderSet \cup ReceiverSet
    BY <1>2 DEF StepSet
  <2> QED
    BY <1>2, <2>1 DEF SenderSet, Blinds
<1>3. CASE program.name = "csv_run"
  <2>1. StepSet = CsvRunSet
    BY <1>3 DEF StepSet
  <2> QED
    BY <1>3, <2>1 DEF CsvRunSet, Blinds, Step
<1>4. CASE program.name = "rung_stlpsi"
  <2>1. StepSet = StlpsiSet
    BY <1>4 DEF StepSet
  <2> QED
    BY <1>4, <2>1 DEF StlpsiSet, QueriesSet, Blinds, Step
<1>5. CASE program.name = "rung_cstpsi"
  <2>1. StepSet = CstpsiSet
    BY <1>5 DEF StepSet
  <2> QED
    BY <1>5, <2>1 DEF CstpsiSet, QueriesSet, Blinds, Step
<1> QED
  BY <1>1, <1>2, <1>3, <1>4, <1>5, ConfigTypes

\* What the program has is left until it is done.
LEMMA UndoneUntilDone ==
    ASSUME OrderInv, started \in BOOLEAN, [Lives]_vars, NEW op,
           Phase(op) \in 1 .. 6, Step(op, 0) \in StepSet, Undone(op), ~Doing(op)
    PROVE  Undone(op)'
<1>1. Begins \/ Goes \/ Dies \/ Records \/ Rests
  BY TodoSteps
<1>2. ASSUME started, started', \A step \in Elements(todo) : step.op = op => step \in Elements(todo')
      PROVE  Undone(op)'
  <2>1. Elements(todo)' = Elements(todo')
    BY DEF Elements
  <2> QED
    BY <1>2, <2>1 DEF Undone, Pending
<1>3. CASE Begins
  <2>1. StepSet \subseteq Elements(Steps)
    BY StepsParts DEF OrderInv, Part
  <2>2. Step(op, 0) \in Elements(todo)' /\ Step(op, 0).op = op
    BY <1>3, <2>1 DEF Begins, Elements, Step
  <2> QED
    BY <2>2 DEF Undone, Pending
<1>4. CASE Goes
  <2>1. Elements(todo) = Elements(Tail(todo)) \cup {Head(todo)}
    BY <1>4, TailInOrder DEF Goes, OrderInv
  <2>2. Head(todo).op # op
    BY <1>4 DEF Goes, Doing
  <2> QED
    BY <1>2, <1>4, <2>1, <2>2 DEF Goes
<1>5. CASE Dies
  <2>1. PICK c \in Computes : Doing(c)
    BY <1>5 DEF Dies
  <2>2. Phase(c) = 7 /\ 7 - 1 = 6
    BY DEF Phase, Computes, Sources
  <2>3. Past(6)
    BY <2>1, <2>2, DoingIsFirst
  <2>4. ~Undone(op)
    BY <2>3 DEF Past, Undone, Pending
  <2> QED
    BY <2>4
<1>6. CASE Records
  <2>1. PICK n : todo' = RecordedQuery(n) \o todo
    BY <1>6 DEF Records
  <2>2. /\ Elements(todo') = Elements(RecordedQuery(n)) \cup Elements(todo)
    BY <2>1, ConcatInOrder, RecordedQueryIsQuiet DEF OrderInv
  <2> QED
    BY <1>2, <1>6, <2>2 DEF Records
<1>7. CASE Rests
  BY <1>7 DEF Undone, Pending, Elements, Rests
<1> QED
  BY <1>1, <1>3, <1>4, <1>5, <1>6, <1>7

LEMMA DataPhases ==
    /\ Phase("parallelPartitionDB") \in 1 .. 6 /\ Phase("blindDatabaseOffline") = 5
    /\ Phase("generateAesKey") = 2
    /\ program.name = "apps" => Phase("parallelPartitionDB") = 6
    /\ program.name # "apps" => Phase("parallelPartitionDB") = 3
    /\ \A op \in Sources : Phase(op) = 1
    /\ \A op \in Computes : Phase(op) = 7
BY DEF Phase, Sources, Computes

\* The points depend on the database, the partitions and two numbers.
LEMMA PointsStay ==
    ASSUME UNCHANGED <<enr_ss_map, db_partitions, MAX_SUB, FIELD_MODULUS>>
    PROVE  /\ Coordinates' = Coordinates
           /\ \A part : /\ Repairs(part)' = Repairs(part) /\ LostIn(part)' = LostIn(part)
                        /\ Singular(part)' <=> Singular(part)
           /\ \A part, k, i : Padded(part, k, i)' = Padded(part, k, i)
           /\ \A part, lost, k, i : Point(part, lost, k, i)' = Point(part, lost, k, i)
<1>1. \A n : Dummy(n)' = Dummy(n)
  BY DEF Dummy
<1>2. \A part, k, i : Padded(part, k, i)' = Padded(part, k, i)
  BY <1>1 DEF Padded
<1>3. \A part, lost, k, i : Point(part, lost, k, i)' = Point(part, lost, k, i)
  BY <1>1, <1>2 DEF Point
<1>4. \A part : Repairs(part)' = Repairs(part)
  BY <1>2, <1>3 DEF Repairs
<1>5. \A part : LostIn(part)' = LostIn(part)
  BY <1>4 DEF LostIn
<1>6. \A part : Singular(part)' <=> Singular(part)
  BY <1>3, <1>4 DEF Singular
<1>7. Coordinates' = Coordinates
  BY <1>3, <1>5 DEF Coordinates
<1> QED
  BY <1>2, <1>3, <1>4, <1>5, <1>6, <1>7

\* What the guard replaces is determined: it goes position by position and row by
\* row, and what it does at a place depends on the places before.
LEMMA RepairIsUnique ==
    ASSUME NEW part, NEW lost \in Repairs(part), NEW other \in Repairs(part)
    PROVE  lost = other
<1>1. lost \subseteq LaterPlaces /\ other \subseteq LaterPlaces
  BY DEF Repairs
<1> DEFINE Differ == {p \in LaterPlaces : ~(p \in lost <=> p \in other)}
<1>2. SUFFICES ASSUME Differ # {} PROVE FALSE
  BY <1>1
<1>3. partition_size \in Nat /\ inN \in Nat
  BY RowsOK, inNOK
<1>4. LaterPlaces \subseteq Nat \X Nat
  BY <1>3 DEF LaterPlaces, Positions
<1>5. PICK i \in {p[1] : p \in Differ} : \A p \in Differ : i <= p[1]
  <2> DEFINE S == {p[1] : p \in Differ}
  <2>1. S \subseteq Nat /\ S # {}
    BY <1>2, <1>4
  <2>2. First(S) \in S /\ \A n \in S : First(S) <= n
    BY <2>1, LeastOf
  <2> QED
    BY <2>2
<1>6. PICK k \in {p[2] : p \in {p \in Differ : p[1] = i}} :
         \A p \in Differ : p[1] = i => k <= p[2]
  <2> DEFINE S == {p[2] : p \in {p \in Differ : p[1] = i}}
  <2>1. S \subseteq Nat /\ S # {}
    BY <1>4, <1>5
  <2>2. First(S) \in S /\ \A n \in S : First(S) <= n
    BY <2>1, LeastOf
  <2> QED
    BY <2>2
<1>7. <<i, k>> \in Differ /\ <<i, k>> \in LaterPlaces /\ i \in Nat /\ k \in Nat
  <2>1. PICK p \in Differ : p[1] = i /\ p[2] = k
    BY <1>6
  <2>2. p = <<i, k>>
    BY <2>1, <1>4
  <2> QED
    BY <1>4, <2>1, <2>2
<1>8. ASSUME NEW p \in LaterPlaces, p[1] < i \/ (p[1] = i /\ p[2] < k)
      PROVE  p \in lost <=> p \in other
  <2>1. p \in Nat \X Nat
    BY <1>4
  <2> QED
    BY <1>5, <1>6, <1>7, <1>8, <2>1
<1>9. ASSUME NEW l \in 1 .. k - 1 PROVE Point(part, lost, l, i) = Point(part, other, l, i)
  <2>0. l \in Int /\ l < k
    BY <1>7
  <2>1. <<i, l>> \in lost <=> <<i, l>> \in other
    <3>1. <<i, l>> \in LaterPlaces => (<<i, l>> \in lost <=> <<i, l>> \in other)
      BY <1>8, <2>0
    <3> QED
      BY <1>1, <3>1
  <2>2. {p \in lost : p[1] < i \/ (p[1] = i /\ p[2] <= l)}
          = {p \in other : p[1] < i \/ (p[1] = i /\ p[2] <= l)}
    <3>1. ASSUME NEW p \in LaterPlaces, p[1] < i \/ (p[1] = i /\ p[2] <= l)
          PROVE  p \in lost <=> p \in other
      <4>1. p[2] \in Nat
        BY <1>4
      <4> QED
        BY <1>7, <1>8, <2>0, <3>1, <4>1
    <3> QED
      BY <1>1, <3>1
  <2> QED
    BY <2>1, <2>2 DEF Point
<1>10. <<i, k>> \in lost <=> \E l \in 1 .. k - 1 : Point(part, lost, l, i) = Padded(part, k, i)
  BY <1>7 DEF Repairs
<1>11. <<i, k>> \in other <=> \E l \in 1 .. k - 1 : Point(part, other, l, i) = Padded(part, k, i)
  BY <1>7 DEF Repairs
<1> QED
  BY <1>7, <1>9, <1>10, <1>11

LEMMA LostIsIt ==
    ASSUME NEW part, NEW lost \in Repairs(part)
    PROVE  lost = LostIn(part) /\ LostIn(part) \in Repairs(part)
<1>1. LostIn(part) \in Repairs(part)
  BY DEF LostIn
<1> QED
  BY <1>1, RepairIsUnique

\* A step that changes none of this, and neither blinds nor partitions.
LEMMA DataStays ==
    ASSUME DataInv, [Lives]_vars, UNCHANGED <<enr_ss_map, enrolled, gc_key, db_partitions>>,
           ~Doing("blindDatabaseOffline"), ~Doing("parallelPartitionDB")
    PROVE  /\ OrderInv' /\ started' \in BOOLEAN /\ EnrInv' /\ PartsInv'
           /\ sets' = sets /\ (sets = <<>> \/ UNCHANGED <<MAX_SUB, FIELD_MODULUS>>) => SetsInv'
<1>1. /\ OrderInv' /\ started' \in BOOLEAN /\ program' = program
      /\ \A p : Past(p) => Past(p)'
      /\ \A op : Phase(op) # 0 /\ Undone(op)' => Undone(op)
  BY OrderStep DEF DataInv
<1>2. Blinds' = Blinds /\ Source' = Source /\ Phase("parallelPartitionDB")' = Phase("parallelPartitionDB")
  BY <1>1, OrderIsOfTheProgram DEF Blinds, Source
<1>3. Unblinded' <=> Unblinded
  <2>1. Undone("blindDatabaseOffline") /\ Blinds => Undone("blindDatabaseOffline")'
    BY DataPhases, StepSetHas, UndoneUntilDone DEF DataInv, OrderInv
  <2>2. Undone("blindDatabaseOffline")' => Undone("blindDatabaseOffline")
    BY <1>1, DataPhases
  <2> QED
    BY <1>2, <2>1, <2>2 DEF Unblinded
<1>4. Blinded(enrolled)' = Blinded(enrolled)
  BY DEF Blinded
<1>5. EnrInv'
  BY <1>1, <1>3, <1>4 DEF EnrInv, DataInv
<1>6. Undone("parallelPartitionDB")' <=> Undone("parallelPartitionDB")
  BY <1>1, DataPhases, StepSetHas, UndoneUntilDone DEF DataInv, OrderInv
<1>7. PartsInv'
  <2>1. db_partitions \in Layouts(Source) => (db_partitions \in Layouts(Source))'
    BY <1>2 DEF Layouts, RowOrders, Agree
  <2> QED
    BY <1>1, <1>2, <1>6, <2>1 DEF PartsInv, DataInv
<1>8. ASSUME sets' = sets, sets = <<>> \/ UNCHANGED <<MAX_SUB, FIELD_MODULUS>> PROVE SetsInv'
  <2>1. CASE sets = <<>>
    <3>1. DOMAIN <<>> = {}
      OBVIOUS
    <3> QED
      BY <1>8, <2>1, <3>1 DEF SetsInv, DataInv
  <2>2. CASE UNCHANGED <<MAX_SUB, FIELD_MODULUS>>
    BY <1>1, <1>8, <2>2, PointsStay DEF SetsInv, DataInv
  <2> QED
    BY <1>8, <2>1, <2>2
<1> QED
  BY <1>1, <1>5, <1>7, <1>8

\* Nothing is blinded or partitioned while the sources are read or before the key
\* is there.
LEMMA EarlyData ==
    ASSUME DataInv, NEW op, Doing(op), Phase(op) \in {1, 2}
    PROVE  /\ enr_ss_map = enrolled /\ Unblinded
           /\ Undone("parallelPartitionDB") /\ db_partitions = {}
           /\ sets = <<>> /\ DOMAIN sets = {}
           /\ op \notin {"blindDatabaseOffline", "parallelPartitionDB"}
           /\ ~Doing("blindDatabaseOffline") /\ ~Doing("parallelPartitionDB")
<1>1. \A p \in Nat : p >= 2 => ~Past(p)
  BY DoingIsFirst DEF DataInv
<1>2. EnrInv /\ PartsInv /\ SetsInv
  BY DEF DataInv
<1>3. enr_ss_map = enrolled /\ Unblinded
  BY <1>1, <1>2 DEF EnrInv
<1>4. Undone("parallelPartitionDB") /\ db_partitions = {}
  BY <1>1, <1>2, DataPhases DEF PartsInv
<1>5. sets = <<>>
  BY <1>1, <1>2 DEF SetsInv
<1>6. op \notin {"blindDatabaseOffline", "parallelPartitionDB"}
  BY DataPhases
<1>7. ~Doing("blindDatabaseOffline") /\ ~Doing("parallelPartitionDB")
  BY <1>6 DEF Doing
<1> QED
  BY <1>3, <1>4, <1>5, <1>6, <1>7

LEMMA EarlyDataStays ==
    ASSUME DataInv, [Lives]_vars, NEW op, Doing(op), Phase(op) \in {1, 2},
           enr_ss_map' = enrolled', UNCHANGED <<db_partitions, sets>>
    PROVE  DataInv'
<1>1. /\ OrderInv' /\ started' \in BOOLEAN /\ program' = program
  BY OrderStep DEF DataInv
<1>2. /\ Unblinded /\ Undone("parallelPartitionDB") /\ db_partitions = {}
      /\ sets = <<>> /\ DOMAIN sets = {}
      /\ ~Doing("blindDatabaseOffline") /\ ~Doing("parallelPartitionDB")
  BY EarlyData
<1>3. Undone("parallelPartitionDB")'
  BY <1>2, DataPhases, StepSetHas, UndoneUntilDone DEF DataInv, OrderInv
<1>4. Unblinded'
  <2>1. Blinds => Undone("blindDatabaseOffline")'
    BY <1>2, DataPhases, StepSetHas, UndoneUntilDone DEF DataInv, OrderInv, Unblinded
  <2> QED
    BY <1>1, <2>1 DEF Unblinded, Blinds
<1>5. SetsInv'
  BY <1>2 DEF SetsInv, DataInv
<1> QED
  BY <1>1, <1>2, <1>3, <1>4, <1>5 DEF DataInv, EnrInv, PartsInv

LEMMA BlindKeepsData ==
    ASSUME DataInv, blindDatabaseOffline
    PROVE  DataInv'
<1>0. [Lives]_vars
  BY DEF Lives, Next, seedWithoutIds, blindDatabaseOffline, Doing
<1>1. /\ OrderInv' /\ started' \in BOOLEAN /\ program' = program
      /\ \A p : Past(p) => Past(p)'
      /\ \A op : Phase(op) # 0 /\ Undone(op)' => Undone(op)
  BY <1>0, OrderStep DEF DataInv
<1>2. Doing("blindDatabaseOffline") /\ Advance
  BY DEF blindDatabaseOffline
<1>3. "blindDatabaseOffline" \notin Counted /\ "blindDatabaseOffline" \in Once
  BY DEF Counted, Computes, Once
<1>4. ~Undone("blindDatabaseOffline")' /\ Past(5)'
  BY <1>0, <1>2, <1>3, DoneIsPast, DataPhases, OrderIsOfTheProgram, <1>1 DEF DataInv
<1>5. /\ Undone("blindDatabaseOffline") /\ ~Past(5) /\ ~Past(6) /\ Past(4)
      /\ Head(todo) \in StepSet /\ Head(todo).op = "blindDatabaseOffline"
  BY <1>2, DoingIsFirst, DataPhases DEF DataInv
<1>6. Blinds
  BY <1>5, StepSetHas DEF DataInv, OrderInv
<1>7. enr_ss_map = enrolled
  BY <1>5 DEF DataInv, EnrInv
<1>8. EnrInv'
  <2>1. enr_ss_map' = Blinded(enrolled)'
    BY <1>7 DEF blindDatabaseOffline, Blinded, offline_vars, history_vars
  <2>2. ~Unblinded'
    BY <1>1, <1>4, <1>6 DEF Unblinded, Blinds
  <2> QED
    BY <1>4, <2>1, <2>2 DEF EnrInv
<1>9. sets = <<>> /\ sets' = <<>> /\ DOMAIN sets = {} /\ db_partitions' = db_partitions /\ enrolled' = enrolled
  BY <1>5 DEF DataInv, SetsInv, blindDatabaseOffline, offline_vars, history_vars
<1>10. SetsInv'
  BY <1>9 DEF SetsInv, DataInv
<1>11. PartsInv'
  <2>1. ~Doing("parallelPartitionDB")
    BY <1>2 DEF Doing
  <2>2. Undone("parallelPartitionDB")' <=> Undone("parallelPartitionDB")
    BY <1>0, <1>1, <2>1, DataPhases, StepSetHas, UndoneUntilDone DEF DataInv, OrderInv
  <2>3. CASE Undone("parallelPartitionDB")
    BY <1>9, <2>2, <2>3 DEF PartsInv, DataInv
  <2>4. CASE ~Undone("parallelPartitionDB")
    <3>1. /\ Past(Phase("parallelPartitionDB"))
          /\ db_partitions \in Layouts(Source) /\ DOMAIN enrolled # {}
      BY <2>4 DEF PartsInv, DataInv
    <3>2. program.name = "bench"
      BY <1>5, <1>6, <3>1, DataPhases DEF Blinds
    <3>3. Source' = enrolled /\ Source = enrolled
      BY <1>1, <1>9, <3>2 DEF Source
    <3>4. (db_partitions \in Layouts(Source))'
      BY <1>9, <3>1, <3>3 DEF Layouts, RowOrders, Agree
    <3>5. Past(Phase("parallelPartitionDB"))'
      BY <1>1, <3>1, OrderIsOfTheProgram
    <3> QED
      BY <1>9, <2>2, <2>4, <3>1, <3>4, <3>5 DEF PartsInv
  <2> QED
    BY <2>3, <2>4
<1> QED
  BY <1>1, <1>8, <1>10, <1>11 DEF DataInv

LEMMA PartitionKeepsData ==
    ASSUME DataInv, parallelPartitionDB
    PROVE  DataInv'
<1>0. [Lives]_vars
  BY DEF Lives, Next, seedWithoutIds, parallelPartitionDB
<1>1. /\ OrderInv' /\ started' \in BOOLEAN /\ program' = program
      /\ \A p : Past(p) => Past(p)'
      /\ \A op : Phase(op) # 0 /\ Undone(op)' => Undone(op)
  BY <1>0, OrderStep DEF DataInv
<1>2. Doing("parallelPartitionDB") /\ Advance
  BY DEF parallelPartitionDB
<1>3. "parallelPartitionDB" \notin Counted /\ "parallelPartitionDB" \in Once
  BY DEF Counted, Computes, Once
<1>4. ~Undone("parallelPartitionDB")' /\ Past(Phase("parallelPartitionDB"))'
  <2>1. Phase("parallelPartitionDB") # 0 /\ Phase("parallelPartitionDB")' = Phase("parallelPartitionDB")
    BY <1>1, DataPhases, OrderIsOfTheProgram
  <2> QED
    BY <1>0, <1>2, <1>3, <2>1, DoneIsPast DEF DataInv
<1>5. ~Past(6) /\ \A p \in Nat : p >= Phase("parallelPartitionDB") => ~Past(p)
  BY <1>2, DoingIsFirst, DataPhases DEF DataInv
<1>6. /\ enr_ss_map' = enr_ss_map /\ enrolled' = enrolled /\ sets' = sets /\ gc_key' = gc_key
      /\ db_partitions' \in Layouts(enr_ss_map) /\ DOMAIN enr_ss_map # {}
  BY DEF parallelPartitionDB, enrollment_vars, history_vars
<1>7. SetsInv'
  <2>1. sets = <<>> /\ DOMAIN sets = {}
    BY <1>5 DEF DataInv, SetsInv
  <2> QED
    BY <1>6, <2>1 DEF SetsInv, DataInv
<1>8. EnrInv'
  <2>2. Unblinded' <=> Unblinded
    <3>1. ~Doing("blindDatabaseOffline")
      BY <1>2 DEF Doing
    <3>2. Undone("blindDatabaseOffline") /\ Blinds => Undone("blindDatabaseOffline")'
      BY <1>0, <3>1, DataPhases, StepSetHas, UndoneUntilDone DEF DataInv, OrderInv
    <3>3. Undone("blindDatabaseOffline")' => Undone("blindDatabaseOffline")
      BY <1>1, DataPhases
    <3> QED
      BY <1>1, <3>2, <3>3 DEF Unblinded, Blinds
  <2>3. Blinded(enrolled)' = Blinded(enrolled)
    BY <1>6 DEF Blinded
  <2> QED
    BY <1>1, <1>6, <2>2, <2>3 DEF EnrInv, DataInv
<1>9. PartsInv'
  <2>1. Source' = enr_ss_map
    <3>1. program.name = "bench" => enr_ss_map = enrolled
      <4>1. program.name = "bench" => Phase("parallelPartitionDB") = 3
        BY DataPhases
      <4>2. program.name = "bench" => ~Past(5)
        BY <1>5, <4>1
      <4> QED
        BY <4>2 DEF DataInv, EnrInv
    <3> QED
      BY <1>1, <1>6, <3>1 DEF Source
  <2>2. (db_partitions \in Layouts(Source))'
    <3>1. (db_partitions \in Layouts(Source))' <=> db_partitions' \in Layouts(Source')
      BY DEF Layouts, RowOrders, Agree
    <3> QED
      BY <1>6, <2>1, <3>1
  <2>3. DOMAIN enrolled # {}
    BY <1>6 DEF DataInv, EnrInv, Blinded
  <2> QED
    BY <1>4, <1>6, <2>2, <2>3 DEF PartsInv
<1> QED
  BY <1>1, <1>7, <1>8, <1>9 DEF DataInv

LEMMA ComputeKeepsData ==
    ASSUME DataInv, computeCoefficients
    PROVE  DataInv'
<1>0. [Lives]_vars
  BY DEF Lives, Next, seedWithoutIds, computeCoefficients, Doing
<1>o. PICK op \in Computes : Doing(op)
  BY DEF computeCoefficients, Computes
<1>a. PICK a, b : ComputeSet(a, b)
  BY DEF computeCoefficients
<1>1. op \in Computes /\ Doing(op) /\ ComputeSet(a, b)
  BY <1>o, <1>a
<1>2. UNCHANGED <<enr_ss_map, enrolled, gc_key, db_partitions, MAX_SUB, FIELD_MODULUS>>
  BY DEF computeCoefficients, enrollment_vars, history_vars, field_vars
<1>3. Past(6)
  <2>1. Phase(op) = 7 /\ 7 - 1 = 6
    BY DataPhases
  <2> QED
    BY <1>1, <2>1, DoingIsFirst DEF DataInv
<1>4. ~Doing("blindDatabaseOffline") /\ ~Doing("parallelPartitionDB")
  BY <1>1 DEF Doing, Computes
<1>5. OrderInv' /\ started' \in BOOLEAN /\ EnrInv' /\ PartsInv' /\ (sets' = sets => SetsInv')
  BY <1>0, <1>2, <1>4, DataStays
<1>6. ASSUME sets' # sets PROVE SetsInv'
  <2> DEFINE set == [x |-> Coordinates, parts |-> db_partitions, token |-> a, label |-> b]
  <2>0. PICK lost \in [db_partitions -> UNION {Repairs(part) : part \in db_partitions}] :
           /\ \A part \in db_partitions : lost[part] \in Repairs(part)
           /\ sets' = Append(sets,
                 [x |-> [part \in db_partitions |->
                           [k \in 1 .. partition_size |->
                              [i \in Positions |-> Point(part, lost[part], k, i)]]],
                  parts |-> db_partitions, token |-> a, label |-> b])
    BY <1>1, <1>6 DEF ComputeSet
  <2>8. \A part \in db_partitions : lost[part] = LostIn(part) /\ LostIn(part) \in Repairs(part)
    BY <2>0, LostIsIt
  <2>1. sets' = Append(sets, set)
    BY <2>0, <2>8 DEF Coordinates
  <2>9. \A part \in db_partitions : ~Singular(part)
    BY <1>1, <1>6 DEF ComputeSet, Interpolable
  <2>2. set.x = Coordinates /\ set.parts = db_partitions
    OBVIOUS
  <2>10. Coordinates' = Coordinates
    BY <1>2, PointsStay
  <2> HIDE DEF set
  <2>3. PICK S : sets \in Seq(S)
    BY DEF DataInv, SetsInv, IsSeq
  <2>4. sets \in Seq(S \cup {set})
    BY <2>3
  <2>5. /\ sets' \in Seq(S \cup {set}) /\ DOMAIN sets' = 1 .. Len(sets) + 1
        /\ DOMAIN sets = 1 .. Len(sets) /\ Len(sets) \in Nat
        /\ \A s \in 1 .. Len(sets) : sets'[s] = sets[s]
        /\ sets'[Len(sets) + 1] = set
    BY <2>1, <2>4
  <2>6. ASSUME NEW s \in DOMAIN sets'
        PROVE  sets'[s].x = Coordinates' /\ sets'[s].parts = db_partitions'
    <3>1. CASE s = Len(sets) + 1
      BY <1>2, <2>2, <2>5, <2>10, <3>1
    <3>2. CASE s # Len(sets) + 1
      <4>1. s \in DOMAIN sets /\ sets'[s] = sets[s]
        BY <2>5, <3>2
      <4> QED
        BY <1>2, <2>10, <4>1 DEF DataInv, SetsInv
    <3> QED
      BY <3>1, <3>2
  <2>7. Past(6)'
    BY <1>0, <1>3, OrderStep DEF DataInv
  <2>11. (\A part \in db_partitions : LostIn(part) \in Repairs(part) /\ ~Singular(part))'
    BY <1>2, <2>8, <2>9, PointsStay
  <2> QED
    BY <2>5, <2>6, <2>7, <2>11 DEF SetsInv, IsSeq
<1> QED
  BY <1>5, <1>6 DEF DataInv

LEMMA DataInvInit == Init => DataInv
<1> SUFFICES ASSUME Init PROVE DataInv
  OBVIOUS
<1>1. OrderInv /\ started \in BOOLEAN
  BY OrderInvInit
<1>2. ~started /\ enr_ss_map = <<>> /\ enrolled = <<>> /\ db_partitions = {} /\ sets = <<>>
  BY DEF Init, EnrollmentInit
<1>3. <<>> \in Seq({}) /\ DOMAIN <<>> = {}
  OBVIOUS
<1> QED
  BY <1>1, <1>2, <1>3 DEF DataInv, EnrInv, PartsInv, SetsInv, Unblinded, Undone, IsSeq

LEMMA DataInvNext == DataInv /\ [Lives]_vars => DataInv'
<1> SUFFICES ASSUME DataInv, [Lives]_vars PROVE DataInv'
  OBVIOUS
<1>0. ASSUME UNCHANGED <<enr_ss_map, enrolled, gc_key, db_partitions, sets>>,
             sets = <<>> \/ UNCHANGED <<MAX_SUB, FIELD_MODULUS>>,
             ~Doing("blindDatabaseOffline"), ~Doing("parallelPartitionDB")
      PROVE  DataInv'
  BY <1>0, DataStays DEF DataInv
<1> USE DEF offline_vars, enrollment_vars, history_vars, query_vars, field_vars
<1>1. CASE applyToGlobals
  <2>1. ~Doing("blindDatabaseOffline") /\ ~Doing("parallelPartitionDB")
    BY <1>1 DEF applyToGlobals, Doing
  <2>2. sets = <<>>
    BY <1>1 DEF applyToGlobals, DataInv, SetsInv, Past
  <2> QED
    BY <1>0, <1>1, <2>1, <2>2 DEF applyToGlobals
<1>2. ASSUME NEW op \in Sources, Doing(op), enrolled' = enr_ss_map', UNCHANGED <<db_partitions, sets>>
      PROVE  DataInv'
  <2>1. Phase(op) \in {1, 2}
    BY DataPhases
  <2> QED
    BY <1>2, <2>1, EarlyDataStays
<1>3. CASE ChooseDatabase
  <2>1. PICK op \in Sources : Doing(op)
    BY <1>3 DEF ChooseDatabase, Sources
  <2> QED
    BY <1>2, <1>3, <2>1 DEF ChooseDatabase
<1>4. CASE loadEnrollmentCSV
  BY <1>2, <1>4 DEF loadEnrollmentCSV, Sources
<1>5. ASSUME NEW op, Doing(op), op \notin {"blindDatabaseOffline", "parallelPartitionDB"},
             UNCHANGED <<enr_ss_map, enrolled, gc_key, db_partitions, sets, MAX_SUB, FIELD_MODULUS>>
      PROVE  DataInv'
  <2>1. ~Doing("blindDatabaseOffline") /\ ~Doing("parallelPartitionDB")
    BY <1>5 DEF Doing
  <2> QED
    BY <1>0, <1>5, <2>1
<1>6. CASE shareAgain \/ clearShares \/ setShares
  BY <1>5, <1>6 DEF shareAgain, clearShares, setShares
<1>7. CASE generateAesKey
  <2>1. Doing("generateAesKey") /\ UNCHANGED <<enr_ss_map, enrolled, db_partitions, sets>>
    BY <1>7 DEF generateAesKey
  <2>2. Phase("generateAesKey") \in {1, 2}
    BY DataPhases
  <2>3. enr_ss_map = enrolled
    BY <2>1, <2>2, EarlyData
  <2> QED
    BY <2>1, <2>2, <2>3, EarlyDataStays
<1>8. CASE blindDatabaseOffline
  BY <1>8, BlindKeepsData
<1>9. CASE parallelPartitionDB
  BY <1>9, PartitionKeepsData
<1>10. CASE computeCoefficients
  BY <1>10, ComputeKeepsData
<1>11. CASE simdPartitions \/ endRound
  BY <1>5, <1>11 DEF simdPartitions, endRound
<1>12. CASE loadQueries
  BY <1>5, <1>12 DEF loadQueries
<1>13. CASE prepareQueries
  BY <1>5, <1>13 DEF prepareQueries
<1>14. ASSUME NEW r, NEW n, Answer(r, n)
       PROVE  UNCHANGED <<enr_ss_map, enrolled, gc_key, db_partitions, sets, MAX_SUB, FIELD_MODULUS>>
  BY <1>14 DEF Answer
<1>15. CASE submitQuery \/ findRecordedMatches
  BY <1>5, <1>14, <1>15 DEF submitQuery, findRecordedMatches
<1>16. CASE submitRecordedQuery
  BY <1>5, <1>16 DEF submitRecordedQuery
<1>17. CASE record
  BY <1>5, <1>17 DEF record
<1>18. CASE UNCHANGED vars \/ Exit
  <2>1. UNCHANGED <<enr_ss_map, enrolled, gc_key, db_partitions, sets, started, todo, program,
                    MAX_SUB, FIELD_MODULUS>>
    BY <1>18 DEF vars, Exit, control_vars
  <2>2. OrderInv' /\ started' \in BOOLEAN
    BY OrderStep DEF DataInv
  <2>3. /\ \A op : Phase(op)' = Phase(op) /\ (Undone(op)' <=> Undone(op))
        /\ \A p : Past(p)' <=> Past(p)
    BY <2>1, OrderIsOfTheProgram DEF Undone, Pending, Past, Elements
  <2>4. EnrInv'
    <3>1. (Unblinded' <=> Unblinded) /\ Blinded(enrolled)' = Blinded(enrolled)
      BY <2>1, <2>3 DEF Unblinded, Blinds, Blinded
    <3> QED
      BY <2>1, <2>3, <3>1 DEF DataInv, EnrInv
  <2>5. PartsInv'
    <3>0. Source' = Source
      BY <2>1 DEF Source
    <3>1. db_partitions \in Layouts(Source) => (db_partitions \in Layouts(Source))'
      BY <2>1, <3>0 DEF Layouts, RowOrders, Agree
    <3> QED
      BY <2>1, <2>3, <3>1 DEF DataInv, PartsInv
  <2>6. SetsInv'
    BY <2>1, <2>3, PointsStay DEF DataInv, SetsInv
  <2> QED
    BY <2>2, <2>4, <2>5, <2>6 DEF DataInv
<1> QED
  BY <1>1, <1>3, <1>4, <1>6, <1>7, <1>8, <1>9, <1>10, <1>11, <1>12, <1>13, <1>15, <1>16,
     <1>17, <1>18 DEF Lives, Next

\* After its last operation a program does nothing.
LEMMA NothingAfterwards ==
    ASSUME started, todo = <<>>, Next PROVE UNCHANGED vars
<1>1. \A o : ~Doing(o)
  BY DEF Doing
<1>2. ~applyToGlobals
  BY DEF applyToGlobals
<1>3. /\ ~ChooseDatabase /\ ~loadEnrollmentCSV /\ ~shareAgain /\ ~clearShares /\ ~setShares
      /\ ~generateAesKey /\ ~blindDatabaseOffline /\ ~parallelPartitionDB /\ ~seedWithoutIds
  BY <1>1 DEF ChooseDatabase, loadEnrollmentCSV, shareAgain, clearShares, setShares,
              generateAesKey, blindDatabaseOffline, parallelPartitionDB, seedWithoutIds
<1>4. ~computeCoefficients /\ ~simdPartitions /\ ~loadQueries /\ ~prepareQueries
  BY <1>1 DEF computeCoefficients, simdPartitions, loadQueries, prepareQueries
<1>5. /\ ~submitQuery /\ ~endRound /\ ~submitRecordedQuery /\ ~findRecordedMatches
      /\ ~record
  BY <1>1 DEF submitQuery, endRound, submitRecordedQuery, findRecordedMatches, record
<1> QED
  BY <1>2, <1>3, <1>4, <1>5 DEF Next, Exit

\* What is left of a program that was to partition a database of nobody.
Starved ==
    /\ started /\ crashed /\ todo = <<>>
    /\ DOMAIN enrolled = {} /\ sets = <<>>

LEMMA Starving ==
    ASSUME DataInv, seedWithoutIds
    PROVE  Starved' /\ sets = <<>>
<1>1. Doing("parallelPartitionDB") /\ DOMAIN enr_ss_map = {}
  BY DEF seedWithoutIds
<1>2. started /\ ~Past(6)
  BY <1>1, DoingIsFirst, DataPhases DEF DataInv, Doing
<1>3. sets = <<>> /\ DOMAIN enrolled = {}
  BY <1>1, <1>2 DEF DataInv, SetsInv, EnrInv, Blinded
<1> QED
  BY <1>2, <1>3 DEF seedWithoutIds, Die, Starved, offline_vars, history_vars

LEMMA StarvedStays == Starved /\ [Next]_vars => UNCHANGED vars /\ Starved'
<1> SUFFICES ASSUME Starved, [Next]_vars PROVE UNCHANGED vars /\ Starved'
  OBVIOUS
<1>1. UNCHANGED vars
  BY NothingAfterwards DEF Starved
<1> QED
  BY <1>1 DEF vars, control_vars, offline_vars, history_vars, Starved

\* A partition has its rows in the first places, each id once, and no two of them
\* agree in what they were partitioned by.
LEMMA RowsOfPart ==
    ASSUME DataInv, NEW part \in db_partitions
    PROVE  \E n \in 1 .. partition_size :
              /\ part \in [1 .. n -> DOMAIN enr_ss_map] /\ Len(part) = n
              /\ DOMAIN part \subseteq 1 .. partition_size
              /\ \A k, l \in 1 .. n : part[k] = part[l] => k = l
              /\ \A k, l \in 1 .. n : k # l => Agree(Source[part[k]], Source[part[l]]) = {}
<1>1. db_partitions \in Layouts(Source)
  BY DEF DataInv, PartsInv
<1>2. part \in RowOrders(DOMAIN Source)
  BY <1>1 DEF Layouts
<1>3. PICK n \in 1 .. partition_size :
         part \in [1 .. n -> DOMAIN Source] /\ \A k, l \in 1 .. n : part[k] = part[l] => k = l
  BY <1>2 DEF RowOrders
<1>4. DOMAIN Source = DOMAIN enr_ss_map
  BY DEF Source, DataInv, EnrInv, Blinded
<1>5. DOMAIN part = 1 .. n /\ n \in Nat
  BY <1>3, RowsOK
<1>6. \A k, l \in 1 .. n : k # l => Agree(Source[part[k]], Source[part[l]]) = {}
  BY <1>1, <1>5 DEF Layouts
<1>7. Len(part) = n
  BY <1>3, <1>5
<1>8. DOMAIN part \subseteq 1 .. partition_size
  BY <1>3, <1>5, RowsOK
<1> QED
  BY <1>3, <1>4, <1>6, <1>7, <1>8

\* The first row to lose its coordinate at a position met that of a row before,
\* which has its own.
LEMMA FirstLost ==
    ASSUME DataInv, NEW part \in db_partitions, LostIn(part) \in Repairs(part),
           NEW l \in DOMAIN part, NEW i \in Positions, <<i, l>> \in LostIn(part)
    PROVE  \E j, k \in DOMAIN part :
              j < k /\ k <= l /\ enr_ss_map[part[j]][i] = enr_ss_map[part[k]][i]
<1>1. PICK n \in 1 .. partition_size : DOMAIN part = 1 .. n /\ n \in Nat /\ l \in 1 .. n
  <2>1. PICK n \in 1 .. partition_size : part \in [1 .. n -> DOMAIN enr_ss_map]
    BY RowsOfPart
  <2> QED
    BY <2>1, RowsOK
<1> DEFINE S == {k \in 1 .. l : <<i, k>> \in LostIn(part)}
<1>2. S \subseteq Nat /\ l \in S
  BY <1>1
<1>3. PICK k \in S : \A other \in S : k <= other
  <2> HIDE DEF S
  <2>1. First(S) \in S /\ \A other \in S : First(S) <= other
    BY <1>2, LeastOf
  <2> QED
    BY <2>1
<1>4. <<i, k>> \in LaterPlaces /\ k \in 1 .. l
  BY <1>3 DEF Repairs
<1>5. PICK j \in 1 .. k - 1 : Point(part, LostIn(part), j, i) = Padded(part, k, i)
  <2>1. \A place \in LaterPlaces : place \in LostIn(part) <=>
           \E m \in 1 .. place[2] - 1 :
              Point(part, LostIn(part), m, place[1]) = Padded(part, place[2], place[1])
    BY DEF Repairs
  <2> QED
    BY <1>3, <1>4, <2>1
<1>6. j \in Int /\ k \in Int /\ 1 <= j /\ j < k /\ k <= l /\ l <= n
  BY <1>1, <1>4, <1>5
<1>7. <<i, j>> \notin LostIn(part)
  BY <1>1, <1>3, <1>6
<1>8. j \in DOMAIN part /\ k \in DOMAIN part
  BY <1>1, <1>6
<1> QED
  BY <1>5, <1>6, <1>7, <1>8 DEF Point, Padded

\* Where a row has another coordinate than its own, the guard has replaced it.
LEMMA KeptIsOwn ==
    ASSUME DataInv, NEW s \in DOMAIN sets, NEW part \in db_partitions,
           NEW k \in DOMAIN part, NEW i \in Positions
    PROVE  /\ sets[s].x[part][k][i] = Point(part, LostIn(part), k, i)
           /\ <<i, k>> \notin LostIn(part) => sets[s].x[part][k][i] = enr_ss_map[part[k]][i]
<1>1. sets[s].x = Coordinates
  BY DEF DataInv, SetsInv
<1>2. k \in 1 .. partition_size
  BY RowsOfPart
<1>3. sets[s].x[part][k][i] = Point(part, LostIn(part), k, i)
  BY <1>1, <1>2 DEF Coordinates
<1> QED
  BY <1>3 DEF Point, Padded

\* The points of a polynomial differ: the interpolation would have died otherwise.
LEMMA PointsDiffer ==
    ASSUME DataInv, NEW s \in DOMAIN sets, NEW part \in db_partitions,
           NEW k \in DOMAIN part, NEW l \in DOMAIN part, NEW i \in Positions,
           sets[s].x[part][k][i] = sets[s].x[part][l][i]
    PROVE  k = l
<1>1. sets # <<>>
  BY DEF DataInv
<1>2. LostIn(part) \in Repairs(part) /\ ~Singular(part)
  BY <1>1 DEF DataInv, SetsInv
<1>3. k \in 1 .. partition_size /\ l \in 1 .. partition_size
  BY RowsOfPart
<1>4. Point(part, LostIn(part), k, i) = Point(part, LostIn(part), l, i)
  <2>1. sets[s].x[part][k][i] = Point(part, LostIn(part), k, i)
    BY KeptIsOwn
  <2>2. sets[s].x[part][l][i] = Point(part, LostIn(part), l, i)
    BY KeptIsOwn
  <2> QED
    BY <2>1, <2>2
<1> QED
  BY <1>2, <1>3, <1>4 DEF Singular

\* Every id is interpolated at its own coordinates but in the bench, and there an
\* id loses one only to blinding: in every program, for every input.
THEOREM OnlyBlindingAfterwardsDisplaces == Spec => []OnlyTheBenchDisplaces
<1>1. DataInv => OnlyTheBenchDisplaces
  <2> SUFFICES ASSUME DataInv, NEW s \in DOMAIN sets, NEW id \in DOMAIN enrolled,
                      NEW i \in Positions, Displaced(sets[s], id, i)
               PROVE  /\ program.name = "bench"
                      /\ \E part \in sets[s].parts : \E j, k, l \in DOMAIN part :
                            /\ part[l] = id /\ j < k /\ k <= l
                            /\ enrolled[part[j]][i] # enrolled[part[k]][i]
                            /\ gc_key[enrolled[part[j]][i]] = gc_key[enrolled[part[k]][i]]
    BY DEF OnlyTheBenchDisplaces
  <2>1. /\ sets[s].parts = db_partitions /\ Past(6)
        /\ \A part \in db_partitions : LostIn(part) \in Repairs(part)
    <3>1. sets # <<>>
      OBVIOUS
    <3> QED
      BY <3>1 DEF DataInv, SetsInv
  <2>2. PICK part \in db_partitions : \E l \in DOMAIN part :
           part[l] = id /\ sets[s].x[part][l][i] # enr_ss_map[id][i]
    BY <2>1 DEF Displaced
  <2>3. PICK l \in DOMAIN part : part[l] = id /\ sets[s].x[part][l][i] # enr_ss_map[id][i]
    BY <2>2
  <2>4. <<i, l>> \in LostIn(part)
    BY <2>3, KeptIsOwn
  <2>5. PICK j \in DOMAIN part, k \in DOMAIN part :
           j < k /\ k <= l /\ enr_ss_map[part[j]][i] = enr_ss_map[part[k]][i]
    BY <2>1, <2>4, FirstLost
  <2>6. Source[part[j]][i] # Source[part[k]][i]
    <3>1. PICK n \in 1 .. partition_size :
             /\ part \in [1 .. n -> DOMAIN enr_ss_map]
             /\ \A a, b \in 1 .. n : a # b => Agree(Source[part[a]], Source[part[b]]) = {}
      BY RowsOfPart
    <3>2. j \in 1 .. n /\ k \in 1 .. n /\ n \in Nat
      BY <3>1, RowsOK
    <3>3. j # k
      BY <2>5, <3>2
    <3> QED
      BY <3>1, <3>2, <3>3 DEF Agree
  <2>7. program.name = "bench"
    BY <2>5, <2>6 DEF Source
  <2>8. Blinds /\ ~Unblinded
    BY <2>1, <2>7, DataPhases DEF Blinds, Unblinded, Undone, Pending, Past
  <2>9. enr_ss_map = Blinded(enrolled) /\ Source = enrolled
    BY <2>7, <2>8 DEF DataInv, EnrInv, Source
  <2>10. part[j] \in DOMAIN enrolled /\ part[k] \in DOMAIN enrolled
    BY <2>9, RowsOfPart DEF Blinded
  <2>11. gc_key[enrolled[part[j]][i]] = gc_key[enrolled[part[k]][i]]
    BY <2>5, <2>9, <2>10 DEF Blinded
  <2> QED
    BY <2>1, <2>3, <2>5, <2>6, <2>7, <2>9, <2>11
<1>2. Starved => OnlyTheBenchDisplaces
  <2>1. DOMAIN <<>> = {}
    OBVIOUS
  <2> QED
    BY <2>1 DEF Starved, OnlyTheBenchDisplaces
<1>3. DataInv /\ [Next]_vars => (DataInv \/ Starved)'
  BY DataInvNext, Starving DEF Lives
<1>4. Starved /\ [Next]_vars => Starved'
  BY StarvedStays
<1> QED
  BY DataInvInit, <1>1, <1>2, <1>3, <1>4, PTL DEF Spec

----------------------------------------------------------------------------
(* What is left, operation by operation                                     *)

\* Not done yet.
Left(step) == ~started \/ step \in Elements(todo)

\* An operation is left as long as one before it is, unless the process is dead.
UpSet ==
    started /\ ~crashed =>
      \A x \in Elements(todo), y \in StepSet :
         Phase(x.op) # 0 /\ Before(x, y) => y \in Elements(todo)

ControlInv ==
    /\ DataInv /\ UpSet /\ crashed \in BOOLEAN
    /\ crashed => started /\ todo = <<>> /\ Past(6)

LEMMA StepSetType ==
    ASSUME program \in Configs, NEW step \in StepSet
    PROVE  IsStep(step) /\ Phase(step.op) \in 1 .. 11 /\ Turn(step) \in Int /\ T \in Int
<1>1. Part(Steps, StepSet, 1, 11)
  BY StepsParts
<1>2. IsStep(step) /\ Phase(step.op) \in 1 .. 11
  BY <1>1 DEF Part, InOrder, Elements
<1>3. T \in Nat
  BY ConfigTypes
<1>4. Turn(step) \in Int
  BY <1>2, <1>3 DEF Turn, IsStep, Counted, Computes
<1> QED
  BY <1>2, <1>3, <1>4

\* Before is a strict order.
LEMMA BeforeIsOrder ==
    ASSUME program \in Configs, NEW x \in StepSet, NEW y \in StepSet
    PROVE  /\ ~Before(x, x) /\ ~(Before(x, y) /\ Before(y, x))
           /\ \A z \in StepSet : Before(x, y) /\ Before(y, z) => Before(x, z)
           /\ Before(x, y) => x # y
<1>1. \A step \in StepSet : Phase(step.op) \in Int /\ Turn(step) \in Int
  BY StepSetType
<1> QED
  BY <1>1 DEF Before

\* Where the program stands when it does an operation.
LEMMA DoingSplits ==
    ASSUME ControlInv, NEW op, Doing(op), Phase(op) # 0
    PROVE  /\ started /\ ~crashed /\ Head(todo) = Step(op, On) /\ Head(todo) \in StepSet
           /\ Left(Head(todo))
           /\ \A y \in StepSet : Before(Head(todo), y) => Left(y)
           /\ \A y \in StepSet : Before(y, Head(todo)) => ~Left(y)
<1>1. Head(todo) \in StepSet /\ IsStep(Head(todo)) /\ Head(todo).op = op
  BY DoingIsFirst DEF ControlInv, DataInv
<1>2. started /\ todo # <<>> /\ ~crashed
  BY DEF Doing, ControlInv
<1>3. /\ Head(todo) \in Elements(todo)
      /\ Elements(todo) = Elements(Tail(todo)) \cup {Head(todo)}
      /\ \A step \in Elements(Tail(todo)) : Phase(step.op) # 0 => Before(Head(todo), step)
  BY <1>1, <1>2, TailInOrder DEF ControlInv, DataInv, OrderInv
<1>4. \A y \in StepSet : Before(Head(todo), y) => Left(y)
  BY <1>1, <1>2, <1>3 DEF ControlInv, UpSet, Left
<1>5. ASSUME NEW y \in StepSet, Before(y, Head(todo)) PROVE ~Left(y)
  <2>1. program \in Configs
    BY DEF ControlInv, DataInv, OrderInv
  <2>2. y # Head(todo) /\ ~Before(Head(todo), y) /\ Phase(y.op) # 0
    BY <1>1, <1>5, <2>1, BeforeIsOrder, StepSetType
  <2> QED
    BY <1>2, <1>3, <2>2 DEF Left
<1> QED
  BY <1>1, <1>2, <1>3, <1>4, <1>5 DEF IsStep, Left, On

\* An operation is done by the step that finds it first.
LEMMA LeftStep ==
    ASSUME ControlInv, [Lives]_vars, ~crashed', NEW y \in StepSet
    PROVE  /\ ~Left(y) => ~Left(y)'
           /\ y \in StepSet'
           /\ Left(y) /\ ~Doing(y.op) => Left(y)'
           /\ Left(y) /\ Head(todo) # y => Left(y)'
           /\ Left(y) /\ Head(todo) = y /\ todo # <<>> /\ todo' = Tail(todo) => ~Left(y)'
<1>0. OrderInv /\ started \in BOOLEAN /\ program \in Configs
  BY DEF ControlInv, DataInv, OrderInv
<1>1. /\ Begins \/ Goes \/ Dies \/ Records \/ Rests
      /\ program' = program /\ StepSet' = StepSet
  BY <1>0, TodoSteps, OrderIsOfTheProgram
<1>2. Elements(todo)' = Elements(todo')
  BY DEF Elements
<1>3. Phase(y.op) # 0
  BY <1>0, StepSetType
<1>4. CASE Begins
  <2>1. y \in Elements(Steps)
    BY <1>0, StepsParts DEF Part
  <2>2. todo = <<>>
    BY <1>0, <1>4 DEF Begins, OrderInv
  <2> QED
    BY <1>1, <1>2, <1>4, <2>1, <2>2 DEF Begins, Left
<1>5. CASE Goes
  <2>1. /\ Elements(todo) = Elements(Tail(todo)) \cup {Head(todo)}
        /\ Phase(Head(todo).op) # 0 =>
             \A step \in Elements(Tail(todo)) : Phase(step.op) # 0 => Before(Head(todo), step)
    BY <1>0, <1>5, TailInOrder DEF Goes, OrderInv
  <2>2. Head(todo) = y => y \notin Elements(Tail(todo))
    BY <1>0, <1>3, <2>1, BeforeIsOrder
  <2>3. /\ (Left(y) <=> y \in Elements(todo)) /\ (Left(y)' <=> y \in Elements(Tail(todo)))
    BY <1>2, <1>5 DEF Goes, Left
  <2>4. Head(todo) = y => Doing(y.op)
    BY <1>5 DEF Goes, Doing
  <2> QED
    BY <1>1, <2>1, <2>2, <2>3, <2>4
<1>6. CASE Dies
  BY <1>6 DEF Dies
<1>7. CASE Records
  <2>1. PICK n : todo' = RecordedQuery(n) \o todo
    BY <1>7 DEF Records
  <2>2. /\ Elements(todo') = Elements(RecordedQuery(n)) \cup Elements(todo)
    BY <1>0, <2>1, ConcatInOrder, RecordedQueryIsQuiet DEF OrderInv
  <2>3. y \notin Elements(RecordedQuery(n))
    BY <1>3, RecordedQueryIsQuiet
  <2>4. Left(y)' <=> Left(y)
    BY <1>2, <1>7, <2>2, <2>3 DEF Records, Left
  <2>5. todo' # Tail(todo) \/ Head(todo) # y \/ todo = <<>>
    <3>1. ASSUME todo' = Tail(todo), Head(todo) = y, todo # <<>> PROVE FALSE
      <4>1. y \notin Elements(Tail(todo)) /\ Head(todo) \in Elements(todo)
        <5>1. /\ Elements(todo) = Elements(Tail(todo)) \cup {Head(todo)}
              /\ Phase(Head(todo).op) # 0 =>
                   \A step \in Elements(Tail(todo)) : Phase(step.op) # 0 => Before(Head(todo), step)
          BY <1>0, <3>1, TailInOrder DEF OrderInv
        <5> QED
          BY <1>0, <1>3, <3>1, <5>1, BeforeIsOrder
      <4> QED
        BY <2>2, <3>1, <4>1
    <3> QED
      BY <3>1
  <2> QED
    BY <1>1, <2>4, <2>5
<1>8. CASE Rests
  <2>1. Left(y)' <=> Left(y)
    BY <1>2, <1>8 DEF Rests, Left
  <2>2. ASSUME todo' = Tail(todo), todo # <<>> PROVE FALSE
    <3>1. Len(Tail(todo)) = Len(todo) - 1 /\ Len(todo) \in Nat
      BY <1>0, <2>2, SeqBasics DEF OrderInv, InOrder
    <3> QED
      BY <1>8, <2>2, <3>1 DEF Rests
  <2> QED
    BY <1>1, <2>1, <2>2
<1> QED
  BY <1>1, <1>4, <1>5, <1>6, <1>7, <1>8

LEMMA ControlInit == Init => ControlInv
<1> SUFFICES ASSUME Init PROVE ControlInv
  OBVIOUS
<1>1. DataInv
  BY DataInvInit
<1> QED
  BY <1>1 DEF Init, ControlInv, UpSet

LEMMA ControlNext == ControlInv /\ [Lives]_vars => ControlInv'
<1> SUFFICES ASSUME ControlInv, [Lives]_vars PROVE ControlInv'
  OBVIOUS
<1>0. OrderInv /\ started \in BOOLEAN /\ program \in Configs /\ crashed \in BOOLEAN /\ DataInv
  BY DEF ControlInv, DataInv, OrderInv
<1>1. /\ DataInv'
      /\ Begins \/ Goes \/ Dies \/ Records \/ Rests
      /\ program' = program
      /\ \A op : Phase(op)' = Phase(op)
      /\ \A a, b : Before(a, b)' = Before(a, b)
      /\ StepSet' = StepSet
      /\ \A p : Past(p) => Past(p)'
      /\ started => started'
  BY <1>0, DataInvNext, TodoSteps, OrderStep, OrderIsOfTheProgram
<1>2. crashed' \in BOOLEAN /\ (crashed' => started' /\ todo' = <<>> /\ Past(6)')
  <2>1. CASE Begins
    BY <1>0, <1>1, <2>1 DEF Begins, ControlInv
  <2>2. CASE Goes
    BY <1>0, <1>1, <2>2 DEF Goes, ControlInv
  <2>3. CASE Dies
    <3>1. PICK c \in Computes : Doing(c)
      BY <2>3 DEF Dies
    <3>2. Phase(c) = 7 /\ 7 - 1 = 6
      BY DataPhases
    <3>3. Past(6)
      BY <1>0, <3>1, <3>2, DoingIsFirst
    <3> QED
      BY <1>1, <2>3, <3>3 DEF Dies
  <2>4. CASE Records
    BY <1>0, <1>1, <2>4 DEF Records, ControlInv, Doing
  <2>5. CASE Rests
    BY <1>0, <1>1, <2>5 DEF Rests, ControlInv
  <2> QED
    BY <1>1, <2>1, <2>2, <2>3, <2>4, <2>5
<1>3. UpSet'
  <2> SUFFICES ASSUME started', ~crashed', NEW x \in Elements(todo)', NEW y \in StepSet',
                      Phase(x.op)' # 0, Before(x, y)'
               PROVE  y \in Elements(todo)'
    BY DEF UpSet
  <2>1. y \in StepSet /\ Phase(x.op) # 0 /\ Before(x, y) /\ Elements(todo)' = Elements(todo')
    BY <1>1 DEF Elements
  <2>2. CASE Begins
    <3>1. y \in Elements(Steps)
      BY <1>0, <2>1, StepsParts DEF Part
    <3> QED
      BY <2>1, <2>2, <3>1 DEF Begins
  <2>4. CASE Goes
    <3>1. /\ Elements(todo) = Elements(Tail(todo)) \cup {Head(todo)}
          /\ Phase(Head(todo).op) # 0 =>
               \A step \in Elements(Tail(todo)) : Phase(step.op) # 0 => Before(Head(todo), step)
      BY <1>0, <2>4, TailInOrder DEF Goes, OrderInv
    <3>2. x \in Elements(Tail(todo)) /\ x \in StepSet
      BY <1>0, <2>1, <2>4, <3>1 DEF Goes, OrderInv
    <3>3. Head(todo) # y
      <4>1. ASSUME Head(todo) = y PROVE FALSE
        <5>1. Phase(y.op) # 0
          BY <1>0, <2>1, StepSetType
        <5>2. Before(y, x)
          BY <2>1, <3>1, <3>2, <4>1, <5>1
        <5> QED
          BY <1>0, <2>1, <3>2, <5>2, BeforeIsOrder
      <4> QED
        BY <4>1
    <3>4. y \in Elements(todo)
      BY <2>1, <2>4, <3>1, <3>2 DEF ControlInv, UpSet, Goes
    <3> QED
      BY <2>1, <2>4, <3>1, <3>3, <3>4 DEF Goes
  <2>5. CASE Dies
    BY <2>5 DEF Dies
  <2>6. CASE Records
    <3>1. PICK n : todo' = RecordedQuery(n) \o todo
      BY <2>6 DEF Records
    <3>2. /\ Elements(todo') = Elements(RecordedQuery(n)) \cup Elements(todo)
      BY <1>0, <3>1, ConcatInOrder, RecordedQueryIsQuiet DEF OrderInv
    <3>3. x \in Elements(todo)
      BY <2>1, <3>2, RecordedQueryIsQuiet
    <3>4. y \in Elements(todo)
      BY <2>1, <2>6, <3>3 DEF ControlInv, UpSet, Records
    <3> QED
      BY <2>1, <3>2, <3>4
  <2>7. CASE Rests
    BY <2>1, <2>7 DEF ControlInv, UpSet, Rests
  <2> QED
    BY <1>1, <2>2, <2>4, <2>5, <2>6, <2>7
<1> QED
  BY <1>1, <1>2, <1>3 DEF ControlInv

----------------------------------------------------------------------------
(* The loader, the share maps and the sets of the sender                    *)

FromFile == program.name \in {"csv_run", "apps"}

\* The lines of the enrollment file that are read, those that are taken, and
\* those whose label is readable.
ReadLines == {n \in DOMAIN db_file : n <= Len(db_file) - Len(rest)}
Taken(n) == ~Skipped(db_file[n])
Labelled(n) == Taken(n) /\ LabelOf(db_file[n], program.label_col) # BadLabel
LabelledLines(id) == {n \in ReadLines : Labelled(n) /\ db_file[n].id = id}

\* The label that the first sharing of an id is of.
FirstLabel(id) ==
    IF FromFile THEN LabelOf(db_file[First(LabelledLines(id))], program.label_col) ELSE id

FileInv ==
    /\ IsSeq(db_file)
    /\ FromFile => db_file \in Files
    /\ IsSeq(rest) /\ Len(rest) <= Len(db_file)
    /\ \A k \in DOMAIN rest : rest[k] = db_file[k + (Len(db_file) - Len(rest))]

LoadInv ==
    FromFile =>
      /\ Undone("loadEnrollmentCSV") \/ rest = <<>>
      /\ DOMAIN enrolled = {db_file[n].id : n \in {n \in ReadLines : Taken(n)}}
      /\ DOMAIN token_share_map = {db_file[n].id : n \in {n \in ReadLines : Labelled(n)}}

LabelInv ==
    /\ ~FromFile => DOMAIN enrolled \subseteq Int
    /\ \A id \in DOMAIN id_share_map :
          \E d \in LabelCoefs : Head(id_share_map[id]) = Sharing(FirstLabel(id), d)

\* After the shares are set, and until they are cleared again.
SharedInv ==
    ~FromFile /\ ~crashed =>
      \A y \in StepSet :
        (/\ y.op = "setShares" /\ ~Left(y)
         /\ \A z \in StepSet : z.op = "clearShares" /\ Before(y, z) => Left(z))
          => DOMAIN enrolled \subseteq DOMAIN token_share_map

AgainInv ==
    /\ IsSeq(token_share_maps)
    /\ token_share_maps # <<>> => FromFile /\ ~Undone("loadEnrollmentCSV")
    /\ \A t \in DOMAIN token_share_maps :
          /\ DOMAIN token_share_maps[t] = DOMAIN enrolled
          /\ \A id \in DOMAIN enrolled : token_share_maps[t][id] \in TokenSharings
    /\ ~crashed => \A y \in StepSet :
          y.op = "shareAgain" /\ ~Left(y) => y.on - 1 \in DOMAIN token_share_maps

\* The number of the set that an operation computes.
SetNo(step) == IF step.op = "computeLabelSet" THEN T + step.on ELSE step.on

NumberInv ==
    ~crashed => \A y \in StepSet : y.op \in Computes => (~Left(y) <=> SetNo(y) <= Len(sets))

\* What kills a program that has rows to interpolate.
Doomed == WithoutShares # {} \/ \E part \in db_partitions : Singular(part)

\* Every set has a token sharing and a sharing of the label of its round.
WholeInv ==
    /\ \A s \in DOMAIN sets : \A id \in DOMAIN enrolled :
          /\ TokenShared(sets[s], id) /\ LabelShared(sets[s], id)
          /\ sets[s].label[id].secret = LabelIn(s, id)
    /\ sets # <<>> /\ FromFile => DOMAIN enrolled \subseteq DOMAIN token_share_map
    /\ \A s \in DOMAIN sets : K > 0 /\ s > T =>
          DOMAIN enrolled \subseteq IdsOf(db_file, Relabelled(db_file, s - T))
    /\ crashed => Doomed

SenderInv ==
    /\ ControlInv /\ ShareInv /\ FileInv /\ LoadInv /\ LabelInv
    /\ SharedInv /\ AgainInv /\ NumberInv /\ WholeInv

\* The operations of the programs, by what they are.
LEMMA FileSteps ==
    ASSUME program \in Configs, FromFile
    PROVE  /\ Step("loadEnrollmentCSV", 0) \in StepSet
           /\ \A y \in StepSet : y.op \notin {"clearShares", "setShares", "generateDatabase",
                                              "buildEnrMap", "copyQueries", "chooseProbes"}
<1>1. CASE program.name = "csv_run"
  <2>1. StepSet = CsvRunSet
    BY <1>1 DEF StepSet
  <2> QED
    BY <2>1 DEF CsvRunSet, Step
<1>2. CASE program.name = "apps"
  <2>1. StepSet = SenderSet \cup ReceiverSet
    BY <1>2 DEF StepSet
  <2>2. \A y \in SenderSet : y.op \in {"loadEnrollmentCSV", "generateAesKey", "shareAgain",
              "blindDatabaseOffline", "parallelPartitionDB"} \cup Computes
    BY DEF SenderSet, Step, Computes
  <2>3. \A y \in ReceiverSet : y.op \in {"loadQueryCSV", "round", "blindForRound", "blindQueries",
              "encryptQueryPowers"}
    BY DEF ReceiverSet, Step
  <2>4. Step("loadEnrollmentCSV", 0) \in StepSet
    BY <2>1 DEF SenderSet
  <2> QED
    BY <2>1, <2>2, <2>3, <2>4 DEF Computes
<1> QED
  BY <1>1, <1>2 DEF FromFile

LEMMA MemorySteps ==
    ASSUME program \in Configs, ~FromFile
    PROVE  \A y \in StepSet : y.op \notin {"loadEnrollmentCSV", "shareAgain", "computeTokenSet",
                                           "computeLabelSet", "loadQueryCSV", "blindForRound"}
<1>1. CASE program.name = "bench"
  <2>1. StepSet = BenchSet
    BY <1>1 DEF StepSet
  <2> QED
    BY <2>1 DEF BenchSet, Step
<1>2. CASE program.name = "rung_stlpsi"
  <2>1. StepSet = StlpsiSet
    BY <1>2 DEF StepSet
  <2> QED
    BY <2>1 DEF StlpsiSet, QueriesSet, Step
<1>3. CASE program.name = "rung_cstpsi"
  <2>1. StepSet = CstpsiSet
    BY <1>3 DEF StepSet
  <2> QED
    BY <2>1 DEF CstpsiSet, QueriesSet, Step
<1> QED
  BY <1>1, <1>2, <1>3, ConfigTypes DEF FromFile

\* What is being done is done by a program that has it.
LEMMA DoingOf ==
    ASSUME ControlInv, NEW op, Doing(op)
    PROVE  /\ op \in {"loadEnrollmentCSV", "shareAgain", "computeTokenSet", "computeLabelSet",
                      "loadQueryCSV", "blindForRound"} => FromFile
           /\ op \in {"clearShares", "setShares", "generateDatabase", "buildEnrMap",
                      "copyQueries", "chooseProbes"} => ~FromFile
<1>1. program \in Configs
  BY DEF ControlInv, DataInv, OrderInv
<1>2. Phase(op) # 0 => Head(todo) \in StepSet /\ Head(todo).op = op
  BY DoingSplits DEF Doing
<1>3. op \in {"loadEnrollmentCSV", "shareAgain", "computeTokenSet", "computeLabelSet",
              "loadQueryCSV", "blindForRound", "clearShares", "setShares", "generateDatabase",
              "buildEnrMap", "copyQueries", "chooseProbes"} => Phase(op) # 0
  BY DEF Phase, Sources, Computes
<1> QED
  BY <1>1, <1>2, <1>3, FileSteps, MemorySteps

\* What stays as it is in every step: the program, its file, and so what is
\* said of both.
LEMMA ProgramStays ==
    ASSUME program' = program, db_file' = db_file
    PROVE  /\ FromFile' = FromFile /\ T' = T /\ K' = K /\ Rounds' = Rounds
           /\ (rest' = rest => ReadLines' = ReadLines)
           /\ \A n : Taken(n)' = Taken(n) /\ Labelled(n)' = Labelled(n)
           /\ \A y : SetNo(y)' = SetNo(y)
           /\ (rest' = rest => \A id : FirstLabel(id)' = FirstLabel(id))
           /\ \A s, id : LabelIn(s, id)' = LabelIn(s, id)
<1>1. FromFile' = FromFile /\ T' = T /\ K' = K
  BY DEF FromFile, T, K
<1>2. Rounds' = Rounds
  BY <1>1 DEF Rounds
<1>3. rest' = rest => ReadLines' = ReadLines
  BY DEF ReadLines
<1>4. \A n : Taken(n)' = Taken(n) /\ Labelled(n)' = Labelled(n)
  BY DEF Taken, Labelled
<1>5. \A y : SetNo(y)' = SetNo(y)
  BY <1>1 DEF SetNo
<1>6. rest' = rest => \A id : FirstLabel(id)' = FirstLabel(id)
  BY <1>1, <1>3, <1>4 DEF FirstLabel, LabelledLines
<1>7. \A s, id : LabelIn(s, id)' = LabelIn(s, id)
  <2>1. \A id : EnrolledRows(id)' = EnrolledRows(id)
    BY DEF EnrolledRows
  <2>2. \A rows, column : Readable(rows, column)' = Readable(rows, column)
    BY DEF Readable
  <2> QED
    BY <1>1, <2>1, <2>2 DEF LabelIn
<1> QED
  BY <1>1, <1>2, <1>3, <1>4, <1>5, <1>6, <1>7

\* The loader goes through the file line by line.
LEMMA FileInvInit == Init => FileInv
<1> SUFFICES ASSUME Init PROVE FileInv
  OBVIOUS
<1>1. FromFile => db_file \in Files
  BY DEF Init, FromFile
<1>2. ~FromFile => db_file = <<>>
  BY DEF Init, FromFile
<1>3. IsSeq(db_file) /\ Len(db_file) \in Nat
  <2>1. CASE FromFile
    <3>1. Len(db_file) \in Nat /\ db_file = [n \in 1 .. Len(db_file) |-> db_file[n]]
      BY <1>1, <2>1, InputsOK
    <3>2. ASSUME NEW n \in Nat, NEW s, s = [k \in 1 .. n |-> s[k]] PROVE IsSeq(s)
      <4>1. s \in [1 .. n -> {s[k] : k \in 1 .. n}]
        BY <3>2
      <4>2. s \in Seq({s[k] : k \in 1 .. n})
        BY <4>1
      <4> QED
        BY <4>2 DEF IsSeq
    <3> QED
      BY <3>1, <3>2
  <2>2. CASE ~FromFile
    <3>1. <<>> \in Seq({}) /\ Len(<<>>) = 0
      OBVIOUS
    <3> QED
      BY <1>2, <2>2, <3>1 DEF IsSeq
  <2> QED
    BY <2>1, <2>2
<1>4. rest = db_file
  BY DEF Init, EnrollmentInit
<1>5. \A k \in DOMAIN rest : rest[k] = db_file[k + (Len(db_file) - Len(rest))]
  <2>1. DOMAIN db_file = 1 .. Len(db_file)
    BY <1>3, SeqBasics
  <2> QED
    BY <1>3, <1>4, <2>1
<1> QED
  BY <1>1, <1>3, <1>4, <1>5 DEF FileInv

\* Reading a line.
LEMMA ReadLine ==
    ASSUME FileInv, rest # <<>>, rest' = Tail(rest), db_file' = db_file, program' = program
    PROVE  /\ FileInv'
           /\ \E n \in DOMAIN db_file \ ReadLines :
                 /\ Head(rest) = db_file[n] /\ ReadLines' = ReadLines \cup {n}
                 /\ n \in Nat /\ \A k \in ReadLines : k < n
<1> DEFINE n == Len(db_file) - Len(rest) + 1
<1>1. /\ Len(rest) \in Nat /\ DOMAIN rest = 1 .. Len(rest) /\ Len(rest) > 0
      /\ IsSeq(Tail(rest)) /\ Len(Tail(rest)) = Len(rest) - 1 /\ Head(rest) = rest[1]
      /\ \A k \in 1 .. Len(rest) - 1 : Tail(rest)[k] = rest[k + 1]
      /\ Len(db_file) \in Nat /\ DOMAIN db_file = 1 .. Len(db_file)
  BY SeqBasics DEF FileInv
<1>2. n \in DOMAIN db_file \ ReadLines /\ n \in Nat /\ \A k \in ReadLines : k < n
  BY <1>1 DEF ReadLines, FileInv
<1>3. Head(rest) = db_file[n]
  BY <1>1 DEF FileInv
<1>4. ReadLines' = ReadLines \cup {n}
  BY <1>1 DEF ReadLines, FileInv
<1>5. FileInv'
  <2>1. DOMAIN Tail(rest) = 1 .. Len(rest) - 1
    BY <1>1, SeqBasics
  <2>2. \A k \in DOMAIN rest' : rest'[k] = db_file[k + (Len(db_file) - Len(rest'))]
    <3>1. ASSUME NEW k \in 1 .. Len(rest) - 1
          PROVE  Tail(rest)[k] = db_file[k + (Len(db_file) - (Len(rest) - 1))]
      <4>0. k + 1 \in DOMAIN rest
        BY <1>1
      <4>1. rest[k + 1] = db_file[k + 1 + (Len(db_file) - Len(rest))]
        BY <4>0 DEF FileInv
      <4>2. k + 1 + (Len(db_file) - Len(rest)) = k + (Len(db_file) - (Len(rest) - 1))
        BY <1>1
      <4> QED
        BY <1>1, <4>1, <4>2
    <3> QED
      BY <1>1, <2>1, <3>1
  <2>3. FromFile' => db_file' \in Files
    BY ProgramStays DEF FileInv
  <2> QED
    BY <1>1, <2>2, <2>3 DEF FileInv
<1> QED
  BY <1>2, <1>3, <1>4, <1>5

\* What a step may do to the database and the share maps.
Loads ==
    /\ Doing("loadEnrollmentCSV") /\ UNCHANGED <<todo, started, crashed>>
    /\ SkipLine \/ EnrollLine(program.label_col)
    /\ enrolled' = enr_ss_map'
    /\ UNCHANGED <<token_share_maps, sets>>
Chooses ==
    /\ \E op \in {"generateDatabase", "buildEnrMap"} : Doing(op)
    /\ enrolled' \in Databases
    /\ UNCHANGED <<rest, token_share_map, id_share_map, token_share_maps, sets>>
Leaves ==
    /\ UNCHANGED <<rest, token_share_map, id_share_map, enrolled, token_share_maps, sets>>
    /\ Doing("loadEnrollmentCSV") => rest = <<>> \/ UNCHANGED <<todo, started>>
    /\ \A op \in {"clearShares", "setShares", "shareAgain"} \cup Computes :
          Doing(op) => UNCHANGED <<todo, started, crashed>>

LEMMA ShareSteps ==
    ASSUME DataInv, [Lives]_vars
    PROVE  \/ Loads \/ Chooses \/ Leaves
           \/ clearShares \/ setShares \/ shareAgain \/ computeCoefficients
<1> USE DEF enrollment_vars, offline_vars, history_vars, query_vars
<1>0. ASSUME NEW op, Doing(op),
             op \notin {"clearShares", "setShares", "shareAgain", "loadEnrollmentCSV"} \cup Computes,
             UNCHANGED <<rest, token_share_map, id_share_map, enrolled, token_share_maps, sets>>
      PROVE  Leaves
  <2>1. \A o \in {"clearShares", "setShares", "shareAgain", "loadEnrollmentCSV"} \cup Computes : ~Doing(o)
    BY <1>0 DEF Doing
  <2> QED
    BY <1>0, <2>1 DEF Leaves
<1> USE DEF Computes
<1>1. CASE applyToGlobals
  <2>1. \A op : ~Doing(op)
    BY <1>1 DEF applyToGlobals, Doing
  <2> QED
    BY <1>1, <2>1 DEF applyToGlobals, Leaves
<1>2. CASE ChooseDatabase
  BY <1>2 DEF ChooseDatabase, Chooses
<1>3. CASE loadEnrollmentCSV
  <2>1. CASE rest = <<>> /\ Advance /\ UNCHANGED enrollment_vars
    <3>2. Doing("loadEnrollmentCSV")
      BY <1>3 DEF loadEnrollmentCSV
    <3>1. enrolled' = enrolled
      <4>1. Phase("loadEnrollmentCSV") \in {1, 2}
        BY DataPhases DEF Sources
      <4>2. enr_ss_map = enrolled
        BY <3>2, <4>1, EarlyData
      <4> QED
        BY <1>3, <2>1, <4>2 DEF loadEnrollmentCSV
    <3>3. \A o \in {"clearShares", "setShares", "shareAgain"} \cup Computes : ~Doing(o)
      BY <3>2 DEF Doing
    <3> QED
      BY <1>3, <2>1, <3>1, <3>2, <3>3 DEF loadEnrollmentCSV, Leaves
  <2>2. CASE (SkipLine \/ EnrollLine(program.label_col)) /\ Stay
    BY <1>3, <2>2 DEF loadEnrollmentCSV, Loads, Stay, control_vars
  <2> QED
    BY <1>3, <2>1, <2>2 DEF loadEnrollmentCSV
<1>7. CASE generateAesKey \/ blindDatabaseOffline \/ parallelPartitionDB
  BY <1>0, <1>7 DEF generateAesKey, blindDatabaseOffline, parallelPartitionDB
<1>11. CASE simdPartitions \/ endRound
  BY <1>0, <1>11 DEF simdPartitions, endRound
<1>12. CASE loadQueries
  BY <1>0, <1>12 DEF loadQueries
<1>13. CASE prepareQueries
  BY <1>0, <1>13 DEF prepareQueries
<1>14. ASSUME NEW r, NEW n, Answer(r, n)
       PROVE  UNCHANGED <<rest, token_share_map, id_share_map, enrolled, token_share_maps, sets>>
  BY <1>14 DEF Answer
<1>15. CASE submitQuery \/ findRecordedMatches
  BY <1>0, <1>14, <1>15 DEF submitQuery, findRecordedMatches
<1>16. CASE submitRecordedQuery
  BY <1>0, <1>16 DEF submitRecordedQuery
<1>17. CASE record
  BY <1>0, <1>17 DEF record
<1>18. CASE UNCHANGED vars \/ Exit
  BY <1>18 DEF vars, Exit, control_vars, Leaves
<1> QED
  BY <1>1, <1>2, <1>3, <1>7, <1>11, <1>12, <1>13, <1>15, <1>16, <1>17, <1>18 DEF Lives, Next

\* It stays the smallest when larger ones come.
LEMMA LeastStays ==
    ASSUME NEW S, S \subseteq Nat, NEW n \in Nat, \A k \in S : k < n
    PROVE  First(S \cup {n}) = IF S = {} THEN n ELSE First(S)
<1>1. First(S \cup {n}) \in S \cup {n} /\ \A k \in S \cup {n} : First(S \cup {n}) <= k
  <2>1. S \cup {n} \subseteq Nat /\ S \cup {n} # {}
    OBVIOUS
  <2> QED
    BY <2>1, LeastOf
<1>2. CASE S = {}
  BY <1>1, <1>2
<1>3. CASE S # {}
  <2>1. First(S) \in S /\ \A k \in S : First(S) <= k
    BY <1>3, LeastOf
  <2> DEFINE a == First(S \cup {n})
             b == First(S)
  <2>2. a <= b /\ (a \in S \/ a = n) /\ b < n /\ a \in Nat /\ b \in Nat
    BY <1>1, <2>1
  <2>3. a \in S => b <= a
    BY <2>1
  <2> QED
    BY <1>3, <2>2, <2>3
<1> QED
  BY <1>2, <1>3

\* The first sharing of an id stays the first.
LEMMA HeadOfAppend ==
    ASSUME NEW s, IsSeq(s), NEW e
    PROVE  Head(Append(s, e)) = IF s = <<>> THEN e ELSE Head(s)
<1>1. PICK S : s \in Seq(S)
  BY DEF IsSeq
<1>2. s \in Seq(S \cup {e})
  BY <1>1
<1>3. Len(s) \in Nat /\ (s = <<>> <=> Len(s) = 0) /\ Append(s, e) \in Seq(S \cup {e})
      /\ Len(Append(s, e)) = Len(s) + 1
  BY <1>2
<1>4. Head(Append(s, e)) = Append(s, e)[1]
  BY <1>3
<1>5. CASE s = <<>>
  BY <1>2, <1>3, <1>4, <1>5
<1>6. CASE s # <<>>
  <2>1. 1 \in 1 .. Len(s)
    BY <1>3, <1>6
  <2>2. Append(s, e)[1] = s[1] /\ Head(s) = s[1]
    BY <1>2, <2>1
  <2> QED
    BY <1>4, <1>6, <2>2
<1> QED
  BY <1>5, <1>6

LEMMA LabelsAreSeqs ==
    ASSUME ShareInv
    PROVE  /\ DOMAIN token_share_map = DOMAIN id_share_map
           /\ \A id \in DOMAIN id_share_map : IsSeq(id_share_map[id]) /\ id_share_map[id] # <<>>
<1>1. DOMAIN token_share_map = DOMAIN id_share_map
  BY DEF ShareInv, ShareMapsAgree
<1>2. ASSUME NEW id \in DOMAIN id_share_map
      PROVE  IsSeq(id_share_map[id]) /\ id_share_map[id] # <<>>
  <2>1. /\ token_share_map[id] \in Seq(TokenSharings) /\ token_share_map[id] # <<>>
        /\ Len(token_share_map[id]) = Len(id_share_map[id])
    BY <1>1, <1>2 DEF ShareInv, ShareMapsAgree
  <2>2. Len(token_share_map[id]) > 0
    BY <2>1
  <2>3. Len(<<>>) = 0
    OBVIOUS
  <2> QED
    BY <1>2, <2>1, <2>2, <2>3 DEF ShareInv
<1> QED
  BY <1>1, <1>2

\* A line that is read.
LEMMA LoadsKeeps ==
    ASSUME ControlInv, ShareInv, FileInv, LoadInv, LabelInv, Loads, [Lives]_vars
    PROVE  FileInv' /\ LoadInv' /\ LabelInv'
<1>0. program' = program /\ db_file' = db_file /\ started \in BOOLEAN /\ OrderInv
  BY TodoSteps DEF ControlInv, DataInv
<1>1. FromFile /\ FromFile'
  BY <1>0, DoingOf, ProgramStays DEF Loads
<1>2. enr_ss_map = enrolled
  <2>1. Phase("loadEnrollmentCSV") \in {1, 2}
    BY DataPhases DEF Sources
  <2> QED
    BY <2>1, EarlyData DEF Loads, ControlInv
<1>3. rest # <<>> /\ rest' = Tail(rest)
  BY DEF Loads, SkipLine, EnrollLine
<1>4. FileInv'
  BY <1>0, <1>3, ReadLine
<1>5. PICK n \in DOMAIN db_file \ ReadLines :
        /\ Head(rest) = db_file[n] /\ ReadLines' = ReadLines \cup {n}
        /\ n \in Nat /\ \A k \in ReadLines : k < n
  BY <1>0, <1>3, ReadLine
<1>6. \A k : Taken(k)' = Taken(k) /\ Labelled(k)' = Labelled(k)
  BY <1>0, ProgramStays
<1>7. Undone("loadEnrollmentCSV")'
  <2>1. Undone("loadEnrollmentCSV")
    <3>1. Phase("loadEnrollmentCSV") # 0
      BY DataPhases DEF Sources
    <3> QED
      BY <1>0, <3>1, DoingIsFirst DEF Loads
  <2> QED
    BY <2>1 DEF Loads, Undone, Pending, Elements
<1>i. PICK id : id = db_file[n].id
  OBVIOUS
<1> DEFINE taken == {k \in ReadLines : Taken(k)}
           labelled == {k \in ReadLines : Labelled(k)}
<1>8. /\ {k \in ReadLines : Taken(k)}' = IF Taken(n) THEN taken \cup {n} ELSE taken
      /\ {k \in ReadLines : Labelled(k)}' = IF Labelled(n) THEN labelled \cup {n} ELSE labelled
  BY <1>5, <1>6
<1>9. \A k : LabelledLines(k)' = IF Labelled(n) /\ id = k THEN LabelledLines(k) \cup {n}
                                 ELSE LabelledLines(k)
  BY <1>0, <1>5, <1>6, <1>i DEF LabelledLines
<1>10. /\ DOMAIN enrolled' = DOMAIN enrolled \cup (IF Taken(n) THEN {id} ELSE {})
       /\ DOMAIN token_share_map' = DOMAIN token_share_map \cup (IF Labelled(n) THEN {id} ELSE {})
       /\ IF Labelled(n)
            THEN \E d \in LabelCoefs : id_share_map' =
                   Push(id_share_map, id, Sharing(LabelOf(db_file[n], program.label_col), d))
            ELSE id_share_map' = id_share_map
  <2>1. CASE SkipLine
    <3>1. ~Taken(n) /\ ~Labelled(n)
      BY <1>5, <2>1 DEF SkipLine, Taken, Labelled
    <3> QED
      BY <1>2, <2>1, <3>1 DEF SkipLine, Loads
  <2>2. CASE EnrollLine(program.label_col)
    <3>1. Taken(n) /\ (Labelled(n) <=> LabelOf(Head(rest), program.label_col) # BadLabel)
      BY <1>5, <2>2 DEF EnrollLine, Taken, Labelled
    <3>2. enrolled' = Put(enrolled, id, db_file[n].items)
      BY <1>2, <1>5, <1>i, <2>2 DEF EnrollLine, Loads
    <3>3. DOMAIN enrolled' = DOMAIN enrolled \cup {id}
      BY <3>2 DEF Put
    <3>4. CASE Labelled(n)
      <4>1. PICK c \in TokenCoefs, d \in LabelCoefs :
              /\ token_share_map' = Push(token_share_map, id, Sharing(0, c))
              /\ id_share_map' =
                   Push(id_share_map, id, Sharing(LabelOf(db_file[n], program.label_col), d))
        BY <1>5, <1>i, <2>2, <3>1, <3>4 DEF EnrollLine
      <4>2. DOMAIN token_share_map' = DOMAIN token_share_map \cup {id}
        BY <4>1 DEF Push, Put
      <4> QED
        BY <3>1, <3>3, <3>4, <4>1, <4>2
    <3>5. CASE ~Labelled(n)
      BY <2>2, <3>1, <3>3, <3>5 DEF EnrollLine
    <3> QED
      BY <3>4, <3>5
  <2> QED
    BY <2>1, <2>2 DEF Loads
<1>11. LoadInv'
  <2>1. DOMAIN enrolled = {db_file[k].id : k \in taken}
    BY <1>1 DEF LoadInv
  <2>2. DOMAIN token_share_map = {db_file[k].id : k \in labelled}
    BY <1>1 DEF LoadInv
  <2>3. DOMAIN enrolled' = {db_file[k].id : k \in {k \in ReadLines : Taken(k)}'}
    <3> HIDE DEF taken
    <3> QED
      BY <1>8, <1>10, <1>i, <2>1
  <2>4. DOMAIN token_share_map' = {db_file[k].id : k \in {k \in ReadLines : Labelled(k)}'}
    <3> HIDE DEF labelled
    <3> QED
      BY <1>8, <1>10, <1>i, <2>2
  <2> QED
    BY <1>0, <1>1, <1>7, <2>3, <2>4 DEF LoadInv
<1>12. LabelInv'
  <2>1. /\ DOMAIN token_share_map = DOMAIN id_share_map
        /\ \A k \in DOMAIN id_share_map : IsSeq(id_share_map[k]) /\ id_share_map[k] # <<>>
    BY LabelsAreSeqs
  <2>2. \A k : LabelledLines(k) # {} <=> k \in DOMAIN id_share_map
    BY <1>1, <2>1 DEF LoadInv, LabelledLines
  <2>3. \A k \in DOMAIN id_share_map : FirstLabel(k)' = FirstLabel(k)
    <3> SUFFICES ASSUME NEW k \in DOMAIN id_share_map PROVE FirstLabel(k)' = FirstLabel(k)
      OBVIOUS
    <3>1. LabelledLines(k) # {} /\ LabelledLines(k) \subseteq Nat
          /\ \A l \in LabelledLines(k) : l < n
      <4>1. DOMAIN db_file \subseteq Nat
        BY SeqBasics DEF FileInv
      <4> QED
        BY <1>5, <2>2, <4>1 DEF LabelledLines, ReadLines
    <3>2. First(LabelledLines(k) \cup {n}) = First(LabelledLines(k))
      BY <1>5, <3>1, LeastStays
    <3>3. First(LabelledLines(k)') = First(LabelledLines(k))
      BY <1>9, <3>2
    <3>4. FirstLabel(k)' = LabelOf(db_file'[First(LabelledLines(k)')], program'.label_col)
      BY <1>1 DEF FirstLabel
    <3>5. FirstLabel(k) = LabelOf(db_file[First(LabelledLines(k))], program.label_col)
      BY <1>1 DEF FirstLabel
    <3> QED
      BY <1>0, <3>3, <3>4, <3>5
  <2>4. CASE ~Labelled(n)
    BY <1>1, <1>10, <2>3, <2>4 DEF LabelInv
  <2>5. CASE Labelled(n)
    <3>1. PICK d \in LabelCoefs : id_share_map' =
            Push(id_share_map, id, Sharing(LabelOf(db_file[n], program.label_col), d))
      BY <1>10, <2>5
    <3> DEFINE e == Sharing(LabelOf(db_file[n], program.label_col), d)
               old == IF id \in DOMAIN id_share_map THEN id_share_map[id] ELSE <<>>
    <3>2. /\ DOMAIN id_share_map' = DOMAIN id_share_map \cup {id}
          /\ id_share_map'[id] = Append(old, e)
          /\ \A k \in DOMAIN id_share_map \ {id} : id_share_map'[k] = id_share_map[k]
      BY <3>1 DEF Push, Put
    <3>3. IsSeq(<<>>)
      <4>1. <<>> \in Seq({})
        OBVIOUS
      <4> QED
        BY <4>1 DEF IsSeq
    <3>4. IsSeq(old)
      BY <2>1, <3>3
    <3>5. Head(Append(old, e)) = IF old = <<>> THEN e ELSE Head(old)
      <4> HIDE DEF old, e
      <4> QED
        BY <3>4, HeadOfAppend
    <3>6. CASE id \in DOMAIN id_share_map
      <4>1. \A k \in DOMAIN id_share_map' : k \in DOMAIN id_share_map
               /\ Head(id_share_map'[k]) = Head(id_share_map[k])
        BY <2>1, <3>2, <3>5, <3>6
      <4> QED
        BY <1>1, <2>3, <4>1 DEF LabelInv
    <3>7. CASE id \notin DOMAIN id_share_map
      <4>1. LabelledLines(id) = {}
        BY <2>2, <3>7
      <4>2. LabelledLines(id)' = {n}
        BY <1>9, <2>5, <4>1
      <4>3. First({n}) = n
        <5>1. {} \subseteq Nat /\ {} \cup {n} = {n} /\ \A k \in {} : k < n
          OBVIOUS
        <5> QED
          BY <1>5, <5>1, LeastStays
      <4>4. FirstLabel(id)' = LabelOf(db_file[n], program.label_col)
        <5>1. FirstLabel(id)' = LabelOf(db_file'[First(LabelledLines(id)')], program'.label_col)
          BY <1>1 DEF FirstLabel
        <5> QED
          BY <1>0, <4>2, <4>3, <5>1
      <4>5. Head(id_share_map'[id]) = Sharing(FirstLabel(id)', d)
        BY <3>2, <3>5, <3>7, <4>4
      <4>6. \A k \in DOMAIN id_share_map' : k = id \/ (k \in DOMAIN id_share_map
               /\ Head(id_share_map'[k]) = Head(id_share_map[k]))
        BY <3>2
      <4> QED
        BY <1>1, <2>3, <4>5, <4>6 DEF LabelInv
    <3> QED
      BY <3>6, <3>7
  <2> QED
    BY <2>4, <2>5
<1> QED
  BY <1>4, <1>11, <1>12

FilePart == FileInv /\ LoadInv /\ LabelInv

LEMMA LoadPhase == Phase("loadEnrollmentCSV") = 1 /\ Phase("shareAgain") = 1
BY DEF Phase, Sources

\* A step that reads no line and touches no share.
LEMMA FilePartStays ==
    ASSUME ControlInv, [Lives]_vars, FilePart, rest' = rest,
           ~FromFile \/ (enrolled' = enrolled /\ UNCHANGED token_share_map),
           ~FromFile => DOMAIN enrolled' \subseteq Int,
           \A id \in DOMAIN id_share_map' :
              \/ id \in DOMAIN id_share_map /\ Head(id_share_map'[id]) = Head(id_share_map[id])
              \/ \E d \in LabelCoefs : Head(id_share_map'[id]) = Sharing(FirstLabel(id), d),
           Doing("loadEnrollmentCSV") => rest = <<>> \/ UNCHANGED <<todo, started>>
    PROVE  FilePart'
<1>0. program' = program /\ db_file' = db_file /\ started \in BOOLEAN /\ OrderInv
      /\ program \in Configs
  BY TodoSteps DEF ControlInv, DataInv, OrderInv
<1>1. FileInv'
  BY <1>0, ProgramStays DEF FilePart, FileInv
<1>2. FromFile' = FromFile /\ ReadLines' = ReadLines
      /\ \A n : Taken(n)' = Taken(n) /\ Labelled(n)' = Labelled(n)
      /\ \A id : FirstLabel(id)' = FirstLabel(id)
  BY <1>0, ProgramStays
<1>3. LabelInv'
  BY <1>2 DEF FilePart, LabelInv
<1>4. ASSUME FromFile, rest # <<>> PROVE Undone("loadEnrollmentCSV")'
  <2>1. Undone("loadEnrollmentCSV")
    BY <1>4 DEF FilePart, LoadInv
  <2>2. CASE Doing("loadEnrollmentCSV")
    BY <1>4, <2>1, <2>2 DEF Undone, Pending, Elements
  <2>3. CASE ~Doing("loadEnrollmentCSV")
    BY <1>0, <1>4, <2>1, <2>3, FileSteps, LoadPhase, UndoneUntilDone
  <2> QED
    BY <2>2, <2>3
<1>5. LoadInv'
  <2> SUFFICES ASSUME FromFile PROVE LoadInv'
    BY <1>2 DEF LoadInv
  <2>1. {n \in ReadLines : Taken(n)}' = {n \in ReadLines : Taken(n)}
        /\ {n \in ReadLines : Labelled(n)}' = {n \in ReadLines : Labelled(n)}
    BY <1>2
  <2> QED
    BY <1>0, <1>2, <1>4, <2>1 DEF LoadInv, FilePart
<1> QED
  BY <1>1, <1>3, <1>5 DEF FilePart

LEMMA HeadOfConcat ==
    ASSUME NEW s, IsSeq(s), NEW e
    PROVE  Head(s \o <<e>>) = IF s = <<>> THEN e ELSE Head(s)
<1>1. PICK S : s \in Seq(S)
  BY DEF IsSeq
<1>2. s \in Seq(S \cup {e})
  BY <1>1
<1>3. s \o <<e>> = Append(s, e)
  BY <1>2
<1> QED
  BY <1>3, HeadOfAppend

LEMMA FilePartInit == Init => FilePart
<1> SUFFICES ASSUME Init PROVE FilePart
  OBVIOUS
<1>0. program \in Configs /\ ~started /\ rest = db_file /\ enrolled = <<>>
      /\ token_share_map = <<>> /\ id_share_map = <<>> /\ DOMAIN <<>> = {}
  BY DEF Init, EnrollmentInit
<1>1. FileInv
  BY FileInvInit
<1>2. ReadLines = {}
  <2>1. DOMAIN db_file = 1 .. Len(db_file) /\ Len(db_file) \in Nat
    BY <1>1, SeqBasics DEF FileInv
  <2> QED
    BY <1>0, <2>1 DEF ReadLines
<1>3. LoadInv
  BY <1>0, <1>2 DEF LoadInv, Undone
<1>4. LabelInv
  BY <1>0 DEF LabelInv
<1> QED
  BY <1>1, <1>3, <1>4 DEF FilePart

LEMMA FilePartNext ==
    ASSUME ControlInv, ShareInv, FilePart, [Lives]_vars
    PROVE  FilePart'
<1>0. DataInv
  BY DEF ControlInv
<1>t. ~FromFile => DOMAIN enrolled \subseteq Int
  BY DEF FilePart, LabelInv
<1>1. CASE Loads
  BY <1>1, LoadsKeeps DEF FilePart
<1>2. CASE Chooses
  <2>1. ~FromFile
    BY <1>2, DoingOf DEF Chooses
  <2>2. DOMAIN enrolled' \subseteq Int
    BY <1>2, InputsOK DEF Chooses
  <2>3. ~Doing("loadEnrollmentCSV")
    BY <1>2 DEF Chooses, Doing
  <2> QED
    BY <1>2, <2>1, <2>2, <2>3, FilePartStays DEF Chooses
<1>3. CASE Leaves
  BY <1>t, <1>3, FilePartStays DEF Leaves
<1>4. CASE clearShares
  <2>1. Doing("clearShares") /\ rest' = rest /\ enrolled' = enrolled /\ id_share_map' = <<>>
    BY <1>4 DEF clearShares, history_vars, NoLabelShares
  <2>2. ~FromFile /\ ~Doing("loadEnrollmentCSV") /\ DOMAIN <<>> = {}
    BY <2>1, DoingOf DEF Doing
  <2> QED
    BY <1>t, <2>1, <2>2, FilePartStays
<1>5. CASE setShares
  <2>1. Doing("setShares") /\ rest' = rest /\ enrolled' = enrolled
    BY <1>5 DEF setShares, history_vars
  <2>2. ~FromFile /\ ~Doing("loadEnrollmentCSV")
    BY <2>1, DoingOf DEF Doing
  <2>3. PICK d \in [DOMAIN enr_ss_map -> LabelCoefs] :
          id_share_map' = PushAll(id_share_map, [id \in DOMAIN enr_ss_map |-> Sharing(id, d[id])])
    BY <1>5 DEF setShares
  <2>4. \A id \in DOMAIN id_share_map : IsSeq(id_share_map[id]) /\ id_share_map[id] # <<>>
    BY LabelsAreSeqs
  <2>5. ASSUME NEW id \in DOMAIN id_share_map'
        PROVE  \/ id \in DOMAIN id_share_map /\ Head(id_share_map'[id]) = Head(id_share_map[id])
               \/ \E e \in LabelCoefs : Head(id_share_map'[id]) = Sharing(FirstLabel(id), e)
    <3> DEFINE old == IF id \in DOMAIN id_share_map THEN id_share_map[id] ELSE <<>>
               e == Sharing(id, d[id])
    <3>1. id_share_map'[id] = old \o (IF id \in DOMAIN enr_ss_map THEN <<e>> ELSE <<>>)
          /\ id \in DOMAIN id_share_map \cup DOMAIN enr_ss_map
      BY <2>3, <2>5 DEF PushAll
    <3>2. IsSeq(old)
      <4>1. IsSeq(<<>>)
        BY EmptyPart DEF Part, InOrder
      <4> QED
        BY <2>4, <4>1
    <3>3. CASE id \in DOMAIN enr_ss_map
      <4>1. Head(old \o <<e>>) = IF old = <<>> THEN e ELSE Head(old)
        <5> HIDE DEF old, e
        <5> QED
          BY <3>2, HeadOfConcat
      <4>2. FirstLabel(id) = id /\ d[id] \in LabelCoefs
        BY <2>2, <2>3, <3>3 DEF FirstLabel
      <4>3. id_share_map'[id] = old \o <<e>>
        BY <3>1, <3>3
      <4> QED
        BY <2>4, <4>1, <4>2, <4>3
    <3>4. CASE id \notin DOMAIN enr_ss_map
      <4>1. id \in DOMAIN id_share_map /\ id_share_map'[id] = id_share_map[id] \o <<>>
        BY <3>1, <3>4
      <4>2. PICK S : id_share_map[id] \in Seq(S)
        BY <2>4, <4>1 DEF IsSeq
      <4>3. id_share_map[id] \o <<>> = id_share_map[id]
        BY <4>2
      <4> QED
        BY <4>1, <4>3
    <3> QED
      BY <3>3, <3>4
  <2> QED
    BY <1>t, <2>1, <2>2, <2>5, FilePartStays
<1>6. CASE shareAgain \/ computeCoefficients
  <2>1. UNCHANGED <<rest, enrolled, token_share_map, id_share_map>>
    BY <1>6 DEF shareAgain, computeCoefficients, enrollment_vars, history_vars
  <2>2. ~Doing("loadEnrollmentCSV")
    BY <1>6 DEF shareAgain, computeCoefficients, Doing
  <2> QED
    BY <1>t, <2>1, <2>2, FilePartStays
<1> QED
  BY <1>0, <1>1, <1>2, <1>3, <1>4, <1>5, <1>6, ShareSteps

----------------------------------------------------------------------------

\* The database is enrolled before anything is shared or computed.
LEMMA SharesAreLater ==
    ASSUME ControlInv, NEW op \in {"generateDatabase", "buildEnrMap"}, Doing(op)
    PROVE  \A y \in StepSet : y.op = "setShares" => Left(y)
<1>1. Phase(op) = 1 /\ ~FromFile
  <2>1. op \in Sources
    BY DEF Sources
  <2> QED
    BY <2>1, DataPhases, DoingOf
<1>2. Phase("setShares") > 1
  BY DEF Phase, Sources, Computes
<1>3. Head(todo).op = op
  BY DEF Doing
<1> QED
  BY <1>1, <1>2, <1>3, DoingSplits DEF Before

LEMMA SharedNext ==
    ASSUME ControlInv, ControlInv', SharedInv, [Lives]_vars
    PROVE  SharedInv'
<1>0. program' = program /\ db_file' = db_file /\ started \in BOOLEAN /\ OrderInv
      /\ program \in Configs /\ DataInv
  BY TodoSteps DEF ControlInv, DataInv, OrderInv
<1>1. FromFile' = FromFile /\ StepSet' = StepSet /\ \A a, b : Before(a, b)' = Before(a, b)
  BY <1>0, ProgramStays, OrderIsOfTheProgram
<1> SUFFICES ASSUME ~FromFile, ~crashed', NEW y \in StepSet, y.op = "setShares", ~Left(y)',
                    \A z \in StepSet : z.op = "clearShares" /\ Before(y, z) => Left(z)'
             PROVE  DOMAIN enrolled' \subseteq DOMAIN token_share_map'
  BY <1>1 DEF SharedInv
<1>2. ~crashed
  <2>1. crashed => started /\ todo = <<>>
    BY DEF ControlInv
  <2> QED
    BY <1>0, <2>1, TodoSteps DEF Begins, Goes, Dies, Records, Rests, Doing
<1>3. ASSUME ~Doing("setShares") PROVE ~Left(y)
  BY <1>3, LeftStep
<1>4. \A z \in StepSet : z.op = "clearShares" /\ Before(y, z) => Left(z)
  BY LeftStep
<1>5. ~Left(y) => DOMAIN enrolled \subseteq DOMAIN token_share_map
  BY <1>2, <1>4 DEF SharedInv
<1>6. CASE Loads
  BY <1>6, DoingOf DEF Loads
<1>7. CASE Chooses
  <2>1. PICK op \in {"generateDatabase", "buildEnrMap"} : Doing(op)
    BY <1>7 DEF Chooses
  <2>2. Left(y)
    BY <2>1, SharesAreLater
  <2>3. ~Doing("setShares")
    BY <2>1 DEF Doing
  <2> QED
    BY <1>3, <2>2, <2>3
<1>8. CASE Leaves
  <2>1. ~Left(y)
    <3>1. CASE Doing("setShares")
      BY <1>8, <3>1 DEF Leaves, Left, Elements
    <3> QED
      BY <1>3, <3>1
  <2> QED
    BY <1>5, <1>8, <2>1 DEF Leaves
<1>9. CASE clearShares
  <2>1. Doing("clearShares") /\ Advance
    BY <1>9 DEF clearShares
  <2>2. ~Left(y) /\ Phase("clearShares") # 0 /\ Phase("setShares") = Phase("clearShares")
    BY <1>3, <2>1 DEF Doing, Phase, Sources, Computes
  <2>3. /\ Head(todo) = Step("clearShares", On) /\ Head(todo) \in StepSet /\ Left(Head(todo))
        /\ Before(Head(todo), y) => Left(y)
    BY <2>1, <2>2, DoingSplits
  <2>4. Before(Head(todo), y) \/ Before(y, Head(todo))
    <3>1. IsStep(y) /\ IsStep(Head(todo)) /\ Head(todo).op = "clearShares"
      BY <1>0, <2>3, StepSetType DEF Step
    <3>2. y.on \in Nat /\ Head(todo).on \in Nat
      BY <3>1 DEF IsStep, Counted
    <3>3. Turn(y) = 3 * y.on - 1 /\ Turn(Head(todo)) = 3 * Head(todo).on - 2
      BY <3>1 DEF Turn
    <3>4. Turn(y) # Turn(Head(todo)) /\ Turn(y) \in Int /\ Turn(Head(todo)) \in Int
      BY <3>2, <3>3
    <3> QED
      BY <2>2, <3>1, <3>4 DEF Before
  <2>5. Left(Head(todo))'
    <3>1. Head(todo).op = "clearShares"
      BY <2>3 DEF Step
    <3>2. PICK z : z = Head(todo)
      OBVIOUS
    <3>3. Left(z)'
      BY <2>2, <2>3, <2>4, <3>1, <3>2
    <3>4. todo # <<>> /\ todo' = Tail(todo)
      BY <2>1 DEF Doing, Advance
    <3>5. ~Left(z)'
      BY <2>3, <3>2, <3>4, LeftStep
    <3> QED
      BY <3>3, <3>5
  <2>6. FALSE
    <3>2. PICK z : z = Head(todo)
      OBVIOUS
    <3>1. z.op = "clearShares" /\ z \in StepSet /\ Left(z)
      BY <2>3, <3>2 DEF Step
    <3>3. Left(z)'
      BY <2>2, <2>3, <2>4, <3>1, <3>2
    <3>4. todo # <<>> /\ todo' = Tail(todo)
      BY <2>1 DEF Doing, Advance
    <3>5. ~Left(z)'
      BY <3>1, <3>2, <3>4, LeftStep
    <3> QED
      BY <3>3, <3>5
  <2> QED
    BY <2>6
<1>10. CASE setShares
  <2>1. Doing("setShares") /\ enrolled' = enrolled
    BY <1>10 DEF setShares, history_vars
  <2>2. DOMAIN token_share_map' = DOMAIN token_share_map \cup DOMAIN enr_ss_map
    BY <1>10 DEF setShares, PushAll
  <2>3. DOMAIN enr_ss_map = DOMAIN enrolled
    BY <1>0 DEF DataInv, EnrInv, Blinded
  <2> QED
    BY <2>1, <2>2, <2>3
<1>11. CASE shareAgain \/ computeCoefficients
  <2>1. UNCHANGED <<enrolled, token_share_map>>
    BY <1>11 DEF shareAgain, computeCoefficients, enrollment_vars, history_vars
  <2>2. ~Doing("setShares")
    BY <1>11 DEF shareAgain, computeCoefficients, Doing
  <2> QED
    BY <1>3, <1>5, <2>1, <2>2
<1> QED
  BY <1>0, <1>6, <1>7, <1>8, <1>9, <1>10, <1>11, ShareSteps

----------------------------------------------------------------------------
(* The token sharings of the rounds                                         *)

\* The token sharings after the first are made from what is loaded.
LEMMA ShareAgainSteps ==
    ASSUME program \in Configs
    PROVE  \A y \in StepSet : y.op = "shareAgain" =>
              /\ y.on \in Nat \ {0, 1} /\ FromFile
              /\ y.on # 2 => Step("shareAgain", y.on - 1) \in StepSet
<1>0. T \in Nat \ {0}
  BY ConfigTypes
<1>1. CASE program.name = "apps"
  <2>1. StepSet = SenderSet \cup ReceiverSet
    BY <1>1 DEF StepSet
  <2>2. \A y \in ReceiverSet : y.op # "shareAgain"
    BY DEF ReceiverSet, Step
  <2>3. \A y \in SenderSet : y.op = "shareAgain" =>
          \E t \in 1 .. T - 1 : y = Step("shareAgain", t + 1)
    BY DEF SenderSet, Step
  <2>4. \A t \in 1 .. T - 1 : Step("shareAgain", t + 1) \in StepSet
    BY <2>1 DEF SenderSet
  <2> SUFFICES ASSUME NEW y \in StepSet, y.op = "shareAgain"
               PROVE  /\ y.on \in Nat \ {0, 1} /\ FromFile
                      /\ y.on # 2 => Step("shareAgain", y.on - 1) \in StepSet
    OBVIOUS
  <2>5. PICK t \in 1 .. T - 1 : y = Step("shareAgain", t + 1)
    BY <2>1, <2>2, <2>3
  <2>6. y.on = t + 1
    BY <2>5 DEF Step
  <2>7. y.on # 2 => t - 1 \in 1 .. T - 1 /\ (t - 1) + 1 = y.on - 1
    BY <1>0, <2>6
  <2>8. y.on # 2 => Step("shareAgain", y.on - 1) \in StepSet
    BY <2>4, <2>7
  <2> QED
    BY <1>0, <1>1, <2>6, <2>8 DEF FromFile
<1>2. CASE program.name = "csv_run"
  <2>1. StepSet = CsvRunSet
    BY <1>2 DEF StepSet
  <2> QED
    BY <2>1 DEF CsvRunSet, Step
<1>3. CASE ~FromFile
  BY <1>3, MemorySteps
<1> QED
  BY <1>1, <1>2, <1>3 DEF FromFile

LEMMA AgainNext ==
    ASSUME ControlInv, ControlInv', AgainInv, [Lives]_vars
    PROVE  AgainInv'
<1>0. program' = program /\ db_file' = db_file /\ started \in BOOLEAN /\ OrderInv
      /\ program \in Configs /\ DataInv
  BY TodoSteps DEF ControlInv, DataInv, OrderInv
<1>1. FromFile' = FromFile /\ StepSet' = StepSet
      /\ (Undone("loadEnrollmentCSV")' => Undone("loadEnrollmentCSV"))
  <2>1. Phase("loadEnrollmentCSV") # 0
    BY LoadPhase
  <2> QED
    BY <1>0, <2>1, ProgramStays, OrderIsOfTheProgram, OrderStep
<1>2. ~crashed' => ~crashed
  <2>1. crashed => started /\ todo = <<>>
    BY DEF ControlInv
  <2> QED
    BY <1>0, <2>1, TodoSteps DEF Begins, Goes, Dies, Records, Rests, Doing
<1>3. ASSUME token_share_maps' = token_share_maps, ~Doing("shareAgain") \/ Rests,
             token_share_maps # <<>> => enrolled' = enrolled
      PROVE  AgainInv'
  <2>1. \A y \in StepSet : ~crashed' /\ y.op = "shareAgain" /\ ~Left(y)' => ~Left(y)
    <3>1. CASE Rests
      BY <3>1 DEF Rests, Left, Elements
    <3> QED
      BY <1>3, <3>1, LeftStep
  <2>2. token_share_maps = <<>> => DOMAIN token_share_maps = {}
    OBVIOUS
  <2>3. \A t \in DOMAIN token_share_maps' :
          /\ DOMAIN token_share_maps'[t] = DOMAIN enrolled'
          /\ \A id \in DOMAIN enrolled' : token_share_maps'[t][id] \in TokenSharings
    BY <1>3, <2>2 DEF AgainInv
  <2> QED
    BY <1>1, <1>2, <1>3, <2>1, <2>3 DEF AgainInv
<1>4. CASE Loads
  <2>1. Undone("loadEnrollmentCSV")
    BY <1>0, <1>4, LoadPhase, DoingIsFirst DEF Loads
  <2>2. token_share_maps = <<>>
    BY <2>1 DEF AgainInv
  <2>3. ~Doing("shareAgain")
    BY <1>4 DEF Loads, Doing
  <2> QED
    BY <1>3, <1>4, <2>2, <2>3 DEF Loads
<1>5. CASE Chooses
  <2>1. PICK op \in {"generateDatabase", "buildEnrMap"} : Doing(op)
    BY <1>5 DEF Chooses
  <2>2. token_share_maps = <<>>
    BY <2>1, DoingOf DEF AgainInv
  <2>3. ~Doing("shareAgain")
    BY <2>1 DEF Doing
  <2> QED
    BY <1>3, <1>5, <2>2, <2>3 DEF Chooses
<1>6. CASE Leaves
  <2>1. ~Doing("shareAgain") \/ Rests
    BY <1>6 DEF Leaves, Rests
  <2> QED
    BY <1>3, <1>6, <2>1 DEF Leaves
<1>7. CASE clearShares \/ setShares \/ computeCoefficients
  <2>1. ~Doing("shareAgain")
    BY <1>7 DEF clearShares, setShares, computeCoefficients, Doing
  <2>2. UNCHANGED <<token_share_maps, enrolled>>
    BY <1>7 DEF clearShares, setShares, computeCoefficients, offline_vars, history_vars
  <2> QED
    BY <1>3, <2>1, <2>2
<1>8. CASE shareAgain
  <2>1. /\ Doing("shareAgain") /\ Advance /\ enrolled' = enrolled
        /\ Phase("shareAgain") = 1
    BY <1>8, LoadPhase DEF shareAgain, history_vars
  <2>2. PICK coef \in [DOMAIN enr_ss_map -> TokenCoefs] :
          token_share_maps' = Append(token_share_maps,
                   [id \in DOMAIN enr_ss_map |-> Sharing(token, coef[id])])
    BY <1>8 DEF shareAgain
  <2>3. DOMAIN enr_ss_map = DOMAIN enrolled
    BY <1>0 DEF DataInv, EnrInv, Blinded
  <2> DEFINE again == [id \in DOMAIN enr_ss_map |-> Sharing(token, coef[id])]
  <2>4. /\ IsSeq(token_share_maps') /\ DOMAIN token_share_maps' = 1 .. Len(token_share_maps) + 1
        /\ Len(token_share_maps) \in Nat /\ DOMAIN token_share_maps = 1 .. Len(token_share_maps)
        /\ token_share_maps'[Len(token_share_maps) + 1] = again
        /\ \A t \in DOMAIN token_share_maps : token_share_maps'[t] = token_share_maps[t]
    <3> HIDE DEF again
    <3>1. IsSeq(token_share_maps) /\ token_share_maps' = Append(token_share_maps, again)
      BY <2>2 DEF AgainInv, again
    <3>2. PICK S : token_share_maps \in Seq(S)
      BY <3>1 DEF IsSeq
    <3>3. token_share_maps \in Seq(S \cup {again})
      BY <3>2
    <3>4. token_share_maps' \in Seq(S \cup {again})
      BY <3>1, <3>3
    <3> QED
      BY <3>1, <3>3, <3>4 DEF IsSeq
  <2>5. DOMAIN again = DOMAIN enrolled /\ \A id \in DOMAIN enrolled : again[id] \in TokenSharings
    BY <2>3 DEF TokenSharings, Sharing
  <2>6. /\ started /\ ~crashed /\ Head(todo) = Step("shareAgain", On) /\ Head(todo) \in StepSet
        /\ \A y \in StepSet : Before(y, Head(todo)) => ~Left(y)
    BY <2>1, DoingSplits
  <2>7. Head(todo).op = "shareAgain" /\ Head(todo).on = On
        /\ Turn(Head(todo)) = On
    BY <2>6 DEF Step, Turn
  <2>8. On \in Nat \ {0, 1} /\ FromFile /\ (On # 2 => Step("shareAgain", On - 1) \in StepSet)
    BY <1>0, <2>6, <2>7, ShareAgainSteps
  <2>9. ~Undone("loadEnrollmentCSV")
    <3>1. ASSUME Undone("loadEnrollmentCSV") PROVE FALSE
      <4>1. PICK x \in Elements(todo) : x.op = "loadEnrollmentCSV"
        BY <2>6, <3>1 DEF Undone, Pending
      <4>2. x \in StepSet
        BY <1>0, <4>1, LoadPhase DEF OrderInv
      <4>3. Turn(x) = 0
        BY <4>1 DEF Turn
      <4>4. Before(x, Head(todo))
        BY <2>1, <2>7, <2>8, <4>1, <4>3, LoadPhase DEF Before
      <4> QED
        BY <2>6, <4>1, <4>2, <4>4 DEF Left
    <3> QED
      BY <3>1
  <2>10. On - 1 \in DOMAIN token_share_maps'
    <3>1. CASE On = 2
      BY <2>4, <3>1
    <3>2. CASE On # 2
      <4>1. PICK y : y = Step("shareAgain", On - 1)
        OBVIOUS
      <4>2. y \in StepSet /\ y.op = "shareAgain" /\ y.on = On - 1 /\ Turn(y) = On - 1
        BY <2>8, <3>2, <4>1 DEF Step, Turn
      <4>3. Before(y, Head(todo))
        BY <2>1, <2>7, <2>8, <4>2 DEF Before
      <4>4. ~Left(y)
        BY <2>6, <4>2, <4>3
      <4>5. (On - 1) - 1 \in DOMAIN token_share_maps
        BY <2>6, <4>2, <4>4 DEF AgainInv
      <4> QED
        BY <2>4, <2>8, <4>5
    <3> QED
      BY <3>1, <3>2
  <2>11. ASSUME ~crashed', NEW y \in StepSet, y.op = "shareAgain", ~Left(y)'
         PROVE  y.on - 1 \in DOMAIN token_share_maps'
    <3>1. CASE Left(y)
      <4>1. Head(todo) = y
        BY <2>11, <3>1, LeftStep
      <4> QED
        BY <2>7, <2>10, <4>1
    <3>2. CASE ~Left(y)
      <4>1. y.on - 1 \in DOMAIN token_share_maps
        BY <2>6, <2>11, <3>2 DEF AgainInv
      <4> QED
        BY <2>4, <4>1
    <3> QED
      BY <3>1, <3>2
  <2>12. \A t \in DOMAIN token_share_maps' :
          /\ DOMAIN token_share_maps'[t] = DOMAIN enrolled'
          /\ \A id \in DOMAIN enrolled' : token_share_maps'[t][id] \in TokenSharings
    <3> SUFFICES ASSUME NEW t \in DOMAIN token_share_maps'
                 PROVE /\ DOMAIN token_share_maps'[t] = DOMAIN enrolled
                       /\ \A id \in DOMAIN enrolled : token_share_maps'[t][id] \in TokenSharings
      BY <2>1
    <3> HIDE DEF again
    <3>1. t \in DOMAIN token_share_maps \/ t = Len(token_share_maps) + 1
      BY <2>4
    <3> QED
      BY <2>4, <2>5, <3>1 DEF AgainInv
  <2>13. token_share_maps' # <<>> => FromFile' /\ ~Undone("loadEnrollmentCSV")'
    BY <1>1, <2>8, <2>9
  <2> QED
    BY <1>1, <2>4, <2>11, <2>12, <2>13 DEF AgainInv
<1> QED
  BY <1>0, <1>4, <1>5, <1>6, <1>7, <1>8, ShareSteps

----------------------------------------------------------------------------
(* The coefficient sets, one after the other                                *)

\* The sets of a program that reads a file, and of one that does not.
LEMMA FileSets ==
    ASSUME program \in Configs, FromFile
    PROVE  \A y \in StepSet : y.op \in Computes =>
              \/ y = Step("computeCoefficients", 1) /\ K = 0
              \/ K > 0 /\ \E t \in 1 .. T : y = Step("computeTokenSet", t)
              \/ K > 0 /\ \E r \in 1 .. K : y = Step("computeLabelSet", r)
<1>0. T \in Nat \ {0} /\ K \in Nat /\ (K > 0 => program.name = "apps")
  BY ConfigTypes
<1>1. CASE program.name = "csv_run"
  <2>1. StepSet = CsvRunSet /\ K = 0
    BY <1>0, <1>1 DEF StepSet
  <2> QED
    BY <2>1 DEF CsvRunSet, Step, Computes
<1>2. CASE program.name = "apps"
  <2>1. StepSet = SenderSet \cup ReceiverSet
    BY <1>2 DEF StepSet
  <2>2. \A y \in ReceiverSet : y.op \notin Computes
    BY DEF ReceiverSet, Step, Computes
  <2>3. CASE K > 0
    <3>1. \A y \in SenderSet : y.op \in Computes =>
            \/ \E t \in 1 .. T : y = Step("computeTokenSet", t)
            \/ \E r \in 1 .. K : y = Step("computeLabelSet", r)
      BY <2>3 DEF SenderSet, Step, Computes
    <3> QED
      BY <2>1, <2>2, <2>3, <3>1
  <2>4. CASE ~(K > 0)
    <3>1. \A y \in SenderSet : y.op \in Computes => y = Step("computeCoefficients", 1)
      BY <2>4 DEF SenderSet, Step, Computes
    <3> QED
      BY <1>0, <2>1, <2>2, <2>4, <3>1
  <2> QED
    BY <2>3, <2>4
<1> QED
  BY <1>1, <1>2 DEF FromFile

LEMMA FileSetsAre ==
    ASSUME program \in Configs, FromFile
    PROVE  IF K > 0 THEN /\ \A t \in 1 .. T : Step("computeTokenSet", t) \in StepSet
                         /\ \A r \in 1 .. K : Step("computeLabelSet", r) \in StepSet
           ELSE Step("computeCoefficients", 1) \in StepSet
<1>0. K > 0 => program.name = "apps"
  BY ConfigTypes
<1>1. CASE program.name = "csv_run"
  <2>1. StepSet = CsvRunSet
    BY <1>1 DEF StepSet
  <2> QED
    BY <1>0, <1>1, <2>1 DEF CsvRunSet
<1>2. CASE program.name = "apps"
  <2>1. StepSet = SenderSet \cup ReceiverSet
    BY <1>2 DEF StepSet
  <2> QED
    BY <2>1 DEF SenderSet
<1> QED
  BY <1>1, <1>2 DEF FromFile

\* In memory, every set has a sharing of its own, or they share one.
MemoryShares ==
    IF program.name = "bench" THEN {Step("setShares", 0)}
    ELSE IF program.name = "rung_stlpsi" THEN {Step("setShares", 1)}
    ELSE {Step("setShares", t) : t \in 1 .. T}
MemoryClears ==
    IF program.name = "bench" THEN {}
    ELSE IF program.name = "rung_stlpsi" THEN {Step("clearShares", 1)}
    ELSE {Step("clearShares", t) : t \in 1 .. T}
MemorySets ==
    IF program.name \in {"bench", "rung_stlpsi"} THEN {Step("computeCoefficients", 1)}
    ELSE {Step("computeCoefficients", t) : t \in 1 .. T}
LEMMA MemorySetsAre ==
    ASSUME program \in Configs, ~FromFile
    PROVE  /\ K = 0 /\ MemoryShares \subseteq StepSet /\ MemorySets \subseteq StepSet
           /\ \A y \in StepSet : y.op \in Computes => y \in MemorySets
           /\ \A y \in StepSet : y.op = "clearShares" => y \in MemoryClears
<1>0. T \in Nat \ {0} /\ K \in Nat /\ (K > 0 => program.name = "apps")
  BY ConfigTypes
<1>1. K = 0
  BY <1>0 DEF FromFile
<1>2. CASE program.name = "bench"
  <2>1. StepSet = BenchSet
    BY <1>2 DEF StepSet
  <2> QED
    BY <1>1, <1>2, <2>1 DEF BenchSet, MemoryShares, MemorySets, MemoryClears, Step, Computes
<1>3. CASE program.name = "rung_stlpsi"
  <2>1. StepSet = StlpsiSet
    BY <1>3 DEF StepSet
  <2> QED
    BY <1>1, <1>3, <2>1
       DEF StlpsiSet, QueriesSet, MemoryShares, MemorySets, MemoryClears, Step, Computes
<1>4. CASE program.name = "rung_cstpsi"
  <2>1. StepSet = CstpsiSet
    BY <1>4 DEF StepSet
  <2>2. \A y \in QueriesSet \cup {Step("buildEnrMap", 0), Step("parallelPartitionDB", 0)} :
          y.op \notin Computes \cup {"clearShares"}
    BY DEF QueriesSet, Step, Computes
  <2>3. \A t : Step("setShares", t).op = "setShares" /\ Step("clearShares", t).op = "clearShares"
               /\ Step("computeCoefficients", t).op = "computeCoefficients"
    BY DEF Step
  <2>4. "setShares" \notin Computes \cup {"clearShares"} /\ "clearShares" \notin Computes
        /\ "computeCoefficients" \in Computes /\ "computeCoefficients" # "clearShares"
    BY DEF Computes
  <2>5. MemoryShares = {Step("setShares", t) : t \in 1 .. T}
        /\ MemorySets = {Step("computeCoefficients", t) : t \in 1 .. T}
        /\ MemoryClears = {Step("clearShares", t) : t \in 1 .. T}
    BY <1>4 DEF MemoryShares, MemorySets, MemoryClears
  <2> QED
    BY <1>1, <2>1, <2>2, <2>3, <2>4, <2>5 DEF CstpsiSet
<1> QED
  BY <1>2, <1>3, <1>4, ConfigTypes DEF FromFile

\* The sets are made one after the other.
LEMMA SetNumbers ==
    ASSUME program \in Configs
    PROVE  /\ \A y \in StepSet : y.op \in Computes =>
                 /\ SetNo(y) \in Nat \ {0} /\ Turn(y) = 3 * SetNo(y) /\ Phase(y.op) = 7
                 /\ SetNo(y) # 1 =>
                      \E z \in StepSet : z.op \in Computes /\ SetNo(z) = SetNo(y) - 1
           /\ \A y, z \in StepSet :
                 y.op \in Computes /\ z.op \in Computes /\ SetNo(y) = SetNo(z) => y = z
           /\ \E y \in StepSet : y.op \in Computes /\ SetNo(y) = 1
<1>0. T \in Nat \ {0} /\ K \in Nat /\ \A op \in Computes : Phase(op) = 7
  BY ConfigTypes, DataPhases
<1>1. \A t : /\ SetNo(Step("computeCoefficients", t)) = t /\ SetNo(Step("computeTokenSet", t)) = t
             /\ SetNo(Step("computeLabelSet", t)) = T + t
             /\ Turn(Step("computeCoefficients", t)) = 3 * t
             /\ Turn(Step("computeTokenSet", t)) = 3 * t
             /\ Turn(Step("computeLabelSet", t)) = 3 * (T + t)
             /\ Step("computeCoefficients", t).op \in Computes
             /\ Step("computeTokenSet", t).op \in Computes
             /\ Step("computeLabelSet", t).op \in Computes
  BY DEF SetNo, Turn, Step, Computes
<1>2. CASE FromFile /\ K > 0
  <2>1. /\ \A y \in StepSet : y.op \in Computes =>
             \/ \E t \in 1 .. T : y = Step("computeTokenSet", t)
             \/ \E r \in 1 .. K : y = Step("computeLabelSet", r)
        /\ \A t \in 1 .. T : Step("computeTokenSet", t) \in StepSet
        /\ \A r \in 1 .. K : Step("computeLabelSet", r) \in StepSet
    BY <1>0, <1>2, FileSets, FileSetsAre
  <2>2. ASSUME NEW y \in StepSet, y.op \in Computes
        PROVE  /\ SetNo(y) \in Nat \ {0} /\ Turn(y) = 3 * SetNo(y)
               /\ SetNo(y) # 1 =>
                    \E z \in StepSet : z.op \in Computes /\ SetNo(z) = SetNo(y) - 1
    <3>1. CASE \E t \in 1 .. T : y = Step("computeTokenSet", t)
      <4>1. PICK t \in 1 .. T : y = Step("computeTokenSet", t)
        BY <3>1
      <4>2. SetNo(y) = t /\ Turn(y) = 3 * t
        BY <1>1, <4>1
      <4>3. t # 1 => t - 1 \in 1 .. T
        BY <1>0
      <4>4. t # 1 => Step("computeTokenSet", t - 1) \in StepSet
                     /\ SetNo(Step("computeTokenSet", t - 1)) = t - 1
        BY <1>1, <2>1, <4>3
      <4> QED
        BY <1>1, <4>2, <4>4
    <3>2. CASE \E r \in 1 .. K : y = Step("computeLabelSet", r)
      <4>1. PICK r \in 1 .. K : y = Step("computeLabelSet", r)
        BY <3>2
      <4>2. SetNo(y) = T + r /\ Turn(y) = 3 * (T + r)
        BY <1>1, <4>1
      <4>3. CASE r = 1
        <5>1. Step("computeTokenSet", T) \in StepSet /\ SetNo(Step("computeTokenSet", T)) = T
          BY <1>0, <1>1, <2>1
        <5>2. T = SetNo(y) - 1 /\ SetNo(y) \in Nat \ {0}
          BY <1>0, <4>2, <4>3
        <5> QED
          BY <1>1, <4>2, <5>1, <5>2
      <4>4. CASE r # 1
        <5>1. r - 1 \in 1 .. K
          BY <1>0, <4>4
        <5>2. Step("computeLabelSet", r - 1) \in StepSet
              /\ SetNo(Step("computeLabelSet", r - 1)) = T + (r - 1)
          BY <1>1, <2>1, <5>1
        <5>3. T + (r - 1) = SetNo(y) - 1 /\ SetNo(y) \in Nat \ {0}
          BY <1>0, <4>2
        <5> QED
          BY <1>1, <4>2, <5>2, <5>3
      <4> QED
        BY <4>3, <4>4
    <3> QED
      BY <2>1, <2>2, <3>1, <3>2
  <2>3. ASSUME NEW y \in StepSet, NEW z \in StepSet, y.op \in Computes, z.op \in Computes,
               SetNo(y) = SetNo(z)
        PROVE  y = z
    <3>1. ASSUME NEW t \in 1 .. T, NEW r \in 1 .. K PROVE t # T + r
      BY <1>0
    <3>2. ASSUME NEW r \in 1 .. K, NEW q \in 1 .. K, T + r = T + q PROVE r = q
      BY <1>0, <3>2
    <3> QED
      BY <1>1, <2>1, <2>3, <3>1, <3>2
  <2>4. Step("computeTokenSet", 1) \in StepSet /\ SetNo(Step("computeTokenSet", 1)) = 1
    BY <1>0, <1>1, <2>1
  <2> QED
    BY <1>0, <1>1, <2>2, <2>3, <2>4
<1>3. ASSUME NEW n \in Nat \ {0},
             \A y \in StepSet : y.op \in Computes =>
                \E t \in 1 .. n : y = Step("computeCoefficients", t),
             \A t \in 1 .. n : Step("computeCoefficients", t) \in StepSet
      PROVE  /\ \A y \in StepSet : y.op \in Computes =>
                 /\ SetNo(y) \in Nat \ {0} /\ Turn(y) = 3 * SetNo(y) /\ Phase(y.op) = 7
                 /\ SetNo(y) # 1 =>
                      \E z \in StepSet : z.op \in Computes /\ SetNo(z) = SetNo(y) - 1
             /\ \A y, z \in StepSet :
                   y.op \in Computes /\ z.op \in Computes /\ SetNo(y) = SetNo(z) => y = z
             /\ \E y \in StepSet : y.op \in Computes /\ SetNo(y) = 1
  <2>1. ASSUME NEW y \in StepSet, y.op \in Computes
        PROVE  /\ SetNo(y) \in Nat \ {0} /\ Turn(y) = 3 * SetNo(y)
               /\ SetNo(y) # 1 =>
                    \E z \in StepSet : z.op \in Computes /\ SetNo(z) = SetNo(y) - 1
    <3>1. PICK t \in 1 .. n : y = Step("computeCoefficients", t)
      BY <1>3, <2>1
    <3>2. SetNo(y) = t /\ Turn(y) = 3 * t
      BY <1>1, <3>1
    <3>3. t # 1 => t - 1 \in 1 .. n
      OBVIOUS
    <3>4. t # 1 => Step("computeCoefficients", t - 1) \in StepSet
                   /\ SetNo(Step("computeCoefficients", t - 1)) = t - 1
      BY <1>1, <1>3, <3>3
    <3> QED
      BY <1>1, <3>2, <3>4
  <2>2. ASSUME NEW y \in StepSet, NEW z \in StepSet, y.op \in Computes, z.op \in Computes,
               SetNo(y) = SetNo(z)
        PROVE  y = z
    BY <1>1, <1>3, <2>2
  <2>3. Step("computeCoefficients", 1) \in StepSet /\ SetNo(Step("computeCoefficients", 1)) = 1
    BY <1>1, <1>3
  <2> QED
    BY <1>0, <1>1, <2>1, <2>2, <2>3
<1>4. CASE FromFile /\ ~(K > 0)
  <2>1. \A y \in StepSet : y.op \in Computes => \E t \in 1 .. 1 : y = Step("computeCoefficients", t)
    BY <1>0, <1>4, FileSets
  <2>2. \A t \in 1 .. 1 : Step("computeCoefficients", t) \in StepSet
    BY <1>4, FileSetsAre
  <2> QED
    BY <1>3, <2>1, <2>2
<1>5. CASE ~FromFile
  <2>1. MemorySets \subseteq StepSet /\ \A y \in StepSet : y.op \in Computes => y \in MemorySets
    BY <1>5, MemorySetsAre
  <2>2. PICK n \in Nat \ {0} : MemorySets = {Step("computeCoefficients", t) : t \in 1 .. n}
    <3>1. CASE program.name \in {"bench", "rung_stlpsi"}
      <4>1. MemorySets = {Step("computeCoefficients", t) : t \in 1 .. 1}
        BY <3>1 DEF MemorySets
      <4> QED
        BY <4>1
    <3>2. CASE program.name \notin {"bench", "rung_stlpsi"}
      BY <1>0, <3>2 DEF MemorySets
    <3> QED
      BY <3>1, <3>2
  <2>3. /\ \A y \in StepSet : y.op \in Computes =>
             \E t \in 1 .. n : y = Step("computeCoefficients", t)
        /\ \A t \in 1 .. n : Step("computeCoefficients", t) \in StepSet
    BY <2>1, <2>2
  <2> QED
    BY <1>3, <2>3
<1> QED
  BY <1>2, <1>4, <1>5

\* The set that is computed is the next one.
LEMMA NextSet ==
    ASSUME ControlInv, NumberInv, NEW op \in Computes, Doing(op)
    PROVE  /\ Head(todo) \in StepSet /\ Head(todo).op = op /\ Head(todo) = Step(op, On)
           /\ SetNo(Head(todo)) = Len(sets) + 1 /\ Len(sets) \in Nat /\ ~crashed
           /\ Turn(Head(todo)) = 3 * SetNo(Head(todo)) /\ Phase(op) = 7
<1>0. program \in Configs /\ IsSeq(sets)
  BY DEF ControlInv, DataInv, OrderInv, SetsInv
<1>1. Phase(op) = 7
  BY DataPhases
<1>2. /\ ~crashed /\ Head(todo) = Step(op, On) /\ Head(todo) \in StepSet /\ Left(Head(todo))
      /\ \A y \in StepSet : Before(y, Head(todo)) => ~Left(y)
  BY <1>1, DoingSplits
<1>3. Head(todo).op = op
  BY <1>2 DEF Step
<1>4. Len(sets) \in Nat
  BY <1>0, SeqBasics
<1> DEFINE n == SetNo(Head(todo))
<1>5. /\ n \in Nat \ {0} /\ Turn(Head(todo)) = 3 * n
      /\ n # 1 => \E z \in StepSet : z.op \in Computes /\ SetNo(z) = n - 1
  BY <1>0, <1>2, <1>3, SetNumbers
<1>6. ~(n <= Len(sets))
  BY <1>2, <1>3 DEF NumberInv
<1>7. n # 1 => n - 1 <= Len(sets)
  <2> SUFFICES ASSUME n # 1 PROVE n - 1 <= Len(sets)
    OBVIOUS
  <2>1. PICK z \in StepSet : z.op \in Computes /\ SetNo(z) = n - 1
    BY <1>5
  <2>2. Turn(z) = 3 * (n - 1) /\ Phase(z.op) = 7
    BY <1>0, <2>1, SetNumbers
  <2>3. 3 * (n - 1) < 3 * n
    BY <1>5
  <2>4. Before(z, Head(todo))
    BY <1>1, <1>3, <1>5, <2>2, <2>3 DEF Before
  <2> QED
    BY <1>2, <2>1, <2>4 DEF NumberInv
<1>8. n = Len(sets) + 1
  <2> HIDE DEF n
  <2> QED
    BY <1>4, <1>5, <1>6, <1>7
<1> QED
  BY <1>1, <1>2, <1>3, <1>4, <1>5, <1>8

\* What a step does to the sets.
Grows == sets' = Append(sets, sets'[Len(sets) + 1]) /\ Advance /\ \E op \in Computes : Doing(op)
Fails == sets' = sets /\ crashed'
Keeps == sets' = sets /\ \A op \in Computes : ~Doing(op) \/ Rests
LEMMA SetSteps ==
    ASSUME ControlInv, [Lives]_vars
    PROVE  Grows \/ Fails \/ Keeps
<1>0. DataInv /\ IsSeq(sets)
  BY DEF ControlInv, DataInv, SetsInv
<1>1. CASE Loads
  BY <1>1 DEF Loads, Keeps, Rests
<1>2. CASE Chooses
  BY <1>2 DEF Chooses, Keeps, Doing, Computes
<1>3. CASE Leaves
  BY <1>3 DEF Leaves, Keeps, Rests
<1>4. CASE clearShares \/ setShares \/ shareAgain
  BY <1>4 DEF clearShares, setShares, shareAgain, offline_vars, Keeps, Doing, Computes
<1>5. CASE computeCoefficients
  <2>1. \E op \in Computes : Doing(op)
    BY <1>5 DEF computeCoefficients, Computes
  <2>2. PICK a, b : ComputeSet(a, b)
    BY <1>5 DEF computeCoefficients
  <2>3. \/ (\E e : sets' = Append(sets, e)) /\ Advance
        \/ sets' = sets /\ crashed'
    BY <2>2 DEF ComputeSet, Die
  <2>4. ASSUME NEW e, sets' = Append(sets, e) PROVE sets'[Len(sets) + 1] = e
    <3>1. PICK S : sets \in Seq(S)
      BY <1>0 DEF IsSeq
    <3>2. sets \in Seq(S \cup {e})
      BY <3>1
    <3> QED
      BY <2>4, <3>2
  <2> QED
    BY <2>1, <2>3, <2>4 DEF Grows, Fails
<1> QED
  BY <1>0, <1>1, <1>2, <1>3, <1>4, <1>5, ShareSteps

LEMMA NotDeadBefore ==
    ASSUME ControlInv, [Lives]_vars, ~crashed' PROVE ~crashed
<1>1. crashed => started /\ todo = <<>>
  BY DEF ControlInv
<1>2. started \in BOOLEAN
  BY DEF ControlInv, DataInv
<1> QED
  BY <1>1, <1>2, TodoSteps DEF Begins, Goes, Dies, Records, Rests, Doing

LEMMA NumberNext ==
    ASSUME ControlInv, ControlInv', NumberInv, [Lives]_vars
    PROVE  NumberInv'
<1>0. program' = program /\ db_file' = db_file /\ started \in BOOLEAN /\ program \in Configs
      /\ IsSeq(sets)
  BY TodoSteps DEF ControlInv, DataInv, OrderInv, SetsInv
<1>1. StepSet' = StepSet /\ \A y : SetNo(y)' = SetNo(y)
  BY <1>0, OrderIsOfTheProgram, ProgramStays
<1> SUFFICES ASSUME ~crashed', NEW y \in StepSet, y.op \in Computes
             PROVE  ~Left(y)' <=> SetNo(y) <= Len(sets')
  BY <1>1 DEF NumberInv
<1>2. ~crashed
  BY NotDeadBefore
<1>3. ~Left(y) <=> SetNo(y) <= Len(sets)
  BY <1>2 DEF NumberInv
<1>4. CASE Grows
  <2>1. PICK op \in Computes : Doing(op)
    BY <1>4 DEF Grows
  <2>2. /\ Head(todo) \in StepSet /\ Head(todo).op = op
        /\ SetNo(Head(todo)) = Len(sets) + 1 /\ Len(sets) \in Nat
    BY <2>1, NextSet
  <2>3. Len(sets') = Len(sets) + 1
    <3>1. PICK S : sets \in Seq(S)
      BY <1>0 DEF IsSeq
    <3>2. PICK e : sets' = Append(sets, e)
      BY <1>4 DEF Grows
    <3>3. sets \in Seq(S \cup {e})
      BY <3>1
    <3> QED
      BY <3>2, <3>3
  <2>4. SetNo(y) \in Nat
    BY <1>0, SetNumbers
  <2>5. CASE y = Head(todo)
    <3>1. SetNo(y) = Len(sets) + 1
      BY <2>2, <2>5
    <3>2. Left(y)
      BY <1>3, <2>2, <3>1
    <3>3. todo # <<>> /\ todo' = Tail(todo)
      BY <1>4, <2>1 DEF Grows, Doing, Advance
    <3>4. ~Left(y)'
      BY <2>5, <3>2, <3>3, LeftStep
    <3> QED
      BY <2>2, <2>3, <3>1, <3>4
  <2>6. CASE y # Head(todo)
    <3>1. SetNo(y) # Len(sets) + 1
      BY <1>0, <2>2, <2>6, SetNumbers
    <3>2. Left(y)' <=> Left(y)
      BY <2>6, LeftStep
    <3> QED
      BY <1>3, <2>2, <2>3, <2>4, <3>1, <3>2
  <2> QED
    BY <2>5, <2>6
<1>5. CASE Keeps
  <2>1. CASE Rests
    BY <1>3, <1>5, <2>1 DEF Rests, Keeps, Left, Elements
  <2>2. CASE ~Doing(y.op)
    BY <1>3, <1>5, <2>2, LeftStep DEF Keeps
  <2> QED
    BY <1>5, <2>1, <2>2 DEF Keeps
<1> QED
  BY <1>4, <1>5, SetSteps DEF Fails

----------------------------------------------------------------------------
(* What the sets are made of                                                *)

\* When the file is read, the share maps have who has a readable label.
LEMMA LoadedFile ==
    ASSUME FromFile, FileInv, LoadInv, rest = <<>>
    PROVE  /\ ReadLines = DOMAIN db_file /\ db_file \in Files
           /\ DOMAIN db_file = 1 .. Len(db_file) /\ Len(db_file) \in Nat
           /\ \A id : LabelledLines(id) = Readable(EnrolledRows(id), program.label_col)
           /\ \A id : id \in DOMAIN token_share_map
                        <=> Readable(EnrolledRows(id), program.label_col) # {}
<1>1. Len(db_file) \in Nat /\ DOMAIN db_file = 1 .. Len(db_file) /\ Len(rest) = 0
  BY SeqBasics DEF FileInv
<1>2. ReadLines = DOMAIN db_file
  BY <1>1 DEF ReadLines
<1>3. \A id : LabelledLines(id) = Readable(EnrolledRows(id), program.label_col)
  BY <1>2 DEF LabelledLines, Labelled, Taken, Skipped, Readable, EnrolledRows, RowsOf
<1>4. \A id : id \in DOMAIN token_share_map <=> LabelledLines(id) # {}
  <2>1. DOMAIN token_share_map = {db_file[n].id : n \in {n \in ReadLines : Labelled(n)}}
    BY DEF LoadInv
  <2> QED
    BY <2>1 DEF LabelledLines
<1> QED
  BY <1>1, <1>2, <1>3, <1>4 DEF FileInv

\* The label of a line is a number unless it is broken.
LEMMA LabelIsNumber ==
    ASSUME NEW file \in Files \cup QueryFiles, NEW n \in 1 .. Len(file), file[n] # BadLine,
           NEW column, LabelOf(file[n], column) # BadLabel
    PROVE  LabelOf(file[n], column) \in Int
BY InputsOK DEF LabelOf

\* The shares that a reader sees.
LEMMA FirstShares ==
    ASSUME ShareInv, LabelInv, FileInv, LoadInv, FromFile => rest = <<>>,
           NEW id \in DOMAIN token_share_map, ~FromFile => id \in DOMAIN enrolled
    PROVE  /\ FirstSharings(token_share_map)[id].secret = token
           /\ FirstSharings(token_share_map)[id].coef \in Int
           /\ id \in DOMAIN FirstSharings(id_share_map)
           /\ FirstSharings(id_share_map)[id].secret = FirstLabel(id)
           /\ FirstSharings(id_share_map)[id].secret \in Int
           /\ FirstSharings(id_share_map)[id].coef \in Int
<1>1. DOMAIN token_share_map = DOMAIN id_share_map
  BY LabelsAreSeqs
<1>2. FirstSharings(token_share_map)[id] = Head(token_share_map[id])
      /\ FirstSharings(id_share_map)[id] = Head(id_share_map[id])
      /\ id \in DOMAIN FirstSharings(id_share_map)
  BY <1>1 DEF FirstSharings
<1>3. Head(token_share_map[id]) \in TokenSharings
  <2>1. token_share_map[id] \in Seq(TokenSharings) /\ token_share_map[id] # <<>>
    BY DEF ShareInv, ShareMapsAgree
  <2> QED
    BY <2>1
<1>4. PICK d \in LabelCoefs : Head(id_share_map[id]) = Sharing(FirstLabel(id), d)
  BY <1>1 DEF LabelInv
<1>5. FirstLabel(id) \in Int
  <2>1. CASE FromFile
    <3>1. /\ db_file \in Files /\ DOMAIN db_file = 1 .. Len(db_file) /\ Len(db_file) \in Nat
          /\ ReadLines = DOMAIN db_file /\ LabelledLines(id) # {}
      BY <2>1, LoadedFile
    <3>2. LabelledLines(id) \subseteq 1 .. Len(db_file)
      BY <3>1 DEF LabelledLines
    <3>3. First(LabelledLines(id)) \in LabelledLines(id)
      <4>1. LabelledLines(id) \subseteq Nat
        BY <3>1, <3>2
      <4> QED
        BY <3>1, <4>1, LeastOf
    <3> DEFINE n == First(LabelledLines(id))
    <3>4. n \in 1 .. Len(db_file) /\ db_file[n] # BadLine
          /\ LabelOf(db_file[n], program.label_col) # BadLabel
      BY <3>2, <3>3 DEF LabelledLines, Labelled, Taken, Skipped
    <3>5. LabelOf(db_file[n], program.label_col) \in Int
      <4> HIDE DEF n
      <4> QED
        BY <3>1, <3>4, LabelIsNumber
    <3> QED
      BY <2>1, <3>5 DEF FirstLabel
  <2>2. CASE ~FromFile
    BY <2>2 DEF FirstLabel, LabelInv
  <2> QED
    BY <2>1, <2>2
<1> QED
  BY <1>2, <1>3, <1>4, <1>5, InputsOK DEF TokenSharings, Sharing

\* In memory, everyone has shares when a set is computed.
LEMMA SharedInMemory ==
    ASSUME ControlInv, SharedInv, NumberInv, ~FromFile, NEW op \in Computes, Doing(op)
    PROVE  DOMAIN enrolled \subseteq DOMAIN token_share_map
<1>0. program \in Configs
  BY DEF ControlInv, DataInv, OrderInv
<1> DEFINE y == Head(todo)
<1>1. y \in StepSet /\ y.op = op /\ y = Step(op, On) /\ ~crashed /\ Phase(op) = 7
  BY NextSet
<1>2. /\ \A z \in StepSet : Before(y, z) => Left(z)
      /\ \A z \in StepSet : Before(z, y) => ~Left(z)
  BY <1>1, DoingSplits
<1>3. \E x \in StepSet :
         /\ x.op = "setShares" /\ Before(x, y)
         /\ \A z \in StepSet : z.op = "clearShares" /\ Before(x, z) => Before(y, z)
  <2>0. /\ MemoryShares \subseteq StepSet /\ y \in MemorySets
        /\ \A z \in StepSet : z.op = "clearShares" => z \in MemoryClears
    BY <1>0, <1>1, MemorySetsAre
  <2>1. \A t : /\ Step("setShares", t).op = "setShares" /\ Turn(Step("setShares", t)) = 3 * t - 1
               /\ Step("clearShares", t).op = "clearShares"
               /\ Turn(Step("clearShares", t)) = 3 * t - 2
               /\ Step("computeCoefficients", t).op = "computeCoefficients"
               /\ Turn(Step("computeCoefficients", t)) = 3 * t
    BY DEF Step, Turn
  <2>2. CASE program.name = "bench"
    <3>1. Step("setShares", 0) \in StepSet /\ MemoryClears = {} /\ Phase("setShares") = 6
      BY <2>0, <2>2 DEF MemoryShares, MemoryClears, Phase, Sources
    <3>2. Before(Step("setShares", 0), y)
      BY <1>1, <2>1, <3>1 DEF Before
    <3> QED
      BY <2>0, <2>1, <3>1, <3>2
  <2>3. CASE program.name = "rung_stlpsi"
    <3>1. /\ Step("setShares", 1) \in StepSet /\ MemoryClears = {Step("clearShares", 1)}
          /\ Phase("setShares") = 2 /\ Phase("clearShares") = 2
      BY <2>0, <2>3 DEF MemoryShares, MemoryClears, Phase, Sources
    <3>2. Before(Step("setShares", 1), y)
      BY <1>1, <2>1, <3>1 DEF Before
    <3>3. ~Before(Step("setShares", 1), Step("clearShares", 1))
      BY <2>1, <3>1 DEF Before
    <3> QED
      BY <2>0, <2>1, <3>1, <3>2, <3>3
  <2>4. CASE program.name = "rung_cstpsi"
    <3>1. /\ MemorySets = {Step("computeCoefficients", t) : t \in 1 .. T}
          /\ MemoryShares = {Step("setShares", t) : t \in 1 .. T}
          /\ MemoryClears = {Step("clearShares", t) : t \in 1 .. T}
      BY <2>4 DEF MemorySets, MemoryShares, MemoryClears
    <3>2. PICK t \in 1 .. T : y = Step("computeCoefficients", t)
      BY <2>0, <3>1
    <3>3. PICK x : x = Step("setShares", t)
      OBVIOUS
    <3>4. x \in StepSet /\ x.op = "setShares" /\ Turn(x) = 3 * t - 1
      BY <2>0, <2>1, <3>1, <3>3
    <3>5. Turn(y) = 3 * t /\ y.op = "computeCoefficients"
      BY <2>1, <3>2
    <3>6. /\ Phase("setShares") = 7 /\ Phase("clearShares") = 7
          /\ Phase("computeCoefficients") = 7
      BY <2>4 DEF Phase, Sources, Computes
    <3>7. Before(x, y)
      <4>1. 3 * t - 1 < 3 * t
        OBVIOUS
      <4> QED
        BY <3>4, <3>5, <3>6, <4>1 DEF Before
    <3>8. ASSUME NEW z \in StepSet, z.op = "clearShares", Before(x, z) PROVE Before(y, z)
      <4>1. PICK s \in 1 .. T : z = Step("clearShares", s)
        BY <2>0, <3>1, <3>8
      <4>2. Turn(z) = 3 * s - 2
        BY <2>1, <4>1
      <4>3. 3 * t - 1 < 3 * s - 2
        BY <3>4, <3>6, <3>8, <4>2 DEF Before
      <4>4. 3 * t < 3 * s - 2
        BY <4>3
      <4> QED
        BY <3>5, <3>6, <3>8, <4>2, <4>4 DEF Before
    <3> QED
      BY <3>4, <3>7, <3>8
  <2> QED
    BY <1>0, <2>2, <2>3, <2>4, ConfigTypes DEF FromFile
<1>4. PICK x \in StepSet :
         /\ x.op = "setShares" /\ Before(x, y)
         /\ \A z \in StepSet : z.op = "clearShares" /\ Before(x, z) => Before(y, z)
  BY <1>3
<1>5. ~Left(x) /\ \A z \in StepSet : z.op = "clearShares" /\ Before(x, z) => Left(z)
  BY <1>2, <1>4
<1> QED
  BY <1>1, <1>4, <1>5 DEF SharedInv

\* What set n is computed from, or who it cannot be computed for.
Tallies(a, b, n) ==
    IF DOMAIN enrolled \subseteq DOMAIN a \cap DOMAIN b
      THEN /\ \A id \in DOMAIN enrolled :
                 /\ a[id].secret = token /\ a[id].coef \in Int
                 /\ b[id].secret = LabelIn(n, id) /\ b[id].secret \in Int /\ b[id].coef \in Int
           /\ FromFile => DOMAIN enrolled \subseteq DOMAIN token_share_map
           /\ K > 0 /\ n > T =>
                DOMAIN enrolled \subseteq IdsOf(db_file, Relabelled(db_file, n - T))
      ELSE WithoutShares # {}

\* The last of some lines of an id.
LEMMA LastIsThere ==
    ASSUME NEW file, NEW len \in Nat, NEW rows, rows \subseteq 1 .. len, NEW id \in IdsOf(file, rows)
    PROVE  LastOf(file, rows, id) \in rows /\ file[LastOf(file, rows, id)].id = id
<1> DEFINE lines == {n \in rows : file[n].id = id}
           mirrored == {len - n : n \in lines}
<1>1. lines # {} /\ lines \subseteq 1 .. len
  BY DEF IdsOf
<1>2. mirrored \subseteq Nat /\ mirrored # {}
  BY <1>1
<1>3. PICK m \in mirrored : \A k \in mirrored : m <= k
  <2> HIDE DEF mirrored
  <2> QED
    BY <1>2, LeastOf
<1>4. PICK n \in lines : m = len - n
  BY <1>3
<1>5. \A k \in lines : k <= n
  <2> SUFFICES ASSUME NEW k \in lines PROVE k <= n
    OBVIOUS
  <2>1. len - n <= len - k
    BY <1>3, <1>4
  <2>2. k \in Nat /\ n \in Nat
    BY <1>1
  <2> QED
    BY <2>1, <2>2
<1>6. n \in rows /\ file[n].id = id /\ \A k \in rows : file[k].id = id => k <= n
  BY <1>5
<1> QED
  BY <1>6 DEF LastOf

LEMMA ComputesFit ==
    ASSUME SenderInv, computeCoefficients
    PROVE  \E a, b : ComputeSet(a, b) /\ Tallies(a, b, Len(sets) + 1)
<1> USE DEF SenderInv
<1>0. program \in Configs /\ DataInv /\ OrderInv
  BY DEF ControlInv, DataInv, OrderInv
<1>1. T \in Nat \ {0} /\ K \in Nat /\ Len(sets) \in Nat
  BY <1>0, ConfigTypes, SeqBasics DEF DataInv, SetsInv
<1>2. PICK op \in Computes : Doing(op)
  BY DEF computeCoefficients, Computes
<1>3. /\ Head(todo) \in StepSet /\ Head(todo).op = op /\ Head(todo) = Step(op, On)
      /\ SetNo(Head(todo)) = Len(sets) + 1 /\ Phase(op) = 7
  BY <1>2, NextSet
<1>4. FromFile => rest = <<>>
  <2>1. Past(7 - 1) /\ 7 - 1 = 6
    BY <1>0, <1>2, <1>3, DoingIsFirst
  <2>2. ~Undone("loadEnrollmentCSV")
    BY <2>1, LoadPhase DEF Past, Undone, Pending
  <2> QED
    BY <2>2 DEF LoadInv
<1>5. ~FromFile => DOMAIN enrolled \subseteq DOMAIN token_share_map
  BY <1>2, SharedInMemory
<1>6. /\ DOMAIN FirstSharings(token_share_map) = DOMAIN token_share_map
      /\ DOMAIN FirstSharings(id_share_map) = DOMAIN token_share_map
  BY LabelsAreSeqs DEF FirstSharings
<1>7. \A id \in DOMAIN token_share_map \cap DOMAIN enrolled :
         /\ FirstSharings(token_share_map)[id].secret = token
         /\ FirstSharings(token_share_map)[id].coef \in Int
         /\ FirstSharings(id_share_map)[id].secret = FirstLabel(id)
         /\ FirstSharings(id_share_map)[id].secret \in Int
         /\ FirstSharings(id_share_map)[id].coef \in Int
  BY <1>4, FirstShares
<1>8. FromFile /\ ~(DOMAIN enrolled \subseteq DOMAIN token_share_map) => WithoutShares # {}
  <2> SUFFICES ASSUME FromFile, NEW id \in DOMAIN enrolled, id \notin DOMAIN token_share_map
               PROVE  WithoutShares # {}
    OBVIOUS
  <2>1. Readable(EnrolledRows(id), program.label_col) = {}
    BY <1>4, LoadedFile
  <2>2. id \in WithoutShares
    BY <2>1 DEF WithoutShares, FromFile
  <2> QED
    BY <2>2
<1>9. token \in Int
  BY DEF token
<1>10. CASE op = "computeCoefficients"
  <2>1. ComputeSet(FirstSharings(token_share_map), FirstSharings(id_share_map))
    <3>1. ~Doing("computeTokenSet") /\ ~Doing("computeLabelSet")
      BY <1>2, <1>10 DEF Doing
    <3> QED
      BY <3>1 DEF computeCoefficients
  <2>2. K = 0
    <3>1. CASE FromFile
      <4>1. \A k : Step("computeTokenSet", k).op # "computeCoefficients"
                   /\ Step("computeLabelSet", k).op # "computeCoefficients"
        BY DEF Step
      <4> QED
        BY <1>0, <1>3, <1>10, <3>1, <4>1, FileSets
    <3> QED
      BY <1>0, <3>1, MemorySetsAre
  <2>3. \A id : FirstLabel(id) = LabelIn(Len(sets) + 1, id)
    <3>1. CASE FromFile
      <4>1. \A id : LabelledLines(id) = Readable(EnrolledRows(id), program.label_col)
        BY <1>4, <3>1, LoadedFile
      <4>2. ~(K > 0)
        BY <2>2
      <4> QED
        BY <3>1, <4>1, <4>2 DEF FirstLabel, LabelIn, FromFile
    <3>2. CASE ~FromFile
      BY <3>2 DEF FirstLabel, LabelIn, FromFile
    <3> QED
      BY <3>1, <3>2
  <2>4. Tallies(FirstSharings(token_share_map), FirstSharings(id_share_map), Len(sets) + 1)
    <3>1. CASE DOMAIN enrolled \subseteq DOMAIN token_share_map
      BY <1>6, <1>7, <2>2, <2>3, <3>1 DEF Tallies
    <3>2. CASE ~(DOMAIN enrolled \subseteq DOMAIN token_share_map)
      BY <1>5, <1>6, <1>8, <3>2 DEF Tallies
    <3> QED
      BY <3>1, <3>2
  <2> QED
    BY <2>1, <2>4
<1>11. ASSUME op # "computeCoefficients" PROVE FromFile /\ K > 0
  <2>1. FromFile
    BY <1>2, <1>11, DoingOf DEF Computes
  <2>2. Step("computeCoefficients", 1).op = "computeCoefficients"
    BY DEF Step
  <2> QED
    BY <1>0, <1>3, <1>11, <2>1, <2>2, FileSets
<1>12. CASE op = "computeTokenSet"
  <2>1. FromFile /\ K > 0 /\ On \in 1 .. T /\ Len(sets) + 1 = On
    <3>1. FromFile /\ K > 0
      BY <1>11, <1>12
    <3>2. \E t \in 1 .. T : Head(todo) = Step("computeTokenSet", t)
      <4>1. \A k : Step("computeCoefficients", k).op # "computeTokenSet"
                   /\ Step("computeLabelSet", k).op # "computeTokenSet"
        BY DEF Step
      <4> QED
        BY <1>0, <1>3, <1>12, <3>1, <4>1, FileSets
    <3>3. On \in 1 .. T
      BY <1>3, <3>2 DEF Step
    <3>4. SetNo(Head(todo)) = On
      BY <1>3, <1>12 DEF SetNo, Step
    <3> QED
      BY <1>3, <3>1, <3>3, <3>4
  <2>2. ComputeSet(TokenShares(On), TokenShares(On))
    <3>1. ~Doing("computeCoefficients") /\ ~Doing("computeLabelSet")
      BY <1>2, <1>12 DEF Doing
    <3> QED
      BY <3>1 DEF computeCoefficients
  <2>3. \A id : LabelIn(On, id) = token
    BY <2>1 DEF LabelIn, FromFile
  <2>4. ~(On > T)
    BY <1>1, <2>1
  <2>5. CASE On = 1
    <3>1. TokenShares(On) = FirstSharings(token_share_map)
      BY <2>5 DEF TokenShares
    <3>2. CASE DOMAIN enrolled \subseteq DOMAIN token_share_map
      <4>1. Tallies(TokenShares(On), TokenShares(On), On)
        BY <1>6, <1>7, <1>9, <2>3, <2>4, <3>1, <3>2 DEF Tallies
      <4> QED
        BY <2>1, <2>2, <4>1
    <3>3. CASE ~(DOMAIN enrolled \subseteq DOMAIN token_share_map)
      <4>1. Tallies(TokenShares(On), TokenShares(On), On)
        BY <1>6, <1>8, <2>1, <3>1, <3>3 DEF Tallies
      <4> QED
        BY <2>1, <2>2, <4>1
    <3> QED
      BY <3>2, <3>3
  <2>6. CASE On # 1
    <3>1. sets # <<>>
      <4>1. Len(sets) # 0
        BY <1>1, <2>1, <2>6
      <4> QED
        BY <4>1
    <3>2. DOMAIN enrolled \subseteq DOMAIN token_share_map
      BY <2>1, <3>1 DEF WholeInv
    <3>3. On - 1 \in DOMAIN token_share_maps
      <4>1. PICK y : y = Step("shareAgain", On)
        OBVIOUS
      <4>2. y \in StepSet
        <5>1. On - 1 \in 1 .. T - 1 /\ (On - 1) + 1 = On
          BY <1>1, <2>1, <2>6
        <5>2. Step("shareAgain", (On - 1) + 1) \in SenderSet
          BY <5>1 DEF SenderSet
        <5>3. program.name = "apps"
          BY <1>0, <2>1, ConfigTypes
        <5>4. StepSet = SenderSet \cup ReceiverSet
          BY <5>3 DEF StepSet
        <5> QED
          BY <4>1, <5>1, <5>2, <5>4
      <4>3. y.op = "shareAgain" /\ y.on = On
        BY <4>1 DEF Step
      <4>4. Phase("shareAgain") = 1
        BY LoadPhase
      <4>5. Before(y, Head(todo))
        BY <1>3, <4>3, <4>4 DEF Before
      <4>6. ~Left(y) /\ ~crashed
        BY <1>2, <1>3, <4>2, <4>5, DoingSplits
      <4> QED
        BY <4>2, <4>3, <4>6 DEF AgainInv
    <3>4. TokenShares(On) = token_share_maps[On - 1]
      BY <2>6 DEF TokenShares
    <3>5. /\ DOMAIN TokenShares(On) = DOMAIN enrolled
          /\ \A id \in DOMAIN enrolled : TokenShares(On)[id] \in TokenSharings
      BY <3>3, <3>4 DEF AgainInv
    <3>6. \A id \in DOMAIN enrolled : TokenShares(On)[id].secret = token
             /\ TokenShares(On)[id].coef \in Int
      BY <3>5, InputsOK DEF TokenSharings
    <3>7. Tallies(TokenShares(On), TokenShares(On), On)
      BY <1>9, <2>3, <2>4, <3>2, <3>5, <3>6 DEF Tallies
    <3> QED
      BY <2>1, <2>2, <3>7
  <2> QED
    BY <2>5, <2>6
<1>13. CASE op = "computeLabelSet"
  <2>1. FromFile /\ K > 0 /\ On \in 1 .. K /\ Len(sets) + 1 = T + On
    <3>1. FromFile /\ K > 0
      BY <1>11, <1>13
    <3>2. \E r \in 1 .. K : Head(todo) = Step("computeLabelSet", r)
      <4>1. \A k : Step("computeCoefficients", k).op # "computeLabelSet"
                   /\ Step("computeTokenSet", k).op # "computeLabelSet"
        BY DEF Step
      <4> QED
        BY <1>0, <1>3, <1>13, <3>1, <4>1, FileSets
    <3>3. On \in 1 .. K
      BY <1>3, <3>2 DEF Step
    <3>4. SetNo(Head(todo)) = T + On
      BY <1>3, <1>13 DEF SetNo, Step
    <3> QED
      BY <1>3, <3>1, <3>3, <3>4
  <2> DEFINE rows == Relabelled(db_file, On)
  <2>2. PICK coef \in [IdsOf(db_file, rows) -> LabelCoefs] :
          ComputeSet(TokenShares(1), loadIdSharesOnly(db_file, On, coef))
    <3>1. ~Doing("computeCoefficients") /\ ~Doing("computeTokenSet")
      BY <1>2, <1>13 DEF Doing
    <3> QED
      BY <3>1 DEF computeCoefficients
  <2> DEFINE chunk == loadIdSharesOnly(db_file, On, coef)
  <2>3. DOMAIN chunk = IdsOf(db_file, rows)
        /\ \A id \in IdsOf(db_file, rows) :
              chunk[id] = Sharing(LabelOf(db_file[LastOf(db_file, rows, id)], On), coef[id])
    BY DEF loadIdSharesOnly
  <2>4. TokenShares(1) = FirstSharings(token_share_map)
    BY DEF TokenShares
  <2>5. (T + On) - T = On /\ T + On > T /\ ~(T + On <= T)
    BY <1>1, <2>1
  <2>6. \A id : LabelIn(T + On, id) = LabelOf(db_file[LastOf(db_file, rows, id)], On)
    BY <2>1, <2>5 DEF LabelIn, FromFile
  <2>7. DOMAIN enrolled \subseteq DOMAIN token_share_map
    <3>1. sets # <<>>
      <4>1. Len(sets) # 0
        BY <1>1, <2>1
      <4> QED
        BY <4>1
    <3> QED
      BY <2>1, <3>1 DEF WholeInv
  <2>8. \A id \in IdsOf(db_file, rows) : LabelOf(db_file[LastOf(db_file, rows, id)], On) \in Int
    <3> SUFFICES ASSUME NEW id \in IdsOf(db_file, rows)
                 PROVE  LabelOf(db_file[LastOf(db_file, rows, id)], On) \in Int
      OBVIOUS
    <3>1. /\ db_file \in Files /\ DOMAIN db_file = 1 .. Len(db_file) /\ Len(db_file) \in Nat
      BY <1>4, <2>1, LoadedFile
    <3>2. rows \subseteq 1 .. Len(db_file)
          /\ \A n \in rows : db_file[n] # BadLine /\ LabelOf(db_file[n], On) # BadLabel
      BY <3>1 DEF Relabelled, RowsOf
    <3>3. LastOf(db_file, rows, id) \in rows
      BY <3>1, <3>2, LastIsThere
    <3> HIDE DEF rows
    <3> QED
      BY <3>1, <3>2, <3>3, LabelIsNumber
  <2>9. Tallies(TokenShares(1), chunk, T + On)
    <3>1. CASE DOMAIN enrolled \subseteq IdsOf(db_file, rows)
      <4>1. \A id \in DOMAIN enrolled :
              /\ chunk[id].secret = LabelIn(T + On, id) /\ chunk[id].secret \in Int
              /\ chunk[id].coef \in Int
        <5> SUFFICES ASSUME NEW id \in DOMAIN enrolled
                     PROVE  /\ chunk[id].secret = LabelIn(T + On, id) /\ chunk[id].secret \in Int
                            /\ chunk[id].coef \in Int
          OBVIOUS
        <5>1. chunk[id] = Sharing(LabelOf(db_file[LastOf(db_file, rows, id)], On), coef[id])
          BY <2>3, <3>1
        <5>2. id \in IdsOf(db_file, rows) /\ coef[id] \in Int
          BY <2>2, <3>1, InputsOK
        <5> HIDE DEF chunk, rows
        <5> QED
          BY <2>6, <2>8, <5>1, <5>2 DEF Sharing
      <4> HIDE DEF chunk, rows
      <4>2. DOMAIN enrolled \subseteq IdsOf(db_file, Relabelled(db_file, (T + On) - T))
        BY <2>5, <3>1 DEF rows
      <4> QED
        BY <1>6, <1>7, <2>3, <2>4, <2>7, <3>1, <4>1, <4>2 DEF Tallies
    <3>2. CASE ~(DOMAIN enrolled \subseteq IdsOf(db_file, rows))
      <4>1. PICK id \in DOMAIN enrolled : id \notin IdsOf(db_file, rows)
        BY <3>2
      <4>2. {n \in Relabelled(db_file, On) : db_file[n].id = id} = {}
        BY <4>1 DEF IdsOf
      <4>3. id \in WithoutShares
        BY <2>1, <4>1, <4>2 DEF WithoutShares, FromFile
      <4>4. ~(DOMAIN enrolled \subseteq DOMAIN chunk)
        BY <2>3, <3>2
      <4> HIDE DEF chunk
      <4> QED
        BY <4>3, <4>4 DEF Tallies
    <3> QED
      BY <3>1, <3>2
  <2> QED
    BY <2>1, <2>2, <2>9
<1> QED
  BY <1>2, <1>10, <1>12, <1>13 DEF Computes

----------------------------------------------------------------------------
(* Who is left without shares                                               *)

\* What dooms a program stays so.
LEMMA DoomStays ==
    ASSUME program' = program, db_file' = db_file,
           UNCHANGED <<enrolled, enr_ss_map, db_partitions, MAX_SUB, FIELD_MODULUS>>
    PROVE  Doomed' <=> Doomed
<1>1. K' = K
  BY DEF K
<1>2. WithoutShares' = WithoutShares
  <2>1. \A id : EnrolledRows(id)' = EnrolledRows(id)
    BY DEF EnrolledRows
  <2>2. \A rows, column : Readable(rows, column)' = Readable(rows, column)
    BY DEF Readable
  <2> QED
    BY <1>1, <2>1, <2>2 DEF WithoutShares
<1>3. \A part : Singular(part)' <=> Singular(part)
  BY PointsStay
<1> QED
  BY <1>2, <1>3 DEF Doomed

\* A step that makes no set and reads nothing that sets are made of.
LEMMA WholeStays ==
    ASSUME WholeInv, program' = program, db_file' = db_file,
           sets' = sets, sets # <<>> \/ crashed => enrolled' = enrolled,
           sets # <<>> /\ FromFile => token_share_map' = token_share_map,
           crashed' => Doomed'
    PROVE  WholeInv'
<1>1. FromFile' = FromFile /\ K' = K /\ T' = T /\ \A s, id : LabelIn(s, id)' = LabelIn(s, id)
  BY ProgramStays
<1>4. sets = <<>> => DOMAIN sets = {}
  OBVIOUS
<1>5. ASSUME NEW s \in DOMAIN sets', NEW id \in DOMAIN enrolled'
      PROVE  /\ TokenShared(sets[s], id) /\ LabelShared(sets[s], id)
             /\ sets[s].label[id].secret = LabelIn(s, id)
  <2>1. s \in DOMAIN sets /\ id \in DOMAIN enrolled
    BY <1>4, <1>5
  <2> QED
    BY <2>1 DEF WholeInv
<1>6. \A set, id : TokenShared(set, id)' = TokenShared(set, id)
                   /\ LabelShared(set, id)' = LabelShared(set, id)
  OBVIOUS
<1>7. (\A s \in DOMAIN sets : \A id \in DOMAIN enrolled :
          /\ TokenShared(sets[s], id) /\ LabelShared(sets[s], id)
          /\ sets[s].label[id].secret = LabelIn(s, id))'
  BY <1>1, <1>5 DEF TokenShared, LabelShared
<1>8. (sets # <<>> /\ FromFile => DOMAIN enrolled \subseteq DOMAIN token_share_map)'
  BY <1>1 DEF WholeInv
<1>9. (\A s \in DOMAIN sets : K > 0 /\ s > T =>
          DOMAIN enrolled \subseteq IdsOf(db_file, Relabelled(db_file, s - T)))'
  <2> SUFFICES ASSUME NEW s \in DOMAIN sets, K > 0, s > T
               PROVE  DOMAIN enrolled' \subseteq IdsOf(db_file, Relabelled(db_file, s - T))
    BY <1>1
  <2>1. enrolled' = enrolled
    BY <1>4
  <2> QED
    BY <2>1 DEF WholeInv
<1> QED
  BY <1>7, <1>8, <1>9 DEF WholeInv

LEMMA WholeNext ==
    ASSUME SenderInv, [Lives]_vars
    PROVE  WholeInv'
<1> USE DEF SenderInv
<1>0. program' = program /\ db_file' = db_file /\ started \in BOOLEAN /\ program \in Configs
      /\ DataInv /\ OrderInv /\ IsSeq(sets) /\ WholeInv
  BY TodoSteps DEF ControlInv, DataInv, OrderInv, SetsInv
<1>1. crashed => \A op : ~Doing(op)
  BY DEF ControlInv, Doing
<1>2. ASSUME NEW op, Doing(op), Phase(op) \in 1 .. 6 PROVE sets = <<>>
  <2>1. \A p \in Nat : p >= Phase(op) => ~Past(p)
    BY <1>0, <1>2, DoingIsFirst
  <2>2. ~Past(6)
    BY <1>2, <2>1
  <2> QED
    BY <1>0, <2>2 DEF DataInv, SetsInv
<1>3. \A op \in Sources : Phase(op) \in 1 .. 6
  BY DataPhases
<1>4. ASSUME \A op \in Computes : ~Doing(op) PROVE crashed' = crashed
  BY <1>0, <1>4, TodoSteps DEF Begins, Goes, Dies, Records, Rests
<1>10. CASE crashed
  <2>1. UNCHANGED vars
    BY <1>10, NothingAfterwards DEF Lives, ControlInv
  <2>2. UNCHANGED <<program, db_file, enrolled, enr_ss_map, db_partitions, MAX_SUB, FIELD_MODULUS,
                    sets, token_share_map, crashed>>
    BY <2>1 DEF vars, control_vars, history_vars, enrollment_vars, offline_vars, field_vars
  <2>3. Doomed'
    BY <1>0, <1>10, <2>2, DoomStays DEF WholeInv
  <2> QED
    BY <1>0, <2>2, <2>3, WholeStays
<1> SUFFICES ASSUME ~crashed PROVE WholeInv'
  BY <1>10
<1>5. CASE Loads
  <2>1. Doing("loadEnrollmentCSV") /\ "loadEnrollmentCSV" \in Sources
    BY <1>5 DEF Loads, Sources
  <2>2. sets = <<>> /\ ~crashed /\ sets' = sets /\ crashed' = crashed
    BY <1>1, <1>2, <1>3, <1>5, <2>1 DEF Loads
  <2> QED
    BY <1>0, <2>2, WholeStays
<1>6. CASE Chooses
  <2>1. PICK op \in {"generateDatabase", "buildEnrMap"} : Doing(op)
    BY <1>6 DEF Chooses
  <2>2. op \in Sources /\ \A o \in Computes : ~Doing(o)
    BY <2>1 DEF Sources, Computes, Doing
  <2>3. sets = <<>> /\ ~crashed /\ sets' = sets /\ crashed' = crashed
    BY <1>1, <1>2, <1>3, <1>4, <1>6, <2>1, <2>2 DEF Chooses
  <2> QED
    BY <1>0, <2>3, WholeStays
<1>7. CASE Leaves
  <2>1. UNCHANGED <<sets, enrolled, token_share_map>>
    BY <1>7 DEF Leaves
  <2>2. crashed' = crashed
    BY <1>4, <1>7 DEF Leaves
  <2> QED
    BY <1>0, <2>1, <2>2, WholeStays
<1>8. CASE clearShares \/ setShares \/ shareAgain
  <2>1. UNCHANGED <<sets, enrolled, crashed>>
    BY <1>8 DEF clearShares, setShares, shareAgain, offline_vars, history_vars, Advance
  <2>2. shareAgain => token_share_map' = token_share_map
    BY DEF shareAgain, enrollment_vars
  <2>3. ~shareAgain => ~FromFile
    <3>1. ~shareAgain => Doing("clearShares") \/ Doing("setShares")
      BY <1>8 DEF clearShares, setShares
    <3> QED
      BY <3>1, DoingOf
  <2> QED
    BY <1>0, <2>1, <2>2, <2>3, WholeStays
<1>9. CASE computeCoefficients
  <2>1. UNCHANGED <<enrolled, token_share_map>>
    BY <1>9 DEF computeCoefficients, enrollment_vars, history_vars
  <2>2. PICK a, b : ComputeSet(a, b) /\ Tallies(a, b, Len(sets) + 1)
    BY <1>9, ComputesFit
  <2>3. DOMAIN enr_ss_map = DOMAIN enrolled
    BY <1>0 DEF DataInv, EnrInv, Blinded
  <2>4. CASE ~Interpolable(a, b)
    <3>1. crashed' /\ sets' = sets
      BY <2>2, <2>4 DEF ComputeSet, Die
    <3>2. Doomed
      BY <2>2, <2>3, <2>4 DEF Interpolable, Tallies, Doomed
    <3>3. UNCHANGED <<enr_ss_map, db_partitions, MAX_SUB, FIELD_MODULUS>>
      BY <1>9 DEF computeCoefficients, enrollment_vars, field_vars
    <3>4. Doomed'
      BY <1>0, <2>1, <3>2, <3>3, DoomStays
    <3> QED
      BY <1>0, <2>1, <3>1, <3>4, WholeStays
  <2>5. CASE Interpolable(a, b)
    <3>9. DOMAIN enrolled \subseteq DOMAIN a \cap DOMAIN b
      BY <2>3, <2>5 DEF Interpolable
    <3>10. PICK x : sets' = Append(sets, [x |-> x, parts |-> db_partitions, token |-> a, label |-> b])
      BY <2>2, <2>5 DEF ComputeSet
    <3> DEFINE set == [x |-> x, parts |-> db_partitions, token |-> a, label |-> b]
    <3>1. sets' = Append(sets, set) /\ crashed' = crashed
      BY <2>2, <2>5, <3>10 DEF ComputeSet, Advance
    <3>2. /\ DOMAIN sets' = DOMAIN sets \cup {Len(sets) + 1}
          /\ Len(sets) \in Nat /\ sets'[Len(sets) + 1] = set
          /\ \A s \in DOMAIN sets : sets'[s] = sets[s]
      <4> HIDE DEF set
      <4>1. PICK S : sets \in Seq(S)
        BY <1>0 DEF IsSeq
      <4>2. sets \in Seq(S \cup {set})
        BY <4>1
      <4>3. sets' = Append(sets, set)
        BY <3>1
      <4> QED
        BY <4>2, <4>3
    <3>3. FromFile' = FromFile /\ K' = K /\ T' = T
          /\ \A s, id : LabelIn(s, id)' = LabelIn(s, id)
      BY <1>0, ProgramStays
    <3>4. ~crashed
      BY <1>1, <1>9 DEF computeCoefficients
    <3>5. \A id \in DOMAIN enrolled :
             /\ TokenShared(set, id) /\ LabelShared(set, id)
             /\ set.label[id].secret = LabelIn(Len(sets) + 1, id)
      BY <2>2, <3>9 DEF Tallies, TokenShared, LabelShared
    <3>6. (\A s \in DOMAIN sets : \A id \in DOMAIN enrolled :
              /\ TokenShared(sets[s], id) /\ LabelShared(sets[s], id)
              /\ sets[s].label[id].secret = LabelIn(s, id))'
      <4> SUFFICES ASSUME NEW s \in DOMAIN sets', NEW id \in DOMAIN enrolled
                   PROVE  /\ TokenShared(sets'[s], id) /\ LabelShared(sets'[s], id)
                          /\ sets'[s].label[id].secret = LabelIn(s, id)
        BY <2>1, <3>3 DEF TokenShared, LabelShared
      <4> HIDE DEF set
      <4>1. CASE s \in DOMAIN sets
        BY <3>2, <4>1 DEF WholeInv
      <4>2. CASE s = Len(sets) + 1
        BY <3>2, <3>5, <4>2
      <4> QED
        BY <3>2, <4>1, <4>2
    <3>7. (sets # <<>> /\ FromFile => DOMAIN enrolled \subseteq DOMAIN token_share_map)'
      BY <2>1, <2>2, <3>1, <3>3, <3>9 DEF Tallies
    <3>8. (\A s \in DOMAIN sets : K > 0 /\ s > T =>
              DOMAIN enrolled \subseteq IdsOf(db_file, Relabelled(db_file, s - T)))'
      <4> SUFFICES ASSUME NEW s \in DOMAIN sets', K > 0, s > T
                   PROVE  DOMAIN enrolled \subseteq IdsOf(db_file, Relabelled(db_file, s - T))
        BY <1>0, <2>1, <3>3
      <4>1. CASE s \in DOMAIN sets
        BY <4>1 DEF WholeInv
      <4>2. CASE s = Len(sets) + 1
        BY <2>2, <3>9, <4>2 DEF Tallies
      <4> QED
        BY <3>2, <4>1, <4>2
    <3> QED
      BY <3>1, <3>4, <3>6, <3>7, <3>8 DEF WholeInv
  <2> QED
    BY <2>4, <2>5
<1> QED
  BY <1>0, <1>5, <1>6, <1>7, <1>8, <1>9, ShareSteps

LEMMA SenderInvInit == Init => SenderInv
<1> SUFFICES ASSUME Init PROVE SenderInv
  OBVIOUS
<1>1. ControlInv /\ FilePart
  BY ControlInit, FilePartInit
<1>2. ShareInv
  BY DEF Init, EnrollmentInit, ShareInv, ShareMapsAgree
<1>3. DOMAIN <<>> = {} /\ IsSeq(<<>>)
  BY EmptyPart DEF Part, InOrder
<1>4. SharedInv
  BY DEF Init, SharedInv, Left
<1>5. AgainInv
  BY <1>3 DEF Init, AgainInv, Left
<1>6. NumberInv
  <2> SUFFICES ASSUME NEW y \in StepSet, y.op \in Computes PROVE ~Left(y) <=> SetNo(y) <= Len(sets)
    BY DEF NumberInv
  <2>1. SetNo(y) \in Nat \ {0}
    BY SetNumbers DEF Init
  <2>2. Len(sets) = 0
    BY DEF Init
  <2> QED
    BY <2>1, <2>2 DEF Init, Left
<1>7. WholeInv
  BY <1>3 DEF Init, WholeInv
<1> QED
  BY <1>1, <1>2, <1>4, <1>5, <1>6, <1>7 DEF SenderInv, FilePart

LEMMA SenderInvNext == SenderInv /\ [Lives]_vars => SenderInv'
<1> SUFFICES ASSUME SenderInv, [Lives]_vars PROVE SenderInv'
  OBVIOUS
<1>0. ControlInv /\ ShareInv /\ FilePart /\ SharedInv /\ AgainInv /\ NumberInv
  BY DEF SenderInv, FilePart
<1>1. ControlInv' /\ ShareInv'
  BY <1>0, ControlNext, ShareInvNext DEF Lives
<1>2. FilePart'
  BY <1>0, FilePartNext
<1>3. SharedInv' /\ AgainInv' /\ NumberInv'
  BY <1>0, <1>1, SharedNext, AgainNext, NumberNext
<1>4. WholeInv'
  BY WholeNext
<1> QED
  BY <1>1, <1>2, <1>3, <1>4 DEF SenderInv, FilePart

LEMMA AllSetsWhenDone ==
    ASSUME SenderInv, Done, ~crashed
    PROVE  sets # <<>> /\ WithoutShares = {}
<1>0. program \in Configs /\ IsSeq(sets)
  BY DEF SenderInv, ControlInv, DataInv, OrderInv, SetsInv
<1>1. \A y \in StepSet : ~Left(y)
  <2>1. Elements(<<>>) = {}
    BY EmptyPart DEF Part, Elements
  <2> QED
    BY <2>1 DEF Done, Left
<1>3. \A y \in StepSet : y.op \in Computes => SetNo(y) <= Len(sets)
  BY <1>1 DEF SenderInv, NumberInv
<1>4. Len(sets) \in Nat /\ DOMAIN sets = 1 .. Len(sets)
  BY <1>0, SeqBasics
<1>8. sets # <<>>
  <2>1. PICK y \in StepSet : y.op \in Computes /\ SetNo(y) = 1
    BY <1>0, SetNumbers
  <2>2. Len(sets) # 0
    BY <1>3, <1>4, <2>1
  <2> QED
    BY <2>2
<1> SUFFICES ASSUME NEW id \in WithoutShares PROVE FALSE
  BY <1>8
<1>2. FromFile /\ id \in DOMAIN enrolled
  BY DEF WithoutShares, FromFile
<1>5. rest = <<>>
  <2>1. ~Undone("loadEnrollmentCSV")
    <3>1. Elements(<<>>) = {}
      BY EmptyPart DEF Part, Elements
    <3> QED
      BY <3>1 DEF Done, Undone, Pending
  <2> QED
    BY <1>2, <2>1 DEF SenderInv, LoadInv
<1>6. Readable(EnrolledRows(id), program.label_col) # {}
  <2>2. id \in DOMAIN token_share_map
    BY <1>2, <1>8 DEF SenderInv, WholeInv
  <2> QED
    BY <1>2, <1>5, <2>2, LoadedFile DEF SenderInv
<1>7. ASSUME NEW r \in 1 .. K PROVE {n \in Relabelled(db_file, r) : db_file[n].id = id} # {}
  <2>1. T \in Nat \ {0} /\ K \in Nat
    BY <1>0, ConfigTypes
  <2>2. K > 0
    BY <2>1
  <2>3. Step("computeLabelSet", r) \in StepSet
    BY <1>0, <1>2, <2>2, FileSetsAre
  <2>4. SetNo(Step("computeLabelSet", r)) = T + r /\ Step("computeLabelSet", r).op \in Computes
    BY DEF SetNo, Step, Computes
  <2>5. T + r \in DOMAIN sets /\ T + r > T /\ (T + r) - T = r
    BY <1>3, <1>4, <2>1, <2>3, <2>4
  <2>6. DOMAIN enrolled \subseteq IdsOf(db_file, Relabelled(db_file, r))
    BY <2>2, <2>5 DEF SenderInv, WholeInv
  <2> QED
    BY <1>2, <2>6 DEF IdsOf
<1> QED
  BY <1>6, <1>7 DEF WithoutShares

LEMMA LivingIsWhole ==
    ASSUME SenderInv, Done
    PROVE  DeathsHaveCauses
<1>1. DataInv /\ started /\ todo = <<>>
  BY DEF SenderInv, ControlInv, Done
<1>2. crashed => Doomed
  BY DEF SenderInv, WholeInv
<1>3. CASE ~crashed
  <2>1. sets # <<>> /\ WithoutShares = {}
    BY <1>3, AllSetsWhenDone
  <2>2. \A part \in db_partitions : ~Singular(part)
    BY <1>1, <2>1 DEF DataInv, SetsInv
  <2>3. ~Undone("parallelPartitionDB")
    <3>1. Elements(<<>>) = {}
      BY EmptyPart DEF Part, Elements
    <3> QED
      BY <1>1, <3>1 DEF Undone, Pending
  <2>4. DOMAIN enrolled # {}
    BY <1>1, <2>3 DEF DataInv, PartsInv
  <2> QED
    BY <1>3, <2>1, <2>2, <2>4 DEF DeathsHaveCauses
<1> QED
  BY <1>2, <1>3 DEF DeathsHaveCauses, Doomed

\* A program that ends has died exactly for one of three reasons: nobody was
\* enrolled, an enrolled id was left without shares, or the repair of the padding
\* left two points of a polynomial equal.  In every program, for every file, every
\* database, every layout and every randomness.
THEOREM DeathsAreExplained == Spec => []DeathsHaveCauses
<1>1. SenderInv => DeathsHaveCauses
  BY LivingIsWhole DEF DeathsHaveCauses
<1>2. Starved => DeathsHaveCauses
  BY DEF Starved, DeathsHaveCauses
<1>3. SenderInv /\ [Next]_vars => (SenderInv \/ Starved)'
  BY SenderInvNext, Starving DEF Lives, SenderInv, ControlInv
<1>4. Starved /\ [Next]_vars => Starved'
  BY StarvedStays
<1> QED
  BY <1>1, <1>2, <1>3, <1>4, SenderInvInit, PTL DEF Spec
=============================================================================
