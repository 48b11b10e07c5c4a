---------------------- MODULE ProgramsPromise_proofs -----------------------
(***************************************************************************)
(* What the programs answer: the queries, the sets and the rounds that an  *)
(* answer is made from; that every program keeps the promise of            *)
(* ThresholdPSI; and that it answers no more, but by coincidence.  Then    *)
(* comes the report of the instrumented bench, operation by operation, and *)
(* last the types of what outlives an operation.                           *)
(***************************************************************************)
EXTENDS Programs_proofs, FiniteSetTheorems

----------------------------------------------------------------------------
(* The queries in the order of their keys                                   *)

\* A finite set of numbers can be put in order: otherwise there is a smallest
\* number of elements with which it cannot, and one of them can be taken out.
Increasing(keys, n) == \A j, k \in 1 .. n : j < k => keys[j] < keys[k]
Sorts(n) ==
    \A ids : ids \subseteq Int /\ IsFiniteSet(ids) /\ Cardinality(ids) = n =>
       \E keys \in [1 .. n -> ids] : Increasing(keys, n)

LEMMA SortedWithOneMore ==
    ASSUME NEW n \in Nat, Sorts(n) PROVE Sorts(n + 1)
<1> SUFFICES ASSUME NEW ids, ids \subseteq Int, IsFiniteSet(ids), Cardinality(ids) = n + 1
             PROVE  \E keys \in [1 .. n + 1 -> ids] : Increasing(keys, n + 1)
  BY DEF Sorts
<1>1. PICK x : x \in ids
  <2>1. Cardinality({}) = 0
    BY FS_EmptySet
  <2>2. ids # {}
    BY <2>1
  <2> QED
    BY <2>2
<1>2. IsFiniteSet(ids \ {x}) /\ Cardinality(ids \ {x}) = n
  BY <1>1, FS_RemoveElement
<1>3. PICK keys \in [1 .. n -> ids \ {x}] : Increasing(keys, n)
  BY <1>2 DEF Sorts
<1> DEFINE larger == {k \in 1 .. n : keys[k] > x} \cup {n + 1}
<1>4. PICK m \in larger : \A k \in larger : m <= k
  <2>1. larger \subseteq Nat /\ larger # {}
    OBVIOUS
  <2> HIDE DEF larger
  <2> QED
    BY <2>1, LeastOf
<1>5. m \in 1 .. n + 1 /\ m \in Nat
  OBVIOUS
<1>6. \A k \in 1 .. n : keys[k] \in Int /\ keys[k] # x /\ keys[k] \in ids
  OBVIOUS
<1>7. \A k \in 1 .. n : k < m => keys[k] < x
  <2> SUFFICES ASSUME NEW k \in 1 .. n, k < m PROVE keys[k] < x
    OBVIOUS
  <2>1. k \notin larger
    BY <1>4, <1>5
  <2>2. ~(keys[k] > x)
    BY <2>1
  <2> QED
    BY <1>1, <1>6, <2>2
<1>8. \A k \in 1 .. n : k >= m => x < keys[k]
  <2> SUFFICES ASSUME NEW k \in 1 .. n, k >= m PROVE x < keys[k]
    OBVIOUS
  <2>1. m \in 1 .. n /\ m # n + 1
    BY <1>5
  <2>2. keys[m] > x
    BY <2>1
  <2>3. k = m \/ keys[m] < keys[k]
    BY <1>3, <2>1 DEF Increasing
  <2> QED
    BY <1>1, <1>6, <2>1, <2>2, <2>3
<1> DEFINE all == [k \in 1 .. n + 1 |-> IF k < m THEN keys[k] ELSE IF k = m THEN x ELSE keys[k - 1]]
<1>9. \A k \in 1 .. n + 1 : /\ k < m => k \in 1 .. n
                            /\ k > m => k - 1 \in 1 .. n /\ k - 1 >= m
  BY <1>5
<1>10. all \in [1 .. n + 1 -> ids]
  BY <1>1, <1>6, <1>9
<1>11. ASSUME NEW j \in 1 .. n + 1, NEW k \in 1 .. n + 1, j < k PROVE all[j] < all[k]
  <2>1. CASE k < m
    <3>1. j \in 1 .. n /\ k \in 1 .. n /\ j < m /\ all[j] = keys[j] /\ all[k] = keys[k]
      BY <1>5, <1>9, <1>11, <2>1
    <3> QED
      BY <1>3, <1>11, <3>1 DEF Increasing
  <2>2. CASE k = m
    <3>1. j \in 1 .. n /\ j < m /\ all[j] = keys[j] /\ all[k] = x
      BY <1>5, <1>9, <1>11, <2>2
    <3> QED
      BY <1>7, <3>1
  <2>3. CASE k > m
    <3>1. k - 1 \in 1 .. n /\ k - 1 >= m /\ all[k] = keys[k - 1]
      BY <1>5, <1>9, <2>3
    <3>2. x < keys[k - 1]
      BY <1>8, <3>1
    <3>3. CASE j < m
      <4>1. j \in 1 .. n /\ all[j] = keys[j]
        BY <1>9, <3>3
      <4>2. keys[j] < x
        BY <1>7, <3>3, <4>1
      <4>3. keys[j] < keys[k - 1]
        BY <1>1, <1>6, <3>1, <3>2, <4>1, <4>2
      <4> QED
        BY <3>1, <4>1, <4>3
    <3>4. CASE j = m
      <4>1. all[j] = x
        BY <3>4
      <4> QED
        BY <3>1, <3>2, <4>1
    <3>5. CASE j > m
      <4>1. j - 1 \in 1 .. n /\ all[j] = keys[j - 1] /\ j - 1 < k - 1
        BY <1>5, <1>9, <1>11, <3>5
      <4>2. keys[j - 1] < keys[k - 1]
        BY <1>3, <3>1, <4>1 DEF Increasing
      <4> QED
        BY <3>1, <4>1, <4>2
    <3> QED
      BY <1>5, <3>3, <3>4, <3>5
  <2> QED
    BY <1>5, <2>1, <2>2, <2>3
<1>12. Increasing(all, n + 1)
  BY <1>11 DEF Increasing
<1> QED
  BY <1>10, <1>12

LEMMA FiniteSetsSort == \A n \in Nat : Sorts(n)
<1> DEFINE bad == {n \in Nat : ~Sorts(n)}
<1>1. Sorts(0)
  <2> SUFFICES ASSUME NEW ids PROVE \E keys \in [1 .. 0 -> ids] : Increasing(keys, 0)
    BY DEF Sorts
  <2>1. [k \in 1 .. 0 |-> k] \in [1 .. 0 -> ids]
    OBVIOUS
  <2>2. \A keys : Increasing(keys, 0)
    BY DEF Increasing
  <2> QED
    BY <2>1, <2>2
<1>2. bad = {}
  <2> SUFFICES ASSUME bad # {} PROVE FALSE
    OBVIOUS
  <2>1. PICK m \in bad : \A k \in bad : m <= k
    <3>1. bad \subseteq Nat
      OBVIOUS
    <3> HIDE DEF bad
    <3> QED
      BY <3>1, LeastOf
  <2>2. m \in Nat /\ ~Sorts(m) /\ m # 0
    BY <1>1
  <2>3. m - 1 \in Nat /\ m - 1 \notin bad /\ (m - 1) + 1 = m
    BY <2>1, <2>2
  <2>4. Sorts(m - 1)
    BY <2>3
  <2>5. Sorts((m - 1) + 1)
    BY <2>3, <2>4, SortedWithOneMore
  <2> QED
    BY <2>2, <2>3, <2>5
<1> QED
  BY <1>2

\* The keys of the queries are those of their map.
LEMMA KeysOfQueries ==
    ASSUME IsFiniteSet(DOMAIN que_ss_map), DOMAIN que_ss_map \subseteq Int
    PROVE  \A n \in DOMAIN query_keys : query_keys[n] \in DOMAIN que_ss_map
<1> DEFINE ids == DOMAIN que_ss_map
           places == 1 .. Cardinality(ids)
<1>1. Cardinality(ids) \in Nat
  BY FS_CardinalityType
<1>2. \E keys \in [places -> ids] : \A j, k \in places : j < k => keys[j] < keys[k]
  BY <1>1, FiniteSetsSort DEF Sorts, Increasing
<1>3. query_keys \in [places -> ids]
  BY <1>2 DEF query_keys
<1> QED
  BY <1>3

----------------------------------------------------------------------------
(* What the queries' part of each program is                                *)

\* In STLPSI mode the receiver blinds and encrypts again for every round.
PerRound == program.name = "apps" /\ program.mode = "STLPSI"
BlindsQueries == Step("blindQueries", 0) \in StepSet
Encs == {"encryptQueryPowers", "blindForRound"}

\* What of the queries' part every program has.
QuerySteps ==
    /\ BlindsQueries <=> Blinds /\ ~PerRound
    /\ PerRound => \A y \in StepSet : y.op \notin {"encryptQueryPowers", "blindQueries"}
    /\ ~PerRound => /\ Step("encryptQueryPowers", 0) \in StepSet
                    /\ \A y \in StepSet : y.op # "blindForRound"
    /\ PerRound => \A t \in 1 .. Rounds : Step("blindForRound", t) \in StepSet
    /\ \A t \in 1 .. Rounds : Step("round", t) \in StepSet
    /\ \A y \in StepSet : y.op \in {"round", "blindForRound"} => y.on \in 1 .. Rounds
    /\ \A y \in StepSet : y.op = "copyQueries" => program.name = "bench"
    /\ \A y \in StepSet : y.op \in {"blindQueries", "encryptQueryPowers"} => y = Step(y.op, 0)

LEMMA AppsQuerySteps ==
    ASSUME program \in Configs, program.name = "apps"
    PROVE  QuerySteps
<1>1. StepSet = SenderSet \cup ReceiverSet /\ Blinds
  BY DEF StepSet, Blinds
<1>2. \A y \in SenderSet : y.op \notin {"encryptQueryPowers", "blindQueries", "blindForRound",
                                        "round", "copyQueries"}
  <2>1. \A y \in SenderSet : y.op \in {"loadEnrollmentCSV", "generateAesKey", "shareAgain",
              "blindDatabaseOffline", "parallelPartitionDB"} \cup Computes
    BY DEF SenderSet, Step, Computes
  <2> QED
    BY <2>1 DEF Computes
<1>3. \A t : Step("round", t).op = "round" /\ Step("round", t).on = t
             /\ Step("blindForRound", t).op = "blindForRound" /\ Step("blindForRound", t).on = t
  BY DEF Step
<1>4. \A op : Step(op, 0).op = op /\ Step(op, 0).on = 0
  BY DEF Step
<1>5. CASE program.mode = "STLPSI"
  <2>1. ReceiverSet = {Step("loadQueryCSV", 0)} \cup {Step("round", k) : k \in 1 .. Rounds}
                        \cup {Step("blindForRound", k) : k \in 1 .. Rounds}
    BY <1>5 DEF ReceiverSet
  <2>2. PerRound
    BY <1>5 DEF PerRound
  <2>3. \A y \in StepSet : y.op \notin {"encryptQueryPowers", "blindQueries", "copyQueries"}
    BY <1>1, <1>2, <1>3, <1>4, <2>1
  <2>4. ~BlindsQueries
    BY <1>4, <2>3 DEF BlindsQueries
  <2>5. \A y \in StepSet : y.op \in {"round", "blindForRound"} => y.on \in 1 .. Rounds
    BY <1>1, <1>2, <1>3, <1>4, <2>1
  <2> QED
    BY <1>1, <2>1, <2>2, <2>3, <2>4, <2>5 DEF QuerySteps
<1>6. CASE program.mode # "STLPSI"
  <2>1. ReceiverSet = {Step("loadQueryCSV", 0)} \cup {Step("round", k) : k \in 1 .. Rounds}
                        \cup {Step("blindQueries", 0), Step("encryptQueryPowers", 0)}
    BY <1>6 DEF ReceiverSet
  <2>2. ~PerRound
    BY <1>6 DEF PerRound
  <2>3. \A y \in StepSet : y.op \notin {"blindForRound", "copyQueries"}
    BY <1>1, <1>2, <1>3, <1>4, <2>1
  <2>4. BlindsQueries
    BY <1>1, <2>1 DEF BlindsQueries
  <2>5. \A y \in StepSet : y.op \in {"round", "blindForRound"} => y.on \in 1 .. Rounds
    BY <1>1, <1>2, <1>3, <1>4, <2>1
  <2>6. \A y \in StepSet : y.op \in {"blindQueries", "encryptQueryPowers"} => y = Step(y.op, 0)
    BY <1>1, <1>2, <1>3, <1>4, <2>1
  <2> QED
    BY <1>1, <2>1, <2>2, <2>3, <2>4, <2>5, <2>6 DEF QuerySteps
<1> QED
  BY <1>5, <1>6

LEMMA OneRoundQuerySteps ==
    ASSUME NEW S, StepSet = S, Rounds = 1, ~PerRound,
           Step("encryptQueryPowers", 0) \in S, Step("round", 1) \in S,
           Step("blindQueries", 0) \in S <=> Blinds,
           \A y \in S : /\ y.op # "blindForRound" /\ (y.op = "round" => y.on = 1)
                        /\ y.op = "copyQueries" => program.name = "bench"
                        /\ y.op \in {"blindQueries", "encryptQueryPowers"} => y.on = 0
                        /\ y = Step(y.op, y.on)
    PROVE  QuerySteps
<1>1. \A t \in 1 .. Rounds : t = 1
  OBVIOUS
<1>2. \A t \in 1 .. Rounds : Step("round", t) \in StepSet
  BY <1>1
<1>3. \A y \in StepSet : y.op \in {"blindQueries", "encryptQueryPowers"} => y = Step(y.op, 0)
  OBVIOUS
<1>4. BlindsQueries <=> Blinds
  BY DEF BlindsQueries
<1> QED
  BY <1>2, <1>3, <1>4 DEF QuerySteps

LEMMA QueryStepsAre == ASSUME program \in Configs PROVE QuerySteps
<1>0. program.name # "apps" => Rounds = 1 /\ ~PerRound
  BY ConfigTypes DEF Rounds, PerRound
<1>1. CASE program.name = "bench"
  <2>1. StepSet = BenchSet /\ Blinds
    BY <1>1 DEF StepSet, Blinds
  <2>2. \A y \in BenchSet :
          /\ y.op # "blindForRound" /\ (y.op = "round" => y.on = 1)
          /\ y.op = "copyQueries" => program.name = "bench"
          /\ y.op \in {"blindQueries", "encryptQueryPowers"} => y.on = 0
          /\ y = Step(y.op, y.on)
    BY <1>1 DEF BenchSet, Step
  <2>3. /\ Step("blindQueries", 0) \in BenchSet /\ Step("encryptQueryPowers", 0) \in BenchSet
        /\ Step("round", 1) \in BenchSet
    BY DEF BenchSet
  <2>4. Rounds = 1 /\ ~PerRound
    BY <1>0, <1>1
  <2> QED
    BY <2>1, <2>2, <2>3, <2>4, OneRoundQuerySteps
<1>2. CASE program.name = "csv_run"
  <2>1. StepSet = CsvRunSet /\ ~Blinds
    BY <1>2 DEF StepSet, Blinds
  <2>2. \A y \in CsvRunSet :
          /\ y.op \notin {"blindForRound", "blindQueries", "copyQueries"}
          /\ y.op = "round" => y.on = 1
          /\ y.op = "encryptQueryPowers" => y.on = 0
          /\ y = Step(y.op, y.on)
    BY DEF CsvRunSet, Step
  <2>3. Step("blindQueries", 0) \notin CsvRunSet
    BY <2>2 DEF Step
  <2> QED
    <3>1. Step("encryptQueryPowers", 0) \in CsvRunSet /\ Step("round", 1) \in CsvRunSet
      BY DEF CsvRunSet
    <3>2. Rounds = 1 /\ ~PerRound
      BY <1>0, <1>2
    <3>3. \A y \in CsvRunSet :
            /\ y.op # "blindForRound" /\ (y.op = "round" => y.on = 1)
            /\ y.op = "copyQueries" => program.name = "bench"
            /\ y.op \in {"blindQueries", "encryptQueryPowers"} => y.on = 0
            /\ y = Step(y.op, y.on)
      BY <2>2
    <3> QED
      BY <2>1, <2>3, <3>1, <3>2, <3>3, OneRoundQuerySteps
<1>3. CASE program.name = "rung_stlpsi"
  <2>1. StepSet = StlpsiSet /\ ~Blinds
    BY <1>3 DEF StepSet, Blinds
  <2>2. \A y \in StlpsiSet :
          /\ y.op \notin {"blindForRound", "blindQueries", "copyQueries"}
          /\ y.op = "round" => y.on = 1
          /\ y.op = "encryptQueryPowers" => y.on = 0
          /\ y = Step(y.op, y.on)
    BY DEF StlpsiSet, QueriesSet, Step
  <2>3. Step("blindQueries", 0) \notin StlpsiSet
    BY <2>2 DEF Step
  <2> QED
    <3>1. Step("encryptQueryPowers", 0) \in StlpsiSet /\ Step("round", 1) \in StlpsiSet
      BY DEF StlpsiSet, QueriesSet
    <3>2. Rounds = 1 /\ ~PerRound
      BY <1>0, <1>3
    <3>3. \A y \in StlpsiSet :
            /\ y.op # "blindForRound" /\ (y.op = "round" => y.on = 1)
            /\ y.op = "copyQueries" => program.name = "bench"
            /\ y.op \in {"blindQueries", "encryptQueryPowers"} => y.on = 0
            /\ y = Step(y.op, y.on)
      BY <2>2
    <3> QED
      BY <2>1, <2>3, <3>1, <3>2, <3>3, OneRoundQuerySteps
<1>4. CASE program.name = "rung_cstpsi"
  <2>1. StepSet = CstpsiSet /\ ~Blinds
    BY <1>4 DEF StepSet, Blinds
  <2>2. \A y \in CstpsiSet :
          /\ y.op \notin {"blindForRound", "blindQueries", "copyQueries"}
          /\ y.op = "round" => y.on = 1
          /\ y.op = "encryptQueryPowers" => y.on = 0
          /\ y = Step(y.op, y.on)
    <3>1. \A y \in QueriesSet \cup {Step("buildEnrMap", 0), Step("parallelPartitionDB", 0)} :
            /\ y.op \notin {"blindForRound", "blindQueries", "copyQueries"}
            /\ y.op = "round" => y.on = 1
            /\ y.op = "encryptQueryPowers" => y.on = 0
            /\ y = Step(y.op, y.on)
      BY DEF QueriesSet, Step
    <3>2. \A t : \A op \in {"clearShares", "setShares", "computeCoefficients"} :
            Step(op, t).op = op /\ Step(op, t).on = t
      BY DEF Step
    <3> QED
      BY <3>1, <3>2 DEF CstpsiSet
  <2>3. Step("blindQueries", 0) \notin CstpsiSet
    BY <2>2 DEF Step
  <2> QED
    <3>1. Step("encryptQueryPowers", 0) \in CstpsiSet /\ Step("round", 1) \in CstpsiSet
      BY DEF CstpsiSet, QueriesSet
    <3>2. Rounds = 1 /\ ~PerRound
      BY <1>0, <1>4
    <3>3. \A y \in CstpsiSet :
            /\ y.op # "blindForRound" /\ (y.op = "round" => y.on = 1)
            /\ y.op = "copyQueries" => program.name = "bench"
            /\ y.op \in {"blindQueries", "encryptQueryPowers"} => y.on = 0
            /\ y = Step(y.op, y.on)
      BY <2>2
    <3> QED
      BY <2>1, <2>3, <3>1, <3>2, <3>3, OneRoundQuerySteps
<1> QED
  BY <1>1, <1>2, <1>3, <1>4, AppsQuerySteps, ConfigTypes

----------------------------------------------------------------------------
(* The queries and their answers                                            *)

\* What the queries are made into: blinded once before they are encrypted, or
\* for every round again.
QueUnblinded == ~BlindsQueries \/ Left(Step("blindQueries", 0))
AskedInv ==
    /\ IsFiniteSet(DOMAIN que_ss_map) /\ DOMAIN que_ss_map \subseteq Int
    /\ ~crashed => IF QueUnblinded THEN que_ss_map = asked
                   ELSE Past(9) /\ que_ss_map = Blinded(asked)

\* Once they are encrypted, they stay as they are.
Prepared == InKeyOrder(IF PerRound THEN Blinded(que_ss_map) ELSE que_ss_map)
Encrypted == ~crashed /\ Past(9) /\ encrypted = Prepared
NotEncrypted ==
    /\ encrypted = <<>> /\ filed = <<>> /\ found = <<>>
    /\ ~crashed => \A y \in StepSet : y.op \in Encs => Left(y)
EncInv == Encrypted \/ NotEncrypted

\* A recorded query that is not answered yet comes before the rest of its round.
TimedInv ==
    \A k \in DOMAIN todo : todo[k].op = "findMatches" =>
        /\ program.timed
        /\ todo[k].on \in DOMAIN encrypted /\ <<1, todo[k].on>> \notin DOMAIN filed
        /\ \A j \in DOMAIN todo : todo[j].op \in {"round", "findMatches"} => k <= j

\* A round is over when every query has its answer.
RoundsInv ==
    ~crashed => \A y \in StepSet : y.op = "round" /\ ~Left(y) =>
        \A n \in DOMAIN encrypted : <<y.on, n>> \in DOMAIN filed

\* The pairs of every match are among those that are found.
HasMatches(r, n) ==
    \A part \in sets[1].parts : \A k \in DOMAIN part : \A i, j \in Positions :
        i < j /\ Matched(sets[1], encrypted[n], part, k, i, j)
          => <<part, <<i, j>>>> \in found[<<r, n>>]
FoundInv ==
    /\ DOMAIN found = DOMAIN filed
    /\ \A r \in 1 .. T, n \in DOMAIN encrypted :
          <<r, n>> \in DOMAIN filed => HasMatches(r, n)

AnswerInv == SenderInv /\ FieldInv /\ AskedInv /\ EncInv /\ TimedInv /\ RoundsInv /\ FoundInv

\* Once the queries are blinded nothing changes that the answers are judged by.
LEMMA LateStays ==
    ASSUME ControlInv, [Lives]_vars, Past(9), ~crashed
    PROVE  /\ UNCHANGED <<program, db_file, started, crashed, FIELD_MODULUS, enrollment_vars,
                          offline_vars, que_ss_map, history_vars>>
           /\ Past(9)'
<1> USE DEF enrollment_vars, offline_vars, history_vars, query_vars, field_vars
<1>0. OrderInv /\ started \in BOOLEAN /\ started
  BY DEF ControlInv, DataInv, Past
<1>1. \A op : Phase(op) \in 1 .. 9 => ~Doing(op)
  <2> SUFFICES ASSUME NEW op, Phase(op) \in 1 .. 9, Doing(op) PROVE FALSE
    OBVIOUS
  <2>1. ~Past(9)
    BY <1>0, DoingIsFirst
  <2> QED
    BY <2>1
<1>2. \A op \in {"generateDatabase", "buildEnrMap", "loadEnrollmentCSV", "shareAgain",
                 "clearShares", "setShares", "generateAesKey", "parallelPartitionDB",
                 "blindDatabaseOffline", "computeCoefficients", "computeTokenSet",
                 "computeLabelSet", "loadQueryCSV", "chooseProbes", "copyQueries",
                 "blindQueries"} : ~Doing(op)
  <2>1. \A op \in {"generateDatabase", "buildEnrMap", "loadEnrollmentCSV", "shareAgain",
                 "clearShares", "setShares", "generateAesKey", "parallelPartitionDB",
                 "blindDatabaseOffline", "computeCoefficients", "computeTokenSet",
                 "computeLabelSet", "loadQueryCSV", "chooseProbes", "copyQueries",
                 "blindQueries"} : Phase(op) \in 1 .. 9
    BY DEF Phase, Sources, Computes
  <2> QED
    BY <1>1, <2>1
<1>3. Past(9)' /\ program' = program
  BY <1>0, OrderStep
<1> DEFINE Same == UNCHANGED <<program, db_file, started, crashed, FIELD_MODULUS, rest, enr_ss_map,
                       token_share_map, id_share_map, gc_key, db_partitions, token_share_maps,
                       sets, que_ss_map, enrolled, asked>>
<1> SUFFICES Same
  BY <1>3
<1>4. CASE applyToGlobals
  BY <1>0, <1>4 DEF applyToGlobals
<1>5. CASE ChooseDatabase \/ loadEnrollmentCSV \/ shareAgain \/ clearShares \/ setShares
  BY <1>2, <1>5 DEF ChooseDatabase, loadEnrollmentCSV, shareAgain, clearShares, setShares
<1>6. CASE generateAesKey \/ blindDatabaseOffline \/ parallelPartitionDB
  BY <1>2, <1>6 DEF generateAesKey, blindDatabaseOffline, parallelPartitionDB
<1>7. CASE computeCoefficients \/ loadQueries
  BY <1>2, <1>7 DEF computeCoefficients, loadQueries
<1>8. CASE simdPartitions \/ endRound
  BY <1>8 DEF simdPartitions, endRound, Advance
<1>9. CASE prepareQueries
  BY <1>2, <1>9 DEF prepareQueries, Advance
<1>10. ASSUME NEW r, NEW n, Answer(r, n)
       PROVE  UNCHANGED <<FIELD_MODULUS, enrollment_vars, offline_vars, que_ss_map, history_vars>>
  BY <1>10 DEF Answer
<1>11. CASE submitQuery
  <2>1. UNCHANGED <<FIELD_MODULUS, enrollment_vars, offline_vars, que_ss_map, history_vars>>
    BY <1>10, <1>11 DEF submitQuery
  <2> QED
    BY <1>11, <2>1 DEF submitQuery, Stay, control_vars
<1>12. CASE findRecordedMatches
  <2>1. UNCHANGED <<FIELD_MODULUS, enrollment_vars, offline_vars, que_ss_map, history_vars>>
    BY <1>10, <1>12 DEF findRecordedMatches
  <2> QED
    BY <1>12, <2>1 DEF findRecordedMatches, Advance
<1>13. CASE submitRecordedQuery
  BY <1>13 DEF submitRecordedQuery
<1>14. CASE record
  BY <1>14 DEF record, Advance
<1>15. CASE UNCHANGED vars \/ Exit
  BY <1>15 DEF vars, Exit, control_vars
<1> QED
  BY <1>4, <1>5, <1>6, <1>7, <1>8, <1>9, <1>11, <1>12, <1>13, <1>14, <1>15 DEF Lives, Next

\* What a step does to the queries and their answers.
QueryOps == {"copyQueries", "loadQueryCSV", "chooseProbes", "blindQueries", "findMatches", "round"}
              \cup Encs
Answers ==
    \/ Doing("round") /\ ~program.timed /\ (\E n \in Unanswered(On) : Answer(On, n)) /\ Rests
    \/ Doing("findMatches") /\ Answer(1, On) /\ Advance
Passes ==
    /\ UNCHANGED query_vars /\ asked' = asked
    /\ \A op \in QueryOps : Doing(op) =>
          \/ Rests
          \/ op = "round" /\ Unanswered(On) = {} /\ Advance
          \/ op = "round" /\ submitRecordedQuery

LEMMA QueryVarsSteps ==
    ASSUME DataInv, [Lives]_vars
    PROVE  Passes \/ loadQueries \/ prepareQueries \/ Answers
<1> USE DEF enrollment_vars, offline_vars, history_vars
<1>0. ASSUME NEW op, Doing(op), op \notin QueryOps, UNCHANGED query_vars, asked' = asked
      PROVE  Passes
  <2>1. \A o \in QueryOps : ~Doing(o)
    BY <1>0 DEF Doing
  <2> QED
    BY <1>0, <2>1 DEF Passes
<1> USE DEF QueryOps, Encs
<1>1. CASE applyToGlobals
  <2>1. \A op : ~Doing(op)
    BY <1>1 DEF applyToGlobals, Doing
  <2> QED
    BY <1>1, <2>1 DEF applyToGlobals, Passes
<1>2. CASE ChooseDatabase \/ loadEnrollmentCSV
  BY <1>0, <1>2 DEF ChooseDatabase, loadEnrollmentCSV
<1>3. CASE shareAgain \/ clearShares \/ setShares
  BY <1>0, <1>3 DEF shareAgain, clearShares, setShares
<1>4. CASE generateAesKey \/ blindDatabaseOffline \/ parallelPartitionDB
  BY <1>0, <1>4 DEF generateAesKey, blindDatabaseOffline, parallelPartitionDB
<1>5. CASE computeCoefficients
  BY <1>0, <1>5 DEF computeCoefficients
<1>6. CASE simdPartitions
  BY <1>0, <1>6 DEF simdPartitions
<1>7. CASE endRound
  <2>1. \A o \in QueryOps : Doing(o) => o = "round"
    BY <1>7 DEF endRound, Doing
  <2> QED
    BY <1>7, <2>1 DEF endRound, Passes
<1>8. CASE submitRecordedQuery
  <2>1. \A o \in QueryOps : Doing(o) => o = "round"
    BY <1>8 DEF submitRecordedQuery, Doing
  <2>2. UNCHANGED query_vars /\ asked' = asked
    BY <1>8 DEF submitRecordedQuery
  <2> QED
    BY <1>8, <2>1, <2>2 DEF Passes
<1>9. CASE submitQuery
  <2>1. Rests
    BY <1>9 DEF submitQuery, Stay, control_vars, Rests
  <2> QED
    BY <1>9, <2>1 DEF submitQuery, Answers
<1>10. CASE findRecordedMatches
  BY <1>10 DEF findRecordedMatches, Answers
<1>11. CASE record
  BY <1>0, <1>11 DEF record
<1>12. CASE UNCHANGED vars \/ Exit
  BY <1>12 DEF vars, Exit, control_vars, query_vars, Passes, Rests
<1> QED
  BY <1>1, <1>2, <1>3, <1>4, <1>5, <1>6, <1>7, <1>8, <1>9, <1>10, <1>11, <1>12 DEF Lives, Next

\* Every round has an encryption before it.
LEMMA EncBeforeRound ==
    ASSUME program \in Configs, NEW t \in 1 .. Rounds
    PROVE  \E y \in StepSet : y.op \in Encs /\ Before(y, Step("round", t))
<1>1. t \in Nat
  BY ConfigTypes
<1>2. Phase("round") = 11 /\ Phase("blindForRound") = 11 /\ Phase("encryptQueryPowers") = 10
  BY DEF Phase, Sources, Computes
<1>3. QuerySteps
  BY QueryStepsAre
<1>4. CASE PerRound
  <2>1. Step("blindForRound", t) \in StepSet
    BY <1>3, <1>4 DEF QuerySteps
  <2>2. Before(Step("blindForRound", t), Step("round", t))
    <3>1. Step("blindForRound", t).op = "blindForRound" /\ Step("round", t).op = "round"
      BY StepFields
    <3>2. Turn(Step("blindForRound", t)) = 2 * t - 1 /\ Turn(Step("round", t)) = 2 * t
      BY <1>1, Turns
    <3> QED
      BY <1>1, <1>2, <3>1, <3>2 DEF Before
  <2>3. Step("blindForRound", t).op = "blindForRound"
    BY StepFields
  <2> QED
    BY <2>1, <2>2, <2>3 DEF Encs
<1>5. CASE ~PerRound
  <2>1. Step("encryptQueryPowers", 0) \in StepSet
    BY <1>3, <1>5 DEF QuerySteps
  <2>2. Before(Step("encryptQueryPowers", 0), Step("round", t))
    BY <1>2, StepFields DEF Before
  <2>3. Step("encryptQueryPowers", 0).op = "encryptQueryPowers"
    BY StepFields
  <2> QED
    BY <2>1, <2>2, <2>3 DEF Encs
<1> QED
  BY <1>4, <1>5

\* So there are encrypted queries in a round, in the check of a recorded query,
\* and when a round is over.
LEMMA RoundIsEncrypted ==
    ASSUME ControlInv, EncInv, Doing("round")
    PROVE  /\ Encrypted /\ On \in 1 .. Rounds /\ Head(todo) = Step("round", On)
           /\ Step("round", On) \in StepSet
<1>1. program \in Configs
  BY DEF ControlInv, DataInv, OrderInv
<1>2. Phase("round") = 11
  BY DEF Phase, Sources, Computes
<1>3. /\ ~crashed /\ Head(todo) = Step("round", On) /\ Head(todo) \in StepSet
      /\ \A y \in StepSet : Before(y, Head(todo)) => ~Left(y)
  BY <1>2, DoingSplits
<1>4. Head(todo).op = "round"
  BY <1>3, StepFields
<1>5. On \in 1 .. Rounds
  <2>1. QuerySteps
    BY <1>1, QueryStepsAre
  <2> QED
    BY <1>3, <1>4, <2>1 DEF QuerySteps, On
<1>6. PICK y \in StepSet : y.op \in Encs /\ Before(y, Step("round", On))
  BY <1>1, <1>5, EncBeforeRound
<1>7. ~Left(y)
  BY <1>3, <1>6
<1>8. ~NotEncrypted
  BY <1>3, <1>6, <1>7 DEF NotEncrypted
<1> QED
  BY <1>3, <1>5, <1>8 DEF EncInv

LEMMA CheckIsEncrypted ==
    ASSUME ControlInv, EncInv, TimedInv, NEW k \in DOMAIN todo, todo[k].op = "findMatches"
    PROVE  Encrypted /\ program.timed /\ program.name = "bench" /\ Rounds = 1 /\ T \in Nat \ {0}
<1>1. program.timed /\ todo[k].on \in DOMAIN encrypted
  BY DEF TimedInv
<1>2. encrypted # <<>>
  BY <1>1
<1>3. program \in Configs
  BY DEF ControlInv, DataInv, OrderInv
<1>4. program.name = "bench" /\ ~(K > 0) /\ T \in Nat \ {0}
  BY <1>1, <1>3, ConfigTypes
<1> QED
  BY <1>1, <1>2, <1>4 DEF EncInv, NotEncrypted, Rounds

LEMMA RoundDoneIsEncrypted ==
    ASSUME ControlInv, EncInv, ~crashed, NEW y \in StepSet, y.op = "round", ~Left(y)
    PROVE  Encrypted
<1>1. program \in Configs /\ started
  BY DEF ControlInv, DataInv, OrderInv, Left
<1>2. y.on \in 1 .. Rounds /\ y = Step("round", y.on)
  BY <1>1, QueryStepsAre, StepSetType DEF QuerySteps, IsStep
<1>3. PICK x \in StepSet : x.op \in Encs /\ Before(x, y)
  BY <1>1, <1>2, EncBeforeRound
<1>4. Phase(x.op) # 0
  BY <1>1, <1>3, StepSetType
<1>5. x \notin Elements(todo)
  BY <1>1, <1>3, <1>4 DEF ControlInv, UpSet, Left
<1>6. ~Left(x)
  BY <1>1, <1>5 DEF Left
<1> QED
  BY <1>3, <1>6 DEF EncInv, NotEncrypted

\* The encrypted queries stay, though they are encrypted again.
LEMMA EncryptedStays ==
    ASSUME ControlInv, Encrypted, [Lives]_vars
    PROVE  Encrypted' /\ encrypted' = encrypted
<1>1. ~crashed /\ Past(9) /\ encrypted = Prepared
  BY DEF Encrypted
<1>2. Past(9)' /\ UNCHANGED <<program, crashed, que_ss_map, gc_key>>
  BY <1>1, LateStays DEF offline_vars
<1>3. DataInv /\ OrderInv /\ program \in Configs
  BY DEF ControlInv, DataInv, OrderInv
<1>4. QuerySteps
  BY <1>3, QueryStepsAre
<1>5. ASSUME NEW op, Doing(op), Phase(op) # 0
      PROVE  Head(todo) \in StepSet /\ Head(todo).op = op /\ ~(Phase(op) \in 1 .. 9)
  <2>1. \A p \in Nat : p >= Phase(op) => ~Past(p)
    BY <1>3, <1>5, DoingIsFirst
  <2>2. ~(Phase(op) \in 1 .. 9)
    BY <1>1, <2>1
  <2> QED
    BY <1>3, <1>5, <2>2, DoingIsFirst
<1>6. /\ \A op \in {"copyQueries", "loadQueryCSV", "chooseProbes", "blindQueries"} :
            Phase(op) \in 1 .. 9
      /\ Phase("encryptQueryPowers") # 0 /\ Phase("blindForRound") # 0
  BY DEF Phase, Sources, Computes
<1>7. ~loadQueries
  BY <1>5, <1>6 DEF loadQueries
<1>8. ASSUME prepareQueries PROVE encrypted' = encrypted
  <2>1. ~Doing("blindQueries")
    BY <1>5, <1>6
  <2>2. encrypted' = encrypted
    <3>1. Doing("encryptQueryPowers") \/ Doing("blindForRound")
      BY <1>8, <2>1 DEF prepareQueries
    <3>2. ASSUME Doing("encryptQueryPowers") PROVE encrypted' = encrypted
      <4>1. ~PerRound
        BY <1>4, <1>5, <1>6, <3>2 DEF QuerySteps
      <4>2. encrypted' = InKeyOrder(que_ss_map)
        BY <1>8, <3>2 DEF prepareQueries, Doing
      <4> QED
        BY <1>1, <4>1, <4>2 DEF Prepared
    <3>3. ASSUME Doing("blindForRound") PROVE encrypted' = encrypted
      <4>1. PerRound
        BY <1>4, <1>5, <1>6, <3>3 DEF QuerySteps
      <4>2. encrypted' = InKeyOrder(Blinded(que_ss_map))
        BY <1>8, <3>3 DEF prepareQueries, Doing
      <4> QED
        BY <1>1, <4>1, <4>2 DEF Prepared
    <3> QED
      BY <3>1, <3>2, <3>3
  <2> QED
    BY <2>2
<1>9. encrypted' = encrypted
  <2>1. CASE Passes
    BY <2>1 DEF Passes, query_vars
  <2>2. CASE Answers
    BY <2>2 DEF Answers, Answer
  <2> QED
    BY <1>3, <1>7, <1>8, <2>1, <2>2, QueryVarsSteps
<1>10. Prepared' = Prepared
  <2>1. query_keys' = query_keys
    BY <1>2 DEF query_keys
  <2>2. Blinded(que_ss_map)' = Blinded(que_ss_map)
    BY <1>2 DEF Blinded
  <2>3. PerRound' = PerRound
    BY <1>2 DEF PerRound
  <2> QED
    BY <1>2, <2>1, <2>2, <2>3 DEF Prepared, InKeyOrder
<1> QED
  BY <1>1, <1>2, <1>9, <1>10 DEF Encrypted

\* What is done next when there is nothing encrypted, and the queries of the answer.
LEMMA NotAnsweredYet ==
    ASSUME ControlInv, EncInv, TimedInv, ~Encrypted, Answers
    PROVE  FALSE
<1>1. CASE Doing("round")
  BY <1>1, RoundIsEncrypted
<1>2. CASE Doing("findMatches")
  <2>1. todo # <<>> /\ Head(todo).op = "findMatches" /\ IsSeq(todo)
    BY <1>2 DEF Doing, ControlInv, DataInv, OrderInv, InOrder
  <2>2. 1 \in DOMAIN todo /\ todo[1].op = "findMatches"
    BY <2>1, SeqBasics
  <2> QED
    BY <2>2, CheckIsEncrypted
<1> QED
  BY <1>1, <1>2 DEF Answers

LEMMA EncNext ==
    ASSUME ControlInv, ControlInv', EncInv, TimedInv, [Lives]_vars
    PROVE  EncInv'
<1>0. DataInv /\ OrderInv /\ program \in Configs /\ started \in BOOLEAN
  BY DEF ControlInv, DataInv, OrderInv
<1>1. CASE Encrypted
  BY <1>1, EncryptedStays DEF EncInv
<1>2. CASE ~Encrypted
  <2>1. NotEncrypted
    BY <1>2 DEF EncInv
  <2>2. ~Answers
    BY <1>2, NotAnsweredYet
  <2>3. ASSUME UNCHANGED <<encrypted, found, filed>>,
               \A op \in Encs : Doing(op) => Rests
        PROVE  NotEncrypted'
    <3>1. ASSUME ~crashed', NEW y \in StepSet', y.op \in Encs PROVE Left(y)'
      <4>1. ~crashed
        BY <3>1, NotDeadBefore
      <4>2. program' = program
        BY <1>0, OrderStep
      <4>3. y \in StepSet
        BY <3>1, <4>2, OrderIsOfTheProgram
      <4>4. Left(y)
        BY <2>1, <3>1, <4>1, <4>3 DEF NotEncrypted
      <4>5. CASE ~Doing(y.op)
        BY <3>1, <4>3, <4>4, <4>5, LeftStep
      <4>6. CASE Rests
        BY <4>4, <4>6 DEF Rests, Left, Elements
      <4> QED
        BY <2>3, <3>1, <4>5, <4>6
    <3> QED
      BY <2>1, <2>3, <3>1 DEF NotEncrypted, Encs
  <2>4. CASE Passes
    <3>1. \A op \in Encs : Doing(op) => Rests
      BY <2>4 DEF Passes, QueryOps, Encs
    <3>2. NotEncrypted'
      BY <2>3, <2>4, <3>1 DEF Passes, query_vars
    <3> QED
      BY <3>2 DEF EncInv
  <2>5. CASE loadQueries
    <3>1. UNCHANGED <<encrypted, found, filed>>
      BY <2>5 DEF loadQueries
    <3>2. \A op \in Encs : ~Doing(op)
      BY <2>5 DEF loadQueries, Doing, Encs
    <3>3. NotEncrypted'
      BY <2>3, <3>1, <3>2
    <3> QED
      BY <3>3 DEF EncInv
  <2>6. CASE prepareQueries /\ Doing("blindQueries")
    <3>1. UNCHANGED <<encrypted, found, filed>>
      BY <2>6 DEF prepareQueries, Doing
    <3>2. \A op \in Encs : ~Doing(op)
      BY <2>6 DEF Doing, Encs
    <3>3. NotEncrypted'
      BY <2>3, <3>1, <3>2
    <3> QED
      BY <3>3 DEF EncInv
  <2>7. ASSUME NEW op \in Encs, Doing(op), prepareQueries
        PROVE  EncInv'
    <3>1. Phase(op) \in {10, 11}
      BY DEF Encs, Phase, Sources, Computes
    <3>2. Past(Phase(op) - 1) /\ Head(todo) \in StepSet /\ Head(todo).op = op
      BY <1>0, <2>7, <3>1, DoingIsFirst
    <3>3. Past(9) /\ ~crashed
      <4>1. ~crashed
        BY <2>7 DEF ControlInv, Doing
      <4> QED
        BY <3>1, <3>2, <4>1, PhaseType DEF Past
    <3>4. Past(9)' /\ UNCHANGED <<program, crashed, que_ss_map, gc_key>>
      BY <3>3, LateStays DEF offline_vars
    <3>5. QuerySteps
      BY <1>0, QueryStepsAre
    <3>6. encrypted' = Prepared
      <4>1. CASE op = "encryptQueryPowers"
        <5>1. ~PerRound
          BY <3>2, <3>5, <4>1 DEF QuerySteps
        <5>2. encrypted' = InKeyOrder(que_ss_map)
          BY <2>7, <4>1 DEF prepareQueries, Doing
        <5> QED
          BY <5>1, <5>2 DEF Prepared
      <4>2. CASE op = "blindForRound"
        <5>1. PerRound
          BY <3>2, <3>5, <4>2 DEF QuerySteps
        <5>2. encrypted' = InKeyOrder(Blinded(que_ss_map))
          BY <2>7, <4>2 DEF prepareQueries, Doing
        <5> QED
          BY <5>1, <5>2 DEF Prepared
      <4> QED
        BY <4>1, <4>2 DEF Encs
    <3>7. Prepared' = Prepared
      <4>1. query_keys' = query_keys
        BY <3>4 DEF query_keys
      <4>2. Blinded(que_ss_map)' = Blinded(que_ss_map)
        BY <3>4 DEF Blinded
      <4>3. PerRound' = PerRound
        BY <3>4 DEF PerRound
      <4> QED
        BY <3>4, <4>1, <4>2, <4>3 DEF Prepared, InKeyOrder
    <3> QED
      BY <3>3, <3>4, <3>6, <3>7 DEF EncInv, Encrypted
  <2>8. prepareQueries => Doing("blindQueries") \/ \E op \in Encs : Doing(op)
    BY DEF prepareQueries, Encs
  <2>9. Passes \/ loadQueries \/ prepareQueries
    BY <1>0, <2>2, QueryVarsSteps
  <2> QED
    BY <2>4, <2>5, <2>6, <2>7, <2>8, <2>9
<1> QED
  BY <1>1, <1>2

\* A round is over by the step that finds nothing unanswered.
LEMMA RoundsNext ==
    ASSUME ControlInv, ControlInv', EncInv, RoundsInv, [Lives]_vars
    PROVE  RoundsInv'
<1>0. DataInv /\ OrderInv /\ program \in Configs /\ started \in BOOLEAN
  BY DEF ControlInv, DataInv, OrderInv
<1> SUFFICES ASSUME ~crashed', NEW y \in StepSet', y.op = "round", ~Left(y)',
                    NEW n \in DOMAIN encrypted'
             PROVE  <<y.on, n>> \in DOMAIN filed'
  BY DEF RoundsInv
<1>1. ~crashed /\ program' = program
  BY <1>0, NotDeadBefore, OrderStep
<1>2. y \in StepSet
  BY <1>1, OrderIsOfTheProgram
<1>3. DOMAIN filed \subseteq DOMAIN filed'
  <2>1. ASSUME NEW r, NEW m, Answer(r, m) PROVE DOMAIN filed \subseteq DOMAIN filed'
    <3>1. \E pairs, labels : File(r, m, pairs, labels)
      BY <2>1 DEF Answer
    <3> QED
      BY <3>1 DEF File, Put
  <2>2. CASE Answers
    BY <2>1, <2>2 DEF Answers
  <2>3. CASE Passes \/ loadQueries \/ prepareQueries
    BY <2>3 DEF Passes, query_vars, loadQueries, prepareQueries
  <2> QED
    BY <1>0, <2>2, <2>3, QueryVarsSteps
<1>4. CASE ~Left(y)
  <2>1. Encrypted
    BY <1>1, <1>2, <1>4, RoundDoneIsEncrypted
  <2>2. n \in DOMAIN encrypted
    BY <2>1, EncryptedStays
  <2>3. <<y.on, n>> \in DOMAIN filed
    BY <1>1, <1>2, <1>4, <2>2 DEF RoundsInv
  <2> QED
    BY <1>3, <2>3
<1>5. CASE Left(y)
  <2>1. Doing("round") /\ Head(todo) = y
    BY <1>2, <1>5, LeftStep
  <2>2. Encrypted
    BY <2>1, RoundIsEncrypted
  <2>3. n \in DOMAIN encrypted
    BY <2>2, EncryptedStays
  <2>4. started /\ y \in Elements(todo)
    BY <1>5, <2>1 DEF Left, Doing
  <2>5. ~Rests
    BY <1>5 DEF Rests, Left, Elements
  <2>6. ~submitRecordedQuery
    <3> SUFFICES ASSUME submitRecordedQuery PROVE FALSE
      OBVIOUS
    <3>1. PICK m : todo' = RecordedQuery(m) \o todo /\ started' = started
      BY DEF submitRecordedQuery
    <3>2. InOrder(RecordedQuery(m)) /\ InOrder(todo)
      BY <1>0, RecordedQueryIsQuiet DEF OrderInv
    <3>3. IsSeq(RecordedQuery(m)) /\ IsSeq(todo)
      BY <3>2 DEF InOrder
    <3>4. PICK k \in DOMAIN todo : todo[k] = y
      BY <2>4 DEF Elements
    <3>5. /\ Len(RecordedQuery(m)) \in Nat /\ k \in 1 .. Len(todo) /\ Len(todo) \in Nat
          /\ DOMAIN todo' = 1 .. Len(RecordedQuery(m)) + Len(todo)
          /\ \A l \in DOMAIN todo' : todo'[l] = IF l <= Len(RecordedQuery(m)) THEN RecordedQuery(m)[l]
                                               ELSE todo[l - Len(RecordedQuery(m))]
      BY <3>1, <3>3, <3>4, SeqBasics, ConcatBasics
    <3>6. PICK len \in Nat : len = Len(RecordedQuery(m))
      BY <3>5
    <3>7. len + k \in DOMAIN todo' /\ ~(len + k <= len) /\ (len + k) - len = k
      BY <3>5, <3>6
    <3>8. todo'[len + k] = y
      BY <3>4, <3>5, <3>6, <3>7
    <3> QED
      BY <2>4, <3>1, <3>7, <3>8 DEF Left, Elements
  <2>7. ~loadQueries /\ ~prepareQueries
    BY <2>1 DEF loadQueries, prepareQueries, Doing
  <2>8. ~Answers
    BY <2>1, <2>5 DEF Answers, Doing
  <2>9. Unanswered(On) = {}
    <3>1. Passes
      BY <1>0, <2>7, <2>8, QueryVarsSteps
    <3> QED
      BY <2>1, <2>5, <2>6, <3>1 DEF Passes, QueryOps
  <2>10. <<y.on, n>> \in DOMAIN filed
    BY <2>1, <2>3, <2>9 DEF Unanswered, On
  <2> QED
    BY <1>3, <2>10
<1> QED
  BY <1>4, <1>5

----------------------------------------------------------------------------
(* The recorded queries                                                     *)

\* The check of a recorded query is one operation of its block.
LEMMA RecordedQueryChecks ==
    ASSUME NEW n
    PROVE  /\ IsSeq(RecordedQuery(n)) /\ Len(RecordedQuery(n)) = 13
           /\ RecordedQuery(n)[9] = Step("findMatches", n)
           /\ \A k \in 1 .. 13 : RecordedQuery(n)[k].op \in {"round", "findMatches"} => k = 9
<1>1. IsSeq(RecordedQuery(n))
  BY RecordedQueryIsQuiet DEF InOrder
<1>2. Len(RecordedQuery(n)) = 13 /\ RecordedQuery(n)[9] = Step("findMatches", n)
  BY DEF RecordedQuery
<1>3. ASSUME NEW k \in 1 .. 13, k # 9
      PROVE  RecordedQuery(n)[k].op \notin {"round", "findMatches"}
  <2>1. k \in {1, 2, 3, 4} \/ k \in {5, 6, 7, 8} \/ k \in {10, 11, 12, 13}
    BY <1>3
  <2>2. CASE k \in {1, 2, 3, 4}
    BY <2>2 DEF RecordedQuery, Step
  <2>3. CASE k \in {5, 6, 7, 8}
    BY <2>3 DEF RecordedQuery, Step
  <2>4. CASE k \in {10, 11, 12, 13}
    BY <2>4 DEF RecordedQuery, Step
  <2> QED
    BY <2>1, <2>2, <2>3, <2>4
<1> QED
  BY <1>1, <1>2, <1>3

\* What is pending is not answered by another step.
LEMMA PendingStays ==
    ASSUME ControlInv, EncInv, TimedInv, [Lives]_vars,
           NEW k \in DOMAIN todo, todo[k].op = "findMatches", k # 1 \/ todo' = todo
    PROVE  encrypted' = encrypted /\ filed' = filed
<1>0. DataInv /\ IsSeq(todo)
  BY DEF ControlInv, DataInv, OrderInv, InOrder
<1>1. encrypted' = encrypted /\ program.timed
  BY CheckIsEncrypted, EncryptedStays
<1>2. ASSUME Answers PROVE FALSE
  <2>1. Doing("findMatches") /\ Advance
    BY <1>1, <1>2 DEF Answers
  <2>2. todo # <<>> /\ Head(todo).op = "findMatches" /\ todo' = Tail(todo)
    BY <2>1 DEF Doing, Advance
  <2>3. Len(todo) \in Nat /\ Len(Tail(todo)) = Len(todo) - 1 /\ 1 \in DOMAIN todo
        /\ todo[1].op = "findMatches" /\ DOMAIN todo = 1 .. Len(todo)
    BY <1>0, <2>2, SeqBasics
  <2>4. k # 1
    <3>1. Len(Tail(todo)) # Len(todo)
      <4>1. \A m \in Nat : m - 1 # m
        OBVIOUS
      <4>2. PICK m \in Nat : m = Len(todo)
        BY <2>3
      <4>3. Len(Tail(todo)) = m - 1
        BY <2>3, <4>2
      <4> QED
        BY <4>1, <4>2, <4>3, Zenon
    <3>2. todo' # todo
      BY <2>2, <3>1
    <3> QED
      BY <3>2
  <2>5. k <= 1
    BY <2>3 DEF TimedInv
  <2> QED
    BY <2>3, <2>4, <2>5
<1>3. filed' = filed
  BY <1>0, <1>2, QueryVarsSteps DEF Passes, query_vars, loadQueries, prepareQueries
<1> QED
  BY <1>1, <1>3

LEMMA TimedNext ==
    ASSUME ControlInv, EncInv, TimedInv, [Lives]_vars
    PROVE  TimedInv'
<1>0. DataInv /\ OrderInv /\ program \in Configs /\ started \in BOOLEAN /\ InOrder(todo) /\ IsSeq(todo)
  BY DEF ControlInv, DataInv, OrderInv, InOrder
<1>1. program' = program
  BY <1>0, TodoSteps
<1>2. CASE Rests
  <2>1. todo' = todo
    BY <1>2 DEF Rests
  <2> SUFFICES ASSUME NEW k \in DOMAIN todo, todo[k].op = "findMatches"
               PROVE  /\ program.timed
                      /\ todo[k].on \in DOMAIN encrypted' /\ <<1, todo[k].on>> \notin DOMAIN filed'
                      /\ \A j \in DOMAIN todo : todo[j].op \in {"round", "findMatches"} => k <= j
    BY <1>1, <2>1 DEF TimedInv
  <2>2. encrypted' = encrypted /\ filed' = filed
    BY <2>1, PendingStays
  <2> QED
    BY <2>2 DEF TimedInv
<1>3. CASE Goes
  <2>1. todo # <<>> /\ todo' = Tail(todo)
    BY <1>3 DEF Goes
  <2>2. /\ IsSeq(Tail(todo)) /\ Len(Tail(todo)) = Len(todo) - 1 /\ Len(todo) > 0
        /\ Len(todo) \in Nat /\ DOMAIN todo = 1 .. Len(todo)
        /\ \A k \in 1 .. Len(todo) - 1 : Tail(todo)[k] = todo[k + 1]
    BY <1>0, <2>1, SeqBasics
  <2>3. DOMAIN todo' = 1 .. Len(todo) - 1
    BY <2>1, <2>2, SeqBasics
  <2>4. \A k \in DOMAIN todo' : k + 1 \in DOMAIN todo /\ k + 1 # 1 /\ todo'[k] = todo[k + 1] /\ k \in Int
    BY <2>1, <2>2, <2>3
  <2> SUFFICES ASSUME NEW k \in DOMAIN todo', todo'[k].op = "findMatches"
               PROVE  /\ program.timed
                      /\ todo'[k].on \in DOMAIN encrypted' /\ <<1, todo'[k].on>> \notin DOMAIN filed'
                      /\ \A j \in DOMAIN todo' : todo'[j].op \in {"round", "findMatches"} => k <= j
    BY <1>1 DEF TimedInv
  <2>5. k + 1 \in DOMAIN todo /\ k + 1 # 1 /\ todo[k + 1].op = "findMatches" /\ todo'[k] = todo[k + 1]
    BY <2>4
  <2>6. encrypted' = encrypted /\ filed' = filed
    BY <2>5, PendingStays
  <2>7. /\ program.timed
        /\ todo[k + 1].on \in DOMAIN encrypted /\ <<1, todo[k + 1].on>> \notin DOMAIN filed
        /\ \A j \in DOMAIN todo : todo[j].op \in {"round", "findMatches"} => k + 1 <= j
    BY <2>5 DEF TimedInv
  <2>8. ASSUME NEW j \in DOMAIN todo', todo'[j].op \in {"round", "findMatches"} PROVE k <= j
    <3>1. j + 1 \in DOMAIN todo /\ todo'[j] = todo[j + 1] /\ j \in Int /\ k \in Int
      BY <2>4
    <3>2. k + 1 <= j + 1
      BY <2>7, <2>8, <3>1
    <3> QED
      BY <3>1, <3>2
  <2> QED
    BY <2>5, <2>6, <2>7, <2>8
<1>4. CASE Dies
  BY <1>4 DEF Dies, TimedInv
<1>5. CASE Begins
  <2>1. todo' = Steps /\ Part(Steps, StepSet, 1, 11)
    BY <1>0, <1>5, StepsParts DEF Begins
  <2>2. \A step \in Elements(Steps) : step \in StepSet \/ step.op \in Quiet
    BY <2>1 DEF Part
  <2>3. \A step \in StepSet : Phase(step.op) # 0
    BY <2>1 DEF Part
  <2>4. Phase("findMatches") = 0 /\ "findMatches" \notin Quiet
    BY DEF Phase, Sources, Computes, Quiet
  <2>5. \A step \in Elements(Steps) : step.op # "findMatches"
    BY <2>2, <2>3, <2>4
  <2>6. \A k \in DOMAIN todo' : todo'[k].op # "findMatches"
    BY <2>1, <2>5 DEF Elements
  <2> QED
    BY <2>6 DEF TimedInv
<1>6. CASE Records
  <2>1. /\ Doing("round") /\ program.timed
        /\ \E n \in Unanswered(On) : todo' = RecordedQuery(n) \o todo
    BY <1>6 DEF Records
  <2>2. PICK n \in Unanswered(On) : todo' = RecordedQuery(n) \o todo
    BY <2>1
  <2>3. Encrypted /\ On \in 1 .. Rounds
    BY <2>1, RoundIsEncrypted
  <2>4. On = 1
    BY <1>0, <2>1, <2>3, ConfigTypes DEF Rounds
  <2>5. n \in DOMAIN encrypted /\ <<1, n>> \notin DOMAIN filed
    BY <2>4 DEF Unanswered
  <2>6. encrypted' = encrypted
    BY <2>3, EncryptedStays
  <2>7. ~Answers
    BY <2>1 DEF Answers, Doing
  <2>8. filed' = filed
    BY <1>0, <2>7, QueryVarsSteps DEF Passes, query_vars, loadQueries, prepareQueries
  <2>9. 1 \in DOMAIN todo /\ todo[1].op = "round"
    BY <1>0, <2>1, SeqBasics DEF Doing
  <2>10. \A k \in DOMAIN todo : todo[k].op # "findMatches"
    <3> SUFFICES ASSUME NEW k \in DOMAIN todo, todo[k].op = "findMatches" PROVE FALSE
      OBVIOUS
    <3>1. k <= 1 /\ k \in 1 .. Len(todo) /\ Len(todo) \in Nat
      BY <1>0, <2>9, SeqBasics DEF TimedInv
    <3>2. k = 1
      BY <3>1
    <3> QED
      BY <2>9, <3>2
  <2>11. /\ DOMAIN todo' = 1 .. 13 + Len(todo) /\ Len(todo) \in Nat
         /\ \A k \in DOMAIN todo' : todo'[k] = IF k <= 13 THEN RecordedQuery(n)[k] ELSE todo[k - 13]
    <3>1. PICK block : block = RecordedQuery(n)
      OBVIOUS
    <3>2. IsSeq(block) /\ Len(block) = 13
      BY <3>1, RecordedQueryChecks
    <3>3. /\ DOMAIN (block \o todo) = 1 .. Len(block) + Len(todo)
          /\ \A k \in DOMAIN (block \o todo) :
                (block \o todo)[k] = IF k <= Len(block) THEN block[k] ELSE todo[k - Len(block)]
      BY <1>0, <3>2, ConcatBasics
    <3>4. todo' = block \o todo /\ Len(todo) \in Nat
      BY <1>0, <2>2, <3>1, SeqBasics
    <3> QED
      BY <3>1, <3>2, <3>3, <3>4
  <2>12. DOMAIN todo = 1 .. Len(todo)
    BY <1>0, SeqBasics
  <2>13. ASSUME NEW k \in DOMAIN todo', todo'[k].op \in {"round", "findMatches"}
         PROVE  /\ 9 <= k
                /\ todo'[k].op = "findMatches" => k = 9 /\ todo'[k].on = n
    <3>1. CASE k <= 13
      <4>1. k \in 1 .. 13 /\ todo'[k] = RecordedQuery(n)[k]
        BY <2>11, <3>1
      <4>2. k = 9
        BY <2>13, <4>1, RecordedQueryChecks
      <4>3. todo'[k] = Step("findMatches", n)
        BY <4>1, <4>2, RecordedQueryChecks
      <4> QED
        BY <4>2, <4>3, StepFields
    <3>2. CASE ~(k <= 13)
      <4>1. k - 13 \in DOMAIN todo /\ todo'[k] = todo[k - 13] /\ 9 <= k
        BY <2>11, <2>12, <3>2
      <4> QED
        BY <2>10, <4>1
    <3> QED
      BY <3>1, <3>2
  <2> SUFFICES ASSUME NEW k \in DOMAIN todo', todo'[k].op = "findMatches"
               PROVE  /\ program.timed
                      /\ todo'[k].on \in DOMAIN encrypted' /\ <<1, todo'[k].on>> \notin DOMAIN filed'
                      /\ \A j \in DOMAIN todo' : todo'[j].op \in {"round", "findMatches"} => k <= j
    BY <1>1 DEF TimedInv
  <2>14. k = 9 /\ todo'[k].on = n
    BY <2>13
  <2> QED
    BY <2>1, <2>5, <2>6, <2>8, <2>13, <2>14
<1> QED
  BY <1>0, <1>2, <1>3, <1>4, <1>5, <1>6, TodoSteps

\* The queries that are loaded are finitely many and known by numbers.
LEMMA LoadedQueries ==
    ASSUME loadQueries
    PROVE  IsFiniteSet(DOMAIN que_ss_map') /\ DOMAIN que_ss_map' \subseteq Int
<1>1. CASE \E file \in QueryFiles : que_ss_map' = loadQueryCSV(file)
  <2>1. PICK file \in QueryFiles : que_ss_map' = loadQueryCSV(file)
    BY <1>1
  <2> DEFINE rows == {n \in RowsOf(file) : file[n].items # BadItems}
             len == Len(file)
  <2>2. /\ len \in Nat /\ DOMAIN file = 1 .. len
        /\ \A n \in 1 .. len : file[n] # BadLine => file[n].id \in Int
    <3>1. file \in Files \cup QueryFiles
      OBVIOUS
    <3>2. len \in Nat /\ file = [n \in 1 .. len |-> file[n]]
      BY <3>1, InputsOK
    <3>3. DOMAIN file = 1 .. len
      BY <3>2
    <3>4. \A n \in 1 .. len : file[n] # BadLine => file[n].id \in Int
      BY <3>1, InputsOK
    <3> QED
      BY <3>2, <3>3, <3>4
  <2>3. rows \subseteq 1 .. len /\ \A n \in rows : file[n].id \in Int
    BY <2>2 DEF RowsOf
  <2>4. DOMAIN que_ss_map' = IdsOf(file, rows)
    BY <2>1 DEF loadQueryCSV
  <2>5. IsFiniteSet(rows)
    <3>1. IsFiniteSet(1 .. len)
      BY <2>2, FS_Interval
    <3> QED
      BY <2>3, <3>1, FS_Subset
  <2> HIDE DEF rows, len
  <2>6. IsFiniteSet(IdsOf(file, rows))
    <3> DEFINE f == [n \in rows |-> file[n].id]
    <3>1. f \in Surjection(rows, IdsOf(file, rows))
      BY DEF IdsOf, Surjection
    <3> HIDE DEF f
    <3> QED
      BY <2>5, <3>1, FS_Surjection
  <2>7. IdsOf(file, rows) \subseteq Int
    BY <2>3 DEF IdsOf
  <2> QED
    BY <2>4, <2>6, <2>7
<1>2. CASE que_ss_map' \in Probes
  BY <1>2, InputsOK
<1>3. CASE que_ss_map' = [id \in 0 .. NrofQueries - 1 |-> enr_ss_map[id]]
  <2>1. DOMAIN que_ss_map' = 0 .. NrofQueries - 1
    BY <1>3
  <2>2. 0 \in Int /\ NrofQueries - 1 \in Int
    BY InputsOK
  <2>3. IsFiniteSet(0 .. NrofQueries - 1)
    BY <2>2, FS_Interval
  <2> QED
    BY <2>1, <2>3
<1> QED
  BY <1>1, <1>2, <1>3 DEF loadQueries

----------------------------------------------------------------------------
(* What was asked                                                           *)

\* The queries are those that were asked until they are blinded.
LEMMA AskedNext ==
    ASSUME ControlInv, ControlInv', AskedInv, [Lives]_vars
    PROVE  AskedInv'
<1>0. DataInv /\ OrderInv /\ EnrInv /\ program \in Configs /\ started \in BOOLEAN
  BY DEF ControlInv, DataInv, OrderInv
<1>1. QuerySteps
  BY <1>0, QueryStepsAre
<1>2. ASSUME NEW r, NEW n, Answer(r, n) PROVE que_ss_map' = que_ss_map /\ asked' = asked
  BY <1>2 DEF Answer, history_vars
<1>3. IsFiniteSet(DOMAIN que_ss_map') /\ DOMAIN que_ss_map' \subseteq Int
  <2>1. CASE Answers \/ Passes
    <3>1. que_ss_map' = que_ss_map
      BY <1>2, <2>1 DEF Answers, Passes, query_vars
    <3> QED
      BY <3>1 DEF AskedInv
  <2>2. CASE loadQueries
    BY <2>2, LoadedQueries
  <2>3. CASE prepareQueries
    <3>1. DOMAIN que_ss_map' = DOMAIN que_ss_map
      BY <2>3 DEF prepareQueries, Blinded
    <3> QED
      BY <3>1 DEF AskedInv
  <2> QED
    BY <1>0, <2>1, <2>2, <2>3, QueryVarsSteps
<1>4. ASSUME ~crashed'
      PROVE  IF QueUnblinded' THEN que_ss_map' = asked'
             ELSE Past(9)' /\ que_ss_map' = Blinded(asked)'
  <2>1. ~crashed /\ program' = program
    BY <1>0, <1>4, NotDeadBefore, OrderStep
  <2>2. BlindsQueries' <=> BlindsQueries
    BY <2>1, OrderIsOfTheProgram DEF BlindsQueries, Step
  <2>3. CASE Past(9)
    <3>1. Past(9)' /\ UNCHANGED <<que_ss_map, asked, gc_key>>
      BY <2>1, <2>3, LateStays DEF offline_vars, history_vars
    <3>2. Phase("blindQueries") = 9 /\ Phase("blindQueries")' = 9
      BY <2>1, OrderIsOfTheProgram DEF Phase, Sources, Computes
    <3>3. ~Left(Step("blindQueries", 0))
      BY <2>3, <3>2, StepFields DEF Past, Left
    <3>4. ~Left(Step("blindQueries", 0))'
      <4>1. Step("blindQueries", 0).op = "blindQueries" /\ Step("blindQueries", 0)' = Step("blindQueries", 0)
        BY DEF Step
      <4>2. started' /\ \A step \in Elements(todo)' : Phase(step.op)' = 0 \/ Phase(step.op)' > 9
        BY <3>1 DEF Past
      <4>3. Step("blindQueries", 0) \notin Elements(todo)'
        BY <3>2, <4>1, <4>2
      <4> QED
        BY <4>1, <4>2, <4>3 DEF Left
    <3>5. QueUnblinded' <=> QueUnblinded
      BY <2>2, <3>3, <3>4 DEF QueUnblinded
    <3>6. Blinded(asked)' = Blinded(asked)
      BY <3>1 DEF Blinded
    <3> QED
      BY <2>1, <3>1, <3>5, <3>6 DEF AskedInv
  <2>4. CASE ~Past(9)
    <3>1. QueUnblinded /\ que_ss_map = asked
      BY <2>1, <2>4 DEF AskedInv
    <3>2. ASSUME NEW op, Doing(op), Phase(op) # 0
          PROVE  Phase(op) \in 1 .. 9 /\ Head(todo) \in StepSet /\ Head(todo).op = op
                 /\ \A p \in Nat : p >= Phase(op) => ~Past(p)
      <4>1. Past(Phase(op) - 1) /\ Head(todo) \in StepSet /\ Head(todo).op = op
            /\ \A p \in Nat : p >= Phase(op) => ~Past(p)
        BY <1>0, <3>2, DoingIsFirst
      <4>2. Phase(op) \in 0 .. 11
        BY PhaseType
      <4>3. ~(Phase(op) \in 10 .. 11)
        <5> SUFFICES ASSUME Phase(op) \in 10 .. 11 PROVE FALSE
          OBVIOUS
        <5>1. \A step \in Elements(todo) : Phase(step.op) = 0 \/ Phase(step.op) > 9
          BY <4>1, PhaseType DEF Past
        <5> QED
          BY <2>4, <4>1, <5>1 DEF Past
      <4> QED
        BY <3>2, <4>1, <4>2, <4>3
    <3>3. ASSUME ~Doing("blindQueries") \/ Rests
          PROVE  QueUnblinded'
      <4>1. CASE ~BlindsQueries
        BY <2>2, <4>1 DEF QueUnblinded
      <4>2. CASE BlindsQueries
        <5>1. Left(Step("blindQueries", 0)) /\ Step("blindQueries", 0) \in StepSet
          BY <3>1, <4>2 DEF QueUnblinded, BlindsQueries
        <5>2. CASE ~Doing("blindQueries")
          <6>1. PICK y \in StepSet : y = Step("blindQueries", 0)
            BY <5>1
          <6>2. Left(y)'
            BY <1>4, <5>1, <5>2, <6>1, LeftStep, StepFields
          <6>3. Left(Step("blindQueries", 0))'
            BY <6>1, <6>2 DEF Step, Left
          <6> QED
            BY <6>3 DEF QueUnblinded
        <5>3. CASE Rests
          <6>1. Left(Step("blindQueries", 0))'
            BY <5>1, <5>3 DEF Rests, Left, Elements, Step
          <6> QED
            BY <6>1 DEF QueUnblinded
        <5> QED
          BY <3>3, <5>2, <5>3
      <4> QED
        BY <4>1, <4>2
    <3>4. CASE Passes
      <4>1. ~Doing("blindQueries") \/ Rests
        BY <3>4 DEF Passes, QueryOps
      <4>2. que_ss_map' = asked'
        BY <3>1, <3>4 DEF Passes, query_vars
      <4> QED
        BY <3>3, <4>1, <4>2
    <3>5. CASE Answers
      <4>1. ~Doing("blindQueries")
        BY <3>5 DEF Answers, Doing
      <4>2. que_ss_map' = asked'
        BY <1>2, <3>1, <3>5 DEF Answers
      <4> QED
        BY <3>3, <4>1, <4>2
    <3>6. CASE loadQueries
      <4>1. ~Doing("blindQueries")
        BY <3>6 DEF loadQueries, Doing
      <4>2. que_ss_map' = asked'
        <5>1. CASE Doing("loadQueryCSV") \/ Doing("chooseProbes")
          BY <3>6, <5>1 DEF loadQueries, Doing
        <5>2. CASE Doing("copyQueries")
          <6>1. Phase("copyQueries") \in {4, 8}
            BY DEF Phase, Sources, Computes
          <6>2. Head(todo) \in StepSet /\ Head(todo).op = "copyQueries"
                /\ \A p \in Nat : p >= Phase("copyQueries") => ~Past(p)
            BY <3>2, <5>2, <6>1
          <6>3. program.name = "bench"
            BY <1>1, <6>2 DEF QuerySteps
          <6>4. Phase("copyQueries") = 4
            BY <6>3 DEF Phase, Sources, Computes
          <6>5. ~Past(5)
            BY <6>2, <6>4
          <6>6. enr_ss_map = enrolled
            BY <1>0, <6>5 DEF EnrInv
          <6>7. /\ que_ss_map' = [id \in 0 .. NrofQueries - 1 |-> enr_ss_map[id]]
                /\ asked' = [id \in 0 .. NrofQueries - 1 |-> enrolled[id]]
            BY <3>6, <5>2 DEF loadQueries, Doing
          <6> QED
            BY <6>6, <6>7
        <5> QED
          BY <3>6, <5>1, <5>2 DEF loadQueries
      <4> QED
        BY <3>3, <4>1, <4>2
    <3>7. CASE prepareQueries
      <4>1. Phase("encryptQueryPowers") = 10 /\ Phase("blindForRound") = 11 /\ Phase("blindQueries") = 9
        BY DEF Phase, Sources, Computes
      <4>2. ~Doing("encryptQueryPowers") /\ ~Doing("blindForRound")
        BY <3>2, <4>1
      <4>3. /\ Doing("blindQueries") /\ Advance /\ que_ss_map' = Blinded(que_ss_map)
            /\ gc_key' = gc_key /\ asked' = asked
        BY <3>7, <4>2 DEF prepareQueries, offline_vars, history_vars
      <4>4. Head(todo) \in StepSet /\ Head(todo).op = "blindQueries"
        BY <3>2, <4>1, <4>3
      <4>5. Head(todo) = Step("blindQueries", 0)
        BY <1>1, <4>4 DEF QuerySteps
      <4>6. Past(9)'
        <5>1. "blindQueries" \notin Counted /\ "blindQueries" \in Once
          BY DEF Counted, Once, Computes
        <5>2. Past(Phase("blindQueries"))'
          BY <1>0, <4>1, <4>3, <5>1, DoneIsPast
        <5>3. Phase("blindQueries")' = 9
          BY <2>1, <4>1, OrderIsOfTheProgram
        <5> QED
          BY <5>2, <5>3 DEF Past
      <4>7. BlindsQueries
        BY <4>4, <4>5 DEF BlindsQueries
      <4>8. ~Left(Step("blindQueries", 0))'
        <5>1. PICK y \in StepSet : y = Head(todo)
          BY <4>4
        <5>2. started /\ y \in Elements(todo) /\ todo # <<>> /\ todo' = Tail(todo)
          <6>1. IsSeq(todo)
            BY <1>0 DEF OrderInv, InOrder
          <6>2. todo # <<>> /\ started /\ todo' = Tail(todo)
            BY <4>3 DEF Doing, Advance
          <6>3. 1 \in DOMAIN todo /\ Head(todo) = todo[1]
            BY <6>1, <6>2, SeqBasics
          <6> QED
            BY <5>1, <6>2, <6>3 DEF Elements
        <5>3. ~Left(y)'
          BY <1>4, <5>1, <5>2, LeftStep DEF Left
        <5> QED
          BY <4>5, <5>1, <5>3 DEF Step, Left
      <4>9. ~QueUnblinded'
        BY <2>2, <4>7, <4>8 DEF QueUnblinded
      <4>10. que_ss_map' = Blinded(asked)'
        BY <3>1, <4>3 DEF Blinded
      <4> QED
        BY <4>6, <4>9, <4>10
    <3> QED
      BY <1>0, <3>4, <3>5, <3>6, <3>7, QueryVarsSteps
  <2> QED
    BY <2>3, <2>4
<1> QED
  BY <1>3, <1>4 DEF AskedInv

----------------------------------------------------------------------------
(* What an answer is made from                                              *)

\* Two positions of several.
LEMMA TwoOf ==
    ASSUME NEW S, S \subseteq Positions, Cardinality(S) >= 2
    PROVE  \E i, j \in S : i < j
<1>1. IsFiniteSet(Positions) /\ Positions \subseteq Int
  BY inNOK, FS_Interval DEF Positions
<1>2. \A i, j \in S : i < j \/ j < i \/ i = j
  BY <1>1
<1>3. CASE S = {}
  <2>1. Cardinality(S) = 0
    BY <1>3, FS_EmptySet
  <2> QED
    BY <2>1
<1>4. CASE S # {}
  <2>1. PICK i \in S : TRUE
    BY <1>4
  <2>2. CASE S = {i}
    <3>1. Cardinality(S) = 1
      BY <2>2, FS_Singleton
    <3> QED
      BY <3>1
  <2>3. CASE S # {i}
    <3>1. PICK j \in S : j # i
      BY <2>1, <2>3
    <3> QED
      BY <1>2, <2>1, <3>1
  <2> QED
    BY <2>2, <2>3
<1> QED
  BY <1>3, <1>4

\* What is past is done.
LEMMA PastIsDone ==
    ASSUME ControlInv, Past(9), NEW op, Phase(op) \in 1 .. 9
    PROVE  ~Undone(op) /\ \A y \in StepSet : y.op = op => ~Left(y)
<1>1. \A step \in Elements(todo) : step.op # op
  BY DEF Past
<1> QED
  BY <1>1 DEF Past, Undone, Pending, Left

\* When the queries are there, so are the sets of all rounds.
LEMMA EnoughSets ==
    ASSUME ControlInv, NumberInv, Past(9), ~crashed
    PROVE  /\ DOMAIN sets = 1 .. Len(sets) /\ 1 \in DOMAIN sets
           /\ \A s \in 1 .. Rounds : s \in DOMAIN sets
           /\ program.name = "rung_cstpsi" => \A t \in 1 .. T : t \in DOMAIN sets
<1>0. program \in Configs /\ IsSeq(sets) /\ T \in Nat \ {0} /\ K \in Nat
  BY ConfigTypes DEF ControlInv, DataInv, OrderInv, SetsInv
<1>1. DOMAIN sets = 1 .. Len(sets) /\ Len(sets) \in Nat
  BY <1>0, SeqBasics
<1>2. \A op \in Computes : Phase(op) \in 1 .. 9
  BY DataPhases
<1>3. ASSUME NEW y \in StepSet, y.op \in Computes
      PROVE  SetNo(y) \in DOMAIN sets
  <2>1. ~Left(y)
    BY <1>2, <1>3, PastIsDone
  <2>2. SetNo(y) <= Len(sets)
    BY <1>3, <2>1 DEF NumberInv
  <2>3. SetNo(y) \in Nat \ {0}
    BY <1>0, <1>3, SetNumbers
  <2> QED
    BY <1>1, <2>2, <2>3
<1>4. \A t : /\ SetNo(Step("computeCoefficients", t)) = t /\ SetNo(Step("computeTokenSet", t)) = t
             /\ SetNo(Step("computeLabelSet", t)) = T + t
             /\ Step("computeCoefficients", t).op \in Computes
             /\ Step("computeTokenSet", t).op \in Computes
             /\ Step("computeLabelSet", t).op \in Computes
  BY DEF SetNo, Step, Computes
<1>5. CASE FromFile /\ K > 0
  <2>1. /\ \A t \in 1 .. T : Step("computeTokenSet", t) \in StepSet
        /\ \A r \in 1 .. K : Step("computeLabelSet", r) \in StepSet
    BY <1>0, <1>5, FileSetsAre
  <2>2. ASSUME NEW s \in 1 .. Rounds PROVE s \in DOMAIN sets
    <3>1. s \in 1 .. T + K
      BY <1>5 DEF Rounds
    <3>2. CASE s <= T
      <4>1. s \in 1 .. T
        BY <1>0, <3>1, <3>2
      <4> QED
        BY <1>3, <1>4, <2>1, <4>1
    <3>3. CASE s > T
      <4>1. s - T \in 1 .. K /\ T + (s - T) = s
        BY <1>0, <3>1, <3>3
      <4>2. SetNo(Step("computeLabelSet", s - T)) \in DOMAIN sets
        BY <1>3, <1>4, <2>1, <4>1
      <4> QED
        BY <1>4, <4>1, <4>2
    <3> QED
      BY <1>0, <3>1, <3>2, <3>3
  <2>3. 1 \in 1 .. Rounds /\ program.name # "rung_cstpsi"
    BY <1>0, <1>5 DEF Rounds, FromFile
  <2> QED
    BY <1>1, <2>2, <2>3
<1>6. CASE FromFile /\ ~(K > 0)
  <2>1. Step("computeCoefficients", 1) \in StepSet
    BY <1>0, <1>6, FileSetsAre
  <2>2. 1 \in DOMAIN sets
    BY <1>3, <1>4, <2>1
  <2>3. 1 .. Rounds = {1} /\ program.name # "rung_cstpsi"
    BY <1>6 DEF Rounds, FromFile
  <2> QED
    BY <1>1, <2>2, <2>3
<1>7. CASE ~FromFile
  <2>1. K = 0 /\ MemorySets \subseteq StepSet
    BY <1>0, <1>7, MemorySetsAre
  <2>2. 1 .. Rounds = {1}
    BY <2>1 DEF Rounds
  <2>3. Step("computeCoefficients", 1) \in MemorySets
    <3>1. 1 \in 1 .. T
      BY <1>0
    <3> QED
      BY <3>1 DEF MemorySets
  <2>4. 1 \in DOMAIN sets
    BY <1>3, <1>4, <2>1, <2>3
  <2>5. program.name = "rung_cstpsi" => \A t \in 1 .. T : t \in DOMAIN sets
    <3> SUFFICES ASSUME program.name = "rung_cstpsi", NEW t \in 1 .. T PROVE t \in DOMAIN sets
      OBVIOUS
    <3>1. Step("computeCoefficients", t) \in StepSet
      BY <2>1 DEF MemorySets
    <3> QED
      BY <1>3, <1>4, <3>1
  <2> QED
    BY <1>1, <2>2, <2>4, <2>5
<1> QED
  BY <1>5, <1>6, <1>7

\* What the two parties see of the vectors and of the queries.
LEMMA EnrolledRow ==
    ASSUME ControlInv, Past(9)
    PROVE  /\ DOMAIN enr_ss_map = DOMAIN enrolled
           /\ \A id \in DOMAIN enrolled, i \in Positions :
                 enr_ss_map[id][i] = Seen(enrolled[id][i])
<1>1. EnrInv
  BY DEF ControlInv, DataInv
<1>2. ~Undone("blindDatabaseOffline")
  BY DataPhases, PastIsDone
<1>3. CASE Blinds
  <2>1. enr_ss_map = Blinded(enrolled)
    BY <1>1, <1>2, <1>3 DEF EnrInv, Unblinded
  <2> QED
    BY <1>3, <2>1 DEF Blinded, Seen
<1>4. CASE ~Blinds
  <2>1. enr_ss_map = enrolled
    BY <1>1, <1>4 DEF EnrInv, Unblinded
  <2> QED
    BY <1>4, <2>1 DEF Seen
<1> QED
  BY <1>3, <1>4

LEMMA EncryptedQuery ==
    ASSUME ControlInv, AskedInv, Encrypted, NEW n \in DOMAIN encrypted
    PROVE  \A i \in Positions : encrypted[n][i] = Seen(asked[query_keys[n]][i])
<1>0. program \in Configs /\ ~crashed /\ Past(9) /\ encrypted = Prepared
  BY DEF ControlInv, DataInv, OrderInv, Encrypted
<1>1. QuerySteps
  BY <1>0, QueryStepsAre
<1>2. DOMAIN encrypted = DOMAIN query_keys
  BY <1>0 DEF Prepared, InKeyOrder
<1>3. PICK key : key = query_keys[n]
  OBVIOUS
<1>4. key \in DOMAIN que_ss_map
  BY <1>2, <1>3, KeysOfQueries DEF AskedInv
<1>5. encrypted[n] = IF PerRound THEN Blinded(que_ss_map)[key] ELSE que_ss_map[key]
  BY <1>0, <1>2, <1>3 DEF Prepared, InKeyOrder
<1>6. QueUnblinded <=> ~BlindsQueries
  <2>1. Phase("blindQueries") = 9
    BY DEF Phase, Sources, Computes
  <2>2. BlindsQueries => ~Left(Step("blindQueries", 0))
    BY <1>0, <2>1, PastIsDone, StepFields DEF BlindsQueries
  <2> QED
    BY <2>2 DEF QueUnblinded
<1>7. que_ss_map = IF BlindsQueries THEN Blinded(asked) ELSE asked
  BY <1>0, <1>6 DEF AskedInv
<1>8. CASE BlindsQueries
  <2>1. Blinds /\ ~PerRound
    BY <1>1, <1>8 DEF QuerySteps
  <2>2. key \in DOMAIN asked /\ encrypted[n] = Blinded(asked)[key]
    BY <1>4, <1>5, <1>7, <1>8, <2>1 DEF Blinded
  <2> QED
    BY <1>3, <2>1, <2>2 DEF Blinded, Seen
<1>9. CASE ~BlindsQueries /\ PerRound
  <2>1. Blinds
    BY <1>9 DEF PerRound, Blinds
  <2>2. encrypted[n] = Blinded(asked)[key] /\ key \in DOMAIN asked
    BY <1>4, <1>5, <1>7, <1>9
  <2> QED
    BY <1>3, <2>1, <2>2 DEF Blinded, Seen
<1>10. CASE ~BlindsQueries /\ ~PerRound
  <2>1. ~Blinds
    BY <1>1, <1>10 DEF QuerySteps
  <2>2. encrypted[n] = asked[key]
    BY <1>5, <1>7, <1>10
  <2> QED
    BY <1>3, <2>1, <2>2 DEF Seen
<1> QED
  BY <1>8, <1>9, <1>10

\* The partitions: every enrolled id has a row.
LEMMA RowsAreEnrolled ==
    ASSUME ControlInv, Past(9)
    PROVE  /\ \A part \in db_partitions :
                 DOMAIN part \subseteq Nat /\ \A k \in DOMAIN part : part[k] \in DOMAIN enrolled
           /\ \A id \in DOMAIN enrolled :
                 \E part \in db_partitions : \E k \in DOMAIN part : part[k] = id
<1>1. PartsInv
  BY DEF ControlInv, DataInv
<1>2. ~Undone("parallelPartitionDB")
  <2>1. Phase("parallelPartitionDB") \in 1 .. 9
    BY DataPhases
  <2> QED
    BY <2>1, PastIsDone
<1>3. db_partitions \in Layouts(Source)
  BY <1>1, <1>2 DEF PartsInv
<1>4. DOMAIN Source = DOMAIN enrolled
  BY EnrolledRow DEF Source
<1>5. ASSUME NEW part \in db_partitions
      PROVE  DOMAIN part \subseteq Nat /\ \A k \in DOMAIN part : part[k] \in DOMAIN enrolled
  <2>1. part \in RowOrders(DOMAIN enrolled)
    BY <1>3, <1>4 DEF Layouts
  <2>2. PICK m : part \in [1 .. m -> DOMAIN enrolled]
    BY <2>1 DEF RowOrders
  <2> QED
    BY <2>2
<1>6. ASSUME NEW id \in DOMAIN enrolled
      PROVE  \E part \in db_partitions : \E k \in DOMAIN part : part[k] = id
  <2>1. PICK part \in db_partitions : \E k \in DOMAIN part :
          \A other \in db_partitions : \A l \in DOMAIN other :
             other[l] = id <=> (other = part /\ l = k)
    BY <1>3, <1>4 DEF Layouts
  <2> QED
    BY <2>1
<1> QED
  BY <1>5, <1>6

\* Who agrees with a query agrees with it under the blinding.
LEMMA AgreeIsSeen == \A n : KOfN(n) \subseteq KOfNSeen(n)
<1> SUFFICES ASSUME NEW n, NEW id \in KOfN(n) PROVE id \in KOfNSeen(n)
  OBVIOUS
<1>1. IsFiniteSet(Positions)
  BY inNOK, FS_Interval DEF Positions
<1>2. AgreeRaw(id, n) \subseteq AgreeSeen(id, n) /\ AgreeSeen(id, n) \subseteq Positions
  BY DEF AgreeRaw, AgreeSeen, KeptPositions
<1>3. IsFiniteSet(AgreeSeen(id, n))
  BY <1>1, <1>2, FS_Subset
<1>4. /\ Cardinality(AgreeRaw(id, n)) <= Cardinality(AgreeSeen(id, n))
      /\ Cardinality(AgreeRaw(id, n)) \in Nat /\ Cardinality(AgreeSeen(id, n)) \in Nat
  BY <1>2, <1>3, FS_Subset, FS_CardinalityType
<1>5. id \in DOMAIN enrolled /\ Cardinality(AgreeRaw(id, n)) >= 2
  BY DEF KOfN
<1> QED
  BY <1>4, <1>5 DEF KOfNSeen

\* All sets have the same points, those of the enrolled rows.
LEMMA SetPoints ==
    ASSUME ControlInv, NEW s \in DOMAIN sets
    PROVE  sets[s].x = Coordinates /\ sets[s].parts = db_partitions
BY DEF ControlInv, DataInv, SetsInv

\* Who agrees with a query in two positions is met there by it.
LEMMA MatchInRow ==
    ASSUME ControlInv, NumberInv, AskedInv, Encrypted, NEW n \in DOMAIN encrypted,
           NEW id \in KOfNSeen(n)
    PROVE  \E part \in sets[1].parts : \E k \in DOMAIN part : \E i, j \in Positions :
              i < j /\ part[k] = id /\ Matched(sets[1], encrypted[n], part, k, i, j)
<1>0. Past(9) /\ ~crashed
  BY DEF Encrypted
<1>1. 1 \in DOMAIN sets
  BY <1>0, EnoughSets
<1>2. sets[1].parts = db_partitions
  BY <1>1, SetPoints
<1>3. id \in DOMAIN enrolled /\ Cardinality(AgreeSeen(id, n)) >= 2
  BY DEF KOfNSeen
<1>4. AgreeSeen(id, n) \subseteq Positions
  BY DEF AgreeSeen, KeptPositions
<1>5. PICK i \in AgreeSeen(id, n), j \in AgreeSeen(id, n) : i < j
  BY <1>3, <1>4, TwoOf
<1>6. PICK part \in db_partitions : \E k \in DOMAIN part : part[k] = id
  BY <1>0, <1>3, RowsAreEnrolled
<1>7. PICK k \in DOMAIN part : part[k] = id
  BY <1>6
<1>8. DOMAIN part \subseteq Nat
  BY <1>0, <1>6, RowsAreEnrolled
<1>9. ASSUME NEW p \in AgreeSeen(id, n)
      PROVE  Meets(part, sets[1].x, encrypted[n], k, p)
  <2>1. /\ p \in Positions /\ ~Displaced(sets[1], id, p)
        /\ Seen(enrolled[id][p]) = Seen(asked[query_keys[n]][p])
    BY <1>9 DEF AgreeSeen, KeptPositions
  <2>2. enr_ss_map[id][p] = Seen(enrolled[id][p])
    BY <1>0, <1>3, <2>1, EnrolledRow
  <2>3. encrypted[n][p] = Seen(asked[query_keys[n]][p])
    BY <2>1, EncryptedQuery
  <2>4. sets[1].x[part][k][p] = encrypted[n][p]
    <3>1. sets[1].x[part][k][p] = enr_ss_map[id][p]
      BY <1>2, <1>6, <1>7, <2>1 DEF Displaced
    <3> QED
      BY <2>1, <2>2, <2>3, <3>1
  <2>5. k \in Hits(part, sets[1].x, encrypted[n], p)
    BY <1>7, <2>4 DEF Hits
  <2>6. ASSUME NEW l \in Hits(part, sets[1].x, encrypted[n], p) PROVE k <= l
    <3>1. l \in DOMAIN part /\ sets[1].x[part][l][p] = sets[1].x[part][k][p]
      BY <2>4 DEF Hits
    <3>2. l = k
      BY <1>1, <1>6, <1>7, <2>1, <3>1, PointsDiffer DEF ControlInv
    <3> QED
      BY <1>7, <1>8, <3>2
  <2> QED
    BY <2>5, <2>6 DEF Meets
<1>10. Matched(sets[1], encrypted[n], part, k, i, j)
  BY <1>2, <1>6, <1>7, <1>8, <1>9 DEF Matched
<1> QED
  BY <1>2, <1>4, <1>5, <1>6, <1>7, <1>10

\* An answer keeps every match: the pair and the label of its round.
LEMMA AnswerHasMatch ==
    ASSUME SenderInv, FieldInv, FoundInv, Encrypted, NEW r \in 1 .. Rounds,
           NEW n \in DOMAIN encrypted, Answer(r, n),
           Kind(r) = "label" => \A t \in 1 .. T : <<t, n>> \in DOMAIN filed,
           NEW part, NEW k, NEW i \in Positions, NEW j \in Positions, i < j,
           Matched(sets[1], encrypted[n], part, k, i, j)
    PROVE  /\ <<part, <<i, j>>>> \in found'[<<r, n>>]
           /\ LabelIn(r, part[k]) % FIELD_MODULUS \in filed'[<<r, n>>]
<1>0. /\ ControlInv /\ NumberInv /\ WholeInv /\ program \in Configs
      /\ Past(9) /\ ~crashed /\ T \in Nat \ {0}
  BY ConfigTypes DEF SenderInv, ControlInv, DataInv, OrderInv, Encrypted
<1>1. 1 \in DOMAIN sets /\ r \in DOMAIN sets
  BY <1>0, EnoughSets
<1>2. \A s \in DOMAIN sets : sets[s].x = Coordinates /\ sets[s].parts = db_partitions
  BY <1>0, SetPoints
<1>3. \A s \in DOMAIN sets : Matched(sets[s], encrypted[n], part, k, i, j)
  BY <1>1, <1>2 DEF Matched
<1>4. part \in db_partitions /\ k \in DOMAIN part
  BY <1>1, <1>2 DEF Matched
<1>5. part[k] \in DOMAIN enrolled
  BY <1>0, <1>4, RowsAreEnrolled
<1>6. \A s \in DOMAIN sets : /\ TokenShared(sets[s], part[k]) /\ LabelShared(sets[s], part[k])
                            /\ sets[s].label[part[k]].secret = LabelIn(s, part[k])
  BY <1>0, <1>5 DEF WholeInv
<1>7. Kind(r) = "verify" => program.name = "rung_cstpsi"
  BY DEF Kind
<1>8. Kind(r) = "verify" => r = 1 /\ \A t \in 1 .. T : t \in DOMAIN sets
  <2> SUFFICES ASSUME Kind(r) = "verify" PROVE r = 1 /\ \A t \in 1 .. T : t \in DOMAIN sets
    OBVIOUS
  <2>1. program.name = "rung_cstpsi" /\ Rounds = 1
    BY <1>0, <1>7, ConfigTypes DEF Rounds
  <2>2. \A t \in 1 .. T : t \in DOMAIN sets
    BY <1>0, <2>1, EnoughSets
  <2> QED
    BY <2>1, <2>2
<1>9. sets[IF Kind(r) = "verify" THEN 1 ELSE r] = sets[r]
  BY <1>8
<1>10. Kind(r) = "label" => \A t \in 1 .. T : <<part, <<i, j>>>> \in found[<<t, n>>]
  <2> SUFFICES ASSUME Kind(r) = "label", NEW t \in 1 .. T
               PROVE  <<part, <<i, j>>>> \in found[<<t, n>>]
    OBVIOUS
  <2>1. HasMatches(t, n)
    BY DEF FoundInv
  <2>2. part \in sets[1].parts /\ k \in DOMAIN part
    BY DEF Matched
  <2> QED
    BY <2>1, <2>2 DEF HasMatches
<1>11. Kind(r) = "verify" => \A t \in 1 .. T : Matched(sets[t], encrypted[n], part, k, i, j)
                                                  /\ TokenShared(sets[t], part[k])
  BY <1>3, <1>6, <1>8
<1>12. PICK set : set = sets[r]
  OBVIOUS
<1>13. /\ set = sets[IF Kind(r) = "verify" THEN 1 ELSE r]
       /\ Matched(set, encrypted[n], part, k, i, j)
       /\ TokenShared(set, part[k]) /\ LabelShared(set, part[k])
       /\ set.label[part[k]].secret = LabelIn(r, part[k])
  BY <1>1, <1>3, <1>6, <1>9, <1>12
<1>14. /\ <<part, <<i, j>>>> \in found'[<<r, n>>]
       /\ set.label[part[k]].secret % FIELD_MODULUS \in filed'[<<r, n>>]
  BY <1>0, <1>10, <1>11, <1>13, AnswersKeepMatches
<1> QED
  BY <1>13, <1>14

\* The place that a step answers.
Answering(r, n) ==
    /\ Answer(r, n) /\ Encrypted
    /\ r \in 1 .. Rounds /\ n \in DOMAIN encrypted /\ <<r, n>> \notin DOMAIN filed
    /\ Kind(r) = "label" => \A t \in 1 .. T : <<t, n>> \in DOMAIN filed

LEMMA AnswersPlace ==
    ASSUME AnswerInv, Answers
    PROVE  \E r, n : Answering(r, n)
<1>0. /\ ControlInv /\ DataInv /\ OrderInv /\ program \in Configs /\ IsSeq(todo)
      /\ EncInv /\ TimedInv /\ RoundsInv
  BY DEF AnswerInv, SenderInv, ControlInv, DataInv, OrderInv, InOrder
<1>1. T \in Nat \ {0} /\ K \in Nat
  BY <1>0, ConfigTypes
<1>2. CASE Doing("round") /\ \E n \in Unanswered(On) : Answer(On, n)
  <2>1. PICK n \in Unanswered(On) : Answer(On, n)
    BY <1>2
  <2>2. PICK r : r = On
    OBVIOUS
  <2>3. Encrypted /\ r \in 1 .. Rounds /\ Head(todo) = Step("round", r)
    BY <1>0, <1>2, <2>2, RoundIsEncrypted
  <2>4. n \in DOMAIN encrypted /\ <<r, n>> \notin DOMAIN filed
    BY <2>1, <2>2 DEF Unanswered
  <2>5. ASSUME Kind(r) = "label", NEW t \in 1 .. T PROVE <<t, n>> \in DOMAIN filed
    <3>1. r > T
      BY <1>1, <2>3, <2>5, ConfigTypes DEF Kind
    <3>2. r \in Nat /\ t \in Nat /\ t < r /\ t \in 1 .. Rounds
      <4>1. Rounds \in Nat
        BY <1>0, ConfigTypes
      <4> QED
        BY <1>1, <2>3, <3>1, <4>1
    <3>3. Step("round", t) \in StepSet
      <4>1. QuerySteps
        BY <1>0, QueryStepsAre
      <4> QED
        BY <3>2, <4>1 DEF QuerySteps
    <3>4. Before(Step("round", t), Step("round", r))
      <4>1. Turn(Step("round", t)) = 2 * t /\ Turn(Step("round", r)) = 2 * r
        BY <3>2, Turns
      <4>2. Step("round", t).op = "round" /\ Step("round", r).op = "round"
        BY StepFields
      <4> QED
        BY <3>2, <4>1, <4>2 DEF Before
    <3>5. Phase("round") = 11
      BY DEF Phase, Sources, Computes
    <3>6. ~Left(Step("round", t)) /\ ~crashed
      BY <1>0, <1>2, <2>3, <3>3, <3>4, <3>5, DoingSplits
    <3>7. PICK y \in StepSet : y = Step("round", t)
      BY <3>3
    <3>8. y.op = "round" /\ y.on = t /\ ~Left(y)
      BY <3>6, <3>7, StepFields
    <3> QED
      BY <1>0, <2>4, <3>6, <3>8 DEF RoundsInv
  <2> QED
    BY <2>1, <2>2, <2>3, <2>4, <2>5 DEF Answering
<1>3. CASE Doing("findMatches") /\ Answer(1, On)
  <2>1. 1 \in DOMAIN todo /\ todo[1] = Head(todo) /\ todo[1].op = "findMatches"
    BY <1>0, <1>3, SeqBasics DEF Doing
  <2>2. PICK n : n = On
    OBVIOUS
  <2>3. Encrypted /\ program.name = "bench" /\ Rounds = 1
    BY <1>0, <2>1, CheckIsEncrypted
  <2>4. n \in DOMAIN encrypted /\ <<1, n>> \notin DOMAIN filed
    BY <1>0, <2>1, <2>2 DEF TimedInv, On
  <2>5. Kind(1) # "label"
    BY <2>3 DEF Kind
  <2> QED
    BY <1>3, <2>2, <2>3, <2>4, <2>5 DEF Answering
<1> QED
  BY <1>2, <1>3 DEF Answers

\* It is filed in its place and in no other.
LEMMA AnswerIsFiled ==
    ASSUME NEW r, NEW n, Answer(r, n)
    PROVE  /\ DOMAIN filed' = DOMAIN filed \cup {<<r, n>>}
           /\ DOMAIN found' = DOMAIN found \cup {<<r, n>>}
           /\ \A place \in DOMAIN filed : place # <<r, n>> => filed'[place] = filed[place]
           /\ \A place \in DOMAIN found : place # <<r, n>> => found'[place] = found[place]
<1>1. PICK pairs, labels : File(r, n, pairs, labels)
  BY DEF Answer
<1> QED
  BY <1>1 DEF File, Put

----------------------------------------------------------------------------
(* The promise                                                              *)

LEMMA FoundNext ==
    ASSUME AnswerInv, [Lives]_vars
    PROVE  FoundInv'
<1>0. /\ ControlInv /\ DataInv /\ EncInv /\ TimedInv /\ FoundInv /\ SenderInv /\ FieldInv
      /\ program \in Configs
  BY DEF AnswerInv, SenderInv, ControlInv, DataInv, OrderInv
<1>1. ASSUME Encrypted
      PROVE  UNCHANGED <<program, sets, encrypted>>
  <2>1. ~crashed /\ Past(9)
    BY <1>1 DEF Encrypted
  <2> QED
    BY <1>0, <1>1, <2>1, LateStays, EncryptedStays DEF offline_vars
<1>2. CASE Answers
  <2>1. PICK r, n : Answering(r, n)
    BY <1>2, AnswersPlace
  <2>2. Answer(r, n) /\ Encrypted /\ r \in 1 .. Rounds /\ n \in DOMAIN encrypted
        /\ (Kind(r) = "label" => \A t \in 1 .. T : <<t, n>> \in DOMAIN filed)
    BY <2>1 DEF Answering
  <2>3. program' = program /\ sets' = sets /\ encrypted' = encrypted
    BY <1>1, <2>2
  <2>4. /\ DOMAIN filed' = DOMAIN filed \cup {<<r, n>>}
        /\ DOMAIN found' = DOMAIN found \cup {<<r, n>>}
        /\ \A place \in DOMAIN found : place # <<r, n>> => found'[place] = found[place]
    BY <2>2, AnswerIsFiled
  <2>5. DOMAIN found' = DOMAIN filed'
    BY <1>0, <2>4 DEF FoundInv
  <2>6. ASSUME NEW t \in 1 .. T, NEW m \in DOMAIN encrypted, <<t, m>> \in DOMAIN filed',
               NEW part \in sets[1].parts, NEW k \in DOMAIN part,
               NEW i \in Positions, NEW j \in Positions, i < j,
               Matched(sets[1], encrypted[m], part, k, i, j)
        PROVE  <<part, <<i, j>>>> \in found'[<<t, m>>]
    <3>1. CASE <<t, m>> = <<r, n>>
      <4>1. Matched(sets[1], encrypted[n], part, k, i, j)
        BY <2>6, <3>1
      <4>2. <<part, <<i, j>>>> \in found'[<<r, n>>]
        BY <1>0, <2>2, <2>6, <4>1, AnswerHasMatch
      <4> QED
        BY <3>1, <4>2
    <3>2. CASE <<t, m>> # <<r, n>>
      <4>1. <<t, m>> \in DOMAIN filed /\ found'[<<t, m>>] = found[<<t, m>>]
        BY <1>0, <2>4, <2>6, <3>2 DEF FoundInv
      <4>2. HasMatches(t, m)
        BY <1>0, <4>1 DEF FoundInv
      <4> QED
        BY <2>6, <4>1, <4>2 DEF HasMatches
    <3> QED
      BY <3>1, <3>2
  <2>7. T' = T
    BY <2>3 DEF T
  <2>8. ASSUME NEW t \in 1 .. T, NEW m \in DOMAIN encrypted, <<t, m>> \in DOMAIN filed'
        PROVE  HasMatches(t, m)'
    BY <2>3, <2>6, <2>8 DEF HasMatches, Matched
  <2> QED
    BY <2>3, <2>5, <2>7, <2>8 DEF FoundInv
<1>3. CASE Passes \/ loadQueries \/ prepareQueries
  <2>1. found' = found /\ filed' = filed
    BY <1>3 DEF Passes, query_vars, loadQueries, prepareQueries
  <2>2. CASE Encrypted
    <3>1. program' = program /\ sets' = sets /\ encrypted' = encrypted
      BY <1>1, <2>2
    <3>2. T' = T
      BY <3>1 DEF T
    <3>3. \A t, m : HasMatches(t, m)' <=> HasMatches(t, m)
      BY <2>1, <3>1 DEF HasMatches, Matched
    <3> QED
      BY <1>0, <2>1, <3>1, <3>2, <3>3 DEF FoundInv
  <2>3. CASE ~Encrypted
    <3>1. filed = <<>>
      BY <1>0, <2>3 DEF EncInv, NotEncrypted
    <3>2. DOMAIN filed' = {}
      BY <2>1, <3>1
    <3> QED
      BY <1>0, <2>1, <3>2 DEF FoundInv
  <2> QED
    BY <2>2, <2>3
<1> QED
  BY <1>0, <1>2, <1>3, QueryVarsSteps

LEMMA AnswerInvInit == Init => AnswerInv
<1> SUFFICES ASSUME Init PROVE AnswerInv
  OBVIOUS
<1>1. SenderInv /\ FieldInv
  BY SenderInvInit, FieldInvInit
<1>2. /\ ~started /\ todo = <<>> /\ que_ss_map = <<>> /\ asked = <<>> /\ encrypted = <<>>
      /\ found = <<>> /\ filed = <<>>
  BY DEF Init
<1>3. DOMAIN que_ss_map = {} /\ DOMAIN todo = {} /\ DOMAIN filed = {} /\ DOMAIN found = {}
  BY <1>2
<1>4. \A y : Left(y)
  BY <1>2 DEF Left
<1>5. AskedInv
  BY <1>2, <1>3, <1>4, FS_EmptySet DEF AskedInv, QueUnblinded
<1>6. EncInv
  BY <1>2, <1>4 DEF EncInv, NotEncrypted
<1>7. TimedInv /\ RoundsInv /\ FoundInv
  BY <1>3, <1>4 DEF TimedInv, RoundsInv, FoundInv
<1> QED
  BY <1>1, <1>5, <1>6, <1>7 DEF AnswerInv

LEMMA AnswerInvNext == AnswerInv /\ [Lives]_vars => AnswerInv'
<1> SUFFICES ASSUME AnswerInv, [Lives]_vars PROVE AnswerInv'
  OBVIOUS
<1>1. SenderInv' /\ FieldInv'
  BY SenderInvNext, FieldInvNext DEF AnswerInv, Lives
<1>2. ControlInv /\ ControlInv'
  BY <1>1 DEF AnswerInv, SenderInv
<1>3. AskedInv' /\ EncInv' /\ TimedInv' /\ RoundsInv'
  BY <1>2, AskedNext, EncNext, TimedNext, RoundsNext DEF AnswerInv
<1> QED
  BY <1>1, <1>3, FoundNext DEF AnswerInv

\* What is promised, once the queries are encrypted, is promised for good.
Promised == IF Ready THEN [place \in Places |-> Labels(place[1], KOfN(place[2]))] ELSE <<>>

LEMMA PromiseStays ==
    ASSUME AnswerInv, Encrypted, [Lives]_vars
    PROVE  Promised' = Promised
<1>1. ControlInv /\ ~crashed /\ Past(9)
  BY DEF AnswerInv, SenderInv, Encrypted
<1>2. UNCHANGED <<program, db_file, crashed, FIELD_MODULUS, enr_ss_map, sets, que_ss_map,
                  enrolled, asked>>
  BY <1>1, LateStays DEF enrollment_vars, offline_vars, history_vars
<1>3. encrypted' = encrypted
  BY <1>1, EncryptedStays
<1>4. Ready' = Ready
  BY <1>2, <1>3 DEF Ready
<1>5. Places' = Places
  BY <1>2, <1>3 DEF Places, Rounds, T, K
<1>6. query_keys' = query_keys
  BY <1>2 DEF query_keys
<1>7. \A n : KOfN(n)' = KOfN(n)
  <2>1. \A id : KeptPositions(id)' = KeptPositions(id)
    BY <1>2 DEF KeptPositions, Displaced
  <2>2. \A id, n : AgreeRaw(id, n)' = AgreeRaw(id, n)
    BY <1>2, <1>6, <2>1 DEF AgreeRaw
  <2> QED
    BY <1>2, <2>2 DEF KOfN
<1>8. \A r, ids : Labels(r, ids)' = Labels(r, ids)
  <2>1. \A s, id : LabelIn(s, id)' = LabelIn(s, id)
    BY <1>2, ProgramStays
  <2> QED
    BY <1>2, <2>1 DEF Labels
<1>9. \A place : Labels(place[1], KOfN(place[2]))' = Labels(place[1], KOfN(place[2]))
  BY <1>7, <1>8
<1> QED
  BY <1>4, <1>5, <1>9 DEF Promised

\* Every step answers one place with at least what is promised, or none.
LEMMA PromiseStep == AnswerInv /\ [Lives]_vars => [PSI!Next]_(PSI!vars)
<1> SUFFICES ASSUME AnswerInv, [Lives]_vars PROVE [PSI!Next]_(PSI!vars)
  OBVIOUS
<1>0. /\ ControlInv /\ DataInv /\ EncInv /\ NumberInv /\ AskedInv /\ SenderInv /\ FieldInv /\ FoundInv
  BY DEF AnswerInv, SenderInv, ControlInv
<1>1. CASE Answers
  <2>1. PICK r, n : Answering(r, n)
    BY <1>1, AnswersPlace
  <2>2. /\ Answer(r, n) /\ Encrypted /\ r \in 1 .. Rounds /\ n \in DOMAIN encrypted
        /\ <<r, n>> \notin DOMAIN filed
        /\ (Kind(r) = "label" => \A t \in 1 .. T : <<t, n>> \in DOMAIN filed)
    BY <2>1 DEF Answering
  <2>3. ~crashed /\ Past(9) /\ sets # <<>> /\ encrypted # <<>>
    <3>1. ~crashed /\ Past(9)
      BY <2>2 DEF Encrypted
    <3>2. 1 \in DOMAIN sets
      BY <1>0, <3>1, EnoughSets
    <3> QED
      BY <2>2, <3>1, <3>2
  <2>4. Promised = [place \in Places |-> Labels(place[1], KOfN(place[2]))]
    BY <2>3 DEF Promised, Ready
  <2>5. <<r, n>> \in DOMAIN Promised /\ Promised[<<r, n>>] = Labels(r, KOfN(n))
    BY <2>2, <2>4 DEF Places
  <2>6. Labels(r, KOfN(n)) \subseteq filed'[<<r, n>>]
    <3> SUFFICES ASSUME NEW id \in KOfN(n) PROVE LabelIn(r, id) % FIELD_MODULUS \in filed'[<<r, n>>]
      BY DEF Labels
    <3>0. id \in KOfNSeen(n)
      BY AgreeIsSeen
    <3>1. PICK part \in sets[1].parts : \E k \in DOMAIN part : \E i, j \in Positions :
              i < j /\ part[k] = id /\ Matched(sets[1], encrypted[n], part, k, i, j)
      BY <1>0, <2>2, <3>0, MatchInRow
    <3>2. PICK k \in DOMAIN part, i \in Positions, j \in Positions :
              i < j /\ part[k] = id /\ Matched(sets[1], encrypted[n], part, k, i, j)
      BY <3>1
    <3>3. LabelIn(r, part[k]) % FIELD_MODULUS \in filed'[<<r, n>>]
      BY <1>0, <2>2, <3>2, AnswerHasMatch
    <3> QED
      BY <3>2, <3>3
  <2>7. /\ DOMAIN filed' = DOMAIN filed \cup {<<r, n>>}
        /\ \A place \in DOMAIN filed : filed'[place] = filed[place]
    BY <2>2, AnswerIsFiled
  <2>8. Promised' = Promised
    BY <2>2, PromiseStays
  <2>9. PSI!Answer
    BY <2>2, <2>5, <2>6, <2>7, <2>8 DEF PSI!Answer, Promised
  <2> QED
    BY <2>9 DEF PSI!Next
<1>2. CASE Passes \/ loadQueries \/ prepareQueries
  <2>1. filed' = filed
    BY <1>2 DEF Passes, query_vars, loadQueries, prepareQueries
  <2>2. CASE filed = <<>>
    BY <2>1, <2>2 DEF PSI!Next, PSI!Learn
  <2>3. CASE filed # <<>>
    <3>1. Encrypted
      BY <1>0, <2>3 DEF EncInv, NotEncrypted
    <3>2. Promised' = Promised
      BY <3>1, PromiseStays
    <3> QED
      BY <2>1, <3>2 DEF PSI!vars, Promised
  <2> QED
    BY <2>2, <2>3
<1> QED
  BY <1>0, <1>1, <1>2, QueryVarsSteps

\* Who dies of an empty database has promised nothing and answers nothing.
Silenced == Starved /\ filed = <<>>

LEMMA Silencing ==
    ASSUME AnswerInv, seedWithoutIds
    PROVE  Silenced' /\ [PSI!Next]_(PSI!vars)
<1>1. DataInv /\ EncInv
  BY DEF AnswerInv, SenderInv, ControlInv
<1>2. Starved' /\ sets = <<>>
  BY <1>1, Starving
<1>3. ~Past(9)
  <2>1. Doing("parallelPartitionDB") /\ Phase("parallelPartitionDB") \in 1 .. 9
    BY DataPhases DEF seedWithoutIds
  <2> QED
    BY <1>1, <2>1, DoingIsFirst DEF DataInv, Doing
<1>4. filed = <<>> /\ filed' = <<>>
  BY <1>1, <1>3 DEF EncInv, Encrypted, NotEncrypted, seedWithoutIds, query_vars
<1>5. Promised = <<>> /\ Promised' = <<>>
  BY <1>2 DEF Promised, Ready, Starved
<1> QED
  BY <1>2, <1>4, <1>5 DEF Silenced, PSI!vars, Promised

LEMMA SilenceStays == Silenced /\ [Next]_vars => Silenced' /\ [PSI!Next]_(PSI!vars)
<1> SUFFICES ASSUME Silenced, [Next]_vars PROVE Silenced' /\ [PSI!Next]_(PSI!vars)
  OBVIOUS
<1>1. UNCHANGED vars /\ Starved' /\ Starved
  BY StarvedStays DEF Silenced
<1>2. filed' = filed
  BY <1>1 DEF vars, query_vars
<1>3. Promised = <<>> /\ Promised' = <<>>
  BY <1>1 DEF Promised, Ready, Starved
<1> QED
  BY <1>1, <1>2, <1>3 DEF Silenced, PSI!vars, Promised

\* The programs keep the promise of set-threshold labeled PSI: every place is
\* answered once, with the label of every id that agrees with its query in two
\* positions where no other row has taken the coordinate; whatever the files, the
\* blinding, the layout of the partitions, the slopes and the order of the threads.
THEOREM ProgramsKeepThePromise == Spec => ImplementsThePromise
<1>1. Init => PSI!Init
  BY DEF Init, PSI!Init, Ready
<1>2. AnswerInv /\ [Next]_vars => (AnswerInv \/ Silenced)'
  BY AnswerInvNext, Silencing DEF Lives
<1>3. AnswerInv /\ [Next]_vars => [PSI!Next]_(PSI!vars)
  BY PromiseStep, Silencing DEF Lives
<1>4. Silenced /\ [Next]_vars => Silenced' /\ [PSI!Next]_(PSI!vars)
  BY SilenceStays
<1> QED
  BY <1>1, <1>2, <1>3, <1>4, AnswerInvInit, PTL DEF Spec, PSI!Spec, ImplementsThePromise

----------------------------------------------------------------------------
(* Nothing but matches, unless foreign points line up                      *)

\* Two positions, at least.
LEMMA AtLeastTwo ==
    ASSUME NEW S, S \subseteq Positions, NEW i \in S, NEW j \in S, i # j
    PROVE  Cardinality(S) >= 2
<1>0. IsFiniteSet(Positions)
  BY inNOK, FS_Interval DEF Positions
<1>1. IsFiniteSet(S)
  BY <1>0, FS_Subset
<1>2. IsFiniteSet({i}) /\ Cardinality({i}) = 1
  BY FS_Singleton
<1>3. IsFiniteSet({i} \cup {j}) /\ Cardinality({i} \cup {j}) = 2
  BY <1>2, FS_AddElement, SMTT(30)
<1>4. {i} \cup {j} \subseteq S
  OBVIOUS
<1> QED
  BY <1>1, <1>3, <1>4, FS_Subset, FS_CardinalityType

\* Every row is an id's only one.
LEMMA RowsAreUnique ==
    ASSUME ControlInv, Past(9)
    PROVE  \A part, other \in db_partitions : \A k \in DOMAIN part, l \in DOMAIN other :
              part[k] = other[l] => part = other /\ k = l
<1>1. PartsInv
  BY DEF ControlInv, DataInv
<1>2. ~Undone("parallelPartitionDB")
  <2>1. Phase("parallelPartitionDB") \in 1 .. 9
    BY DataPhases
  <2> QED
    BY <2>1, PastIsDone
<1>3. db_partitions \in Layouts(Source)
  BY <1>1, <1>2 DEF PartsInv
<1>4. DOMAIN Source = DOMAIN enrolled
  BY EnrolledRow DEF Source
<1>5. ASSUME NEW part \in db_partitions, NEW other \in db_partitions,
             NEW k \in DOMAIN part, NEW l \in DOMAIN other, part[k] = other[l]
      PROVE  part = other /\ k = l
  <2>1. part[k] \in DOMAIN enrolled
    BY RowsAreEnrolled
  <2>2. PICK id : id = part[k]
    OBVIOUS
  <2>3. PICK home \in db_partitions : \E m \in DOMAIN home :
          \A some \in db_partitions : \A e \in DOMAIN some :
             some[e] = id <=> (some = home /\ e = m)
    BY <1>3, <1>4, <2>1, <2>2 DEF Layouts
  <2>4. PICK m \in DOMAIN home :
          \A some \in db_partitions : \A e \in DOMAIN some :
             some[e] = id <=> (some = home /\ e = m)
    BY <2>3
  <2>5. part = home /\ k = m
    BY <2>2, <2>4
  <2>6. other = home /\ l = m
    BY <1>5, <2>2, <2>4
  <2> QED
    BY <2>5, <2>6
<1> QED
  BY <1>5

\* A row that has two of the query's coordinates, and the points there, is that
\* of an id that agrees with the query, if the coordinates are its own.
LEMMA PairIsMatch ==
    ASSUME ControlInv, NumberInv, AskedInv, Encrypted, NEW n \in DOMAIN encrypted,
           NEW part \in sets[1].parts, NEW i \in Positions, NEW j \in Positions, i < j,
           Hits(part, sets[1].x, encrypted[n], i) # {},
           Hits(part, sets[1].x, encrypted[n], j) # {},
           NEW k, k = First(Hits(part, sets[1].x, encrypted[n], i)),
           k = First(Hits(part, sets[1].x, encrypted[n], j)),
           ~Displaced(sets[1], part[k], i), ~Displaced(sets[1], part[k], j)
    PROVE  Matched(sets[1], encrypted[n], part, k, i, j) /\ part[k] \in KOfNSeen(n)
<1>0. Past(9) /\ ~crashed
  BY DEF Encrypted
<1>1. 1 \in DOMAIN sets
  BY <1>0, EnoughSets
<1>2. sets[1].parts = db_partitions
  BY <1>1, SetPoints
<1>3. DOMAIN part \subseteq Nat /\ \A l \in DOMAIN part : part[l] \in DOMAIN enrolled
  BY <1>0, <1>2, RowsAreEnrolled
<1>4. ASSUME NEW p \in Positions, Hits(part, sets[1].x, encrypted[n], p) # {},
             k = First(Hits(part, sets[1].x, encrypted[n], p))
      PROVE  Meets(part, sets[1].x, encrypted[n], k, p)
  <2>1. Hits(part, sets[1].x, encrypted[n], p) \subseteq Nat
    BY <1>3 DEF Hits
  <2> QED
    BY <1>4, <2>1, LeastOf DEF Meets
<1>5. Meets(part, sets[1].x, encrypted[n], k, i) /\ Meets(part, sets[1].x, encrypted[n], k, j)
  BY <1>4
<1>6. k \in DOMAIN part
  BY <1>5 DEF Meets, Hits
<1>7. Matched(sets[1], encrypted[n], part, k, i, j)
  BY <1>3, <1>5, <1>6 DEF Matched
<1>8. PICK id : id = part[k]
  OBVIOUS
<1>9. id \in DOMAIN enrolled
  BY <1>3, <1>6, <1>8
<1>10. ASSUME NEW p \in Positions, Meets(part, sets[1].x, encrypted[n], k, p),
              ~Displaced(sets[1], id, p)
       PROVE  p \in AgreeSeen(id, n)
  <2>1. sets[1].x[part][k][p] = encrypted[n][p]
    BY <1>10 DEF Meets, Hits
  <2>2. enr_ss_map[id][p] = Seen(enrolled[id][p])
    BY <1>0, <1>9, EnrolledRow
  <2>3. encrypted[n][p] = Seen(asked[query_keys[n]][p])
    BY EncryptedQuery
  <2>4. sets[1].x[part][k][p] = enr_ss_map[id][p]
    BY <1>6, <1>8, <1>10 DEF Displaced
  <2> QED
    BY <1>10, <2>1, <2>2, <2>3, <2>4 DEF AgreeSeen, KeptPositions
<1>11. i \in AgreeSeen(id, n) /\ j \in AgreeSeen(id, n)
  BY <1>5, <1>8, <1>10
<1>12. AgreeSeen(id, n) \subseteq Positions /\ i # j
  BY inNOK DEF AgreeSeen, KeptPositions, Positions
<1>13. Cardinality(AgreeSeen(id, n)) >= 2
  BY <1>11, <1>12, AtLeastTwo
<1> QED
  BY <1>7, <1>8, <1>9, <1>13 DEF KOfNSeen

\* The labels of an answer are read through its pairs.
LEMMA LabelsAreOfPairs ==
    ASSUME NEW r, NEW n, Answer(r, n)
    PROVE  \E elsewhere : filed'[<<r, n>>] =
             LabelsOf(sets[IF Kind(r) = "verify" THEN 1 ELSE r], encrypted[n], elsewhere,
                      found'[<<r, n>>])
<1>1. PICK set : set = sets[IF Kind(r) = "verify" THEN 1 ELSE r]
  OBVIOUS
<1>2. \E elsewhere, pairs : File(r, n, pairs, LabelsOf(set, encrypted[n], elsewhere, pairs))
  BY <1>1 DEF Answer
<1>3. PICK elsewhere, pairs : File(r, n, pairs, LabelsOf(set, encrypted[n], elsewhere, pairs))
  BY <1>2
<1>4. found'[<<r, n>>] = pairs
  BY <1>3, FiledIsWhatIsPut
<1>5. filed'[<<r, n>>] = LabelsOf(set, encrypted[n], elsewhere, pairs)
  BY <1>3, FiledIsWhatIsPut
<1> QED
  BY <1>1, <1>4, <1>5

\* The pairs of a label round are those of every token round.
LEMMA LabelPairs ==
    ASSUME NEW r, NEW n, Answer(r, n), Kind(r) = "label", T \in Nat \ {0}
    PROVE  found'[<<r, n>>] = {pair \in found[<<1, n>>] : \A t \in 1 .. T : pair \in found[<<t, n>>]}
<1>1. PICK pairs, labels : /\ pairs = findVerifiedPairs([t \in 1 .. T |-> found[<<t, n>>]])
                           /\ File(r, n, pairs, labels)
  BY DEF Answer
<1>2. found'[<<r, n>>] = pairs
  BY <1>1, FiledIsWhatIsPut
<1>3. 1 \in 1 .. T
  OBVIOUS
<1> QED
  BY <1>1, <1>2, <1>3 DEF findVerifiedPairs

\* So what is found for an answer is what its round accepts.
LEMMA FoundIsAccepted ==
    ASSUME AnswerInv, NEW r, NEW n, Answering(r, n), [Lives]_vars
    PROVE  Accepted(r, n)' = found'[<<r, n>>]
<1>1. /\ Answer(r, n) /\ Encrypted /\ <<r, n>> \notin DOMAIN filed
      /\ Kind(r) = "label" => \A t \in 1 .. T : <<t, n>> \in DOMAIN filed
  BY DEF Answering
<1>2. ControlInv /\ program \in Configs /\ T \in Nat \ {0} /\ Past(9) /\ ~crashed
  BY <1>1, ConfigTypes DEF AnswerInv, SenderInv, ControlInv, DataInv, OrderInv, Encrypted
<1>3. program' = program
  BY <1>2, LateStays
<1>4. Kind(r)' = Kind(r) /\ T' = T
  BY <1>3 DEF Kind, T
<1>5. CASE Kind(r) # "label"
  BY <1>4, <1>5 DEF Accepted
<1>6. CASE Kind(r) = "label"
  <2>1. \A t \in 1 .. T : found'[<<t, n>>] = found[<<t, n>>]
    BY <1>1, <1>6, AnswerIsFiled DEF AnswerInv, FoundInv
  <2>2. found'[<<r, n>>] = {pair \in found[<<1, n>>] : \A t \in 1 .. T : pair \in found[<<t, n>>]}
    BY <1>1, <1>2, <1>6, LabelPairs
  <2>3. Accepted(r, n)' =
          {pair \in found'[<<1, n>>] : \A t \in 1 .. T : pair \in found'[<<t, n>>]}
    BY <1>4, <1>6 DEF Accepted
  <2>4. 1 \in 1 .. T
    BY <1>2
  <2> QED
    BY <2>1, <2>2, <2>3, <2>4
<1> QED
  BY <1>5, <1>6

\* A label of an answer is read through a pair of a row.
LEMMA LabelHasPair ==
    ASSUME NEW set, NEW query, NEW elsewhere, NEW pairs,
           NEW label \in LabelsOf(set, query, elsewhere, pairs)
    PROVE  \E part \in Rows(set) : \E p \in Pairs : \E off :
              /\ <<part, p>> \in pairs
              /\ label = LET row == evalPartition(part, set.x, set.label, query, off, FIELD_MODULUS)
                         IN repK2(inverses', p[1], p[2], row[p[1]], row[p[2]], FIELD_MODULUS)
<1>1. PICK part \in Rows(set) :
        label \in reconstructFromPairs(inverses', {p \in Pairs : <<part, p>> \in pairs},
                   Row(set, set.label, part, query, elsewhere), FIELD_MODULUS)
  BY DEF LabelsOf
<1>2. PICK off : Row(set, set.label, part, query, elsewhere)
                   = evalPartition(part, set.x, set.label, query, off, FIELD_MODULUS)
  BY DEF Row
<1>3. PICK p \in Pairs :
        /\ <<part, p>> \in pairs
        /\ label = repK2(inverses', p[1], p[2],
                         Row(set, set.label, part, query, elsewhere)[p[1]],
                         Row(set, set.label, part, query, elsewhere)[p[2]], FIELD_MODULUS)
  BY <1>1 DEF reconstructFromPairs
<1> QED
  BY <1>2, <1>3

\* A step that answers changes nothing that the answer is judged by.
LEMMA AnswerStays ==
    ASSUME AnswerInv, Encrypted, [Lives]_vars
    PROVE  /\ UNCHANGED <<program, enr_ss_map, sets, encrypted>>
           /\ \A r : Kind(r)' = Kind(r)
           /\ \A n : KOfNSeen(n)' = KOfNSeen(n)
           /\ \A r, ids : Labels(r, ids)' = Labels(r, ids)
<1>1. ControlInv /\ ~crashed /\ Past(9)
  BY DEF AnswerInv, SenderInv, Encrypted
<1>2. UNCHANGED <<program, db_file, FIELD_MODULUS, enr_ss_map, gc_key, sets, que_ss_map,
                  enrolled, asked>>
  BY <1>1, LateStays DEF enrollment_vars, offline_vars, history_vars
<1>3. encrypted' = encrypted
  BY <1>1, EncryptedStays
<1>4. query_keys' = query_keys
  BY <1>2 DEF query_keys
<1>5. \A n : KOfNSeen(n)' = KOfNSeen(n)
  <2>1. \A id : KeptPositions(id)' = KeptPositions(id)
    BY <1>2 DEF KeptPositions, Displaced
  <2>2. \A value : Seen(value)' = Seen(value)
    BY <1>2 DEF Seen, Blinds
  <2>3. \A id, n : AgreeSeen(id, n)' = AgreeSeen(id, n)
    BY <1>2, <1>4, <2>1, <2>2 DEF AgreeSeen
  <2> QED
    BY <1>2, <2>3 DEF KOfNSeen
<1>6. \A r, ids : Labels(r, ids)' = Labels(r, ids)
  <2>1. \A s, id : LabelIn(s, id)' = LabelIn(s, id)
    BY <1>2, ProgramStays
  <2> QED
    BY <1>2, <2>1 DEF Labels
<1>7. \A r : Kind(r)' = Kind(r)
  BY <1>2 DEF Kind, T
<1> QED
  BY <1>2, <1>3, <1>5, <1>6, <1>7

\* Where no foreign pair was accepted, every label is that of a match.
LEMMA LabelsAreOfMatches ==
    ASSUME AnswerInv, [Lives]_vars, NEW r, NEW n, Answering(r, n), ~Foreign(r, n)'
    PROVE  filed'[<<r, n>>] \subseteq Labels(r, KOfNSeen(n))
<1> SUFFICES ASSUME NEW label \in filed'[<<r, n>>] PROVE label \in Labels(r, KOfNSeen(n))
  OBVIOUS
<1>0. /\ ControlInv /\ NumberInv /\ WholeInv /\ AskedInv /\ FieldInv /\ Encrypted
      /\ Past(9) /\ ~crashed /\ Answer(r, n) /\ r \in 1 .. Rounds /\ n \in DOMAIN encrypted
      /\ program \in Configs
  BY DEF AnswerInv, SenderInv, Answering, Encrypted, ControlInv, DataInv, OrderInv
<1>1. sets' = sets /\ encrypted' = encrypted /\ enr_ss_map' = enr_ss_map
  BY <1>0, AnswerStays
<1>2. 1 \in DOMAIN sets /\ r \in DOMAIN sets
  BY <1>0, EnoughSets
<1>3. sets[IF Kind(r) = "verify" THEN 1 ELSE r] = sets[r]
  <2>1. Kind(r) = "verify" => program.name = "rung_cstpsi"
    BY DEF Kind
  <2>2. Kind(r) = "verify" => Rounds = 1
    BY <1>0, <2>1, ConfigTypes DEF Rounds
  <2> QED
    BY <1>0, <2>2
<1>4. PICK set : set = sets[r]
  OBVIOUS
<1>5. set.x = sets[1].x /\ set.parts = sets[1].parts /\ sets[1].parts = db_partitions
  BY <1>0, <1>2, <1>4, SetPoints
<1>6. PICK elsewhere : label \in LabelsOf(set, encrypted[n], elsewhere, found'[<<r, n>>])
  BY <1>0, <1>3, <1>4, LabelsAreOfPairs
<1>7. PICK part \in Rows(set), p \in Pairs : \E off :
         /\ <<part, p>> \in found'[<<r, n>>]
         /\ label = LET row == evalPartition(part, set.x, set.label, encrypted[n], off, FIELD_MODULUS)
                    IN repK2(inverses', p[1], p[2], row[p[1]], row[p[2]], FIELD_MODULUS)
  BY <1>6, LabelHasPair
<1>8. PICK off :
         label = LET row == evalPartition(part, set.x, set.label, encrypted[n], off, FIELD_MODULUS)
                 IN repK2(inverses', p[1], p[2], row[p[1]], row[p[2]], FIELD_MODULUS)
  BY <1>7
<1>9. PICK i \in Positions, j \in Positions : p = <<i, j>> /\ i < j
  BY DEF Pairs
<1>10. /\ Hits(part, sets[1].x, encrypted[n], i) # {}
       /\ Hits(part, sets[1].x, encrypted[n], j) # {}
       /\ First(Hits(part, sets[1].x, encrypted[n], i)) = First(Hits(part, sets[1].x, encrypted[n], j))
       /\ ~Displaced(sets[1], part[First(Hits(part, sets[1].x, encrypted[n], i))], i)
       /\ ~Displaced(sets[1], part[First(Hits(part, sets[1].x, encrypted[n], j))], j)
  <2>1. <<part, p>> \in Accepted(r, n)'
    BY <1>0, <1>7, FoundIsAccepted
  <2>2. \A id, q : Displaced(sets[1], id, q)' <=> Displaced(sets[1], id, q)
    BY <1>1 DEF Displaced
  <2>3. PICK pair : pair = <<part, p>>
    OBVIOUS
  <2>4. pair[1] = part /\ pair[2][1] = i /\ pair[2][2] = j /\ pair \in Accepted(r, n)'
    BY <1>9, <2>1, <2>3
  <2> QED
    BY <1>1, <2>2, <2>4 DEF Foreign
<1>11. part \in sets[1].parts
  <2>1. part # <<>>
    <3>1. part = <<>> => Hits(part, sets[1].x, encrypted[n], i) = {}
      BY DEF Hits
    <3> QED
      BY <1>10, <3>1
  <2> QED
    BY <1>5, <2>1 DEF Rows
<1>12. PICK k : k = First(Hits(part, sets[1].x, encrypted[n], i))
  OBVIOUS
<1>13. Matched(sets[1], encrypted[n], part, k, i, j) /\ part[k] \in KOfNSeen(n)
  BY <1>0, <1>9, <1>10, <1>11, <1>12, PairIsMatch
<1>14. /\ DOMAIN part \subseteq Nat /\ k \in DOMAIN part
       /\ Meets(part, set.x, encrypted[n], k, i) /\ Meets(part, set.x, encrypted[n], k, j)
  BY <1>5, <1>13 DEF Matched
<1>15. part[k] \in DOMAIN enrolled
  BY <1>13 DEF KOfNSeen
<1>16. LabelShared(set, part[k]) /\ set.label[part[k]].secret = LabelIn(r, part[k])
  BY <1>0, <1>2, <1>4, <1>15 DEF WholeInv
<1>17. /\ FIELD_MODULUS \in Nat \ {0}
       /\ Inverts(smallDiffInverse(inverses', j - i, FIELD_MODULUS), i, j, FIELD_MODULUS)
  BY <1>0, <1>9, AnswerInverts
<1>18. PICK sharing : sharing = set.label[part[k]]
  OBVIOUS
<1>19. sharing.secret \in Int /\ sharing.coef \in Int /\ sharing.secret = LabelIn(r, part[k])
  BY <1>16, <1>18 DEF LabelShared
<1>20. label = sharing.secret % FIELD_MODULUS
  <2>1. PICK row : row = evalPartition(part, set.x, set.label, encrypted[n], off, FIELD_MODULUS)
    OBVIOUS
  <2>2. label = repK2(inverses', i, j, row[i], row[j], FIELD_MODULUS)
    BY <1>8, <1>9, <2>1
  <2>3. PICK x, map, M, table, query :
           x = set.x /\ map = set.label /\ M = FIELD_MODULUS /\ table = inverses' /\ query = encrypted[n]
    OBVIOUS
  <2>4. /\ Meets(part, x, query, k, i) /\ Meets(part, x, query, k, j)
        /\ map[part[k]] = sharing /\ M \in Nat \ {0}
        /\ Inverts(smallDiffInverse(table, j - i, M), i, j, M)
    BY <1>14, <1>17, <1>18, <2>3
  <2>5. /\ DOMAIN part \subseteq Nat /\ k \in DOMAIN part
        /\ sharing.secret \in Int /\ sharing.coef \in Int
    BY <1>14, <1>19
  <2>6. repK2(table, i, j, evalPartition(part, x, map, query, off, M)[i],
              evalPartition(part, x, map, query, off, M)[j], M) = sharing.secret % M
    BY <2>4, <2>5, OwnPairReconstructs
  <2> QED
    BY <2>1, <2>2, <2>3, <2>6
<1> QED
  BY <1>13, <1>19, <1>20 DEF Labels

\* A step that answers a place answers it with the labels of the matches.
LEMMA MatchesAreLabelled ==
    ASSUME AnswerInv, NEW r, NEW n, Answering(r, n)
    PROVE  Labels(r, KOfNSeen(n)) \subseteq filed'[<<r, n>>]
<1> SUFFICES ASSUME NEW id \in KOfNSeen(n) PROVE LabelIn(r, id) % FIELD_MODULUS \in filed'[<<r, n>>]
  BY DEF Labels
<1>1. /\ ControlInv /\ NumberInv /\ AskedInv /\ SenderInv /\ FieldInv /\ FoundInv
      /\ Answer(r, n) /\ Encrypted /\ r \in 1 .. Rounds /\ n \in DOMAIN encrypted
      /\ Kind(r) = "label" => \A t \in 1 .. T : <<t, n>> \in DOMAIN filed
  BY DEF AnswerInv, SenderInv, Answering
<1>2. PICK part \in sets[1].parts : \E k \in DOMAIN part : \E i, j \in Positions :
         i < j /\ part[k] = id /\ Matched(sets[1], encrypted[n], part, k, i, j)
  BY <1>1, MatchInRow
<1>3. PICK k \in DOMAIN part, i \in Positions, j \in Positions :
         i < j /\ part[k] = id /\ Matched(sets[1], encrypted[n], part, k, i, j)
  BY <1>2
<1>4. LabelIn(r, part[k]) % FIELD_MODULUS \in filed'[<<r, n>>]
  BY <1>1, <1>3, AnswerHasMatch
<1> QED
  BY <1>3, <1>4

\* What is answered is exact, and a label round has its token rounds behind it.
ExactAt(r, n) == ~Foreign(r, n) => filed[<<r, n>>] = Labels(r, KOfNSeen(n))
ExactInv ==
    \A place \in DOMAIN filed :
        LET r == place[1]
            n == place[2]
        IN /\ place = <<r, n>> /\ ExactAt(r, n)
           /\ Kind(r) = "label" => \A t \in 1 .. T : <<t, n>> \in DOMAIN filed

\* It stays exact, as long as nothing it was found with is filed again.
LEMMA ExactStays ==
    ASSUME AnswerInv, Encrypted, [Lives]_vars, NEW r, NEW n, ExactAt(r, n),
           filed'[<<r, n>>] = filed[<<r, n>>], found'[<<r, n>>] = found[<<r, n>>],
           Kind(r) = "label" => \A t \in 1 .. T : found'[<<t, n>>] = found[<<t, n>>]
    PROVE  ExactAt(r, n)'
<1>1. /\ UNCHANGED <<program, enr_ss_map, sets, encrypted>> /\ Kind(r)' = Kind(r)
      /\ KOfNSeen(n)' = KOfNSeen(n) /\ \A ids : Labels(r, ids)' = Labels(r, ids)
  BY AnswerStays
<1>2. Labels(r, KOfNSeen(n))' = Labels(r, KOfNSeen(n))
  BY <1>1
<1>3. T' = T /\ T \in Nat \ {0}
  BY <1>1, ConfigTypes DEF T, AnswerInv, SenderInv, ControlInv, DataInv, OrderInv
<1>4. Accepted(r, n)' = Accepted(r, n)
  <2>1. CASE Kind(r) # "label"
    BY <1>1, <2>1 DEF Accepted
  <2>2. CASE Kind(r) = "label"
    <3>1. 1 \in 1 .. T
      BY <1>3
    <3>2. Accepted(r, n) = {pair \in found[<<1, n>>] : \A t \in 1 .. T : pair \in found[<<t, n>>]}
      BY <2>2 DEF Accepted
    <3>3. Accepted(r, n)'
            = {pair \in found'[<<1, n>>] : \A t \in 1 .. T : pair \in found'[<<t, n>>]}
      BY <1>1, <1>3, <2>2 DEF Accepted
    <3> QED
      BY <2>2, <3>1, <3>2, <3>3
  <2> QED
    BY <2>1, <2>2
<1>5. Foreign(r, n)' <=> Foreign(r, n)
  <2>1. \A id, p : Displaced(sets[1], id, p)' <=> Displaced(sets[1], id, p)
    BY <1>1 DEF Displaced
  <2> QED
    BY <1>1, <1>4, <2>1 DEF Foreign
<1> QED
  BY <1>2, <1>5 DEF ExactAt

LEMMA ExactNext ==
    ASSUME AnswerInv, ExactInv, [Lives]_vars
    PROVE  ExactInv'
<1>0. ControlInv /\ DataInv /\ EncInv /\ FoundInv
  BY DEF AnswerInv, SenderInv, ControlInv
<1>1. CASE Answers
  <2>1. PICK r, n : Answering(r, n)
    BY <1>1, AnswersPlace
  <2>2. /\ Answer(r, n) /\ Encrypted /\ <<r, n>> \notin DOMAIN filed
        /\ Kind(r) = "label" => \A t \in 1 .. T : <<t, n>> \in DOMAIN filed
    BY <2>1 DEF Answering
  <2>3. /\ DOMAIN filed' = DOMAIN filed \cup {<<r, n>>}
        /\ \A place \in DOMAIN filed : place # <<r, n>> => filed'[place] = filed[place]
        /\ \A place \in DOMAIN found : place # <<r, n>> => found'[place] = found[place]
    BY <2>2, AnswerIsFiled
  <2>4. \A place \in DOMAIN filed :
           place # <<r, n>> /\ filed'[place] = filed[place] /\ found'[place] = found[place]
    BY <1>0, <2>2, <2>3 DEF FoundInv
  <2>5. T' = T /\ \A s : Kind(s)' = Kind(s)
    BY <2>2, AnswerStays DEF T
  <2>6. ASSUME NEW s, NEW m, <<s, m>> \in DOMAIN filed
        PROVE  /\ ExactAt(s, m)'
               /\ Kind(s)' = "label" => \A t \in 1 .. T' : <<t, m>> \in DOMAIN filed'
    <3>1. ExactAt(s, m) /\ (Kind(s) = "label" => \A t \in 1 .. T : <<t, m>> \in DOMAIN filed)
      BY <2>6 DEF ExactInv
    <3>2. Kind(s) = "label" => \A t \in 1 .. T : found'[<<t, m>>] = found[<<t, m>>]
      BY <2>4, <3>1
    <3>3. filed'[<<s, m>>] = filed[<<s, m>>] /\ found'[<<s, m>>] = found[<<s, m>>]
      BY <2>4, <2>6
    <3>4. ExactAt(s, m)'
      BY <2>2, <3>1, <3>2, <3>3, ExactStays
    <3> QED
      BY <2>3, <2>5, <3>1, <3>4
  <2>7. ExactAt(r, n)'
    <3> SUFFICES ASSUME ~Foreign(r, n)' PROVE (filed[<<r, n>>] = Labels(r, KOfNSeen(n)))'
      BY DEF ExactAt
    <3>1. filed'[<<r, n>>] = Labels(r, KOfNSeen(n))
      <4>1. filed'[<<r, n>>] \subseteq Labels(r, KOfNSeen(n))
        BY <2>1, LabelsAreOfMatches
      <4>2. Labels(r, KOfNSeen(n)) \subseteq filed'[<<r, n>>]
        BY <2>1, MatchesAreLabelled
      <4> QED
        BY <4>1, <4>2
    <3>2. /\ KOfNSeen(n)' = KOfNSeen(n)
          /\ \A ids : Labels(r, ids)' = Labels(r, ids)
      BY <2>2, AnswerStays
    <3>3. Labels(r, KOfNSeen(n))' = Labels(r, KOfNSeen(n))
      BY <3>2
    <3> QED
      BY <3>1, <3>3
  <2>8. Kind(r)' = "label" => \A t \in 1 .. T' : <<t, n>> \in DOMAIN filed'
    BY <2>2, <2>3, <2>5
  <2>9. ASSUME NEW place \in DOMAIN filed'
        PROVE  /\ place = <<place[1], place[2]>> /\ ExactAt(place[1], place[2])'
               /\ Kind(place[1])' = "label" =>
                     \A t \in 1 .. T' : <<t, place[2]>> \in DOMAIN filed'
    <3>1. CASE place = <<r, n>>
      <4>1. place[1] = r /\ place[2] = n
        BY <3>1
      <4> QED
        BY <2>7, <2>8, <3>1, <4>1
    <3>2. CASE place \in DOMAIN filed
      <4>1. place = <<place[1], place[2]>>
        BY <3>2 DEF ExactInv
      <4> QED
        BY <2>6, <3>2, <4>1
    <3> QED
      BY <2>3, <2>9, <3>1, <3>2
  <2> QED
    BY <2>9 DEF ExactInv
<1>2. CASE Passes \/ loadQueries \/ prepareQueries
  <2>1. found' = found /\ filed' = filed
    BY <1>2 DEF Passes, query_vars, loadQueries, prepareQueries
  <2>2. CASE ~Encrypted
    <3>1. DOMAIN filed' = {}
      BY <1>0, <2>1, <2>2 DEF EncInv, NotEncrypted
    <3> QED
      BY <3>1 DEF ExactInv
  <2>3. CASE Encrypted
    <3>1. T' = T /\ \A s : Kind(s)' = Kind(s)
      BY <2>3, AnswerStays DEF T
    <3>2. ASSUME NEW place \in DOMAIN filed
          PROVE  /\ place = <<place[1], place[2]>> /\ ExactAt(place[1], place[2])'
                 /\ Kind(place[1])' = "label" =>
                       \A t \in 1 .. T' : <<t, place[2]>> \in DOMAIN filed'
      <4>1. PICK s, m : s = place[1] /\ m = place[2]
        OBVIOUS
      <4>2. /\ place = <<s, m>> /\ ExactAt(s, m)
            /\ Kind(s) = "label" => \A t \in 1 .. T : <<t, m>> \in DOMAIN filed
        BY <4>1 DEF ExactInv
      <4>3. ExactAt(s, m)'
        BY <2>1, <2>3, <4>2, ExactStays
      <4> QED
        BY <2>1, <3>1, <4>1, <4>2, <4>3
    <3> QED
      BY <2>1, <3>2 DEF ExactInv
  <2> QED
    BY <2>2, <2>3
<1> QED
  BY <1>0, <1>1, <1>2, QueryVarsSteps

\* No false answers but by coincidence: unless a pair of points of two rows, or
\* of none, has the token, in every token round if there are several, an answer
\* holds the labels of its round of the ids that agree with its query in two
\* positions of what both parties see, and no others.
THEOREM AnswersAreExact == Spec => []ExactButForCoincidence
<1>1. Init => AnswerInv /\ ExactInv
  <2> SUFFICES ASSUME Init PROVE AnswerInv /\ ExactInv
    OBVIOUS
  <2>1. DOMAIN filed = {}
    BY DEF Init
  <2> QED
    BY <2>1, AnswerInvInit DEF ExactInv
<1>2. AnswerInv /\ ExactInv /\ [Next]_vars => ((AnswerInv /\ ExactInv) \/ Silenced)'
  BY AnswerInvNext, ExactNext, Silencing DEF Lives
<1>3. ExactInv => ExactButForCoincidence
  BY DEF ExactInv, ExactAt, ExactButForCoincidence
<1>4. Silenced /\ [Next]_vars => Silenced'
  BY SilenceStays
<1>5. Silenced => ExactButForCoincidence
  <2> SUFFICES ASSUME Silenced PROVE ExactButForCoincidence
    OBVIOUS
  <2>1. DOMAIN filed = {}
    BY DEF Silenced
  <2> QED
    BY <2>1 DEF ExactButForCoincidence
<1> QED
  BY <1>1, <1>2, <1>3, <1>4, <1>5, PTL DEF Spec

----------------------------------------------------------------------------
(* Sums of equal terms, and the keys of the bench's queries                    *)

\* The equations of the partial sums s of f, and their value if the terms are equal.
Sums(s, f, n) == \A k \in 0 .. n : s[k] = IF k = 0 THEN 0 ELSE s[k - 1] + f[k]

LEMMA SumsAgree ==
    ASSUME NEW n \in Nat, NEW c \in Int, NEW f, \A k \in 1 .. n : f[k] = c,
           NEW s, Sums(s, f, n)
    PROVE  s[n] = n * c
<1> DEFINE Wrong == {k \in 0 .. n : s[k] # k * c}
<1>1. Wrong = {}
  <2> SUFFICES ASSUME Wrong # {} PROVE FALSE
    OBVIOUS
  <2>1. Wrong \subseteq Nat
    OBVIOUS
  <2>2. PICK k \in Wrong : \A l \in Wrong : k <= l
    BY <2>1, LeastOf
  <2>3. k \in 0 .. n /\ s[k] # k * c
    BY <2>2
  <2>4. k # 0
    <3>1. s[0] = 0 /\ 0 * c = 0
      BY DEF Sums
    <3> QED
      BY <2>3, <3>1
  <2>5. k - 1 \in 0 .. n /\ k - 1 \notin Wrong /\ k \in 1 .. n
    BY <2>2, <2>3, <2>4
  <2>6. s[k - 1] = (k - 1) * c
    BY <2>5
  <2>7. s[k] = s[k - 1] + f[k] /\ f[k] = c
    BY <2>3, <2>4, <2>5 DEF Sums
  <2> QED
    BY <2>3, <2>6, <2>7
<1>2. n \in 0 .. n
  OBVIOUS
<1> QED
  BY <1>1, <1>2

LEMMA TotalOfEqual ==
    ASSUME NEW n \in Nat, NEW c \in Int, NEW f, \A k \in 1 .. n : f[k] = c
    PROVE  Total(f, n) = n * c
<1> DEFINE Is(s) == s = [k \in 0 .. n |-> IF k = 0 THEN 0 ELSE s[k - 1] + f[k]]
<1>1. \E s : Is(s)
  <2> DEFINE s == [k \in 0 .. n |-> k * c]
  <2>1. ASSUME NEW k \in 0 .. n PROVE s[k] = IF k = 0 THEN 0 ELSE s[k - 1] + f[k]
    <3>1. CASE k = 0
      BY <3>1
    <3>2. CASE k # 0
      <4>1. k - 1 \in 0 .. n /\ f[k] = c
        BY <3>2
      <4>2. s[k] = k * c /\ s[k - 1] = (k - 1) * c
        BY <4>1
      <4> QED
        BY <3>2, <4>1, <4>2
    <3> QED
      BY <3>1, <3>2
  <2>2. Is(s)
    BY <2>1
  <2> QED
    BY <2>2
<1>2. PICK sums : Is(sums) /\ Total(f, n) = sums[n]
  <2>1. Total(f, n) = (CHOOSE s : Is(s))[n]
    BY DEF Total
  <2>2. Is(CHOOSE s : Is(s))
    BY <1>1
  <2> HIDE DEF Is
  <2> QED
    BY <2>1, <2>2
<1>3. Sums(sums, f, n)
  BY <1>2 DEF Sums
<1> QED
  BY <1>2, <1>3, SumsAgree

\* Numbers that increase from 0 .. N - 1 are all of them, in their order.
LEMMA IncreasingIsAll ==
    ASSUME NEW N \in Nat, NEW f \in [1 .. N -> 0 .. N - 1], Increasing(f, N)
    PROVE  \A n \in 1 .. N : f[n] = n - 1
<1> DEFINE low == {n \in 1 .. N : f[n] < n - 1}
           high == {n \in 1 .. N : f[n] > n - 1}
<1>0. \A n \in 1 .. N : f[n] \in Int /\ f[n] >= 0 /\ f[n] <= N - 1
  OBVIOUS
<1>1. low = {}
  <2> SUFFICES ASSUME low # {} PROVE FALSE
    OBVIOUS
  <2>1. low \subseteq Nat
    OBVIOUS
  <2>2. PICK n \in low : \A m \in low : n <= m
    <3> HIDE DEF low
    <3> QED
      BY <2>1, LeastOf
  <2>3. n \in 1 .. N /\ f[n] < n - 1 /\ n # 1
    BY <1>0, <2>2
  <2>4. n - 1 \in 1 .. N /\ n - 1 \notin low
    BY <2>2, <2>3
  <2>5. f[n - 1] >= n - 2 /\ f[n - 1] < f[n]
    BY <1>0, <2>3, <2>4 DEF Increasing
  <2> QED
    BY <1>0, <2>3, <2>4, <2>5
<1>2. high = {}
  <2> SUFFICES ASSUME high # {} PROVE FALSE
    OBVIOUS
  <2>1. PICK n \in high : \A m \in high : m <= n
    <3> DEFINE below == {N - m : m \in high}
    <3>1. below \subseteq Nat /\ below # {}
      OBVIOUS
    <3>2. PICK k \in below : \A l \in below : k <= l
      <4> HIDE DEF below
      <4> QED
        BY <3>1, LeastOf
    <3>3. PICK n \in high : k = N - n
      BY <3>2
    <3>4. ASSUME NEW m \in high PROVE m <= n
      <4>1. N - m \in below
        OBVIOUS
      <4>2. N - n <= N - m
        BY <3>2, <3>3, <4>1
      <4> QED
        BY <3>3, <4>2
    <3> QED
      BY <3>3, <3>4
  <2>2. n \in 1 .. N /\ f[n] > n - 1 /\ n # N
    BY <1>0, <2>1
  <2>3. n + 1 \in 1 .. N /\ n + 1 \notin high
    BY <2>1, <2>2
  <2>4. PICK m \in 1 .. N : m = n + 1 /\ m \notin high
    BY <2>3
  <2>5. ~(f[m] > m - 1)
    BY <2>4
  <2>6. f[n] < f[m]
    BY <2>2, <2>4 DEF Increasing
  <2> QED
    BY <1>0, <2>2, <2>4, <2>5, <2>6
<1>3. ASSUME NEW n \in 1 .. N PROVE f[n] = n - 1
  <2>1. n \notin low /\ n \notin high
    BY <1>1, <1>2
  <2>2. ~(f[n] < n - 1) /\ ~(f[n] > n - 1)
    BY <2>1
  <2> QED
    BY <1>0, <2>2
<1> QED
  BY <1>3

\* So the keys of the bench's queries are the places they are at, from zero.
LEMMA BenchKeys ==
    ASSUME DOMAIN que_ss_map = 0 .. NrofQueries - 1
    PROVE  query_keys = [n \in 1 .. NrofQueries |-> n - 1]
<1>0. NrofQueries \in Nat
  BY InputsOK
<1> DEFINE ids == DOMAIN que_ss_map
           places == 1 .. Cardinality(ids)
<1>1. IsFiniteSet(ids) /\ Cardinality(ids) = NrofQueries
  <2>1. IsFiniteSet(0 .. NrofQueries - 1)
        /\ Cardinality(0 .. NrofQueries - 1) =
             IF 0 > NrofQueries - 1 THEN 0 ELSE (NrofQueries - 1) - 0 + 1
    BY <1>0, FS_Interval
  <2> QED
    BY <1>0, <2>1
<1>2. \E keys \in [places -> ids] : \A j, k \in places : j < k => keys[j] < keys[k]
  <2>1. ids \subseteq Int
    BY <1>0
  <2> QED
    BY <1>0, <1>1, <2>1, FiniteSetsSort DEF Sorts, Increasing
<1>3. /\ query_keys \in [places -> ids]
      /\ \A j, k \in places : j < k => query_keys[j] < query_keys[k]
  BY <1>2 DEF query_keys
<1>4. query_keys \in [1 .. NrofQueries -> 0 .. NrofQueries - 1] /\ Increasing(query_keys, NrofQueries)
  BY <1>1, <1>3 DEF Increasing
<1>5. \A n \in 1 .. NrofQueries : query_keys[n] = n - 1
  BY <1>0, <1>4, IncreasingIsAll
<1> QED
  BY <1>4, <1>5

----------------------------------------------------------------------------
(* The recorded bench as one list of operations                             *)

\* The operations of the bench when it records, and those that come for a query
\* with what they come before.
Bench == <<
    Step("generateDatabase", 0),
    Step("recordOfflineStepStart", "step_init"), Step("generateAesKey", 0),
    Step("recordOfflineStepEnd", "step_init"),
    Step("recordOfflineStepStart", "step_partition"), Step("parallelPartitionDB", 0),
    Step("recordOfflineStepEnd", "step_partition"),
    Step("copyQueries", 0),
    Step("recordOfflineStepStart", "step_blind"), Step("blindDatabaseOffline", 0),
    Step("recordOfflineStepEnd", "step_blind"),
    Step("recordOfflineStepStart", "step_share"), Step("setShares", 0),
    Step("recordOfflineStepEnd", "step_share"),
    Step("recordOfflineStepStart", "step_interp_pack"), Step("computeCoefficients", 1),
    Step("interpolate", 0), Step("simdPartitions", 0), Step("simd_pack", 0),
    Step("recordOfflineStepEnd", "step_interp_pack"),
    Step("blindQueries", 0), Step("encryptQueryPowers", 0), Step("round", 1),
    Step("finalize", 0)>>
Report == <<Step("round", 1), Step("finalize", 0)>>
QueryAndRest(n) == RecordedQuery(n) \o Report

\* The sequence s is what L has from its place a to its place b.
Covers(s, L, a, b) ==
    /\ IsSeq(s) /\ Len(s) = b - a + 1
    /\ \A k \in 1 .. Len(s) : s[k] = L[a + k - 1]

LEMMA OneCovers ==
    ASSUME NEW L, NEW a \in Int, NEW x, x = L[a]
    PROVE  Covers(<<x>>, L, a, a)
<1>1. <<x>> \in Seq({x}) /\ Len(<<x>>) = 1 /\ <<x>>[1] = x
  OBVIOUS
<1>2. ASSUME NEW k \in 1 .. Len(<<x>>) PROVE <<x>>[k] = L[a + k - 1]
  <2>1. k = 1 /\ a + k - 1 = a
    BY <1>1
  <2> QED
    BY <1>1, <2>1
<1>3. Len(<<x>>) = a - a + 1
  BY <1>1
<1> QED
  BY <1>1, <1>2, <1>3 DEF Covers, IsSeq

LEMMA CoversJoin ==
    ASSUME NEW L, NEW a \in Int, NEW b \in Int, NEW c \in Int, NEW s, NEW t,
           Covers(s, L, a, b), Covers(t, L, b + 1, c)
    PROVE  Covers(s \o t, L, a, c)
<1>1. /\ IsSeq(s) /\ Len(s) = b - a + 1 /\ \A k \in 1 .. Len(s) : s[k] = L[a + k - 1]
      /\ IsSeq(t) /\ Len(t) = c - b /\ \A k \in 1 .. Len(t) : t[k] = L[b + k]
  BY DEF Covers
<1>2. Len(s) \in Nat /\ Len(t) \in Nat
  BY <1>1, SeqBasics
<1>3. /\ IsSeq(s \o t) /\ DOMAIN (s \o t) = 1 .. Len(s) + Len(t)
      /\ \A k \in DOMAIN (s \o t) : (s \o t)[k] = IF k <= Len(s) THEN s[k] ELSE t[k - Len(s)]
  BY <1>1, ConcatBasics
<1>4. Len(s \o t) = c - a + 1
  <2>1. Len(s \o t) \in Nat /\ DOMAIN (s \o t) = 1 .. Len(s \o t)
    BY <1>3, SeqBasics
  <2>2. Len(s \o t) = Len(s) + Len(t)
    BY <1>2, <1>3, <2>1
  <2> QED
    BY <1>1, <2>2
<1>5. ASSUME NEW k \in 1 .. Len(s \o t) PROVE (s \o t)[k] = L[a + k - 1]
  <2>1. k \in DOMAIN (s \o t) /\ k \in Int
    BY <1>3, SeqBasics
  <2>2. CASE k <= Len(s)
    BY <1>1, <1>2, <1>3, <2>1, <2>2
  <2>3. CASE ~(k <= Len(s))
    <3>1. (s \o t)[k] = t[k - Len(s)] /\ k - Len(s) \in 1 .. Len(t)
      BY <1>2, <1>3, <2>1, <2>3
    <3>2. t[k - Len(s)] = L[b + (k - Len(s))] /\ b + (k - Len(s)) = a + k - 1
      BY <1>1, <2>1, <3>1
    <3> QED
      BY <3>1, <3>2
  <2> QED
    BY <2>2, <2>3
<1> QED
  BY <1>3, <1>4, <1>5 DEF Covers

\* The operation to be done next, and the rest after it.
LEMMA CoversTail ==
    ASSUME NEW L, NEW a \in Int, NEW b \in Int, a <= b, NEW s, Covers(s, L, a, b)
    PROVE  s # <<>> /\ Head(s) = L[a] /\ Covers(Tail(s), L, a + 1, b)
<1>1. IsSeq(s) /\ Len(s) = b - a + 1 /\ \A k \in 1 .. Len(s) : s[k] = L[a + k - 1]
  BY DEF Covers
<1>2. s # <<>>
  BY <1>1
<1>3. /\ IsSeq(Tail(s)) /\ Len(Tail(s)) = Len(s) - 1 /\ Head(s) = s[1]
      /\ \A k \in 1 .. Len(s) - 1 : Tail(s)[k] = s[k + 1]
  BY <1>1, <1>2, SeqBasics
<1>4. Head(s) = L[a]
  <2>1. 1 \in 1 .. Len(s) /\ a + 1 - 1 = a
    BY <1>1
  <2> QED
    BY <1>1, <1>3, <2>1
<1>5. ASSUME NEW k \in 1 .. Len(Tail(s)) PROVE Tail(s)[k] = L[(a + 1) + k - 1]
  <2>1. k + 1 \in 1 .. Len(s) /\ k \in 1 .. Len(s) - 1 /\ a + (k + 1) - 1 = (a + 1) + k - 1
    BY <1>1, <1>3
  <2> QED
    BY <1>1, <1>3, <2>1
<1> QED
  BY <1>1, <1>2, <1>3, <1>4, <1>5 DEF Covers

\* Nothing is left of what is covered.
LEMMA CoversNothing ==
    ASSUME NEW L, NEW b \in Int, NEW s, Covers(s, L, b + 1, b) PROVE s = <<>>
<1>1. IsSeq(s) /\ Len(s) = 0
  BY DEF Covers
<1>2. s # <<>> => Len(s) > 0
  BY <1>1, SeqBasics
<1> QED
  BY <1>1, <1>2

LEMMA BenchAt ==
    /\ Bench[1] = Step("generateDatabase", 0)
    /\ Bench[2] = Step("recordOfflineStepStart", "step_init")
    /\ Bench[3] = Step("generateAesKey", 0)
    /\ Bench[4] = Step("recordOfflineStepEnd", "step_init")
    /\ Bench[5] = Step("recordOfflineStepStart", "step_partition")
    /\ Bench[6] = Step("parallelPartitionDB", 0)
    /\ Bench[7] = Step("recordOfflineStepEnd", "step_partition")
    /\ Bench[8] = Step("copyQueries", 0)
    /\ Bench[9] = Step("recordOfflineStepStart", "step_blind")
    /\ Bench[10] = Step("blindDatabaseOffline", 0)
    /\ Bench[11] = Step("recordOfflineStepEnd", "step_blind")
    /\ Bench[12] = Step("recordOfflineStepStart", "step_share")
    /\ Bench[13] = Step("setShares", 0)
    /\ Bench[14] = Step("recordOfflineStepEnd", "step_share")
    /\ Bench[15] = Step("recordOfflineStepStart", "step_interp_pack")
    /\ Bench[16] = Step("computeCoefficients", 1)
    /\ Bench[17] = Step("interpolate", 0)
    /\ Bench[18] = Step("simdPartitions", 0)
    /\ Bench[19] = Step("simd_pack", 0)
    /\ Bench[20] = Step("recordOfflineStepEnd", "step_interp_pack")
    /\ Bench[21] = Step("blindQueries", 0)
    /\ Bench[22] = Step("encryptQueryPowers", 0)
    /\ Bench[23] = Step("round", 1)
    /\ Bench[24] = Step("finalize", 0)
  BY DEF Bench

LEMMA TimedCovers ==
    ASSUME program.timed, NEW section, NEW ops, NEW a \in Int, NEW b \in Int,
           Bench[a] = Step("recordOfflineStepStart", section), Covers(ops, Bench, a + 1, b),
           Bench[b + 1] = Step("recordOfflineStepEnd", section)
    PROVE  Covers(Timed(section, ops), Bench, a, b + 1)
<1>1. Covers(<<Step("recordOfflineStepStart", section)>>, Bench, a, a)
  BY OneCovers
<1>2. Covers(<<Step("recordOfflineStepStart", section)>> \o ops, Bench, a, b)
  BY <1>1, CoversJoin
<1>3. Covers(<<Step("recordOfflineStepEnd", section)>>, Bench, b + 1, b + 1)
  BY OneCovers
<1>4. Covers((<<Step("recordOfflineStepStart", section)>> \o ops)
               \o <<Step("recordOfflineStepEnd", section)>>, Bench, a, b + 1)
  BY <1>2, <1>3, CoversJoin
<1> QED
  BY <1>4 DEF Timed

LEMMA BenchIsTheList ==
    ASSUME program.name = "bench", program.timed PROVE Covers(Steps, Bench, 1, 24)
<1> USE DEF Op
<1>1. Covers(Op("generateDatabase"), Bench, 1, 1) /\ Covers(Op("copyQueries"), Bench, 8, 8)
  BY BenchAt, OneCovers
<1>2. /\ Covers(Op("generateAesKey"), Bench, 3, 3)
      /\ Covers(Op("parallelPartitionDB"), Bench, 6, 6)
      /\ Covers(Op("blindDatabaseOffline"), Bench, 10, 10)
      /\ Covers(Op("setShares"), Bench, 13, 13)
  BY BenchAt, OneCovers
<1>3. /\ Covers(<<Step("computeCoefficients", 1)>>, Bench, 16, 16)
      /\ Covers(Op("interpolate"), Bench, 17, 17)
      /\ Covers(Op("simdPartitions"), Bench, 18, 18)
      /\ Covers(Op("simd_pack"), Bench, 19, 19)
  BY BenchAt, OneCovers
<1>4. /\ Covers(Op("blindQueries"), Bench, 21, 21)
      /\ Covers(Op("encryptQueryPowers"), Bench, 22, 22)
      /\ Covers(<<Step("round", 1)>>, Bench, 23, 23)
      /\ Covers(Op("finalize"), Bench, 24, 24)
  BY BenchAt, OneCovers
<1> USE <1>1, <1>2, <1>3, <1>4
<1> HIDE DEF Op
<1>5. /\ Covers(Timed("step_init", Op("generateAesKey")), Bench, 2, 4)
      /\ Covers(Timed("step_partition", Op("parallelPartitionDB")), Bench, 5, 7)
  <2>1. Covers(Timed("step_init", Op("generateAesKey")), Bench, 2, 3 + 1)
    BY BenchAt, TimedCovers
  <2>2. Covers(Timed("step_partition", Op("parallelPartitionDB")), Bench, 5, 6 + 1)
    BY BenchAt, TimedCovers
  <2> QED
    BY <2>1, <2>2
<1>6. /\ Covers(Timed("step_blind", Op("blindDatabaseOffline")), Bench, 9, 11)
      /\ Covers(Timed("step_share", Op("setShares")), Bench, 12, 14)
  <2>1. Covers(Timed("step_blind", Op("blindDatabaseOffline")), Bench, 9, 10 + 1)
    BY BenchAt, TimedCovers
  <2>2. Covers(Timed("step_share", Op("setShares")), Bench, 12, 13 + 1)
    BY BenchAt, TimedCovers
  <2> QED
    BY <2>1, <2>2
<1> DEFINE interp == <<Step("computeCoefficients", 1)>> \o Op("interpolate")
                       \o Op("simdPartitions") \o Op("simd_pack")
<1>7. Covers(Timed("step_interp_pack", interp), Bench, 15, 20)
  <2>1. Covers(<<Step("computeCoefficients", 1)>> \o Op("interpolate"), Bench, 16, 17)
    BY CoversJoin
  <2>2. Covers(<<Step("computeCoefficients", 1)>> \o Op("interpolate")
                 \o Op("simdPartitions"), Bench, 16, 18)
    BY <2>1, CoversJoin
  <2>3. Covers(interp, Bench, 16, 19)
    BY <2>2, CoversJoin
  <2> HIDE DEF interp
  <2>4. Covers(Timed("step_interp_pack", interp), Bench, 15, 19 + 1)
    BY <2>3, BenchAt, TimedCovers
  <2> QED
    BY <2>4
<1>8. Covers(CopyAndBlind, Bench, 8, 11)
  BY <1>6, CoversJoin DEF CopyAndBlind
<1> DEFINE front == Op("generateDatabase")
                      \o Timed("step_init", Op("generateAesKey"))
                      \o Timed("step_partition", Op("parallelPartitionDB"))
                      \o CopyAndBlind
                      \o Timed("step_share", Op("setShares"))
           back == Op("blindQueries") \o Op("encryptQueryPowers")
<1>9. Covers(front, Bench, 1, 14)
  <2>1. Covers(Op("generateDatabase") \o Timed("step_init", Op("generateAesKey")), Bench, 1, 4)
    BY <1>5, CoversJoin
  <2>2. Covers(Op("generateDatabase") \o Timed("step_init", Op("generateAesKey"))
                 \o Timed("step_partition", Op("parallelPartitionDB")), Bench, 1, 7)
    BY <1>5, <2>1, CoversJoin
  <2>3. Covers(Op("generateDatabase") \o Timed("step_init", Op("generateAesKey"))
                 \o Timed("step_partition", Op("parallelPartitionDB")) \o CopyAndBlind,
               Bench, 1, 11)
    BY <1>8, <2>2, CoversJoin
  <2> QED
    BY <1>6, <2>3, CoversJoin
<1> HIDE DEF front, interp
<1>10. Covers(front \o Timed("step_interp_pack", interp), Bench, 1, 20)
  BY <1>7, <1>9, CoversJoin
<1>11. Covers(front \o Timed("step_interp_pack", interp) \o Op("blindQueries"), Bench, 1, 21)
  BY <1>10, CoversJoin
<1>12. Covers(front \o Timed("step_interp_pack", interp) \o Op("blindQueries")
                \o Op("encryptQueryPowers"), Bench, 1, 22)
  BY <1>11, CoversJoin
<1>13. Covers(front \o Timed("step_interp_pack", interp) \o Op("blindQueries")
                \o Op("encryptQueryPowers") \o <<Step("round", 1)>>, Bench, 1, 23)
  BY <1>12, CoversJoin
<1>14. Covers(front \o Timed("step_interp_pack", interp) \o Op("blindQueries")
                \o Op("encryptQueryPowers") \o <<Step("round", 1)>> \o Op("finalize"),
              Bench, 1, 24)
  BY <1>13, CoversJoin
<1>15. BenchSteps = front \o Timed("step_interp_pack", interp) \o Op("blindQueries")
                      \o Op("encryptQueryPowers") \o <<Step("round", 1)>> \o Op("finalize")
  BY DEF BenchSteps, front, interp, SubStep
<1> QED
  BY <1>14, <1>15 DEF Steps

----------------------------------------------------------------------------
(* What each operation of the recorded bench does to the report             *)

RecordOps ==
    {"recordOfflineStepStart", "recordOfflineStepEnd", "interpolate", "simd_pack",
     "startQuery", "recordStepGC", "recordStepQueryPowers", "startHomRound",
     "ctxt_inner_product", "wall", "recordHomRoundReceiverSubStep", "endHomRound",
     "recordStepTokenCheck", "recordStepLabelRecovery", "recordQueryResult", "endQuery",
     "finalize"}

\* The next operation decides which action it is.
LEMMA ActionsByOp ==
    ASSUME started, todo # <<>>
    PROVE  /\ \A o : Doing(o) <=> o = Head(todo).op
           /\ ~applyToGlobals /\ ~Exit
           /\ ChooseDatabase => Head(todo).op \in {"generateDatabase", "buildEnrMap"}
           /\ loadEnrollmentCSV => Head(todo).op = "loadEnrollmentCSV"
           /\ shareAgain => Head(todo).op = "shareAgain"
           /\ clearShares => Head(todo).op = "clearShares"
           /\ setShares => Head(todo).op = "setShares"
           /\ generateAesKey => Head(todo).op = "generateAesKey"
           /\ blindDatabaseOffline => Head(todo).op = "blindDatabaseOffline"
           /\ parallelPartitionDB => Head(todo).op = "parallelPartitionDB"
           /\ computeCoefficients => Head(todo).op \in Computes
           /\ simdPartitions => Head(todo).op = "simdPartitions"
           /\ loadQueries => Head(todo).op \in {"loadQueryCSV", "chooseProbes", "copyQueries"}
           /\ prepareQueries =>
                 Head(todo).op \in {"blindQueries", "encryptQueryPowers", "blindForRound"}
           /\ submitQuery => Head(todo).op = "round" /\ ~program.timed
           /\ endRound => Head(todo).op = "round"
           /\ submitRecordedQuery => Head(todo).op = "round"
           /\ findRecordedMatches => Head(todo).op = "findMatches"
           /\ record => Head(todo).op \in RecordOps
<1>1. \A o : Doing(o) <=> o = Head(todo).op
  BY DEF Doing
<1>2. ~applyToGlobals /\ ~Exit
  BY DEF applyToGlobals, Exit, Done
<1>3. /\ ChooseDatabase => Head(todo).op \in {"generateDatabase", "buildEnrMap"}
      /\ loadEnrollmentCSV => Head(todo).op = "loadEnrollmentCSV"
      /\ shareAgain => Head(todo).op = "shareAgain"
      /\ clearShares => Head(todo).op = "clearShares"
      /\ setShares => Head(todo).op = "setShares"
  BY <1>1 DEF ChooseDatabase, loadEnrollmentCSV, shareAgain, clearShares, setShares
<1>4. /\ generateAesKey => Head(todo).op = "generateAesKey"
      /\ blindDatabaseOffline => Head(todo).op = "blindDatabaseOffline"
      /\ parallelPartitionDB => Head(todo).op = "parallelPartitionDB"
      /\ computeCoefficients => Head(todo).op \in Computes
      /\ simdPartitions => Head(todo).op = "simdPartitions"
  BY <1>1 DEF generateAesKey, blindDatabaseOffline, parallelPartitionDB, computeCoefficients,
              Computes, simdPartitions
<1>5. /\ loadQueries => Head(todo).op \in {"loadQueryCSV", "chooseProbes", "copyQueries"}
      /\ prepareQueries =>
            Head(todo).op \in {"blindQueries", "encryptQueryPowers", "blindForRound"}
  BY <1>1 DEF loadQueries, prepareQueries
<1>6. /\ submitQuery => Head(todo).op = "round" /\ ~program.timed
      /\ endRound => Head(todo).op = "round"
      /\ submitRecordedQuery => Head(todo).op = "round"
      /\ findRecordedMatches => Head(todo).op = "findMatches"
  BY <1>1 DEF submitQuery, endRound, submitRecordedQuery, findRecordedMatches
<1>7. record => Head(todo).op \in RecordOps
  BY <1>1 DEF record, RecordOps
<1> QED
  BY <1>1, <1>2, <1>3, <1>4, <1>5, <1>6, <1>7

\* An operation that takes time and leaves the recorder alone.
Silent(us) ==
    /\ Advance /\ clock' = clock + us
    /\ UNCHANGED <<instrumentation_vars, filed>>

LEMMA BenchOperations ==
    ASSUME started, todo # <<>>, program.timed, ~crashed', Lives
    PROVE  /\ Head(todo).op = "generateDatabase" =>
                 Advance /\ UNCHANGED <<instrumentation_vars, filed, clock, que_ss_map, encrypted>>
           /\ Head(todo).op \in {"generateAesKey", "parallelPartitionDB", "blindDatabaseOffline",
                                 "setShares", "computeCoefficients"} =>
                 Silent(1) /\ UNCHANGED <<que_ss_map, encrypted>>
           /\ Head(todo).op = "simdPartitions" =>
                 Silent(PackCost) /\ UNCHANGED <<que_ss_map, encrypted>>
           /\ Head(todo).op = "copyQueries" =>
                 /\ Advance /\ UNCHANGED <<instrumentation_vars, filed, clock, encrypted>>
                 /\ DOMAIN que_ss_map' = 0 .. NrofQueries - 1
           /\ Head(todo).op = "blindQueries" =>
                 Silent(GcCost) /\ DOMAIN que_ss_map' = DOMAIN que_ss_map /\ encrypted' = encrypted
           /\ Head(todo).op = "encryptQueryPowers" =>
                 /\ Advance /\ UNCHANGED <<instrumentation_vars, filed, clock, que_ss_map>>
                 /\ encrypted' = InKeyOrder(que_ss_map)
           /\ Head(todo).op = "round" => endRound \/ submitRecordedQuery
           /\ Head(todo).op = "findMatches" => findRecordedMatches
           /\ Head(todo).op \in RecordOps => record
<1>0. \A o : Doing(o) <=> o = Head(todo).op
  BY ActionsByOp
<1> USE DEF query_vars
<1>1. CASE Head(todo).op = "generateDatabase"
  <2>1. ChooseDatabase
    BY <1>1, ActionsByOp DEF Lives, Next, Computes, RecordOps
  <2> QED
    BY <1>1, <2>1 DEF ChooseDatabase, RecordOps
<1>2. CASE Head(todo).op = "generateAesKey"
  <2>1. generateAesKey
    BY <1>2, ActionsByOp DEF Lives, Next, Computes, RecordOps
  <2> QED
    BY <1>2, <2>1 DEF generateAesKey, RecordOps, Silent, Work
<1>3. CASE Head(todo).op = "parallelPartitionDB"
  <2>1. parallelPartitionDB
    BY <1>3, ActionsByOp DEF Lives, Next, Computes, RecordOps
  <2> QED
    BY <1>3, <2>1 DEF parallelPartitionDB, RecordOps, Silent, Work
<1>4. CASE Head(todo).op = "blindDatabaseOffline"
  <2>1. blindDatabaseOffline
    BY <1>4, ActionsByOp DEF Lives, Next, Computes, RecordOps
  <2> QED
    BY <1>4, <2>1 DEF blindDatabaseOffline, RecordOps, Silent, Work
<1>5. CASE Head(todo).op = "setShares"
  <2>1. setShares
    BY <1>5, ActionsByOp DEF Lives, Next, Computes, RecordOps
  <2> QED
    BY <1>5, <2>1 DEF setShares, RecordOps, Silent, Work
<1>6. CASE Head(todo).op = "computeCoefficients"
  <2>1. computeCoefficients
    BY <1>6, ActionsByOp DEF Lives, Next, Computes, RecordOps
  <2>2. Advance
    BY <2>1 DEF computeCoefficients, ComputeSet, Die
  <2> QED
    BY <1>6, <2>1, <2>2 DEF computeCoefficients, RecordOps, Silent, Work
<1>7. CASE Head(todo).op = "simdPartitions"
  <2>1. simdPartitions
    BY <1>7, ActionsByOp DEF Lives, Next, Computes, RecordOps
  <2> QED
    BY <1>7, <2>1 DEF simdPartitions, RecordOps, Silent, Work
<1>8. CASE Head(todo).op = "copyQueries"
  <2>1. loadQueries
    BY <1>8, ActionsByOp DEF Lives, Next, Computes, RecordOps
  <2>2. Doing("copyQueries") /\ ~Doing("loadQueryCSV") /\ ~Doing("chooseProbes")
    BY <1>0, <1>8
  <2> QED
    BY <1>8, <2>1, <2>2 DEF loadQueries, RecordOps
<1>9. CASE Head(todo).op \in {"blindQueries", "encryptQueryPowers"}
  <2>1. prepareQueries
    BY <1>9, ActionsByOp DEF Lives, Next, Computes, RecordOps
  <2>2. ~Doing("blindForRound") /\ (Doing("blindQueries") <=> Head(todo).op = "blindQueries")
    BY <1>0, <1>9
  <2>3. /\ Advance /\ UNCHANGED <<instrumentation_vars, filed>>
        /\ \/ /\ Head(todo).op = "blindQueries" /\ que_ss_map' = Blinded(que_ss_map)
              /\ Work(GcCost) /\ encrypted' = encrypted
           \/ /\ Head(todo).op = "encryptQueryPowers"
              /\ encrypted' = InKeyOrder(que_ss_map) /\ UNCHANGED <<que_ss_map, clock>>
    BY <1>9, <2>1, <2>2, <1>0 DEF prepareQueries
  <2> QED
    BY <1>9, <2>3 DEF RecordOps, Silent, Work, Blinded
<1>10. CASE Head(todo).op = "round"
  BY <1>10, ActionsByOp DEF Lives, Next, Computes, RecordOps
<1>11. CASE Head(todo).op = "findMatches"
  BY <1>11, ActionsByOp DEF Lives, Next, Computes, RecordOps
<1>12. CASE Head(todo).op \in RecordOps
  <2>1. record
    BY <1>12, ActionsByOp DEF Lives, Next, Computes, RecordOps
  <2> QED
    BY <1>12, <2>1 DEF RecordOps
<1> QED
  BY <1>1, <1>2, <1>3, <1>4, <1>5, <1>6, <1>7, <1>8, <1>9, <1>10, <1>11, <1>12

\* Which call of the recorder is made.
Recorded(us) == Advance /\ clock' = clock + us /\ UNCHANGED <<filed, que_ss_map, encrypted>>
LEMMA RecordCalls ==
    ASSUME started, todo # <<>>, program.timed, record
    PROVE  /\ Head(todo).op = "recordOfflineStepStart" =>
                 recordOfflineStepStart(On, clock) /\ Recorded(0)
           /\ Head(todo).op = "recordOfflineStepEnd" =>
                 recordOfflineStepEnd(On, clock) /\ Recorded(0)
           /\ Head(todo).op = "interpolate" =>
                 recordSubStepTiming("interpolate", 1) /\ Recorded(0)
           /\ Head(todo).op = "simd_pack" =>
                 recordSubStepTiming("simd_pack", PackCost) /\ Recorded(0)
           /\ Head(todo).op = "startQuery" => startQuery(query_keys[On]) /\ Recorded(0)
           /\ Head(todo).op = "recordStepGC" => recordStepGC(GcShare) /\ Recorded(0)
           /\ Head(todo).op = "recordStepQueryPowers" =>
                 recordStepQueryPowers(PowersCost) /\ Recorded(PowersCost)
           /\ Head(todo).op = "startHomRound" =>
                 startHomRound /\ Recorded(HomCost + DecryptCost)
           /\ Head(todo).op = "ctxt_inner_product" =>
                 recordHomRoundSenderSubStep("ctxt_inner_product", HomCost) /\ Recorded(0)
           /\ Head(todo).op = "wall" =>
                 recordHomRoundSenderSubStep("wall", HomCost) /\ Recorded(0)
           /\ Head(todo).op = "recordHomRoundReceiverSubStep" =>
                 recordHomRoundReceiverSubStep(DecryptCost) /\ Recorded(0)
           /\ Head(todo).op = "endHomRound" => endHomRound /\ Recorded(0)
           /\ Head(todo).op = "recordStepTokenCheck" => recordStepTokenCheck(1) /\ Recorded(0)
           /\ Head(todo).op = "recordStepLabelRecovery" =>
                 recordStepLabelRecovery(0) /\ Recorded(0)
           /\ Head(todo).op = "recordQueryResult" =>
                 recordQueryResult(filed[<<1, On>>]) /\ Recorded(0)
           /\ Head(todo).op = "endQuery" => endQuery /\ Recorded(0)
           /\ Head(todo).op = "finalize" => finalize /\ Recorded(0)
<1>1. \A o : Doing(o) <=> o = Head(todo).op
  BY ActionsByOp
<1>2. Advance /\ UNCHANGED <<filed, que_ss_map, encrypted>>
  BY DEF record, query_vars
<1>3. \A us : Work(us) <=> clock' = clock + us
  BY DEF Work
<1> HIDE DEF Work, Advance
<1> QED
  BY <1>1, <1>2, <1>3 DEF record, Recorded

----------------------------------------------------------------------------
(* The report as it is written                                              *)

\* Where the sections are among the operations, and how long each takes.
StartOf(section) ==
    CASE section = "step_init" -> 2 [] section = "step_partition" -> 5
      [] section = "step_blind" -> 9 [] section = "step_share" -> 12
      [] section = "step_interp_pack" -> 15
EndOf(section) ==
    CASE section = "step_init" -> 4 [] section = "step_partition" -> 7
      [] section = "step_blind" -> 11 [] section = "step_share" -> 14
      [] section = "step_interp_pack" -> 20
WallOf(section) == IF section = "step_interp_pack" THEN 1 + PackCost ELSE 1

\* The work that is done before the operation at j, and before the queries.
One(b) == IF b THEN 1 ELSE 0
ClockAt(j) ==
    One(j > 3) + One(j > 6) + One(j > 10) + One(j > 13) + One(j > 16)
      + (IF j > 18 THEN PackCost ELSE 0) + (IF j > 21 THEN GcCost ELSE 0)
OfflineCost == 5 + PackCost + GcCost

\* The recorder before the operation at j.
SubStepsAt(j) ==
    [x \in SubSteps |-> IF x = "interpolate" /\ j > 17 THEN 1
                        ELSE IF x = "simd_pack" /\ j > 19 THEN PackCost ELSE 0]
OfflineAt(j) ==
    [section \in OfflineSteps |-> IF j > EndOf(section) THEN WallOf(section) ELSE 0]
NothingAsked ==
    /\ queries = <<>> /\ current_query_id_ = nullopt /\ current_round_idx_ = nullopt
    /\ session_wall_us = 0 /\ filed = <<>>
OfflineState(j) ==
    /\ clock = ClockAt(j)
    /\ DOMAIN step_timers_ = OfflineSteps
    /\ step_timers_ = [section \in OfflineSteps |-> step_timers_[section]]
    /\ \A section \in OfflineSteps :
          StartOf(section) < j /\ j <= EndOf(section) =>
             step_timers_[section] = ClockAt(StartOf(section))
    /\ sub_steps = SubStepsAt(j)
    /\ offline = OfflineAt(j)
    /\ NothingAsked
    /\ j > 8 => DOMAIN que_ss_map = 0 .. NrofQueries - 1

\* The record of query m before operation i of it.
Round(inner, wall, decrypt) ==
    [s |-> [x \in SenderSubSteps |-> IF x = "ctxt_inner_product" THEN inner
                                    ELSE IF x = "wall" THEN wall ELSE 0],
     r_decrypt_us |-> decrypt]
RoundAt(i) ==
    Round(IF i > 5 THEN HomCost ELSE 0, IF i > 6 THEN HomCost ELSE 0,
          IF i > 7 THEN DecryptCost ELSE 0)
Record(query_id, gc, powers, rounds, check, labels) ==
    [query_id |-> query_id, gc_us |-> gc, r_encrypt_us |-> powers, hom_rounds |-> rounds,
     token_check_us |-> check, label_recovery_us |-> 0, labels |-> labels,
     online_wall_us |-> 0]
RecordAt(m, i) ==
    Record(m - 1, IF i > 2 THEN GcShare ELSE 0, IF i > 3 THEN PowersCost ELSE 0,
           IF i > 4 THEN <<RoundAt(i)>> ELSE <<>>, IF i > 10 THEN 1 ELSE 0,
           IF i > 12 THEN filed[<<1, m>>] ELSE {})

\* The work done for a query before operation i of it, and all of it.
QueryCost == PowersCost + HomCost + DecryptCost + 1
SpentAt(i) ==
    (IF i > 3 THEN PowersCost ELSE 0) + (IF i > 4 THEN HomCost + DecryptCost ELSE 0)
      + One(i > 9)

\* The records before operation i of query n; the queries before it are done.
RecordsTo(n, i) ==
    /\ IsSeq(queries)
    /\ Len(queries) = IF i > 1 THEN n ELSE n - 1
    /\ \A m \in 1 .. Len(queries) : queries[m] = RecordAt(m, IF m < n THEN 15 ELSE i)
FiledTo(n, i) == DOMAIN filed = {<<1, m>> : m \in 1 .. IF i > 9 THEN n ELSE n - 1}
QueryState(n, i) ==
    /\ clock = OfflineCost + (n - 1) * QueryCost + SpentAt(i)
    /\ offline = OfflineAt(21)
    /\ RecordsTo(n, i)
    /\ current_query_id_ = IF i \in 2 .. 13 THEN n - 1 ELSE nullopt
    /\ current_round_idx_ = IF i \in 5 .. 8 THEN 0 ELSE nullopt
    /\ session_wall_us = 0
    /\ DOMAIN que_ss_map = 0 .. NrofQueries - 1
    /\ DOMAIN encrypted = 1 .. NrofQueries /\ Len(encrypted) = NrofQueries
    /\ FiledTo(n, i)

\* Where the bench stands: before the start, offline, in a query or between two,
\* and after the report.
AtStart == ~started /\ OfflineState(1)
AtOffline(j) == started /\ Covers(todo, Bench, j, 24) /\ OfflineState(j)
AtQuery(n, i) ==
    /\ started /\ Covers(todo, QueryAndRest(n), i, 15) /\ QueryState(n, i)
    /\ n = NrofQueries \/ i # 15
    /\ n # 0 \/ i \in {14, 15}
EndState ==
    /\ Len(queries) = NrofQueries /\ DOMAIN queries = 1 .. NrofQueries
    /\ \A m \in 1 .. NrofQueries :
          queries[m] = [RecordAt(m, 15) EXCEPT !.online_wall_us = GcShare + QueryCost]
    /\ offline = OfflineAt(21)
    /\ session_wall_us = 5 + PackCost + NrofQueries * (GcShare + QueryCost)
    /\ clock = OfflineCost + NrofQueries * QueryCost
    /\ DOMAIN que_ss_map = 0 .. NrofQueries - 1 /\ Len(encrypted) = NrofQueries
AtEnd == started /\ todo = <<>> /\ EndState
Reporting ==
    \/ AtStart
    \/ \E j \in 1 .. 22 : AtOffline(j)
    \/ \E n \in 0 .. NrofQueries, i \in 1 .. 15 : AtQuery(n, i)
    \/ AtEnd
Unreported == started /\ todo = <<>> /\ session_wall_us \in Nat
ReportInv == program.timed => IF crashed THEN Unreported ELSE Reporting

\* What does not change between two operations.
LEMMA Sections ==
    ASSUME NEW section \in OfflineSteps
    PROVE  /\ StartOf(section) \in Int /\ EndOf(section) \in Int
           /\ StartOf(section) \in {2, 5, 9, 12, 15} /\ EndOf(section) \in {4, 7, 11, 14, 20}
           /\ WallOf(section) \in Nat \ {0}
           /\ \A other \in OfflineSteps : other # section =>
                 StartOf(other) # StartOf(section) /\ EndOf(other) # EndOf(section)
<1>1. PackCost \in Nat \ {0}
  BY CostsOK
<1> QED
  BY <1>1 DEF OfflineSteps, StartOf, EndOf, WallOf

LEMMA OfflineSame ==
    ASSUME NEW j \in 1 .. 22
    PROVE  /\ j \notin {4, 7, 11, 14, 20} => OfflineAt(j + 1) = OfflineAt(j)
           /\ j \notin {17, 19} => SubStepsAt(j + 1) = SubStepsAt(j)
<1>1. ASSUME j \notin {4, 7, 11, 14, 20}, NEW section \in OfflineSteps
      PROVE  j + 1 > EndOf(section) <=> j > EndOf(section)
  BY <1>1, Sections
<1>2. j \notin {17, 19} => (j + 1 > 17 <=> j > 17) /\ (j + 1 > 19 <=> j > 19)
  OBVIOUS
<1> QED
  BY <1>1, <1>2 DEF OfflineAt, SubStepsAt

LEMMA Clocks ==
    /\ ClockAt(1) = 0 /\ ClockAt(2) = 0 /\ ClockAt(3) = 0
    /\ ClockAt(4) = 1 /\ ClockAt(5) = 1 /\ ClockAt(6) = 1
    /\ ClockAt(7) = 2 /\ ClockAt(8) = 2 /\ ClockAt(9) = 2 /\ ClockAt(10) = 2
    /\ ClockAt(11) = 3 /\ ClockAt(12) = 3 /\ ClockAt(13) = 3
    /\ ClockAt(14) = 4 /\ ClockAt(15) = 4 /\ ClockAt(16) = 4
    /\ ClockAt(17) = 5 /\ ClockAt(18) = 5
    /\ ClockAt(19) = 5 + PackCost /\ ClockAt(20) = 5 + PackCost /\ ClockAt(21) = 5 + PackCost
    /\ ClockAt(22) = OfflineCost /\ ClockAt(23) = OfflineCost
<1>1. PackCost \in Int /\ GcCost \in Int
  BY CostsOK
<1> QED
  BY <1>1 DEF ClockAt, One, OfflineCost

\* An operation that the recorder does not see.
LEMMA SilentKeeps ==
    ASSUME NEW j \in {1, 3, 6, 8, 10, 13, 16, 18, 21, 22}, OfflineState(j),
           clock' = ClockAt(j + 1), UNCHANGED <<instrumentation_vars, filed>>,
           j > 7 => DOMAIN que_ss_map' = 0 .. NrofQueries - 1
    PROVE  OfflineState(j + 1)'
<1>0. j \in 1 .. 22 /\ j \notin {4, 7, 11, 14, 20} /\ j \notin {17, 19}
  OBVIOUS
<1>1. OfflineAt(j + 1) = OfflineAt(j) /\ SubStepsAt(j + 1) = SubStepsAt(j)
  BY <1>0, OfflineSame
<1>2. UNCHANGED <<step_timers_, sub_steps, offline, queries, current_query_id_,
                  current_round_idx_, session_wall_us, filed>>
  BY DEF instrumentation_vars
<1>3. ASSUME NEW section \in OfflineSteps, StartOf(section) < j + 1, j + 1 <= EndOf(section)
      PROVE  step_timers_'[section] = ClockAt(StartOf(section))
  <2>1. StartOf(section) < j /\ j <= EndOf(section)
    BY <1>3, Sections
  <2> QED
    BY <1>2, <2>1 DEF OfflineState
<1>4. j + 1 > 8 <=> j > 7
  OBVIOUS
<1>5. /\ sub_steps' = SubStepsAt(j + 1) /\ offline' = OfflineAt(j + 1)
      /\ DOMAIN step_timers_' = OfflineSteps
      /\ step_timers_' = [section \in OfflineSteps |-> step_timers_'[section]]
      /\ NothingAsked'
  BY <1>1, <1>2 DEF OfflineState, NothingAsked
<1> HIDE DEF instrumentation_vars
<1> QED
  BY <1>3, <1>4, <1>5 DEF OfflineState

LEMMA StartKeeps ==
    ASSUME NEW section \in OfflineSteps, NEW j, j = StartOf(section), OfflineState(j),
           recordOfflineStepStart(section, clock),
           UNCHANGED <<clock, filed, que_ss_map>>
    PROVE  OfflineState(j + 1)'
<1>0. j \in {2, 5, 9, 12, 15} /\ j \in 1 .. 22
  BY Sections
<1>1. OfflineAt(j + 1) = OfflineAt(j) /\ SubStepsAt(j + 1) = SubStepsAt(j)
  BY <1>0, OfflineSame
<1>2. /\ UNCHANGED <<sub_steps, offline, queries, current_query_id_,
                     current_round_idx_, session_wall_us, filed>>
      /\ step_timers_' = [step_timers_ EXCEPT ![section] = clock]
  BY DEF recordOfflineStepStart
<1>3. ASSUME NEW other \in OfflineSteps, StartOf(other) < j + 1, j + 1 <= EndOf(other)
      PROVE  step_timers_'[other] = ClockAt(StartOf(other))
  <2>1. CASE other = section
    BY <1>2, <2>1 DEF OfflineState
  <2>2. CASE other # section
    <3>1. StartOf(other) < j /\ j <= EndOf(other)
      BY <1>0, <1>3, <2>2, Sections
    <3>2. step_timers_'[other] = step_timers_[other]
      BY <1>2, <2>2 DEF OfflineState
    <3> QED
      BY <3>1, <3>2 DEF OfflineState
  <2> QED
    BY <2>1, <2>2
<1>4. ClockAt(j + 1) = ClockAt(j)
  BY <1>0, Clocks
<1>5. j > 8 <=> j + 1 > 8
  BY <1>0
<1>6. DOMAIN step_timers_' = OfflineSteps
      /\ step_timers_' = [x \in OfflineSteps |-> step_timers_'[x]]
  BY <1>2 DEF OfflineState
<1>7. NothingAsked'
  BY <1>2 DEF OfflineState, NothingAsked
<1> QED
  BY <1>1, <1>2, <1>3, <1>4, <1>5, <1>6, <1>7 DEF OfflineState

LEMMA EndKeeps ==
    ASSUME NEW section \in OfflineSteps, NEW j, j = EndOf(section), OfflineState(j),
           recordOfflineStepEnd(section, clock),
           UNCHANGED <<clock, filed, que_ss_map>>
    PROVE  OfflineState(j + 1)'
<1>0. j \in {4, 7, 11, 14, 20} /\ j \in 1 .. 22 /\ PackCost \in Nat
  BY Sections, CostsOK
<1>1. SubStepsAt(j + 1) = SubStepsAt(j)
  BY <1>0, OfflineSame
<1>2. UNCHANGED <<step_timers_, sub_steps, queries, current_query_id_,
                  current_round_idx_, session_wall_us, filed>>
  BY DEF recordOfflineStepEnd
<1>3. (IF SubStepSum(section) > 0 THEN SubStepSum(section)
       ELSE clock - step_timers_[section]) = WallOf(section)
  <2>1. sub_steps = SubStepsAt(j)
    BY DEF OfflineState
  <2>2. CASE section = "step_interp_pack"
    <3>1. j = 20
      BY <2>2 DEF EndOf
    <3>2. sub_steps["interpolate"] = 1 /\ sub_steps["simd_pack"] = PackCost
      BY <2>1, <3>1 DEF SubStepsAt, SubSteps
    <3>3. SubStepSum(section) = 1 + PackCost
      BY <2>2, <3>2 DEF SubStepSum
    <3> QED
      BY <1>0, <2>2, <3>3 DEF WallOf
  <2>3. CASE section # "step_interp_pack"
    <3>1. j \in {4, 7, 11, 14} /\ StartOf(section) < j
      BY <2>3 DEF EndOf, StartOf, OfflineSteps
    <3>2. sub_steps["sample_coef"] = 0 /\ sub_steps["eval_shares"] = 0
      BY <2>1 DEF SubStepsAt, SubSteps
    <3>3. SubStepSum(section) = 0
      BY <2>3, <3>2 DEF SubStepSum
    <3>4. step_timers_[section] = ClockAt(StartOf(section)) /\ clock = ClockAt(j)
      BY <3>1 DEF OfflineState
    <3>5. ClockAt(j) - ClockAt(StartOf(section)) = 1
      BY <2>3, Clocks DEF EndOf, StartOf, OfflineSteps
    <3>6. clock - step_timers_[section] = 1
      BY <3>4, <3>5
    <3> QED
      BY <2>3, <3>3, <3>6 DEF WallOf
  <2> QED
    BY <2>2, <2>3
<1>4. offline' = OfflineAt(j + 1)
  <2>1. ASSUME NEW other \in OfflineSteps
        PROVE  OfflineAt(j + 1)[other] =
                 IF other = section THEN WallOf(section) ELSE OfflineAt(j)[other]
    <3>1. other # section => (j + 1 > EndOf(other) <=> j > EndOf(other))
      BY <1>0, Sections
    <3> QED
      BY <1>0, <3>1 DEF OfflineAt
  <2>2. offline = OfflineAt(j)
    BY DEF OfflineState
  <2>3. DOMAIN offline' = OfflineSteps /\ offline' = [x \in OfflineSteps |-> offline'[x]]
    BY <2>2 DEF recordOfflineStepEnd, OfflineAt
  <2>4. ASSUME NEW other \in OfflineSteps
        PROVE  offline'[other] = IF other = section THEN WallOf(section) ELSE offline[other]
    <3>1. section \in DOMAIN offline /\ other \in DOMAIN offline
      BY <2>2 DEF OfflineAt
    <3>2. other # section => offline'[other] = offline[other]
      BY <3>1 DEF recordOfflineStepEnd
    <3>3. offline'[section] = IF SubStepSum(section) > 0 THEN SubStepSum(section)
                              ELSE clock - step_timers_[section]
      BY <3>1 DEF recordOfflineStepEnd
    <3> QED
      BY <1>3, <3>2, <3>3
  <2>5. ASSUME NEW other \in OfflineSteps PROVE offline'[other] = OfflineAt(j + 1)[other]
    BY <2>1, <2>2, <2>4
  <2>6. OfflineAt(j + 1) = [x \in OfflineSteps |-> OfflineAt(j + 1)[x]]
    BY DEF OfflineAt
  <2> QED
    BY <2>3, <2>5, <2>6
<1>5. ASSUME NEW other \in OfflineSteps, StartOf(other) < j + 1, j + 1 <= EndOf(other)
      PROVE  step_timers_'[other] = ClockAt(StartOf(other))
  <2>1. StartOf(other) < j /\ j <= EndOf(other)
    BY <1>0, <1>5, Sections
  <2> QED
    BY <1>2, <2>1 DEF OfflineState
<1>6. ClockAt(j + 1) = ClockAt(j) /\ (j + 1 > 8 => j > 8 \/ j = 8) /\ j # 8
  BY <1>0, Clocks
<1>7. NothingAsked'
  BY <1>2 DEF OfflineState, NothingAsked
<1> QED
  BY <1>1, <1>2, <1>4, <1>5, <1>6, <1>7 DEF OfflineState

LEMMA SubStepKeeps ==
    ASSUME NEW j \in {17, 19}, OfflineState(j),
           recordSubStepTiming(IF j = 17 THEN "interpolate" ELSE "simd_pack",
                               IF j = 17 THEN 1 ELSE PackCost),
           UNCHANGED <<clock, filed, que_ss_map>>
    PROVE  OfflineState(j + 1)'
<1>1. OfflineAt(j + 1) = OfflineAt(j)
  BY OfflineSame
<1>2. UNCHANGED <<step_timers_, offline, queries, current_query_id_,
                  current_round_idx_, session_wall_us, filed>>
  BY DEF recordSubStepTiming
<1>3. sub_steps' = SubStepsAt(j + 1)
  <2>1. sub_steps = SubStepsAt(j)
    BY DEF OfflineState
  <2>2. DOMAIN sub_steps' = SubSteps /\ sub_steps' = [x \in SubSteps |-> sub_steps'[x]]
    BY <2>1 DEF recordSubStepTiming, SubStepsAt
  <2>3. CASE j = 17
    <3>1. \A x \in SubSteps : sub_steps'[x] = IF x = "interpolate" THEN 1 ELSE sub_steps[x]
      BY <2>1, <2>3 DEF recordSubStepTiming, SubStepsAt
    <3>2. \A x \in SubSteps : sub_steps'[x] = SubStepsAt(18)[x]
      BY <2>1, <2>3, <3>1 DEF SubStepsAt
    <3> QED
      BY <2>2, <2>3, <3>2 DEF SubStepsAt
  <2>4. CASE j = 19
    <3>1. \A x \in SubSteps : sub_steps'[x] = IF x = "simd_pack" THEN PackCost ELSE sub_steps[x]
      BY <2>1, <2>4 DEF recordSubStepTiming, SubStepsAt
    <3>2. \A x \in SubSteps : sub_steps'[x] = SubStepsAt(20)[x]
      BY <2>1, <2>4, <3>1 DEF SubStepsAt
    <3> QED
      BY <2>2, <2>4, <3>2 DEF SubStepsAt
  <2> QED
    BY <2>3, <2>4
<1>4. ASSUME NEW section \in OfflineSteps, StartOf(section) < j + 1, j + 1 <= EndOf(section)
      PROVE  step_timers_'[section] = ClockAt(StartOf(section))
  <2>1. StartOf(section) < j /\ j <= EndOf(section)
    BY <1>4, Sections
  <2> QED
    BY <1>2, <2>1 DEF OfflineState
<1>5. ClockAt(j + 1) = ClockAt(j) /\ j > 8
  BY Clocks
<1>6. NothingAsked'
  BY <1>2 DEF OfflineState, NothingAsked
<1> QED
  BY <1>1, <1>2, <1>3, <1>4, <1>5, <1>6 DEF OfflineState

\* The operations before the queries, by their places.
LEMMA BenchOps ==
    ASSUME NEW j \in 1 .. 22
    PROVE  /\ j = 1 => Bench[j].op = "generateDatabase"
           /\ j = 8 => Bench[j].op = "copyQueries"
           /\ j = 18 => Bench[j].op = "simdPartitions"
           /\ j = 21 => Bench[j].op = "blindQueries"
           /\ j = 22 => Bench[j].op = "encryptQueryPowers"
           /\ j = 17 => Bench[j].op = "interpolate"
           /\ j = 19 => Bench[j].op = "simd_pack"
           /\ j \in {3, 6, 10, 13, 16} =>
                 Bench[j].op \in {"generateAesKey", "parallelPartitionDB", "blindDatabaseOffline",
                                  "setShares", "computeCoefficients"}
           /\ j \in {2, 5, 9, 12, 15} =>
                 /\ Bench[j].op = "recordOfflineStepStart" /\ Bench[j].on \in OfflineSteps
                 /\ StartOf(Bench[j].on) = j
           /\ j \in {4, 7, 11, 14, 20} =>
                 /\ Bench[j].op = "recordOfflineStepEnd" /\ Bench[j].on \in OfflineSteps
                 /\ EndOf(Bench[j].on) = j
<1>1. /\ StartOf("step_init") = 2 /\ StartOf("step_partition") = 5
      /\ StartOf("step_blind") = 9 /\ StartOf("step_share") = 12
      /\ StartOf("step_interp_pack") = 15
      /\ EndOf("step_init") = 4 /\ EndOf("step_partition") = 7
      /\ EndOf("step_blind") = 11 /\ EndOf("step_share") = 14
      /\ EndOf("step_interp_pack") = 20
  BY DEF StartOf, EndOf
<1>2. CASE j = 1
  BY <1>1, <1>2, BenchAt, StepFields DEF OfflineSteps
<1>3. CASE j = 2
  BY <1>1, <1>3, BenchAt, StepFields DEF OfflineSteps
<1>4. CASE j = 3
  BY <1>1, <1>4, BenchAt, StepFields DEF OfflineSteps
<1>5. CASE j = 4
  BY <1>1, <1>5, BenchAt, StepFields DEF OfflineSteps
<1>6. CASE j = 5
  BY <1>1, <1>6, BenchAt, StepFields DEF OfflineSteps
<1>7. CASE j = 6
  BY <1>1, <1>7, BenchAt, StepFields DEF OfflineSteps
<1>8. CASE j = 7
  BY <1>1, <1>8, BenchAt, StepFields DEF OfflineSteps
<1>9. CASE j = 8
  BY <1>1, <1>9, BenchAt, StepFields DEF OfflineSteps
<1>10. CASE j = 9
  BY <1>1, <1>10, BenchAt, StepFields DEF OfflineSteps
<1>11. CASE j = 10
  BY <1>1, <1>11, BenchAt, StepFields DEF OfflineSteps
<1>12. CASE j = 11
  BY <1>1, <1>12, BenchAt, StepFields DEF OfflineSteps
<1>13. CASE j = 12
  BY <1>1, <1>13, BenchAt, StepFields DEF OfflineSteps
<1>14. CASE j = 13
  BY <1>1, <1>14, BenchAt, StepFields DEF OfflineSteps
<1>15. CASE j = 14
  BY <1>1, <1>15, BenchAt, StepFields DEF OfflineSteps
<1>16. CASE j = 15
  BY <1>1, <1>16, BenchAt, StepFields DEF OfflineSteps
<1>17. CASE j = 16
  BY <1>1, <1>17, BenchAt, StepFields DEF OfflineSteps
<1>18. CASE j = 17
  BY <1>1, <1>18, BenchAt, StepFields DEF OfflineSteps
<1>19. CASE j = 18
  BY <1>1, <1>19, BenchAt, StepFields DEF OfflineSteps
<1>20. CASE j = 19
  BY <1>1, <1>20, BenchAt, StepFields DEF OfflineSteps
<1>21. CASE j = 20
  BY <1>1, <1>21, BenchAt, StepFields DEF OfflineSteps
<1>22. CASE j = 21
  BY <1>1, <1>22, BenchAt, StepFields DEF OfflineSteps
<1>23. CASE j = 22
  BY <1>1, <1>23, BenchAt, StepFields DEF OfflineSteps
<1> QED
  BY <1>2, <1>3, <1>4, <1>5, <1>6, <1>7, <1>8, <1>9, <1>10, <1>11, <1>12, <1>13, <1>14, <1>15, <1>16, <1>17, <1>18, <1>19, <1>20, <1>21, <1>22, <1>23

LEMMA ClockSteps ==
    ASSUME NEW j \in 1 .. 22
    PROVE  /\ j \in {3, 6, 10, 13, 16} => ClockAt(j + 1) = ClockAt(j) + 1
           /\ j = 18 => ClockAt(j + 1) = ClockAt(j) + PackCost
           /\ j = 21 => ClockAt(j + 1) = ClockAt(j) + GcCost
           /\ j \notin {3, 6, 10, 13, 16, 18, 21} => ClockAt(j + 1) = ClockAt(j)
           /\ ClockAt(j) \in Int
<1>1. PackCost \in Int /\ GcCost \in Int
  BY CostsOK
<1> QED
  BY <1>1 DEF ClockAt, One

\* The operation before the place j + 1 of the bench.
BenchTodo(j) ==
    /\ todo # <<>> /\ Head(todo) = Bench[j]
    /\ Covers(Tail(todo), Bench, j + 1, 24)
LEMMA BenchTail ==
    ASSUME NEW j \in 1 .. 22, Covers(todo, Bench, j, 24) PROVE BenchTodo(j)
<1>1. j \in Int /\ 24 \in Int /\ j <= 24
  OBVIOUS
<1> DEFINE L == Bench
           last == 24
<1>2. Covers(todo, L, j, last) /\ j <= last /\ j \in Int /\ last \in Int
  BY <1>1
<1> HIDE DEF L, last
<1>3. todo # <<>> /\ Head(todo) = L[j] /\ Covers(Tail(todo), L, j + 1, last)
  BY <1>2, CoversTail
<1> USE DEF L, last
<1> QED
  BY <1>3 DEF BenchTodo

\* And what they make of the report, one after the other.
LEMMA OfflineStep ==
    ASSUME program.timed, ~crashed', NEW j \in 1 .. 22, AtOffline(j), Lives
    PROVE  Advance /\ OfflineState(j + 1)'
<1>1. started /\ todo # <<>> /\ Head(todo) = Bench[j] /\ OfflineState(j)
  <2>1. started /\ Covers(todo, Bench, j, 24) /\ OfflineState(j)
    BY DEF AtOffline
  <2>2. BenchTodo(j)
    BY <2>1, BenchTail
  <2> QED
    BY <2>1, <2>2 DEF BenchTodo
<1> DEFINE op == Head(todo).op
<1>2. clock = ClockAt(j) /\ (j > 8 => DOMAIN que_ss_map = 0 .. NrofQueries - 1)
  BY <1>1 DEF OfflineState
<1>3. ClockAt(j) \in Int /\ PackCost \in Int /\ GcCost \in Int
  BY ClockSteps, CostsOK
<1>4. CASE j = 1
  <2>1. op = "generateDatabase"
    BY <1>1, <1>4, BenchOps
  <2>2. Advance /\ UNCHANGED <<instrumentation_vars, filed, clock>>
    BY <1>1, <2>1, BenchOperations
  <2>3. clock' = ClockAt(j + 1)
    BY <1>2, <1>4, <2>2, ClockSteps
  <2> QED
    BY <1>1, <1>4, <2>2, <2>3, SilentKeeps
<1>5. CASE j \in {3, 6, 10, 13, 16}
  <2>1. op \in {"generateAesKey", "parallelPartitionDB", "blindDatabaseOffline",
                "setShares", "computeCoefficients"}
    BY <1>1, <1>5, BenchOps
  <2>2. Silent(1) /\ que_ss_map' = que_ss_map
    BY <1>1, <2>1, BenchOperations
  <2>3. clock' = ClockAt(j + 1)
    BY <1>2, <1>5, <2>2, ClockSteps DEF Silent
  <2>4. Advance /\ UNCHANGED <<instrumentation_vars, filed>>
    BY <2>2 DEF Silent
  <2>5. j > 7 => DOMAIN que_ss_map' = 0 .. NrofQueries - 1
    BY <1>2, <1>5, <2>2
  <2> QED
    BY <1>1, <1>5, <2>3, <2>4, <2>5, SilentKeeps
<1>6. CASE j = 8
  <2>1. op = "copyQueries"
    BY <1>1, <1>6, BenchOps
  <2>2. /\ Advance /\ UNCHANGED <<instrumentation_vars, filed, clock>>
        /\ DOMAIN que_ss_map' = 0 .. NrofQueries - 1
    BY <1>1, <2>1, BenchOperations
  <2>3. clock' = ClockAt(j + 1)
    BY <1>2, <1>6, <2>2, ClockSteps
  <2> QED
    BY <1>1, <1>6, <2>2, <2>3, SilentKeeps
<1>7. CASE j = 18
  <2>1. op = "simdPartitions"
    BY <1>1, <1>7, BenchOps
  <2>2. Silent(PackCost) /\ que_ss_map' = que_ss_map
    BY <1>1, <2>1, BenchOperations
  <2>3. clock' = ClockAt(j + 1)
    BY <1>2, <1>3, <1>7, <2>2, ClockSteps DEF Silent
  <2>4. Advance /\ UNCHANGED <<instrumentation_vars, filed>>
    BY <2>2 DEF Silent
  <2> QED
    BY <1>1, <1>2, <1>7, <2>2, <2>3, <2>4, SilentKeeps
<1>8. CASE j = 21
  <2>1. op = "blindQueries"
    BY <1>1, <1>8, BenchOps
  <2>2. Silent(GcCost) /\ DOMAIN que_ss_map' = DOMAIN que_ss_map
    BY <1>1, <2>1, BenchOperations
  <2>3. clock' = ClockAt(j + 1)
    BY <1>2, <1>3, <1>8, <2>2, ClockSteps DEF Silent
  <2>4. Advance /\ UNCHANGED <<instrumentation_vars, filed>>
    BY <2>2 DEF Silent
  <2> QED
    BY <1>1, <1>2, <1>8, <2>2, <2>3, <2>4, SilentKeeps
<1>9. CASE j = 22
  <2>1. op = "encryptQueryPowers"
    BY <1>1, <1>9, BenchOps
  <2>2. Advance /\ UNCHANGED <<instrumentation_vars, filed, clock, que_ss_map>>
    BY <1>1, <2>1, BenchOperations
  <2>3. clock' = ClockAt(j + 1)
    BY <1>2, <1>9, <2>2, ClockSteps
  <2> QED
    BY <1>1, <1>2, <1>9, <2>2, <2>3, SilentKeeps
<1>10. CASE j \in {2, 5, 9, 12, 15}
  <2>1. op = "recordOfflineStepStart" /\ On \in OfflineSteps /\ StartOf(On) = j
    BY <1>1, <1>10, BenchOps DEF On
  <2>2. record
    BY <1>1, <2>1, BenchOperations DEF RecordOps
  <2>3. recordOfflineStepStart(On, clock) /\ Recorded(0)
    BY <1>1, <2>1, <2>2, RecordCalls
  <2>4. Advance /\ UNCHANGED <<clock, filed, que_ss_map>>
    BY <1>2, <1>3, <2>3 DEF Recorded
  <2> QED
    BY <1>1, <2>1, <2>3, <2>4, StartKeeps
<1>11. CASE j \in {4, 7, 11, 14, 20}
  <2>1. op = "recordOfflineStepEnd" /\ On \in OfflineSteps /\ EndOf(On) = j
    BY <1>1, <1>11, BenchOps DEF On
  <2>2. record
    BY <1>1, <2>1, BenchOperations DEF RecordOps
  <2>3. recordOfflineStepEnd(On, clock) /\ Recorded(0)
    BY <1>1, <2>1, <2>2, RecordCalls
  <2>4. Advance /\ UNCHANGED <<clock, filed, que_ss_map>>
    BY <1>2, <1>3, <2>3 DEF Recorded
  <2> QED
    BY <1>1, <2>1, <2>3, <2>4, EndKeeps
<1>12. CASE j \in {17, 19}
  <2>1. op = IF j = 17 THEN "interpolate" ELSE "simd_pack"
    BY <1>1, <1>12, BenchOps
  <2>2. record
    BY <1>1, <2>1, BenchOperations DEF RecordOps
  <2>3. recordSubStepTiming(IF j = 17 THEN "interpolate" ELSE "simd_pack",
                            IF j = 17 THEN 1 ELSE PackCost) /\ Recorded(0)
    BY <1>1, <1>12, <2>1, <2>2, RecordCalls
  <2>4. Advance /\ UNCHANGED <<clock, filed, que_ss_map>>
    BY <1>2, <1>3, <2>3 DEF Recorded
  <2> QED
    BY <1>1, <1>12, <2>3, <2>4, SubStepKeeps
<1> QED
  BY <1>4, <1>5, <1>6, <1>7, <1>8, <1>9, <1>10, <1>11, <1>12

LEMMA CostTypes ==
    /\ PackCost \in Nat \ {0} /\ GcCost \in Nat \ {0} /\ PowersCost \in Nat \ {0}
    /\ HomCost \in Nat \ {0} /\ DecryptCost \in Nat \ {0}
    /\ NrofQueries \in Nat /\ GcShare \in Nat /\ QueryCost \in Nat /\ OfflineCost \in Nat
    /\ \A i \in 1 .. 15 : SpentAt(i) \in Nat
    /\ \A i \in 10 .. 15 : SpentAt(i) = QueryCost
<1>1. /\ PackCost \in Nat \ {0} /\ GcCost \in Nat \ {0} /\ PowersCost \in Nat \ {0}
      /\ HomCost \in Nat \ {0} /\ DecryptCost \in Nat \ {0} /\ NrofQueries \in Nat
  BY CostsOK, InputsOK
<1>2. GcShare \in Nat
  <2>1. \A d \in Nat \ {0} : GcCost \div d \in Nat
    BY <1>1
  <2> QED
    BY <1>1, <2>1 DEF GcShare
<1> QED
  BY <1>1, <1>2 DEF QueryCost, OfflineCost, SpentAt, One

\* The encrypted queries, and that no query has begun.
AllEncrypted == DOMAIN encrypted = 1 .. NrofQueries /\ Len(encrypted) = NrofQueries
LEMMA FirstQuery == OfflineState(23) /\ AllEncrypted => QueryState(0, 14)
<1> SUFFICES ASSUME OfflineState(23), AllEncrypted PROVE QueryState(0, 14)
  OBVIOUS
<1>1. clock = OfflineCost + (0 - 1) * QueryCost + SpentAt(14)
  <2>1. clock = OfflineCost
    BY Clocks DEF OfflineState
  <2>2. SpentAt(14) = QueryCost /\ QueryCost \in Int /\ OfflineCost \in Int
    BY CostTypes
  <2> QED
    BY <2>1, <2>2
<1>2. offline = OfflineAt(21)
  <2>1. OfflineAt(23) = OfflineAt(22) /\ OfflineAt(22) = OfflineAt(21)
    BY OfflineSame
  <2> QED
    BY <2>1 DEF OfflineState
<1>3. RecordsTo(0, 14)
  <2>1. queries = <<>>
    BY DEF OfflineState, NothingAsked
  <2>2. IsSeq(queries) /\ Len(queries) = 0
    <3>1. <<>> \in Seq({}) /\ Len(<<>>) = 0
      OBVIOUS
    <3> QED
      BY <2>1, <3>1 DEF IsSeq
  <2> QED
    BY <2>2 DEF RecordsTo
<1>4. FiledTo(0, 14)
  <2>1. DOMAIN filed = {}
    BY DEF OfflineState, NothingAsked
  <2> QED
    BY <2>1 DEF FiledTo
<1> QED
  BY <1>1, <1>2, <1>3, <1>4 DEF QueryState, OfflineState, NothingAsked, AllEncrypted

LEMMA OfflineNext ==
    ASSUME program.timed, ~crashed', NEW j \in 1 .. 22, AtOffline(j), Lives
    PROVE  IF j < 22 THEN AtOffline(j + 1)' ELSE AtQuery(0, 14)'
<1>1. /\ started /\ todo # <<>> /\ Head(todo) = Bench[j] /\ Covers(Tail(todo), Bench, j + 1, 24)
      /\ OfflineState(j)
  <2>1. started /\ Covers(todo, Bench, j, 24) /\ OfflineState(j)
    BY DEF AtOffline
  <2>2. BenchTodo(j)
    BY <2>1, BenchTail
  <2> QED
    BY <2>1, <2>2 DEF BenchTodo
<1>2. Advance /\ OfflineState(j + 1)'
  BY OfflineStep
<1>3. started' /\ todo' = Tail(todo)
  BY <1>1, <1>2 DEF Advance
<1>4. CASE j < 22
  <2>1. Covers(todo', Bench, j + 1, 24)
    BY <1>1, <1>3
  <2> QED
    BY <1>2, <1>3, <1>4, <2>1 DEF AtOffline
<1>5. CASE j = 22
  <2>0. j + 1 = 23
    BY <1>5
  <2>1. Head(todo).op = "encryptQueryPowers"
    BY <1>1, <1>5, BenchOps
  <2>2. encrypted' = InKeyOrder(que_ss_map)
    BY <1>1, <2>1, BenchOperations
  <2>3. DOMAIN que_ss_map = 0 .. NrofQueries - 1
    BY <1>1, <1>5 DEF OfflineState
  <2>4. encrypted' = [n \in 1 .. NrofQueries |-> que_ss_map[query_keys[n]]]
    BY <2>2, <2>3, BenchKeys DEF InKeyOrder
  <2>5. DOMAIN encrypted' = 1 .. NrofQueries /\ Len(encrypted') = NrofQueries
    BY <2>4, CostTypes
  <2>6. QueryState(0, 14)'
    <3>1. OfflineState(23)'
      BY <1>2, <2>0
    <3>2. AllEncrypted'
      BY <2>5 DEF AllEncrypted
    <3> QED
      BY <3>1, <3>2, FirstQuery, PTL
  <2>7. Covers(todo', QueryAndRest(0), 14, 15)
    <3>1. Covers(todo', Bench, 23, 24)
      BY <1>1, <1>3, <2>0
    <3>2. QueryAndRest(0)[14] = Bench[23] /\ QueryAndRest(0)[15] = Bench[24]
      BY BenchAt DEF QueryAndRest, RecordedQuery, Report
    <3>3. IsSeq(todo') /\ Len(todo') = 2 /\ todo'[1] = Bench[23] /\ todo'[2] = Bench[24]
      BY <3>1 DEF Covers
    <3>4. \A k \in 1 .. Len(todo') : todo'[k] = QueryAndRest(0)[14 + k - 1]
      BY <3>2, <3>3
    <3> QED
      BY <3>3, <3>4 DEF Covers
  <2> QED
    BY <1>3, <1>5, <2>6, <2>7 DEF AtQuery
<1> QED
  BY <1>4, <1>5

----------------------------------------------------------------------------
(* A recorded query                                                         *)

LEMMA QueryAt ==
    ASSUME NEW n
    PROVE  /\ QueryAndRest(n)[1] = Step("startQuery", n)
           /\ QueryAndRest(n)[2] = Step("recordStepGC", n)
           /\ QueryAndRest(n)[3] = Step("recordStepQueryPowers", n)
           /\ QueryAndRest(n)[4] = Step("startHomRound", n)
           /\ QueryAndRest(n)[5] = Step("ctxt_inner_product", n)
           /\ QueryAndRest(n)[6] = Step("wall", n)
           /\ QueryAndRest(n)[7] = Step("recordHomRoundReceiverSubStep", n)
           /\ QueryAndRest(n)[8] = Step("endHomRound", n)
           /\ QueryAndRest(n)[9] = Step("findMatches", n)
           /\ QueryAndRest(n)[10] = Step("recordStepTokenCheck", n)
           /\ QueryAndRest(n)[11] = Step("recordStepLabelRecovery", n)
           /\ QueryAndRest(n)[12] = Step("recordQueryResult", n)
           /\ QueryAndRest(n)[13] = Step("endQuery", n)
           /\ QueryAndRest(n)[14] = Step("round", 1)
           /\ QueryAndRest(n)[15] = Step("finalize", 0)
<1>1. /\ Len(RecordedQuery(n)) = 13 /\ IsSeq(RecordedQuery(n))
  BY RecordedQueryChecks
<1>2. IsSeq(Report) /\ Len(Report) = 2
      /\ Report[1] = Step("round", 1) /\ Report[2] = Step("finalize", 0)
  <2>1. Report \in Seq({Step("round", 1), Step("finalize", 0)}) /\ Len(Report) = 2
        /\ Report[1] = Step("round", 1) /\ Report[2] = Step("finalize", 0)
    BY DEF Report
  <2> QED
    BY <2>1 DEF IsSeq
<1> DEFINE query == RecordedQuery(n)
<1>3. \A k \in 1 .. 15 : QueryAndRest(n)[k] = IF k <= 13 THEN query[k] ELSE Report[k - 13]
  <2> HIDE DEF query
  <2>1. IsSeq(query) /\ Len(query) = 13
    BY <1>1 DEF query
  <2>2. /\ DOMAIN (query \o Report) = 1 .. Len(query) + Len(Report)
        /\ \A k \in DOMAIN (query \o Report) :
              (query \o Report)[k] = IF k <= Len(query) THEN query[k]
                                     ELSE Report[k - Len(query)]
    BY <1>2, <2>1, ConcatBasics
  <2> DEFINE both == query \o Report
  <2>3. both = QueryAndRest(n)
    BY DEF QueryAndRest, query
  <2>4. \A k \in 1 .. 13 + 2 : both[k] = IF k <= 13 THEN query[k] ELSE Report[k - 13]
    <3>1. /\ DOMAIN both = 1 .. Len(query) + Len(Report)
          /\ \A k \in DOMAIN both :
                both[k] = IF k <= Len(query) THEN query[k] ELSE Report[k - Len(query)]
      BY <2>2
    <3> HIDE DEF both
    <3> QED
      BY <1>2, <2>1, <3>1
  <2> HIDE DEF both
  <2> QED
    BY <2>3, <2>4
<1>4. /\ QueryAndRest(n)[14] = Step("round", 1) /\ QueryAndRest(n)[15] = Step("finalize", 0)
  BY <1>2, <1>3
<1>5. \A k \in 1 .. 13 : QueryAndRest(n)[k] = RecordedQuery(n)[k]
  BY <1>3
<1> HIDE DEF Report
<1>6. /\ RecordedQuery(n)[1] = Step("startQuery", n)
      /\ RecordedQuery(n)[2] = Step("recordStepGC", n)
      /\ RecordedQuery(n)[3] = Step("recordStepQueryPowers", n)
      /\ RecordedQuery(n)[4] = Step("startHomRound", n)
      /\ RecordedQuery(n)[5] = Step("ctxt_inner_product", n)
      /\ RecordedQuery(n)[6] = Step("wall", n)
      /\ RecordedQuery(n)[7] = Step("recordHomRoundReceiverSubStep", n)
      /\ RecordedQuery(n)[8] = Step("endHomRound", n)
      /\ RecordedQuery(n)[9] = Step("findMatches", n)
      /\ RecordedQuery(n)[10] = Step("recordStepTokenCheck", n)
      /\ RecordedQuery(n)[11] = Step("recordStepLabelRecovery", n)
      /\ RecordedQuery(n)[12] = Step("recordQueryResult", n)
      /\ RecordedQuery(n)[13] = Step("endQuery", n)
  BY DEF RecordedQuery
<1> QED
  BY <1>4, <1>5, <1>6

\* The operation at place i of a query.
QueryTodo(n, i) ==
    /\ todo # <<>> /\ Head(todo) = QueryAndRest(n)[i]
    /\ Covers(Tail(todo), QueryAndRest(n), i + 1, 15)
LEMMA QueryTail ==
    ASSUME NEW n, NEW i \in 1 .. 15, Covers(todo, QueryAndRest(n), i, 15)
    PROVE  QueryTodo(n, i)
<1>1. i \in Int /\ 15 \in Int /\ i <= 15
  OBVIOUS
<1> DEFINE L == QueryAndRest(n)
           last == 15
<1>2. Covers(todo, L, i, last) /\ i <= last /\ i \in Int /\ last \in Int
  BY <1>1
<1> HIDE DEF L, last
<1>3. todo # <<>> /\ Head(todo) = L[i] /\ Covers(Tail(todo), L, i + 1, last)
  BY <1>2, CoversTail
<1> USE DEF L, last
<1> QED
  BY <1>3 DEF QueryTodo

\* The work of an operation of a query.
LEMMA SpentSteps ==
    ASSUME NEW i \in 1 .. 14
    PROVE  /\ i = 3 => SpentAt(i + 1) = SpentAt(i) + PowersCost
           /\ i = 4 => SpentAt(i + 1) = SpentAt(i) + (HomCost + DecryptCost)
           /\ i = 9 => SpentAt(i + 1) = SpentAt(i) + 1
           /\ i \notin {3, 4, 9} => SpentAt(i + 1) = SpentAt(i)
           /\ SpentAt(i) \in Int /\ SpentAt(i + 1) \in Int
<1>1. PowersCost \in Int /\ HomCost \in Int /\ DecryptCost \in Int
  BY CostTypes
<1> QED
  BY <1>1 DEF SpentAt, One

\* A round as its calls make it.
LEMMA RoundsWritten ==
    /\ RoundAt(5) = HomRound
    /\ [RoundAt(5) EXCEPT !.s["ctxt_inner_product"] = HomCost] = RoundAt(6)
    /\ [RoundAt(6) EXCEPT !.s["wall"] = HomCost] = RoundAt(7)
    /\ [RoundAt(7) EXCEPT !.r_decrypt_us = DecryptCost] = RoundAt(8)
    /\ \A i \in 9 .. 15 : RoundAt(i) = RoundAt(8)
<1>1. /\ RoundAt(5) = Round(0, 0, 0) /\ RoundAt(6) = Round(HomCost, 0, 0)
      /\ RoundAt(7) = Round(HomCost, HomCost, 0)
      /\ RoundAt(8) = Round(HomCost, HomCost, DecryptCost)
  BY DEF RoundAt
<1>2. \A i \in 9 .. 15 : RoundAt(i) = RoundAt(8)
  BY DEF RoundAt
<1>3. Round(0, 0, 0) = HomRound
  <2>1. Round(0, 0, 0).s = [x \in SenderSubSteps |-> 0]
    BY DEF Round
  <2> QED
    BY <2>1 DEF Round, HomRound
<1> DEFINE subs(a, b) == [x \in SenderSubSteps |-> IF x = "ctxt_inner_product" THEN a
                                                  ELSE IF x = "wall" THEN b ELSE 0]
<1>4. \A a, b, c : Round(a, b, c) = [s |-> subs(a, b), r_decrypt_us |-> c]
  BY DEF Round
<1>5. /\ [subs(0, 0) EXCEPT !["ctxt_inner_product"] = HomCost] = subs(HomCost, 0)
      /\ [subs(HomCost, 0) EXCEPT !["wall"] = HomCost] = subs(HomCost, HomCost)
  BY DEF SenderSubSteps
<1> HIDE DEF subs
<1>6. [Round(0, 0, 0) EXCEPT !.s["ctxt_inner_product"] = HomCost] = Round(HomCost, 0, 0)
  BY <1>4, <1>5
<1>7. [Round(HomCost, 0, 0) EXCEPT !.s["wall"] = HomCost] = Round(HomCost, HomCost, 0)
  BY <1>4, <1>5
<1>8. [Round(HomCost, HomCost, 0) EXCEPT !.r_decrypt_us = DecryptCost]
        = Round(HomCost, HomCost, DecryptCost)
  BY <1>4
<1> QED
  BY <1>1, <1>2, <1>3, <1>6, <1>7, <1>8

\* And a record.
LEMMA RecordForms ==
    ASSUME NEW m
    PROVE  /\ RecordAt(m, 2) = Record(m - 1, 0, 0, <<>>, 0, {})
           /\ RecordAt(m, 3) = Record(m - 1, GcShare, 0, <<>>, 0, {})
           /\ RecordAt(m, 4) = Record(m - 1, GcShare, PowersCost, <<>>, 0, {})
           /\ \A i \in 5 .. 10 :
                 RecordAt(m, i) = Record(m - 1, GcShare, PowersCost, <<RoundAt(i)>>, 0, {})
           /\ \A i \in 11 .. 12 :
                 RecordAt(m, i) = Record(m - 1, GcShare, PowersCost, <<RoundAt(8)>>, 1, {})
           /\ \A i \in 13 .. 15 :
                 RecordAt(m, i) = Record(m - 1, GcShare, PowersCost, <<RoundAt(8)>>, 1,
                                         filed[<<1, m>>])
<1>1. \A i \in 9 .. 15 : RoundAt(i) = RoundAt(8)
  BY RoundsWritten
<1> QED
  BY <1>1 DEF RecordAt

LEMMA RecordExcept ==
    ASSUME NEW id, NEW gc, NEW powers, NEW rounds, NEW check, NEW labels, NEW x
    PROVE  /\ [Record(id, gc, powers, rounds, check, labels) EXCEPT !.gc_us = x]
                = Record(id, x, powers, rounds, check, labels)
           /\ [Record(id, gc, powers, rounds, check, labels) EXCEPT !.r_encrypt_us = x]
                = Record(id, gc, x, rounds, check, labels)
           /\ [Record(id, gc, powers, rounds, check, labels) EXCEPT !.hom_rounds = x]
                = Record(id, gc, powers, x, check, labels)
           /\ Record(id, gc, powers, rounds, check, labels).hom_rounds = rounds
  BY DEF Record

LEMMA RecordsWritten ==
    ASSUME NEW m
    PROVE  /\ RecordAt(m, 2) = QueryMetrics(m - 1)
           /\ [RecordAt(m, 2) EXCEPT !.gc_us = GcShare] = RecordAt(m, 3)
           /\ [RecordAt(m, 3) EXCEPT !.r_encrypt_us = PowersCost] = RecordAt(m, 4)
           /\ [RecordAt(m, 10) EXCEPT !.token_check_us = 1] = RecordAt(m, 11)
           /\ [RecordAt(m, 11) EXCEPT !.label_recovery_us = 0] = RecordAt(m, 12)
           /\ [RecordAt(m, 12) EXCEPT !.labels = filed[<<1, m>>]] = RecordAt(m, 13)
           /\ RecordAt(m, 9) = RecordAt(m, 8) /\ RecordAt(m, 10) = RecordAt(m, 9)
           /\ RecordAt(m, 14) = RecordAt(m, 13) /\ RecordAt(m, 15) = RecordAt(m, 14)
<1>0. /\ RecordAt(m, 2) = Record(m - 1, 0, 0, <<>>, 0, {})
      /\ RecordAt(m, 3) = Record(m - 1, GcShare, 0, <<>>, 0, {})
      /\ RecordAt(m, 4) = Record(m - 1, GcShare, PowersCost, <<>>, 0, {})
  BY RecordForms
<1>1. RecordAt(m, 2) = QueryMetrics(m - 1)
  BY <1>0 DEF Record, QueryMetrics
<1>2. /\ [RecordAt(m, 2) EXCEPT !.gc_us = GcShare] = RecordAt(m, 3)
      /\ [RecordAt(m, 3) EXCEPT !.r_encrypt_us = PowersCost] = RecordAt(m, 4)
  <2>1. [Record(m - 1, 0, 0, <<>>, 0, {}) EXCEPT !.gc_us = GcShare]
          = Record(m - 1, GcShare, 0, <<>>, 0, {})
    BY RecordExcept
  <2>2. [Record(m - 1, GcShare, 0, <<>>, 0, {}) EXCEPT !.r_encrypt_us = PowersCost]
          = Record(m - 1, GcShare, PowersCost, <<>>, 0, {})
    <3> DEFINE id == m - 1
               none == <<>>
    <3> HIDE DEF id, none
    <3>1. [Record(id, GcShare, 0, none, 0, {}) EXCEPT !.r_encrypt_us = PowersCost]
            = Record(id, GcShare, PowersCost, none, 0, {})
      BY DEF Record
    <3> QED
      BY <3>1 DEF id, none
  <2> QED
    BY <1>0, <2>1, <2>2
<1>3. RoundAt(9) = RoundAt(8) /\ RoundAt(10) = RoundAt(8)
  BY RoundsWritten
<1>4. /\ RecordAt(m, 9) = RecordAt(m, 8) /\ RecordAt(m, 10) = RecordAt(m, 9)
      /\ RecordAt(m, 14) = RecordAt(m, 13) /\ RecordAt(m, 15) = RecordAt(m, 14)
  <2>1. 8 \in 5 .. 10 /\ 9 \in 5 .. 10 /\ 10 \in 5 .. 10
        /\ 13 \in 13 .. 15 /\ 14 \in 13 .. 15 /\ 15 \in 13 .. 15
    OBVIOUS
  <2> QED
    BY <1>3, <2>1, RecordForms
<1>5. /\ RecordAt(m, 10) = Record(m - 1, GcShare, PowersCost, <<RoundAt(8)>>, 0, {})
      /\ RecordAt(m, 11) = Record(m - 1, GcShare, PowersCost, <<RoundAt(8)>>, 1, {})
      /\ RecordAt(m, 12) = Record(m - 1, GcShare, PowersCost, <<RoundAt(8)>>, 1, {})
      /\ RecordAt(m, 13) = Record(m - 1, GcShare, PowersCost, <<RoundAt(8)>>, 1,
                                  filed[<<1, m>>])
  BY <1>3, RecordForms
<1>6. [RecordAt(m, 10) EXCEPT !.token_check_us = 1] = RecordAt(m, 11)
  BY <1>5 DEF Record
<1>7. [RecordAt(m, 11) EXCEPT !.label_recovery_us = 0] = RecordAt(m, 12)
  BY <1>5 DEF Record
<1>8. [RecordAt(m, 12) EXCEPT !.labels = filed[<<1, m>>]] = RecordAt(m, 13)
  BY <1>5 DEF Record
<1> QED
  BY <1>1, <1>2, <1>4, <1>6, <1>7, <1>8

LEMMA RoundRecordsWritten ==
    ASSUME NEW m
    PROVE  /\ RecordAt(m, 4).hom_rounds = <<>>
           /\ [RecordAt(m, 4) EXCEPT !.hom_rounds = Append(<<>>, HomRound)] = RecordAt(m, 5)
           /\ \A i \in 5 .. 7 :
                 /\ RecordAt(m, i).hom_rounds = <<RoundAt(i)>>
                 /\ [RecordAt(m, i) EXCEPT !.hom_rounds =
                        [<<RoundAt(i)>> EXCEPT ![1] = RoundAt(i + 1)]]
                      = RecordAt(m, i + 1)
<1>0. /\ RecordAt(m, 4) = Record(m - 1, GcShare, PowersCost, <<>>, 0, {})
      /\ RecordAt(m, 5) = Record(m - 1, GcShare, PowersCost, <<RoundAt(5)>>, 0, {})
  <2>1. 5 \in 5 .. 10
    OBVIOUS
  <2> QED
    BY <2>1, RecordForms
<1>1. RecordAt(m, 4).hom_rounds = <<>>
  BY <1>0 DEF Record
<1>2. Append(<<>>, HomRound) = <<RoundAt(5)>>
  <2>1. RoundAt(5) = HomRound
    BY RoundsWritten
  <2> QED
    BY <2>1
<1>3. [RecordAt(m, 4) EXCEPT !.hom_rounds = <<RoundAt(5)>>] = RecordAt(m, 5)
  BY <1>0, RecordExcept
<1>4. ASSUME NEW i \in 5 .. 7
      PROVE  /\ RecordAt(m, i).hom_rounds = <<RoundAt(i)>>
             /\ [RecordAt(m, i) EXCEPT !.hom_rounds =
                    [<<RoundAt(i)>> EXCEPT ![1] = RoundAt(i + 1)]]
                  = RecordAt(m, i + 1)
  <2>0. i \in 5 .. 10 /\ i + 1 \in 5 .. 10
    OBVIOUS
  <2>1. /\ RecordAt(m, i) = Record(m - 1, GcShare, PowersCost, <<RoundAt(i)>>, 0, {})
        /\ RecordAt(m, i + 1) = Record(m - 1, GcShare, PowersCost, <<RoundAt(i + 1)>>, 0, {})
    BY <2>0, RecordForms
  <2>2. [<<RoundAt(i)>> EXCEPT ![1] = RoundAt(i + 1)] = <<RoundAt(i + 1)>>
    OBVIOUS
  <2>3. RecordAt(m, i).hom_rounds = <<RoundAt(i)>>
    BY <2>1 DEF Record
  <2>4. [RecordAt(m, i) EXCEPT !.hom_rounds = <<RoundAt(i + 1)>>] = RecordAt(m, i + 1)
    BY <2>1 DEF Record
  <2> QED
    BY <2>2, <2>3, <2>4
<1> QED
  BY <1>1, <1>2, <1>3, <1>4

Replaced(s, k, e, t) ==
    /\ IsSeq(t) /\ Len(t) = Len(s)
    /\ \A m \in 1 .. Len(s) : t[m] = IF m = k THEN e ELSE s[m]
LEMMA SeqExcept ==
    ASSUME NEW s, IsSeq(s), NEW k \in 1 .. Len(s), NEW e
    PROVE  Replaced(s, k, e, [s EXCEPT ![k] = e])
<1> DEFINE t == [s EXCEPT ![k] = e]
<1>1. PICK S : s \in Seq(S)
  BY DEF IsSeq
<1>2. s \in Seq(S \cup {e}) /\ e \in S \cup {e} /\ k \in 1 .. Len(s)
  BY <1>1
<1>3. t \in Seq(S \cup {e}) /\ Len(t) = Len(s)
  BY <1>2
<1>4. DOMAIN s = 1 .. Len(s)
  BY <1>1
<1>5. \A m \in 1 .. Len(s) : t[m] = IF m = k THEN e ELSE s[m]
  BY <1>4
<1> QED
  BY <1>3, <1>5 DEF IsSeq, Replaced

\* What is kept of the records when the labels filed for them are.
LEMMA RecordStays ==
    ASSUME NEW m, NEW i \in Int, i > 12 => filed'[<<1, m>>] = filed[<<1, m>>]
    PROVE  RecordAt(m, i)' = RecordAt(m, i)
<1>1. CASE i > 12
  BY <1>1 DEF RecordAt
<1>2. CASE ~(i > 12)
  BY <1>2 DEF RecordAt
<1> QED
  BY <1>1, <1>2

\* A call that writes to the record of the query in progress.
LEMMA RecordsNext ==
    ASSUME NrofQueries \in Nat, NEW n \in 1 .. NrofQueries, NEW i \in 2 .. 12, RecordsTo(n, i),
           queries' = [queries EXCEPT ![n] = RecordAt(n, i + 1)], filed' = filed
    PROVE  RecordsTo(n, i + 1)'
<1>1. IsSeq(queries) /\ Len(queries) = n
      /\ \A m \in 1 .. n : queries[m] = RecordAt(m, IF m < n THEN 15 ELSE i)
  BY DEF RecordsTo
<1>2. n \in 1 .. Len(queries)
  BY <1>1
<1>3. /\ IsSeq(queries') /\ Len(queries') = Len(queries)
      /\ \A m \in 1 .. Len(queries) :
            queries'[m] = IF m = n THEN RecordAt(n, i + 1) ELSE queries[m]
  <2> DEFINE e == RecordAt(n, i + 1)
  <2>1. queries' = [queries EXCEPT ![n] = e]
    OBVIOUS
  <2> HIDE DEF e
  <2>2. /\ IsSeq(queries') /\ Len(queries') = Len(queries)
        /\ \A m \in 1 .. Len(queries) : queries'[m] = IF m = n THEN e ELSE queries[m]
    <3>1. Replaced(queries, n, e, [queries EXCEPT ![n] = e])
      BY <1>1, <1>2, SeqExcept
    <3> QED
      BY <2>1, <3>1 DEF Replaced
  <2> QED
    BY <2>2 DEF e
<1>4. ASSUME NEW m \in 1 .. Len(queries')
      PROVE  queries'[m] = RecordAt(m, IF m < n THEN 15 ELSE i + 1)'
  <2>1. CASE m = n
    <3>1. queries'[m] = RecordAt(m, i + 1) /\ ~(m < n)
      BY <1>1, <1>2, <1>3, <2>1
    <3>2. RecordAt(m, i + 1)' = RecordAt(m, i + 1)
      BY RecordStays
    <3> QED
      BY <3>1, <3>2
  <2>2. CASE m # n
    <3>1. queries'[m] = RecordAt(m, 15) /\ m < n
      BY <1>1, <1>3, <2>2
    <3>2. RecordAt(m, 15)' = RecordAt(m, 15)
      BY RecordStays
    <3> QED
      BY <3>1, <3>2
  <2> QED
    BY <2>1, <2>2
<1>5. Len(queries') = IF i + 1 > 1 THEN n ELSE n - 1
  BY <1>1, <1>3
<1> QED
  BY <1>3, <1>4, <1>5 DEF RecordsTo

\* One that leaves the records as they are.
LEMMA RecordsKept ==
    ASSUME NrofQueries \in Nat, NEW n \in 0 .. NrofQueries, NEW i \in {8, 9, 13, 14}, RecordsTo(n, i),
           queries' = queries,
           \A m \in 1 .. IF i = 9 THEN n - 1 ELSE n : filed'[<<1, m>>] = filed[<<1, m>>]
    PROVE  RecordsTo(n, i + 1)'
<1>1. IsSeq(queries) /\ Len(queries) = n
      /\ \A m \in 1 .. n : queries[m] = RecordAt(m, IF m < n THEN 15 ELSE i)
  BY DEF RecordsTo
<1>2. ASSUME NEW m \in 1 .. n
      PROVE  queries'[m] = RecordAt(m, IF m < n THEN 15 ELSE i + 1)'
  <2>1. CASE m < n
    <3>1. queries'[m] = RecordAt(m, 15)
      BY <1>1, <2>1
    <3>2. filed'[<<1, m>>] = filed[<<1, m>>]
      BY <2>1
    <3>3. RecordAt(m, 15)' = RecordAt(m, 15)
      BY <3>2, RecordStays
    <3> QED
      BY <2>1, <3>1, <3>3
  <2>2. CASE ~(m < n)
    <3>1. queries'[m] = RecordAt(m, i)
      BY <1>1, <2>2
    <3>2. RecordAt(m, i) = RecordAt(m, i + 1)
      <4>1. CASE i = 8
        <5>1. i + 1 = 9 /\ i = 8
          BY <4>1
        <5>2. RecordAt(m, 8) = RecordAt(m, 9)
          BY RecordsWritten
        <5> QED
          BY <5>1, <5>2
      <4>2. CASE i = 9
        <5>1. i + 1 = 10 /\ i = 9
          BY <4>2
        <5>2. RecordAt(m, 9) = RecordAt(m, 10)
          BY RecordsWritten
        <5> QED
          BY <5>1, <5>2
      <4>3. CASE i = 13
        <5>1. i + 1 = 14 /\ i = 13
          BY <4>3
        <5>2. RecordAt(m, 13) = RecordAt(m, 14)
          BY RecordsWritten
        <5> QED
          BY <5>1, <5>2
      <4>4. CASE i = 14
        <5>1. i + 1 = 15 /\ i = 14
          BY <4>4
        <5>2. RecordAt(m, 14) = RecordAt(m, 15)
          BY RecordsWritten
        <5> QED
          BY <5>1, <5>2
      <4> QED
        BY <4>1, <4>2, <4>3, <4>4
    <3>3. i + 1 > 12 => filed'[<<1, m>>] = filed[<<1, m>>]
      OBVIOUS
    <3>4. RecordAt(m, i + 1)' = RecordAt(m, i + 1)
      BY <3>3, RecordStays
    <3> QED
      BY <2>2, <3>1, <3>2, <3>4
  <2> QED
    BY <2>1, <2>2
<1>3. Len(queries') = IF i + 1 > 1 THEN n ELSE n - 1
  BY <1>1
<1> QED
  BY <1>1, <1>2, <1>3 DEF RecordsTo

\* The call that adds the record.
LEMMA RecordAdded ==
    ASSUME NrofQueries \in Nat, NEW n \in 1 .. NrofQueries, RecordsTo(n, 1),
           queries' = Append(queries, QueryMetrics(n - 1)), filed' = filed
    PROVE  RecordsTo(n, 2)'
<1>1. IsSeq(queries) /\ Len(queries) = n - 1
      /\ \A m \in 1 .. n - 1 : queries[m] = RecordAt(m, 15)
  BY DEF RecordsTo
<1> DEFINE new == QueryMetrics(n - 1)
<1>2. new = RecordAt(n, 2)
  BY RecordsWritten
<1> HIDE DEF new
<1>3. /\ IsSeq(Append(queries, new)) /\ Len(Append(queries, new)) = n
      /\ \A m \in 1 .. n : Append(queries, new)[m] = IF m = n THEN new ELSE queries[m]
  <2>1. PICK S : queries \in Seq(S)
    BY <1>1 DEF IsSeq
  <2>2. queries \in Seq(S \cup {new}) /\ new \in S \cup {new}
    BY <2>1
  <2>3. /\ Append(queries, new) \in Seq(S \cup {new})
        /\ Len(Append(queries, new)) = Len(queries) + 1
        /\ \A m \in 1 .. Len(queries) : Append(queries, new)[m] = queries[m]
        /\ Append(queries, new)[Len(queries) + 1] = new
    BY <2>2
  <2>4. Len(queries) + 1 = n
    BY <1>1
  <2> QED
    BY <1>1, <2>3, <2>4 DEF IsSeq
<1>4. queries' = Append(queries, new)
  BY DEF new
<1>5. ASSUME NEW m \in 1 .. n PROVE queries'[m] = RecordAt(m, IF m < n THEN 15 ELSE 2)'
  <2>1. RecordAt(m, 15)' = RecordAt(m, 15) /\ RecordAt(m, 2)' = RecordAt(m, 2)
    BY RecordStays
  <2>2. CASE m < n
    BY <1>1, <1>3, <1>4, <2>1, <2>2
  <2>3. CASE ~(m < n)
    <3>1. m = n
      BY <2>3
    <3> QED
      BY <1>2, <1>3, <1>4, <2>1, <2>3, <3>1
  <2> QED
    BY <2>2, <2>3
<1>6. Len(queries') = IF 2 > 1 THEN n ELSE n - 1
  BY <1>3, <1>4
<1> QED
  BY <1>3, <1>4, <1>5, <1>6 DEF RecordsTo

\* The record that the calls of a query write to.
LEMMA CurrentIs ==
    ASSUME NrofQueries \in Nat, NEW n \in 1 .. NrofQueries, NEW i \in 2 .. 13, QueryState(n, i)
    PROVE  /\ current_query_id_ = n - 1 /\ current_query_id_ # nullopt
           /\ Current = n /\ CurrentQuery = RecordAt(n, i)
<1>1. current_query_id_ = n - 1 /\ RecordsTo(n, i)
  BY DEF QueryState
<1>2. n - 1 # -1 /\ (n - 1) + 1 = n
  OBVIOUS
<1>3. Len(queries) = n /\ \A m \in 1 .. n : queries[m] = RecordAt(m, IF m < n THEN 15 ELSE i)
  BY <1>1 DEF RecordsTo
<1>4. n \in 1 .. n /\ ~(n < n)
  OBVIOUS
<1>5. queries[n] = RecordAt(n, i)
  BY <1>3, <1>4
<1> QED
  BY <1>1, <1>2, <1>5 DEF Current, CurrentQuery, nullopt

LEMMA QueryWrites ==
    ASSUME NrofQueries \in Nat, NEW n \in 1 .. NrofQueries, NEW i \in 2 .. 12, QueryState(n, i),
           WriteQuery(RecordAt(n, i + 1)), filed' = filed
    PROVE  /\ RecordsTo(n, i + 1)'
           /\ UNCHANGED <<offline, session_wall_us, current_query_id_, current_round_idx_>>
<1>1. i \in 2 .. 13 /\ RecordsTo(n, i)
  BY DEF QueryState
<1>2. current_query_id_ # nullopt /\ Current = n
  BY <1>1, CurrentIs
<1>3. /\ queries' = [queries EXCEPT ![n] = RecordAt(n, i + 1)]
      /\ UNCHANGED <<offline, session_wall_us, current_query_id_, current_round_idx_>>
  BY <1>2 DEF WriteQuery
<1> QED
  BY <1>1, <1>3, RecordsNext

LEMMA RoundWrites ==
    ASSUME NrofQueries \in Nat, NEW n \in 1 .. NrofQueries, NEW i \in 5 .. 7, QueryState(n, i),
           NEW round, WriteRound(round), round = RoundAt(i + 1), filed' = filed
    PROVE  /\ RecordsTo(n, i + 1)'
           /\ UNCHANGED <<offline, session_wall_us, current_query_id_, current_round_idx_>>
<1>1. i \in 2 .. 13 /\ i \in 2 .. 12 /\ RecordsTo(n, i) /\ current_round_idx_ = 0
  BY DEF QueryState
<1>2. current_query_id_ # nullopt /\ Current = n /\ CurrentQuery = RecordAt(n, i)
  BY <1>1, CurrentIs
<1>3. current_round_idx_ # nullopt /\ current_round_idx_ + 1 = 1
  BY <1>1 DEF nullopt
<1>4. queries[n] = RecordAt(n, i)
  BY <1>2 DEF CurrentQuery
<1>5. /\ queries' = [queries EXCEPT ![n].hom_rounds[1] = round]
      /\ UNCHANGED <<offline, session_wall_us, current_query_id_, current_round_idx_>>
  BY <1>2, <1>3 DEF WriteRound
<1>6. queries' = [queries EXCEPT ![n] =
                    [queries[n] EXCEPT !.hom_rounds = [queries[n].hom_rounds EXCEPT ![1] = round]]]
  BY <1>5
<1>7. [queries[n] EXCEPT !.hom_rounds = [queries[n].hom_rounds EXCEPT ![1] = round]]
        = RecordAt(n, i + 1)
  BY <1>4, RoundRecordsWritten
<1>8. queries' = [queries EXCEPT ![n] = RecordAt(n, i + 1)]
  BY <1>6, <1>7
<1> QED
  BY <1>1, <1>5, <1>8, RecordsNext

\* What is read of the open round.
LEMMA CurrentRoundIs ==
    ASSUME NrofQueries \in Nat, NEW n \in 1 .. NrofQueries, NEW i \in 5 .. 7, QueryState(n, i)
    PROVE  CurrentRound = RoundAt(i)
<1>1. i \in 2 .. 13 /\ current_round_idx_ = 0
  BY DEF QueryState
<1>2. CurrentQuery = RecordAt(n, i) /\ current_round_idx_ + 1 = 1
  BY <1>1, CurrentIs
<1>3. RecordAt(n, i).hom_rounds = <<RoundAt(i)>>
  BY RoundRecordsWritten
<1>4. <<RoundAt(i)>>[1] = RoundAt(i)
  OBVIOUS
<1> QED
  BY <1>2, <1>3, <1>4 DEF CurrentRound

\* The state after an operation of a query, from its parts.
LEMMA QueryMoves ==
    ASSUME NrofQueries \in Nat, NEW n \in 0 .. NrofQueries, NEW i \in 1 .. 14, QueryState(n, i),
           clock' = clock + (SpentAt(i + 1) - SpentAt(i)), RecordsTo(n, i + 1)', FiledTo(n, i + 1)',
           UNCHANGED <<offline, session_wall_us, que_ss_map, encrypted>>,
           current_query_id_' = IF i + 1 \in 2 .. 13 THEN n - 1 ELSE nullopt,
           current_round_idx_' = IF i + 1 \in 5 .. 8 THEN 0 ELSE nullopt
    PROVE  QueryState(n, i + 1)'
<1>1. clock' = OfflineCost + (n - 1) * QueryCost + SpentAt(i + 1)
  <2>1. clock = OfflineCost + (n - 1) * QueryCost + SpentAt(i)
    BY DEF QueryState
  <2>2. OfflineCost \in Int /\ QueryCost \in Int /\ SpentAt(i) \in Int /\ SpentAt(i + 1) \in Int
    BY CostTypes, SpentSteps
  <2>3. PICK before \in Int : before = OfflineCost + (n - 1) * QueryCost
    BY <2>2
  <2> QED
    BY <2>1, <2>2, <2>3
<1> QED
  BY <1>1 DEF QueryState

\* The results that are filed stay when no operation files one.
LEMMA FiledStays ==
    ASSUME NEW n, NEW i \in (1 .. 14) \ {9}, FiledTo(n, i), filed' = filed
    PROVE  FiledTo(n, i + 1)'
<1>1. i > 9 <=> i + 1 > 9
  OBVIOUS
<1>2. (IF i > 9 THEN n ELSE n - 1) = IF i + 1 > 9 THEN n ELSE n - 1
  BY <1>1
<1> QED
  BY <1>2 DEF FiledTo

\* The operations of a query, one after the other.
LEMMA QueryStart ==
    ASSUME program.timed, ~crashed', NEW n \in 1 .. NrofQueries, started,
           QueryTodo(n, 1), QueryState(n, 1), Lives
    PROVE  Advance /\ QueryState(n, 2)'
<1>0. NrofQueries \in Nat
  BY InputsOK
<1>1. todo # <<>> /\ Head(todo) = Step("startQuery", n)
  BY QueryAt DEF QueryTodo
<1>2. Head(todo).op = "startQuery" /\ On = n
  BY <1>1, StepFields DEF On
<1>3. record
  BY <1>1, <1>2, BenchOperations DEF RecordOps
<1>4. startQuery(query_keys[On]) /\ Recorded(0)
  BY <1>1, <1>2, <1>3, RecordCalls
<1>5. query_keys[On] = n - 1
  <2>1. DOMAIN que_ss_map = 0 .. NrofQueries - 1
    BY DEF QueryState
  <2> QED
    BY <1>2, <2>1, BenchKeys
<1>6. /\ queries' = Append(queries, QueryMetrics(n - 1)) /\ current_query_id_' = n - 1
      /\ UNCHANGED <<offline, session_wall_us, current_round_idx_>>
  BY <1>4, <1>5 DEF startQuery, IndexOfNewQuery
<1>7. RecordsTo(n, 1) /\ FiledTo(n, 1) /\ current_round_idx_ = nullopt
  BY DEF QueryState
<1>8. Advance /\ clock' = clock + 0 /\ UNCHANGED <<filed, que_ss_map, encrypted>>
  BY <1>4 DEF Recorded
<1>9. RecordsTo(n, 2)'
  BY <1>0, <1>6, <1>7, <1>8, RecordAdded
<1>10. 1 \in (1 .. 14) \ {9} /\ 1 + 1 = 2 /\ n \in 0 .. NrofQueries
  OBVIOUS
<1>11. FiledTo(n, 1 + 1)'
  BY <1>7, <1>8, <1>10, FiledStays
<1>12. clock' = clock + (SpentAt(1 + 1) - SpentAt(1))
  BY <1>8, <1>10, SpentSteps
<1>13. QueryState(n, 1 + 1)'
  <2>1. RecordsTo(n, 1 + 1)'
    BY <1>9, <1>10
  <2>2. /\ current_query_id_' = IF 1 + 1 \in 2 .. 13 THEN n - 1 ELSE nullopt
        /\ current_round_idx_' = IF 1 + 1 \in 5 .. 8 THEN 0 ELSE nullopt
    BY <1>6, <1>7
  <2> QED
    BY <1>0, <1>6, <1>8, <1>10, <1>11, <1>12, <2>1, <2>2, QueryMoves
<1> QED
  BY <1>8, <1>10, <1>13

\* A call that has written the next record of the query.
LEMMA QueryRecorded ==
    ASSUME NrofQueries \in Nat, NEW n \in 1 .. NrofQueries, NEW i \in 2 .. 13, QueryState(n, i),
           i # 9, NEW us, us = SpentAt(i + 1) - SpentAt(i), Recorded(us), RecordsTo(n, i + 1)',
           UNCHANGED <<offline, session_wall_us>>,
           current_query_id_' = IF i + 1 \in 2 .. 13 THEN n - 1 ELSE nullopt,
           current_round_idx_' = IF i + 1 \in 5 .. 8 THEN 0 ELSE nullopt
    PROVE  Advance /\ QueryState(n, i + 1)'
<1>1. Advance /\ clock' = clock + us /\ UNCHANGED <<filed, que_ss_map, encrypted>>
  BY DEF Recorded
<1>2. i \in (1 .. 14) \ {9} /\ i \in 1 .. 14 /\ n \in 0 .. NrofQueries
  OBVIOUS
<1>3. FiledTo(n, i + 1)'
  <2>1. FiledTo(n, i)
    BY DEF QueryState
  <2> QED
    BY <1>1, <1>2, <2>1, FiledStays
<1>4. QueryState(n, i + 1)'
  BY <1>1, <1>2, <1>3, QueryMoves
<1> QED
  BY <1>1, <1>4

\* The indices of a query before its last operation.
LEMMA Indices ==
    ASSUME NEW n, NEW i \in 2 .. 13, QueryState(n, i)
    PROVE  /\ i # 13 => current_query_id_ = IF i + 1 \in 2 .. 13 THEN n - 1 ELSE nullopt
           /\ i \notin {4, 8} => current_round_idx_ = IF i + 1 \in 5 .. 8 THEN 0 ELSE nullopt
  BY DEF QueryState

LEMMA QueryCalls ==
    ASSUME program.timed, ~crashed', NEW n \in 1 .. NrofQueries, NEW i \in 2 .. 13, i # 9,
           started, QueryTodo(n, i), QueryState(n, i), Lives
    PROVE  Advance /\ QueryState(n, i + 1)'
<1>0. NrofQueries \in Nat
  BY InputsOK
<1>1. todo # <<>> /\ Head(todo) = QueryAndRest(n)[i]
  BY DEF QueryTodo
<1>2. /\ i = 2 => Head(todo) = Step("recordStepGC", n)
      /\ i = 3 => Head(todo) = Step("recordStepQueryPowers", n)
      /\ i = 4 => Head(todo) = Step("startHomRound", n)
      /\ i = 5 => Head(todo) = Step("ctxt_inner_product", n)
      /\ i = 6 => Head(todo) = Step("wall", n)
      /\ i = 7 => Head(todo) = Step("recordHomRoundReceiverSubStep", n)
      /\ i = 8 => Head(todo) = Step("endHomRound", n)
      /\ i = 10 => Head(todo) = Step("recordStepTokenCheck", n)
      /\ i = 11 => Head(todo) = Step("recordStepLabelRecovery", n)
      /\ i = 12 => Head(todo) = Step("recordQueryResult", n)
      /\ i = 13 => Head(todo) = Step("endQuery", n)
  BY <1>1, QueryAt
<1>3. Head(todo).op \in RecordOps /\ On = n
  BY <1>2, StepFields DEF RecordOps, On
<1>4. record
  BY <1>1, <1>3, BenchOperations
<1>5. /\ i # 13 => current_query_id_ = IF i + 1 \in 2 .. 13 THEN n - 1 ELSE nullopt
      /\ i \notin {4, 8} => current_round_idx_ = IF i + 1 \in 5 .. 8 THEN 0 ELSE nullopt
  BY Indices
<1>6. /\ i = 3 => PowersCost = SpentAt(i + 1) - SpentAt(i)
      /\ i = 4 => HomCost + DecryptCost = SpentAt(i + 1) - SpentAt(i)
      /\ i \notin {3, 4, 9} => 0 = SpentAt(i + 1) - SpentAt(i)
  <2>1. i \in 1 .. 14 /\ PowersCost \in Int /\ HomCost \in Int /\ DecryptCost \in Int
    BY CostTypes
  <2> QED
    BY <2>1, SpentSteps
<1>7. CurrentQuery = RecordAt(n, i) /\ current_query_id_ # nullopt /\ Current = n
  BY <1>0, CurrentIs
<1>8. CASE i \in {2, 3, 10, 11, 12}
  <2>1. /\ i = 2 => WriteQuery(RecordAt(n, i + 1)) /\ Recorded(0)
        /\ i = 3 => WriteQuery(RecordAt(n, i + 1)) /\ Recorded(PowersCost)
        /\ i \in {10, 11, 12} => WriteQuery(RecordAt(n, i + 1)) /\ Recorded(0)
    <3>1. CASE i = 2
      <4>1. recordStepGC(GcShare) /\ Recorded(0)
        BY <1>1, <1>2, <1>4, <3>1, RecordCalls, StepFields
      <4>2. [CurrentQuery EXCEPT !.gc_us = GcShare] = RecordAt(n, 3) /\ i + 1 = 3
        <5>1. CurrentQuery = RecordAt(n, 2) /\ i + 1 = 3
          BY <1>7, <3>1
        <5>2. [RecordAt(n, 2) EXCEPT !.gc_us = GcShare] = RecordAt(n, 3)
          BY RecordsWritten
        <5> QED
          BY <5>1, <5>2
      <4> QED
        BY <3>1, <4>1, <4>2 DEF recordStepGC
    <3>2. CASE i = 3
      <4>1. recordStepQueryPowers(PowersCost) /\ Recorded(PowersCost)
        BY <1>1, <1>2, <1>4, <3>2, RecordCalls, StepFields
      <4>2. [CurrentQuery EXCEPT !.r_encrypt_us = PowersCost] = RecordAt(n, 4) /\ i + 1 = 4
        <5>1. CurrentQuery = RecordAt(n, 3) /\ i + 1 = 4
          BY <1>7, <3>2
        <5>2. [RecordAt(n, 3) EXCEPT !.r_encrypt_us = PowersCost] = RecordAt(n, 4)
          BY RecordsWritten
        <5> QED
          BY <5>1, <5>2
      <4> QED
        BY <3>2, <4>1, <4>2 DEF recordStepQueryPowers
    <3>3. CASE i = 10
      <4>1. recordStepTokenCheck(1) /\ Recorded(0)
        BY <1>1, <1>2, <1>4, <3>3, RecordCalls, StepFields
      <4>2. [CurrentQuery EXCEPT !.token_check_us = 1] = RecordAt(n, 11) /\ i + 1 = 11
        <5>1. CurrentQuery = RecordAt(n, 10) /\ i + 1 = 11
          BY <1>7, <3>3
        <5>2. [RecordAt(n, 10) EXCEPT !.token_check_us = 1] = RecordAt(n, 11)
          BY RecordsWritten
        <5> QED
          BY <5>1, <5>2
      <4> QED
        BY <3>3, <4>1, <4>2 DEF recordStepTokenCheck
    <3>4. CASE i = 11
      <4>1. recordStepLabelRecovery(0) /\ Recorded(0)
        BY <1>1, <1>2, <1>4, <3>4, RecordCalls, StepFields
      <4>2. [CurrentQuery EXCEPT !.label_recovery_us = 0] = RecordAt(n, 12) /\ i + 1 = 12
        <5>1. CurrentQuery = RecordAt(n, 11) /\ i + 1 = 12
          BY <1>7, <3>4
        <5>2. [RecordAt(n, 11) EXCEPT !.label_recovery_us = 0] = RecordAt(n, 12)
          BY RecordsWritten
        <5> QED
          BY <5>1, <5>2
      <4> QED
        BY <3>4, <4>1, <4>2 DEF recordStepLabelRecovery
    <3>5. CASE i = 12
      <4>1. recordQueryResult(filed[<<1, n>>]) /\ Recorded(0)
        BY <1>1, <1>2, <1>3, <1>4, <3>5, RecordCalls, StepFields
      <4>2. [CurrentQuery EXCEPT !.labels = filed[<<1, n>>]] = RecordAt(n, 13) /\ i + 1 = 13
        BY <1>7, <3>5, RecordsWritten
      <4> QED
        BY <3>5, <4>1, <4>2 DEF recordQueryResult
    <3> QED
      BY <1>8, <3>1, <3>2, <3>3, <3>4, <3>5
  <2>2. WriteQuery(RecordAt(n, i + 1)) /\ filed' = filed /\ i \in 2 .. 12
    BY <1>8, <2>1 DEF Recorded
  <2>3. /\ RecordsTo(n, i + 1)'
        /\ UNCHANGED <<offline, session_wall_us, current_query_id_, current_round_idx_>>
    BY <1>0, <2>2, QueryWrites
  <2>4. PICK us : us = SpentAt(i + 1) - SpentAt(i) /\ Recorded(us)
    BY <1>6, <1>8, <2>1
  <2>5. /\ current_query_id_' = IF i + 1 \in 2 .. 13 THEN n - 1 ELSE nullopt
        /\ current_round_idx_' = IF i + 1 \in 5 .. 8 THEN 0 ELSE nullopt
    BY <1>5, <1>8, <2>3
  <2> QED
    BY <1>0, <2>3, <2>4, <2>5, QueryRecorded
<1>9. CASE i \in {5, 6, 7}
  <2>0. i \in 5 .. 7
    BY <1>9
  <2>1. CurrentRound = RoundAt(i)
    BY <1>0, <2>0, CurrentRoundIs
  <2>2. \E round : WriteRound(round) /\ round = RoundAt(i + 1) /\ Recorded(0)
    <3>1. CASE i = 5
      <4>1. recordHomRoundSenderSubStep("ctxt_inner_product", HomCost) /\ Recorded(0)
        BY <1>1, <1>2, <1>4, <3>1, RecordCalls, StepFields
      <4>2. [CurrentRound EXCEPT !.s["ctxt_inner_product"] = HomCost] = RoundAt(6) /\ i + 1 = 6
        BY <2>1, <3>1, RoundsWritten
      <4> QED
        BY <3>1, <4>1, <4>2 DEF recordHomRoundSenderSubStep
    <3>2. CASE i = 6
      <4>1. recordHomRoundSenderSubStep("wall", HomCost) /\ Recorded(0)
        BY <1>1, <1>2, <1>4, <3>2, RecordCalls, StepFields
      <4>2. [CurrentRound EXCEPT !.s["wall"] = HomCost] = RoundAt(7) /\ i + 1 = 7
        BY <2>1, <3>2, RoundsWritten
      <4> QED
        BY <3>2, <4>1, <4>2 DEF recordHomRoundSenderSubStep
    <3>3. CASE i = 7
      <4>1. recordHomRoundReceiverSubStep(DecryptCost) /\ Recorded(0)
        BY <1>1, <1>2, <1>4, <3>3, RecordCalls, StepFields
      <4>2. [CurrentRound EXCEPT !.r_decrypt_us = DecryptCost] = RoundAt(8) /\ i + 1 = 8
        BY <2>1, <3>3, RoundsWritten
      <4> QED
        BY <3>3, <4>1, <4>2 DEF recordHomRoundReceiverSubStep
    <3> QED
      BY <1>9, <3>1, <3>2, <3>3
  <2>3. PICK round : WriteRound(round) /\ round = RoundAt(i + 1) /\ Recorded(0)
    BY <2>2
  <2>4. filed' = filed
    BY <2>3 DEF Recorded
  <2>5. /\ RecordsTo(n, i + 1)'
        /\ UNCHANGED <<offline, session_wall_us, current_query_id_, current_round_idx_>>
    BY <1>0, <2>0, <2>3, <2>4, RoundWrites
  <2>6. /\ current_query_id_' = IF i + 1 \in 2 .. 13 THEN n - 1 ELSE nullopt
        /\ current_round_idx_' = IF i + 1 \in 5 .. 8 THEN 0 ELSE nullopt
    BY <1>5, <1>9, <2>5
  <2>7. 0 = SpentAt(i + 1) - SpentAt(i)
    BY <1>6, <1>9
  <2> QED
    BY <1>0, <2>3, <2>5, <2>6, <2>7, QueryRecorded
<1>10. CASE i = 4
  <2>1. startHomRound /\ Recorded(HomCost + DecryptCost)
    BY <1>1, <1>2, <1>4, <1>10, RecordCalls, StepFields
  <2>2. CurrentQuery.hom_rounds = <<>> /\ queries[n] = RecordAt(n, 4)
    BY <1>7, <1>10, RoundRecordsWritten DEF CurrentQuery
  <2>3. /\ queries' = [queries EXCEPT ![n].hom_rounds = Append(@, HomRound)]
        /\ current_round_idx_' = 0
        /\ UNCHANGED <<offline, session_wall_us, current_query_id_>>
    BY <1>7, <2>1, <2>2 DEF startHomRound
  <2>4. queries' = [queries EXCEPT ![n] =
                      [queries[n] EXCEPT !.hom_rounds = Append(queries[n].hom_rounds, HomRound)]]
    BY <2>3
  <2>5. [queries[n] EXCEPT !.hom_rounds = Append(queries[n].hom_rounds, HomRound)]
          = RecordAt(n, i + 1)
    <3>1. i + 1 = 5
      BY <1>10
    <3> QED
      BY <2>2, <3>1, RoundRecordsWritten
  <2>6. queries' = [queries EXCEPT ![n] = RecordAt(n, i + 1)]
    BY <2>4, <2>5
  <2>7. RecordsTo(n, i) /\ filed' = filed /\ i \in 2 .. 12
    BY <1>10, <2>1 DEF QueryState, Recorded
  <2>8. RecordsTo(n, i + 1)'
    BY <1>0, <2>6, <2>7, RecordsNext
  <2>9. /\ current_query_id_' = IF i + 1 \in 2 .. 13 THEN n - 1 ELSE nullopt
        /\ current_round_idx_' = IF i + 1 \in 5 .. 8 THEN 0 ELSE nullopt
    BY <1>5, <1>10, <2>3
  <2>10. HomCost + DecryptCost = SpentAt(i + 1) - SpentAt(i) /\ i # 9
    BY <1>6, <1>10
  <2> QED
    BY <1>0, <2>1, <2>3, <2>8, <2>9, <2>10, QueryRecorded
<1>11. CASE i \in {8, 13}
  <2>1. /\ i = 8 => endHomRound /\ Recorded(0)
        /\ i = 13 => endQuery /\ Recorded(0)
    BY <1>1, <1>2, <1>4, RecordCalls, StepFields
  <2>2. /\ queries' = queries /\ UNCHANGED <<offline, session_wall_us>>
        /\ i = 8 => current_round_idx_' = nullopt /\ current_query_id_' = current_query_id_
        /\ i = 13 => current_query_id_' = nullopt /\ current_round_idx_' = current_round_idx_
    BY <1>11, <2>1 DEF endHomRound, endQuery
  <2>3. RecordsTo(n, i) /\ filed' = filed /\ i \in {8, 9, 13, 14} /\ n \in 0 .. NrofQueries
    BY <1>11, <2>1 DEF QueryState, Recorded
  <2>4. RecordsTo(n, i + 1)'
    BY <1>0, <2>2, <2>3, RecordsKept
  <2>5. /\ current_query_id_' = IF i + 1 \in 2 .. 13 THEN n - 1 ELSE nullopt
        /\ current_round_idx_' = IF i + 1 \in 5 .. 8 THEN 0 ELSE nullopt
    BY <1>5, <1>11, <2>2
  <2>6. 0 = SpentAt(i + 1) - SpentAt(i) /\ Recorded(0)
    BY <1>6, <1>11, <2>1
  <2> QED
    BY <1>0, <2>2, <2>4, <2>5, <2>6, QueryRecorded
<1> QED
  BY <1>8, <1>9, <1>10, <1>11

\* The answer to a query is filed where its record will be.
LEMMA QueryAnswered ==
    ASSUME program.timed, ~crashed', NEW n \in 1 .. NrofQueries, started,
           QueryTodo(n, 9), QueryState(n, 9), Lives
    PROVE  Advance /\ QueryState(n, 10)'
<1>0. NrofQueries \in Nat
  BY InputsOK
<1>1. todo # <<>> /\ Head(todo) = Step("findMatches", n)
  BY QueryAt DEF QueryTodo
<1>2. Head(todo).op = "findMatches" /\ On = n
  BY <1>1, StepFields DEF On
<1>3. findRecordedMatches
  BY <1>1, <1>2, BenchOperations
<1>4. Answer(1, n) /\ Advance /\ clock' = clock + 1
  BY <1>2, <1>3 DEF findRecordedMatches, Work
<1>5. UNCHANGED <<offline, session_wall_us, que_ss_map, encrypted, queries,
                  current_query_id_, current_round_idx_>>
  BY <1>4 DEF Answer, instrumentation_vars
<1>6. /\ DOMAIN filed' = DOMAIN filed \cup {<<1, n>>}
      /\ \A place \in DOMAIN filed : place # <<1, n>> => filed'[place] = filed[place]
  BY <1>4, AnswerIsFiled
<1>7. RecordsTo(n, 9) /\ DOMAIN filed = {<<1, m>> : m \in 1 .. n - 1}
      /\ current_query_id_ = n - 1 /\ current_round_idx_ = nullopt
  BY DEF QueryState, FiledTo
<1>8. RecordsTo(n, 9 + 1)'
  <2>1. \A m \in 1 .. n - 1 : filed'[<<1, m>>] = filed[<<1, m>>]
    <3>1. ASSUME NEW m \in 1 .. n - 1 PROVE <<1, m>> \in DOMAIN filed /\ <<1, m>> # <<1, n>>
      BY <1>7
    <3> QED
      BY <1>6, <3>1
  <2>2. (IF 9 = 9 THEN n - 1 ELSE n) = n - 1 /\ 9 \in {8, 9, 13, 14} /\ n \in 0 .. NrofQueries
    OBVIOUS
  <2> QED
    BY <1>0, <1>5, <1>7, <2>1, <2>2, RecordsKept
<1>9. FiledTo(n, 9 + 1)'
  <2>1. DOMAIN filed' = {<<1, m>> : m \in 1 .. n}
    BY <1>6, <1>7
  <2>2. (IF 9 + 1 > 9 THEN n ELSE n - 1) = n
    OBVIOUS
  <2> QED
    BY <2>1, <2>2 DEF FiledTo
<1>10. clock' = clock + (SpentAt(9 + 1) - SpentAt(9))
  <2>1. SpentAt(9 + 1) = SpentAt(9) + 1 /\ SpentAt(9) \in Int
    BY SpentSteps
  <2> QED
    BY <1>4, <2>1
<1>11. QueryState(n, 9 + 1)'
  <2>1. /\ current_query_id_' = IF 9 + 1 \in 2 .. 13 THEN n - 1 ELSE nullopt
        /\ current_round_idx_' = IF 9 + 1 \in 5 .. 8 THEN 0 ELSE nullopt
        /\ 9 \in 1 .. 14 /\ n \in 0 .. NrofQueries
    BY <1>5, <1>7
  <2> QED
    BY <1>0, <1>5, <1>8, <1>9, <1>10, <2>1, QueryMoves
<1>12. 9 + 1 = 10
  OBVIOUS
<1> QED
  BY <1>4, <1>11, <1>12

\* A query that is over is followed by one that has not begun.
LEMMA NextQueryState ==
    ASSUME NEW n \in 0 .. NrofQueries, QueryState(n, 14)
    PROVE  QueryState(n + 1, 1)
<1>0. NrofQueries \in Nat
  BY InputsOK
<1>1. clock = OfflineCost + ((n + 1) - 1) * QueryCost + SpentAt(1)
  <2>1. clock = OfflineCost + (n - 1) * QueryCost + SpentAt(14)
    BY DEF QueryState
  <2>2. SpentAt(14) = QueryCost /\ QueryCost \in Int /\ OfflineCost \in Int
    BY CostTypes
  <2>3. SpentAt(1) = 0
    BY DEF SpentAt, One
  <2>4. (n - 1) * QueryCost + QueryCost = n * QueryCost /\ (n + 1) - 1 = n
    BY <1>0, <2>2
  <2>5. n * QueryCost \in Int /\ (n - 1) * QueryCost \in Int
    BY <1>0, <2>2
  <2> QED
    BY <2>1, <2>2, <2>3, <2>4, <2>5
<1>2. RecordsTo(n + 1, 1)
  <2>1. IsSeq(queries) /\ Len(queries) = n
        /\ \A m \in 1 .. n : queries[m] = RecordAt(m, IF m < n THEN 15 ELSE 14)
    BY DEF QueryState, RecordsTo
  <2>2. ASSUME NEW m \in 1 .. n PROVE queries[m] = RecordAt(m, IF m < n + 1 THEN 15 ELSE 1)
    <3>1. RecordAt(m, 15) = RecordAt(m, 14)
      BY RecordsWritten
    <3>2. queries[m] = RecordAt(m, 15) /\ m < n + 1
      BY <1>0, <2>1, <3>1
    <3> QED
      BY <3>2
  <2>3. Len(queries) = IF 1 > 1 THEN n + 1 ELSE (n + 1) - 1
    BY <1>0, <2>1
  <2> QED
    BY <2>1, <2>2, <2>3 DEF RecordsTo
<1>3. FiledTo(n + 1, 1)
  <2>1. (IF 14 > 9 THEN n ELSE n - 1) = n /\ (IF 1 > 9 THEN n + 1 ELSE (n + 1) - 1) = n
    BY <1>0
  <2> QED
    BY <2>1 DEF QueryState, FiledTo
<1> QED
  BY <1>1, <1>2, <1>3 DEF QueryState

LEMMA QueryIsRecorded ==
    ASSUME NEW n, NEW k \in 1 .. 13 PROVE RecordedQuery(n)[k] = QueryAndRest(n)[k]
<1>1. /\ QueryAndRest(n)[1] = RecordedQuery(n)[1] /\ QueryAndRest(n)[2] = RecordedQuery(n)[2]
      /\ QueryAndRest(n)[3] = RecordedQuery(n)[3] /\ QueryAndRest(n)[4] = RecordedQuery(n)[4]
      /\ QueryAndRest(n)[5] = RecordedQuery(n)[5] /\ QueryAndRest(n)[6] = RecordedQuery(n)[6]
      /\ QueryAndRest(n)[7] = RecordedQuery(n)[7] /\ QueryAndRest(n)[8] = RecordedQuery(n)[8]
      /\ QueryAndRest(n)[9] = RecordedQuery(n)[9] /\ QueryAndRest(n)[10] = RecordedQuery(n)[10]
      /\ QueryAndRest(n)[11] = RecordedQuery(n)[11]
      /\ QueryAndRest(n)[12] = RecordedQuery(n)[12]
      /\ QueryAndRest(n)[13] = RecordedQuery(n)[13]
  BY QueryAt DEF RecordedQuery
<1>2. k \in {1, 2, 3, 4, 5, 6, 7, 8, 9, 10, 11, 12, 13}
  OBVIOUS
<1> QED
  BY <1>1, <1>2

LEMMA QueryNext ==
    ASSUME program.timed, ~crashed', NEW n \in 0 .. NrofQueries, NEW i \in 1 .. 13,
           AtQuery(n, i), Lives
    PROVE  AtQuery(n, i + 1)'
<1>0. NrofQueries \in Nat
  BY InputsOK
<1>1. /\ started /\ Covers(todo, QueryAndRest(n), i, 15) /\ QueryState(n, i)
      /\ n \in 1 .. NrofQueries
  BY <1>0 DEF AtQuery
<1>2. QueryTodo(n, i)
  BY <1>1, QueryTail
<1>3. Advance /\ QueryState(n, i + 1)'
  <2>1. CASE i = 1
    <3>1. QueryTodo(n, 1) /\ QueryState(n, 1) /\ i + 1 = 2
      BY <1>1, <1>2, <2>1
    <3>2. Advance /\ QueryState(n, 2)'
      BY <1>1, <3>1, QueryStart
    <3> QED
      BY <3>1, <3>2
  <2>2. CASE i = 9
    <3>1. QueryTodo(n, 9) /\ QueryState(n, 9) /\ i + 1 = 10
      BY <1>1, <1>2, <2>2
    <3>2. Advance /\ QueryState(n, 10)'
      BY <1>1, <3>1, QueryAnswered
    <3> QED
      BY <3>1, <3>2
  <2>3. CASE i # 1 /\ i # 9
    <3>1. i \in 2 .. 13
      BY <2>3
    <3> QED
      BY <1>1, <1>2, <2>3, <3>1, QueryCalls
  <2> QED
    BY <2>1, <2>2, <2>3
<1>4. started' /\ Covers(todo', QueryAndRest(n), i + 1, 15)
  BY <1>1, <1>2, <1>3 DEF Advance, QueryTodo
<1>5. i + 1 # 15 /\ n # 0
  BY <1>1
<1> QED
  BY <1>3, <1>4, <1>5 DEF AtQuery

\* Between two queries: the next one is taken, or there is none.
LEMMA RoundNext ==
    ASSUME program.timed, ~crashed', NEW n \in 0 .. NrofQueries, AtQuery(n, 14), Lives
    PROVE  AtQuery(n, 15)' \/ (n < NrofQueries /\ AtQuery(n + 1, 1)')
<1>0. NrofQueries \in Nat
  BY InputsOK
<1>1. started /\ Covers(todo, QueryAndRest(n), 14, 15) /\ QueryState(n, 14)
  BY DEF AtQuery
<1>2. QueryTodo(n, 14)
  BY <1>1, QueryTail
<1>3. todo # <<>> /\ Head(todo) = Step("round", 1) /\ Covers(Tail(todo), QueryAndRest(n), 15, 15)
  <2>1. 14 + 1 = 15
    OBVIOUS
  <2> QED
    BY <1>2, <2>1, QueryAt DEF QueryTodo
<1>4. Head(todo).op = "round" /\ On = 1
  BY <1>3, StepFields DEF On
<1>5. endRound \/ submitRecordedQuery
  BY <1>1, <1>3, <1>4, BenchOperations
<1>6. DOMAIN filed = {<<1, m>> : m \in 1 .. n} /\ DOMAIN encrypted = 1 .. NrofQueries
  BY <1>1 DEF QueryState, FiledTo
<1>7. Unanswered(1) = n + 1 .. NrofQueries
  <2>1. ASSUME NEW m \in 1 .. NrofQueries
        PROVE  <<1, m>> \in DOMAIN filed <=> m \in 1 .. n
    BY <1>6
  <2>2. Unanswered(1) = {m \in 1 .. NrofQueries : m \notin 1 .. n}
    BY <1>6, <2>1 DEF Unanswered
  <2>3. \A m \in Nat : (m \in 1 .. NrofQueries /\ m \notin 1 .. n) <=> m \in n + 1 .. NrofQueries
    BY <1>0
  <2>4. \A m : (m \in 1 .. NrofQueries => m \in Nat) /\ (m \in n + 1 .. NrofQueries => m \in Nat)
    BY <1>0
  <2> QED
    BY <2>2, <2>3, <2>4
<1>8. CASE endRound
  <2>1. n = NrofQueries
    <3>1. n + 1 .. NrofQueries = {}
      BY <1>4, <1>7, <1>8 DEF endRound
    <3> QED
      BY <1>0, <3>1
  <2>2. /\ Advance /\ filed' = filed /\ clock' = clock
        /\ UNCHANGED <<que_ss_map, encrypted, offline, session_wall_us, queries,
                       current_query_id_, current_round_idx_>>
    BY <1>8 DEF endRound, query_vars, instrumentation_vars
  <2>3. RecordsTo(n, 14) /\ FiledTo(n, 14)
        /\ current_query_id_ = nullopt /\ current_round_idx_ = nullopt
    BY <1>1 DEF QueryState
  <2>4. RecordsTo(n, 14 + 1)'
    <3>1. \A m \in 1 .. IF 14 = 9 THEN n - 1 ELSE n : filed'[<<1, m>>] = filed[<<1, m>>]
      BY <2>2
    <3>2. 14 \in {8, 9, 13, 14}
      OBVIOUS
    <3> QED
      BY <1>0, <2>2, <2>3, <3>1, <3>2, RecordsKept
  <2>5. FiledTo(n, 14 + 1)'
    <3>1. 14 \in (1 .. 14) \ {9}
      OBVIOUS
    <3> QED
      BY <2>2, <2>3, <3>1, FiledStays
  <2>6. clock' = clock + (SpentAt(14 + 1) - SpentAt(14))
    <3>1. SpentAt(14 + 1) = SpentAt(14) /\ SpentAt(14) \in Int /\ clock \in Int
      <4>1. OfflineCost \in Int /\ QueryCost \in Int
        BY CostTypes
      <4>2. SpentAt(14 + 1) = SpentAt(14) /\ SpentAt(14) \in Int
        BY SpentSteps
      <4> QED
        BY <1>1, <4>1, <4>2 DEF QueryState
    <3> QED
      BY <2>2, <3>1
  <2>7. QueryState(n, 14 + 1)'
    <3>1. /\ current_query_id_' = IF 14 + 1 \in 2 .. 13 THEN n - 1 ELSE nullopt
          /\ current_round_idx_' = IF 14 + 1 \in 5 .. 8 THEN 0 ELSE nullopt
          /\ 14 \in 1 .. 14
      BY <2>2, <2>3
    <3> QED
      BY <1>0, <1>1, <2>2, <2>4, <2>5, <2>6, <3>1, QueryMoves
  <2>8. started' /\ Covers(todo', QueryAndRest(n), 15, 15) /\ 14 + 1 = 15
    BY <1>1, <1>3, <2>2 DEF Advance
  <2>9. AtQuery(n, 15)'
    BY <2>1, <2>7, <2>8 DEF AtQuery
  <2> QED
    BY <2>9
<1>9. CASE submitRecordedQuery
  <2>1. PICK m \in n + 1 .. NrofQueries :
           /\ \A k \in n + 1 .. NrofQueries : m <= k
           /\ todo' = RecordedQuery(m) \o todo
    BY <1>4, <1>7, <1>9 DEF submitRecordedQuery
  <2>2. m = n + 1 /\ n < NrofQueries
    BY <1>0, <2>1
  <2>3. UNCHANGED <<started, query_vars, clock, instrumentation_vars>>
    BY <1>9 DEF submitRecordedQuery
  <2>4. Covers(todo', QueryAndRest(n + 1), 1, 15)
    <3> DEFINE next == n + 1
               L == QueryAndRest(next)
    <3>1. Covers(RecordedQuery(next), L, 1, 13)
      <4>1. IsSeq(RecordedQuery(next)) /\ Len(RecordedQuery(next)) = 13
        BY RecordedQueryChecks
      <4>2. ASSUME NEW k \in 1 .. 13 PROVE RecordedQuery(next)[k] = L[1 + k - 1]
        <5>1. 1 + k - 1 = k
          OBVIOUS
        <5>2. RecordedQuery(next)[k] = L[k]
          BY QueryIsRecorded
        <5> QED
          BY <5>1, <5>2
      <4>3. 13 = 13 - 1 + 1
        OBVIOUS
      <4> HIDE DEF L
      <4> QED
        BY <4>1, <4>2, <4>3 DEF Covers
    <3>2. Covers(todo, L, 13 + 1, 15)
      <4>1. /\ IsSeq(todo) /\ Len(todo) = 2
            /\ \A k \in 1 .. Len(todo) : todo[k] = QueryAndRest(n)[14 + k - 1]
        BY <1>1 DEF Covers
      <4>2. ASSUME NEW k \in 1 .. Len(todo) PROVE todo[k] = L[(13 + 1) + k - 1]
        <5>1. CASE k = 1
          <6>1. 14 + k - 1 = 14 /\ (13 + 1) + k - 1 = 14
            BY <5>1
          <6>2. QueryAndRest(n)[14] = QueryAndRest(next)[14]
            BY QueryAt
          <6> QED
            BY <4>1, <6>1, <6>2
        <5>2. CASE k = 2
          <6>1. 14 + k - 1 = 15 /\ (13 + 1) + k - 1 = 15
            BY <5>2
          <6>2. QueryAndRest(n)[15] = QueryAndRest(next)[15]
            BY QueryAt
          <6> QED
            BY <4>1, <6>1, <6>2
        <5> QED
          BY <4>1, <5>1, <5>2
      <4>3. Len(todo) = 15 - (13 + 1) + 1
        BY <4>1
      <4> HIDE DEF L
      <4> QED
        BY <4>1, <4>2, <4>3 DEF Covers
    <3> HIDE DEF L
    <3>3. Covers(RecordedQuery(next) \o todo, L, 1, 15)
      BY <3>1, <3>2, CoversJoin
    <3> QED
      BY <2>1, <2>2, <3>3 DEF L
  <2>5. QueryState(n + 1, 1)'
    <3>1. QueryState(n, 14) => QueryState(n + 1, 1)
      BY NextQueryState
    <3>2. UNCHANGED <<clock, offline, queries, filed, current_query_id_, current_round_idx_,
                      session_wall_us, que_ss_map, encrypted>>
      BY <2>3 DEF query_vars, instrumentation_vars
    <3>3. QueryState(n + 1, 1)' = QueryState(n + 1, 1)
      BY <3>2 DEF QueryState, RecordsTo, RecordAt, FiledTo
    <3> QED
      BY <1>1, <3>1, <3>3
  <2>6. AtQuery(n + 1, 1)'
    <3>1. n + 1 # 0 /\ 1 # 15
      BY <1>0
    <3> QED
      BY <1>1, <2>3, <2>4, <2>5, <3>1 DEF AtQuery
  <2> QED
    BY <2>2, <2>6
<1> QED
  BY <1>5, <1>8, <1>9

----------------------------------------------------------------------------
(* The report                                                               *)

\* What the bench adds up for a query.
LEMMA OnlineTotal ==
    ASSUME NEW m PROVE online_total(RecordAt(m, 15)) = GcShare + QueryCost
<1> DEFINE h == <<RoundAt(8)>>
<1>1. RecordAt(m, 15) = Record(m - 1, GcShare, PowersCost, h, 1, filed[<<1, m>>])
  <2>1. 15 \in 13 .. 15
    OBVIOUS
  <2> QED
    BY <2>1, RecordForms
<1>2. Len(h) = 1 /\ DOMAIN h = 1 .. 1 /\ h[1] = RoundAt(8)
  OBVIOUS
<1>3. RoundWall(RoundAt(8)) = HomCost + DecryptCost
  <2>1. RoundAt(8) = Round(HomCost, HomCost, DecryptCost)
    BY DEF RoundAt
  <2>2. Round(HomCost, HomCost, DecryptCost).s["wall"] = HomCost
        /\ Round(HomCost, HomCost, DecryptCost).r_decrypt_us = DecryptCost
    BY DEF Round, SenderSubSteps
  <2> QED
    BY <2>1, <2>2 DEF RoundWall
<1> HIDE DEF h
<1> DEFINE f == [r \in DOMAIN h |-> RoundWall(h[r])]
<1>4. \A k \in 1 .. 1 : f[k] = HomCost + DecryptCost
  BY <1>2, <1>3
<1> HIDE DEF f
<1>5. Total(f, 1) = HomCost + DecryptCost
  <2>1. HomCost + DecryptCost \in Int /\ 1 \in Nat
    BY CostTypes
  <2>2. Total(f, 1) = 1 * (HomCost + DecryptCost)
    BY <1>4, <2>1, TotalOfEqual
  <2> QED
    BY <2>1, <2>2
<1>6. online_total(RecordAt(m, 15)) = GcShare + PowersCost + 1 + 0 + Total(f, 1)
  <2> DEFINE q == RecordAt(m, 15)
  <2>1. /\ q.gc_us = GcShare /\ q.r_encrypt_us = PowersCost /\ q.token_check_us = 1
        /\ q.label_recovery_us = 0 /\ q.hom_rounds = h
    BY <1>1 DEF Record
  <2> HIDE DEF q
  <2>2. online_total(q) = GcShare + PowersCost + 1 + 0 + Total(f, 1)
    BY <1>2, <2>1 DEF online_total, f
  <2> QED
    BY <2>2 DEF q
<1> QED
  <2>1. GcShare \in Int /\ PowersCost \in Int /\ HomCost \in Int /\ DecryptCost \in Int
    BY CostTypes
  <2> QED
    BY <1>5, <1>6, <2>1 DEF QueryCost

\* And for what comes before the queries.
LEMMA OfflineTotal ==
    ASSUME offline = OfflineAt(21) PROVE total_offline_us = 5 + PackCost
<1>1. /\ offline["step_init"] = 1 /\ offline["step_partition"] = 1 /\ offline["step_blind"] = 1
      /\ offline["step_share"] = 1 /\ offline["step_interp_pack"] = 1 + PackCost
  BY DEF OfflineAt, OfflineSteps, EndOf, WallOf
<1>2. PackCost \in Int
  BY CostTypes
<1> QED
  BY <1>1, <1>2 DEF total_offline_us

LEMMA FinalizeEnds ==
    ASSUME program.timed, ~crashed', AtQuery(NrofQueries, 15), Lives
    PROVE  AtEnd'
<1> DEFINE N == NrofQueries
<1>0. N \in Nat
  BY InputsOK
<1>1. started /\ Covers(todo, QueryAndRest(N), 15, 15) /\ QueryState(N, 15)
  BY DEF AtQuery
<1>2. todo # <<>> /\ Head(todo) = Step("finalize", 0) /\ Tail(todo) = <<>>
  <2>1. 15 \in 1 .. 15 /\ 15 + 1 = 16 /\ 15 \in Int
    OBVIOUS
  <2>2. QueryTodo(N, 15)
    BY <1>1, <2>1, QueryTail
  <2> DEFINE L == QueryAndRest(N)
             rest_of == Tail(todo)
             last == 15
  <2>3. Covers(rest_of, L, last + 1, last) /\ last \in Int
    BY <2>1, <2>2 DEF QueryTodo
  <2> HIDE DEF L, rest_of, last
  <2>4. rest_of = <<>>
    BY <2>3, CoversNothing
  <2>5. Head(todo) = Step("finalize", 0)
    BY <2>2, QueryAt DEF QueryTodo
  <2> QED
    BY <2>2, <2>4, <2>5 DEF QueryTodo, rest_of
<1>3. Head(todo).op = "finalize"
  BY <1>2, StepFields
<1>4. record
  BY <1>1, <1>2, <1>3, BenchOperations DEF RecordOps
<1>5. finalize /\ Recorded(0)
  BY <1>1, <1>2, <1>3, <1>4, RecordCalls
<1>6. /\ Advance /\ clock' = clock + 0 /\ UNCHANGED <<filed, que_ss_map, encrypted, offline>>
  BY <1>5 DEF Recorded, finalize
<1>7. IsSeq(queries) /\ Len(queries) = N /\ DOMAIN queries = 1 .. N
      /\ \A m \in 1 .. N : queries[m] = RecordAt(m, 15)
  <2>1. IsSeq(queries) /\ Len(queries) = N
        /\ \A m \in 1 .. N : queries[m] = RecordAt(m, IF m < N THEN 15 ELSE 15)
    BY <1>1 DEF QueryState, RecordsTo
  <2>2. DOMAIN queries = 1 .. N
    BY <2>1, SeqBasics
  <2> QED
    BY <2>1, <2>2
<1> DEFINE total == GcShare + QueryCost
           f == [m \in DOMAIN queries |-> online_total(queries[m])]
<1>8. total \in Int /\ \A m \in 1 .. N : online_total(queries[m]) = total
  BY <1>7, OnlineTotal, CostTypes
<1>9. queries' = [m \in 1 .. N |-> [RecordAt(m, 15) EXCEPT !.online_wall_us = total]]
  <2>1. queries' = [m \in DOMAIN queries |->
                      [queries[m] EXCEPT !.online_wall_us = online_total(queries[m])]]
    BY <1>5 DEF finalize
  <2> HIDE DEF total
  <2> QED
    BY <1>7, <1>8, <2>1
<1>10. session_wall_us' = total_offline_us + Total(f, N)
  BY <1>5, <1>7 DEF finalize
<1>11. Total(f, N) = N * total
  <2>1. \A m \in 1 .. N : f[m] = total
    BY <1>7, <1>8
  <2> HIDE DEF f, total
  <2> QED
    BY <1>0, <1>8, <2>1, TotalOfEqual
<1>12. session_wall_us' = 5 + PackCost + N * total
  <2>1. offline = OfflineAt(21)
    BY <1>1 DEF QueryState
  <2> QED
    BY <1>10, <1>11, <2>1, OfflineTotal
<1>13. clock' = OfflineCost + N * QueryCost
  <2>1. clock = OfflineCost + (N - 1) * QueryCost + SpentAt(15)
    BY <1>1 DEF QueryState
  <2>2. SpentAt(15) = QueryCost /\ QueryCost \in Int /\ OfflineCost \in Int
    BY CostTypes
  <2>3. (N - 1) * QueryCost + QueryCost = N * QueryCost /\ N * QueryCost \in Int
        /\ (N - 1) * QueryCost \in Int
    BY <1>0, <2>2
  <2> QED
    BY <1>6, <2>1, <2>2, <2>3
<1>14. \A m \in 1 .. N : RecordAt(m, 15)' = RecordAt(m, 15)
  BY <1>6, RecordStays
<1>15. Len(queries') = N /\ DOMAIN queries' = 1 .. N
       /\ \A m \in 1 .. N :
             queries'[m] = [RecordAt(m, 15)' EXCEPT !.online_wall_us = total]
  <2>1. DOMAIN queries' = 1 .. N
    BY <1>9
  <2>2. Len(queries') = N
    <3> DEFINE e(m) == [RecordAt(m, 15) EXCEPT !.online_wall_us = total]
    <3>1. queries' = [m \in 1 .. N |-> e(m)]
      BY <1>9
    <3> HIDE DEF e
    <3> QED
      BY <1>0, <3>1
  <2>3. ASSUME NEW m \in 1 .. N
        PROVE  queries'[m] = [RecordAt(m, 15)' EXCEPT !.online_wall_us = total]
    <3>1. queries'[m] = [RecordAt(m, 15) EXCEPT !.online_wall_us = total]
      BY <1>9
    <3> HIDE DEF total
    <3> QED
      BY <1>14, <3>1
  <2> QED
    BY <2>1, <2>2, <2>3
<1>16. started' /\ todo' = <<>>
  BY <1>1, <1>2, <1>6 DEF Advance
<1>17. /\ offline' = OfflineAt(21) /\ DOMAIN que_ss_map' = 0 .. N - 1 /\ Len(encrypted') = N
  BY <1>1, <1>6 DEF QueryState
<1> QED
  BY <1>12, <1>13, <1>15, <1>16, <1>17 DEF AtEnd, EndState

\* What the report then says.
LEMMA EndIsReported ==
    AtEnd => RecordsAreOfTheirQuery /\ WallIsTheWork
<1> SUFFICES ASSUME AtEnd PROVE RecordsAreOfTheirQuery /\ WallIsTheWork
  OBVIOUS
<1> DEFINE N == NrofQueries
<1>0. /\ N \in Nat /\ GcCost \in Nat \ {0} /\ PowersCost \in Nat \ {0} /\ GcShare \in Nat
      /\ QueryCost \in Nat /\ PackCost \in Nat \ {0}
  BY CostTypes
<1>1. /\ Len(queries) = N /\ DOMAIN queries = 1 .. N
      /\ \A m \in 1 .. N :
            queries[m] = [RecordAt(m, 15) EXCEPT !.online_wall_us = GcShare + QueryCost]
      /\ offline = OfflineAt(21)
      /\ session_wall_us = 5 + PackCost + N * (GcShare + QueryCost)
      /\ clock = OfflineCost + N * QueryCost
      /\ DOMAIN que_ss_map = 0 .. N - 1 /\ Len(encrypted) = N
  BY DEF AtEnd, EndState
<1>2. ASSUME NEW m \in 1 .. N
      PROVE  /\ queries[m].query_id = query_keys[m]
             /\ queries[m].labels = filed[<<1, m>>]
             /\ Len(queries[m].hom_rounds) = 1
             /\ queries[m].r_encrypt_us > 0
             /\ queries[m].gc_us = GcShare
  <2> DEFINE rounds == <<RoundAt(8)>>
  <2>1. RecordAt(m, 15) = Record(m - 1, GcShare, PowersCost, rounds, 1, filed[<<1, m>>])
    <3>1. 15 \in 13 .. 15
      OBVIOUS
    <3> QED
      BY <3>1, RecordForms
  <2>2. Len(rounds) = 1
    OBVIOUS
  <2> HIDE DEF rounds
  <2> DEFINE total == GcShare + QueryCost
             r == Record(m - 1, GcShare, PowersCost, rounds, 1, filed[<<1, m>>])
  <2>3. queries[m] = [r EXCEPT !.online_wall_us = total]
    BY <1>1, <2>1
  <2> HIDE DEF total
  <2>4. /\ queries[m].query_id = m - 1 /\ queries[m].labels = filed[<<1, m>>]
        /\ queries[m].hom_rounds = rounds /\ queries[m].r_encrypt_us = PowersCost
        /\ queries[m].gc_us = GcShare
    BY <2>3 DEF Record
  <2>5. query_keys[m] = m - 1
    <3>1. query_keys = [n \in 1 .. NrofQueries |-> n - 1]
      BY <1>1, BenchKeys
    <3> QED
      BY <3>1
  <2> QED
    BY <1>0, <2>2, <2>4, <2>5
<1>3. N > 0 => GcShare = GcCost \div N
  BY <1>0 DEF GcShare
<1>4. N > 0 => (GcShare > 0 <=> N <= GcCost)
  <2> SUFFICES ASSUME N > 0 PROVE GcShare > 0 <=> N <= GcCost
    OBVIOUS
  <2>1. N \in Nat \ {0}
    BY <1>0
  <2> DEFINE w == GcCost % N
  <2>2. w \in Nat /\ w < N /\ GcCost = N * GcShare + w
    BY <1>0, <1>3, <2>1, DivMod
  <2> HIDE DEF w
  <2>3. CASE GcShare = 0
    <3>1. N * GcShare = 0
      BY <1>0, <2>3
    <3> QED
      BY <1>0, <2>2, <2>3, <3>1
  <2>4. CASE GcShare > 0
    <3>1. N * 1 <= N * GcShare /\ N * GcShare \in Nat
      BY <1>0, <2>4
    <3> QED
      BY <1>0, <2>2, <2>4, <3>1
  <2> QED
    BY <1>0, <2>3, <2>4
<1>5. \A section \in OfflineSteps : offline[section] > 0
  <2> SUFFICES ASSUME NEW section \in OfflineSteps PROVE offline[section] > 0
    OBVIOUS
  <2>1. WallOf(section) \in Nat \ {0} /\ EndOf(section) \in {4, 7, 11, 14, 20}
    BY Sections
  <2>2. 21 > EndOf(section)
    BY <2>1
  <2>3. offline[section] = WallOf(section)
    BY <1>1, <2>2 DEF OfflineAt
  <2> QED
    BY <2>1, <2>3
<1>6. RecordsAreOfTheirQuery
  <2>1. ASSUME NEW m \in 1 .. N PROVE queries[m].gc_us > 0 <=> NrofQueries <= GcCost
    <3>1. N > 0
      BY <1>0
    <3> QED
      BY <1>2, <1>4, <2>1, <3>1
  <2>2. ASSUME NEW m \in DOMAIN queries
        PROVE  /\ queries[m].query_id = query_keys[m]
               /\ queries[m].labels = filed[<<1, m>>]
               /\ Len(queries[m].hom_rounds) = 1
               /\ queries[m].r_encrypt_us > 0
               /\ queries[m].gc_us > 0 <=> NrofQueries <= GcCost
    BY <1>1, <1>2, <2>1
  <2> QED
    BY <1>1, <1>5, <2>2 DEF RecordsAreOfTheirQuery
<1>7. session_wall_us = clock - IF NrofQueries = 0 THEN GcCost ELSE GcCost % NrofQueries
  <2>1. N * (GcShare + QueryCost) = N * GcShare + N * QueryCost
        /\ N * GcShare \in Nat /\ N * QueryCost \in Nat
    BY <1>0
  <2>2. clock = 5 + PackCost + GcCost + N * QueryCost
    BY <1>1 DEF OfflineCost
  <2>3. CASE N = 0
    <3>1. N * GcShare = 0
      BY <1>0, <2>3
    <3> QED
      BY <1>0, <1>1, <2>1, <2>2, <2>3, <3>1
  <2>4. CASE N # 0
    <3>1. N \in Nat \ {0}
      BY <1>0, <2>4
    <3> DEFINE w == GcCost % N
    <3>2. w \in Nat /\ GcCost = N * GcShare + w
      BY <1>0, <1>3, <3>1, DivMod
    <3> HIDE DEF w
    <3>3. session_wall_us = clock - w
      <4>1. PICK a \in Nat : a = N * GcShare
        BY <2>1
      <4>2. PICK b \in Nat : b = N * QueryCost
        BY <2>1
      <4>3. session_wall_us = 5 + PackCost + (a + b)
        BY <1>1, <2>1, <4>1, <4>2
      <4>4. clock = 5 + PackCost + (a + w) + b
        BY <2>2, <3>2, <4>1, <4>2
      <4> QED
        BY <1>0, <3>2, <4>1, <4>2, <4>3, <4>4
    <3> QED
      BY <2>4, <3>3 DEF w
  <2> QED
    BY <2>3, <2>4
<1> QED
  BY <1>6, <1>7 DEF WallIsTheWork

\* The bench reads no file, so it never misses a share.
\* Only a recorder writes its total, and nothing else than finalize.
LEMMA WallSteps ==
    ASSUME [Lives]_vars, ~Doing("finalize")
    PROVE  session_wall_us' = session_wall_us
<1> USE DEF instrumentation_vars
<1>1. CASE applyToGlobals \/ ChooseDatabase \/ loadEnrollmentCSV \/ shareAgain
  BY <1>1 DEF applyToGlobals, ChooseDatabase, loadEnrollmentCSV, shareAgain
<1>2. CASE clearShares \/ setShares \/ generateAesKey \/ blindDatabaseOffline
  BY <1>2 DEF clearShares, setShares, generateAesKey, blindDatabaseOffline
<1>3. CASE parallelPartitionDB \/ computeCoefficients \/ simdPartitions
  BY <1>3 DEF parallelPartitionDB, computeCoefficients, simdPartitions
<1>4. CASE loadQueries \/ prepareQueries \/ endRound \/ submitRecordedQuery
  BY <1>4 DEF loadQueries, prepareQueries, endRound, submitRecordedQuery
<1>5. ASSUME NEW r, NEW n, Answer(r, n) PROVE session_wall_us' = session_wall_us
  BY <1>5 DEF Answer
<1>6. CASE submitQuery \/ findRecordedMatches
  BY <1>5, <1>6 DEF submitQuery, findRecordedMatches
<1>7. CASE record
  BY <1>7 DEF record, recordOfflineStepStart, recordOfflineStepEnd, recordSubStepTiming,
       startQuery, recordStepGC, recordStepQueryPowers, recordStepTokenCheck,
       recordStepLabelRecovery, recordQueryResult, startHomRound, endHomRound, endQuery,
       recordHomRoundSenderSubStep, recordHomRoundReceiverSubStep, WriteQuery, WriteRound
<1>8. CASE UNCHANGED vars \/ Exit
  BY <1>8 DEF vars, Exit
<1> QED
  BY <1>1, <1>2, <1>3, <1>4, <1>6, <1>7, <1>8 DEF Lives, Next

\* The total is a number while the bench runs, and when it is written.
LEMMA WallIsNumber ==
    ASSUME Reporting PROVE session_wall_us \in Nat
<1>1. CASE AtStart \/ \E j \in 1 .. 22 : AtOffline(j)
  BY <1>1 DEF AtStart, AtOffline, OfflineState, NothingAsked
<1>2. CASE \E n \in 0 .. NrofQueries, i \in 1 .. 15 : AtQuery(n, i)
  BY <1>2 DEF AtQuery, QueryState
<1>3. CASE AtEnd
  <2>1. session_wall_us = 5 + PackCost + NrofQueries * (GcShare + QueryCost)
    BY <1>3 DEF AtEnd, EndState
  <2>2. NrofQueries \in Nat
    BY InputsOK
  <2>3. PICK c \in Nat : c = GcShare + QueryCost
    BY CostTypes
  <2>4. NrofQueries * c \in Nat /\ PackCost \in Nat
    BY <2>2, CostTypes
  <2> QED
    BY <2>1, <2>3, <2>4
<1> QED
  BY <1>1, <1>2, <1>3 DEF Reporting

\* Nothing of the report changes with nothing else.
LEMMA ReportStutters ==
    ASSUME UNCHANGED vars, ReportInv PROVE ReportInv'
<1>0. UNCHANGED <<program, started, todo, crashed, clock, filed, que_ss_map, encrypted, step_timers_,
                  sub_steps, offline, queries, current_query_id_, current_round_idx_,
                  session_wall_us>>
  BY DEF vars, control_vars, query_vars, instrumentation_vars
<1>1. ASSUME NEW j PROVE OfflineState(j)' = OfflineState(j)
  BY <1>0 DEF OfflineState, NothingAsked
<1>2. ASSUME NEW m, NEW i PROVE RecordAt(m, i)' = RecordAt(m, i)
  BY <1>0 DEF RecordAt
<1>3. ASSUME NEW n, NEW i PROVE QueryState(n, i)' = QueryState(n, i)
  <2>1. RecordsTo(n, i)' = RecordsTo(n, i)
    BY <1>0, <1>2 DEF RecordsTo
  <2> QED
    BY <1>0, <2>1 DEF QueryState, FiledTo
<1>4. EndState' = EndState
  BY <1>0, <1>2 DEF EndState
<1>5. AtStart' = AtStart /\ AtEnd' = AtEnd
  BY <1>0, <1>1, <1>4 DEF AtStart, AtEnd
<1>6. \A j : AtOffline(j)' = AtOffline(j)
  BY <1>0, <1>1 DEF AtOffline
<1>7. \A n, i : AtQuery(n, i)' = AtQuery(n, i)
  BY <1>0, <1>3 DEF AtQuery
<1> QED
  BY <1>0, <1>5, <1>6, <1>7 DEF ReportInv, Reporting, Unreported

LEMMA ReportInvInit == Init => ReportInv
<1> SUFFICES ASSUME Init PROVE AtStart
  BY DEF ReportInv, Reporting, Init
<1>1. clock = ClockAt(1)
  BY Clocks DEF Init
<1>2. /\ ~started /\ filed = <<>>
      /\ step_timers_ = [s \in OfflineSteps |-> 0] /\ sub_steps = [s \in SubSteps |-> 0]
      /\ offline = [s \in OfflineSteps |-> 0] /\ queries = <<>>
      /\ current_query_id_ = nullopt /\ current_round_idx_ = nullopt /\ session_wall_us = 0
  BY DEF Init, InstrumentationInit
<1>3. sub_steps = SubStepsAt(1)
  BY <1>2 DEF SubStepsAt
<1>4. offline = OfflineAt(1)
  <2>1. ASSUME NEW section \in OfflineSteps PROVE ~(1 > EndOf(section))
    BY Sections
  <2> QED
    BY <1>2, <2>1 DEF OfflineAt
<1>5. ASSUME NEW section \in OfflineSteps PROVE ~(StartOf(section) < 1)
  BY Sections
<1> QED
  BY <1>1, <1>2, <1>3, <1>4, <1>5 DEF AtStart, OfflineState, NothingAsked

\* The first step is the reading of the parameters.
LEMMA OnlyApplies ==
    ASSUME ~started, Lives PROVE applyToGlobals
  BY DEF Lives, Next, Doing, Done, Exit, ChooseDatabase, loadEnrollmentCSV, shareAgain, clearShares,
         setShares, generateAesKey, blindDatabaseOffline, parallelPartitionDB,
         computeCoefficients, simdPartitions, loadQueries, prepareQueries, submitQuery,
         endRound, submitRecordedQuery, findRecordedMatches, record

LEMMA BenchStarts ==
    ASSUME program.timed, program.name = "bench", AtStart, Lives
    PROVE  AtOffline(1)'
<1>1. applyToGlobals
  BY OnlyApplies DEF AtStart
<1>2. started' /\ todo' = Steps /\ UNCHANGED <<filed, que_ss_map, clock, instrumentation_vars>>
  BY <1>1 DEF applyToGlobals, query_vars
<1>3. OfflineState(1)' = OfflineState(1)
  BY <1>2 DEF OfflineState, NothingAsked, instrumentation_vars
<1>4. Covers(todo', Bench, 1, 24)
  BY <1>2, BenchIsTheList
<1> QED
  BY <1>2, <1>3, <1>4 DEF AtOffline, AtStart

LEMMA ReportInvNext == ControlInv /\ ReportInv /\ [Lives]_vars => ReportInv'
<1> SUFFICES ASSUME ControlInv, ReportInv, [Lives]_vars PROVE ReportInv'
  OBVIOUS
<1>1. CASE UNCHANGED vars
  BY <1>1, ReportStutters
<1>2. CASE Lives
  <2>0. program' = program /\ program \in Configs /\ started \in BOOLEAN /\ crashed \in BOOLEAN
    <3>1. OrderInv /\ started \in BOOLEAN /\ crashed \in BOOLEAN /\ program \in Configs
      BY DEF ControlInv, DataInv, OrderInv
    <3>2. program' = program
      BY <3>1, OrderStep
    <3> QED
      BY <3>1, <3>2
  <2>1. CASE ~program.timed
    BY <2>0, <2>1 DEF ReportInv
  <2>2. CASE program.timed /\ crashed
    <3>1. started /\ todo = <<>>
      BY <2>2 DEF ReportInv, Unreported
    <3>2. UNCHANGED vars
      BY <1>2, <3>1, NothingAfterwards DEF Lives
    <3> QED
      BY <3>2, ReportStutters
  <2>3. CASE program.timed /\ ~crashed /\ crashed'
    <3>1. Dies
      BY <2>0, <2>3, TodoSteps DEF Begins, Goes, Records, Rests
    <3>2. ~Doing("finalize")
      BY <3>1 DEF Dies, Doing, Computes
    <3>3. session_wall_us' = session_wall_us /\ session_wall_us \in Nat
      BY <2>3, <3>2, WallSteps, WallIsNumber DEF ReportInv
    <3> QED
      BY <2>3, <3>1, <3>3 DEF Dies, ReportInv, Unreported
  <2>4. CASE program.timed /\ ~crashed /\ ~crashed'
    <3> SUFFICES Reporting'
      BY <2>4 DEF ReportInv
    <3>0. Reporting
      BY <2>4 DEF ReportInv
    <3>1. program.name = "bench"
      BY <2>0, <2>4, ConfigsOK
    <3>2. program.timed
      BY <2>4
    <3>3. ~crashed'
      BY <2>4
    <3>4. CASE AtStart
      <4>1. AtOffline(1)'
        BY <1>2, <3>2, <3>1, <3>4, BenchStarts
      <4> QED
        BY <4>1 DEF Reporting
    <3>5. ASSUME NEW j \in 1 .. 22, AtOffline(j) PROVE Reporting'
      <4>1. IF j < 22 THEN AtOffline(j + 1)' ELSE AtQuery(0, 14)'
        BY <1>2, <3>2, <3>3, <3>5, OfflineNext
      <4>2. CASE j < 22
        <5>1. j + 1 \in 1 .. 22 /\ AtOffline(j + 1)'
          BY <4>1, <4>2
        <5>2. PICK l \in 1 .. 22 : AtOffline(l)'
          BY <5>1
        <5> QED
          BY <5>2 DEF Reporting
      <4>3. CASE ~(j < 22)
        <5>1. 0 \in 0 .. NrofQueries /\ 14 \in 1 .. 15
          BY InputsOK
        <5> QED
          BY <4>1, <4>3, <5>1 DEF Reporting
      <4> QED
        BY <4>2, <4>3
    <3>6. ASSUME NEW n \in 0 .. NrofQueries, NEW i \in 1 .. 15, AtQuery(n, i) PROVE Reporting'
      <4>0. NrofQueries \in Nat
        BY InputsOK
      <4>1. CASE i \in 1 .. 13
        <5>1. AtQuery(n, i + 1)' /\ i + 1 \in 1 .. 15
          BY <1>2, <3>2, <3>3, <3>6, <4>1, QueryNext
        <5>2. PICK l \in 1 .. 15 : AtQuery(n, l)'
          BY <5>1
        <5> QED
          BY <5>2 DEF Reporting
      <4>2. CASE i = 14
        <5>1. AtQuery(n, 14)
          BY <3>6, <4>2
        <5>2. AtQuery(n, 15)' \/ (n < NrofQueries /\ AtQuery(n + 1, 1)')
          BY <1>2, <3>2, <3>3, <5>1, RoundNext
        <5>3. \E m \in 0 .. NrofQueries, l \in 1 .. 15 : AtQuery(m, l)'
          <6>1. CASE AtQuery(n, 15)'
            BY <6>1
          <6>2. CASE n < NrofQueries /\ AtQuery(n + 1, 1)'
            <7>1. n + 1 \in 0 .. NrofQueries /\ 1 \in 1 .. 15
              BY <4>0, <6>2
            <7> QED
              BY <6>2, <7>1
          <6> QED
            BY <5>2, <6>1, <6>2
        <5> QED
          BY <5>3 DEF Reporting
      <4>3. CASE i = 15
        <5>1. n = NrofQueries /\ AtQuery(NrofQueries, 15)
          BY <3>6, <4>3 DEF AtQuery
        <5>2. AtEnd'
          BY <1>2, <3>2, <3>3, <5>1, FinalizeEnds
        <5> QED
          BY <5>2 DEF Reporting
      <4>4. i \in 1 .. 13 \/ i = 14 \/ i = 15
        OBVIOUS
      <4> QED
        BY <4>1, <4>2, <4>3, <4>4
    <3>7. CASE AtEnd
      <4>1. UNCHANGED vars
        BY <1>2, <3>7, NothingAfterwards DEF AtEnd, Lives
      <4> QED
        BY <2>0, <2>4, <3>0, <4>1, ReportStutters DEF ReportInv
    <3> QED
      BY <3>0, <3>4, <3>5, <3>6, <3>7 DEF Reporting
  <2> QED
    BY <2>0, <2>1, <2>2, <2>3, <2>4
<1> QED
  BY <1>1, <1>2

\* A program whose report is written has nothing left to do.
LEMMA DoneIsEnd ==
    ASSUME ReportInv, Done, program.timed, ~crashed PROVE AtEnd
<1>1. started /\ todo = <<>>
  BY DEF Done
<1>2. ~AtStart
  BY <1>1 DEF AtStart
<1>3. ASSUME NEW j \in 1 .. 22 PROVE ~AtOffline(j)
  <2> SUFFICES ASSUME AtOffline(j) PROVE FALSE
    OBVIOUS
  <2>1. Covers(todo, Bench, j, 24)
    BY DEF AtOffline
  <2>2. BenchTodo(j)
    BY <2>1, BenchTail
  <2> QED
    BY <1>1, <2>2 DEF BenchTodo
<1>4. ASSUME NEW n \in 0 .. NrofQueries, NEW i \in 1 .. 15 PROVE ~AtQuery(n, i)
  <2> SUFFICES ASSUME AtQuery(n, i) PROVE FALSE
    OBVIOUS
  <2>1. Covers(todo, QueryAndRest(n), i, 15)
    BY DEF AtQuery
  <2>2. QueryTodo(n, i)
    BY <2>1, QueryTail
  <2> QED
    BY <1>1, <2>2 DEF QueryTodo
<1> QED
  BY <1>2, <1>3, <1>4 DEF ReportInv, Reporting

LEMMA ReportIsRight == ReportInv => RecordsAreOfTheirQuery /\ WallIsTheWork
<1> SUFFICES ASSUME ReportInv PROVE RecordsAreOfTheirQuery /\ WallIsTheWork
  OBVIOUS
<1>1. CASE Done /\ ~crashed /\ program.timed
  BY <1>1, DoneIsEnd, EndIsReported
<1>2. CASE ~(Done /\ ~crashed /\ program.timed)
  BY <1>2 DEF RecordsAreOfTheirQuery, WallIsTheWork
<1> QED
  BY <1>1, <1>2

\* When the instrumented bench has written its report, record n is the one of
\* query n, with its answer, one round and every section measured, however many
\* queries there are and whatever the sections take; the calls of
\* io/instrumentation.cc find the record by the id that startQuery was given.
THEOREM RecordsKeepTheirQuery == Spec => []RecordsAreOfTheirQuery
<1>1. ControlInv /\ ReportInv => RecordsAreOfTheirQuery
  BY ReportIsRight
<1>2. ControlInv /\ ReportInv /\ [Next]_vars => ((ControlInv /\ ReportInv) \/ Starved)'
  BY ControlNext, ReportInvNext, Starving DEF Lives, ControlInv
<1>3. Starved => RecordsAreOfTheirQuery
  BY DEF Starved, RecordsAreOfTheirQuery
<1>4. Starved /\ [Next]_vars => Starved'
  BY StarvedStays
<1> QED
  BY <1>1, <1>2, <1>3, <1>4, ControlInit, ReportInvInit, PTL DEF Spec

\* The wall of the session is the work of the timed sections, each counted once;
\* what the division of the circuit's time among the queries leaves is all that
\* is lost (cli.cc:409).
THEOREM WallCountsTheWork == Spec => []WallIsTheWork
<1>1. ControlInv /\ ReportInv => WallIsTheWork
  BY ReportIsRight
<1>2. ControlInv /\ ReportInv /\ [Next]_vars => ((ControlInv /\ ReportInv) \/ Starved)'
  BY ControlNext, ReportInvNext, Starving DEF Lives, ControlInv
<1>3. Starved => WallIsTheWork
  BY DEF Starved, WallIsTheWork
<1>4. Starved /\ [Next]_vars => Starved'
  BY StarvedStays
<1> QED
  BY <1>1, <1>2, <1>3, <1>4, ControlInit, ReportInvInit, PTL DEF Spec

----------------------------------------------------------------------------
(* The types of what outlives an operation                                  *)

\* Nothing of a sequence writes the report.
Plain(s) == IsSeq(s) /\ \A k \in DOMAIN s : s[k].op # "finalize"

LEMMA PlainNone == Plain(<<>>)
<1>1. <<>> \in Seq({}) /\ DOMAIN <<>> = {}
  OBVIOUS
<1> QED
  BY <1>1 DEF Plain, IsSeq

LEMMA PlainOne ==
    ASSUME NEW op, op # "finalize", NEW on
    PROVE  Plain(<<Step(op, on)>>) /\ Plain(Op(op))
<1>1. ASSUME NEW step, step.op # "finalize" PROVE Plain(<<step>>)
  <2>1. <<step>> \in Seq({step}) /\ DOMAIN <<step>> = {1} /\ <<step>>[1] = step
    OBVIOUS
  <2> QED
    BY <1>1, <2>1 DEF Plain, IsSeq
<1>2. Step(op, on).op # "finalize" /\ Step(op, 0).op # "finalize"
  BY StepFields
<1> QED
  BY <1>1, <1>2 DEF Op

LEMMA PlainJoin ==
    ASSUME NEW s, NEW t, Plain(s), Plain(t) PROVE Plain(s \o t)
<1>1. /\ IsSeq(s \o t) /\ DOMAIN (s \o t) = 1 .. Len(s) + Len(t)
      /\ \A k \in DOMAIN (s \o t) :
            (s \o t)[k] = IF k <= Len(s) THEN s[k] ELSE t[k - Len(s)]
  BY ConcatBasics DEF Plain
<1>2. /\ Len(s) \in Nat /\ DOMAIN s = 1 .. Len(s)
      /\ Len(t) \in Nat /\ DOMAIN t = 1 .. Len(t)
  BY SeqBasics DEF Plain
<1>3. ASSUME NEW k \in 1 .. Len(s) + Len(t) PROVE (s \o t)[k].op # "finalize"
  <2>1. CASE k <= Len(s)
    <3>1. k \in DOMAIN s /\ (s \o t)[k] = s[k]
      BY <1>1, <1>2, <2>1
    <3> QED
      BY <3>1 DEF Plain
  <2>2. CASE ~(k <= Len(s))
    <3>1. k - Len(s) \in DOMAIN t /\ (s \o t)[k] = t[k - Len(s)]
      BY <1>1, <1>2, <2>2
    <3> QED
      BY <3>1 DEF Plain
  <2> QED
    BY <2>1, <2>2
<1> QED
  BY <1>1, <1>3 DEF Plain

LEMMA PlainMany ==
    ASSUME NEW n \in Nat, NEW s, s = [k \in 1 .. n |-> s[k]],
           \A k \in 1 .. n : s[k].op # "finalize"
    PROVE  Plain(s)
<1>1. DOMAIN s = 1 .. n
  OBVIOUS
<1>2. s \in Seq({s[k] : k \in 1 .. n})
  <2>1. s \in [1 .. n -> {s[k] : k \in 1 .. n}]
    OBVIOUS
  <2> QED
    BY <2>1, SMTT(30)
<1> QED
  BY <1>1, <1>2 DEF Plain, IsSeq

LEMMA PlainPrograms ==
    ASSUME program \in Configs, ~program.timed PROVE Plain(Steps)
<1>0. T \in Nat \ {0} /\ K \in Nat /\ Rounds \in Nat \ {0} /\ T - 1 \in Nat
      /\ 3 * T \in Nat /\ 2 * Rounds \in Nat
  BY ConfigTypes
<1>1. \A op, on : op # "finalize" => Plain(<<Step(op, on)>>) /\ Plain(Op(op))
  <2> SUFFICES ASSUME NEW op, NEW on, op # "finalize"
               PROVE  Plain(<<Step(op, on)>>) /\ Plain(Op(op))
    OBVIOUS
  <2> QED
    BY PlainOne
<1>2. Plain(<<>>)
  BY PlainNone
<1>3. \A s, t : Plain(s) /\ Plain(t) => Plain(s \o t)
  BY PlainJoin
<1>4. \A op, on : Step(op, on).op = op
  BY StepFields
<1> HIDE DEF Plain, Op, Step
<1>5. ASSUME program.name = "bench" PROVE Plain(BenchSteps)
  <2>1. \A section, ops : Timed(section, ops) = ops
    BY DEF Timed
  <2>2. \A name : SubStep(name) = <<>>
    BY DEF SubStep
  <2> DEFINE a == Op("generateDatabase") \o Op("generateAesKey") \o Op("parallelPartitionDB")
             b == Op("copyQueries") \o Op("blindDatabaseOffline")
             c == <<Step("computeCoefficients", 1)>> \o <<>> \o Op("simdPartitions") \o <<>>
  <2>3. Plain(a)
    BY <1>1, <1>3
  <2>4. Plain(b)
    BY <1>1, <1>3
  <2>5. Plain(c)
    BY <1>1, <1>2, <1>3
  <2>6. BenchSteps = a \o b \o Op("setShares") \o c \o Op("blindQueries")
                       \o Op("encryptQueryPowers") \o <<Step("round", 1)>> \o <<>>
    BY <2>1, <2>2 DEF BenchSteps, CopyAndBlind
  <2> HIDE DEF a, b, c
  <2>7. Plain(a \o b \o Op("setShares") \o c)
    BY <1>1, <1>3, <2>3, <2>4, <2>5
  <2>8. Plain(Op("setShares")) /\ Plain(Op("blindQueries")) /\ Plain(Op("encryptQueryPowers"))
        /\ Plain(<<Step("round", 1)>>)
    BY <1>1
  <2>9. Plain(a \o b \o Op("setShares") \o c \o Op("blindQueries")
                       \o Op("encryptQueryPowers"))
    BY <1>3, <2>7, <2>8
  <2> QED
    BY <1>2, <1>3, <2>6, <2>8, <2>9
<1>6. Plain(CsvRunSteps)
  <2>1. Plain(Op("loadEnrollmentCSV") \o Op("parallelPartitionDB") \o Op("loadQueryCSV"))
    BY <1>1, <1>3
  <2>2. Plain(<<Step("computeCoefficients", 1)>>) /\ Plain(Op("encryptQueryPowers"))
        /\ Plain(<<Step("round", 1)>>)
    BY <1>1
  <2> QED
    BY <1>3, <2>1, <2>2 DEF CsvRunSteps
<1>7. Plain(SenderSteps)
  <2> DEFINE a == [t \in 1 .. T - 1 |-> Step("shareAgain", t + 1)]
             b == [t \in 1 .. T |-> Step("computeTokenSet", t)]
             c == [r \in 1 .. K |-> Step("computeLabelSet", r)]
             d == IF K > 0 THEN b \o c ELSE <<Step("computeCoefficients", 1)>>
  <2>1. Plain(a)
    <3>1. \A k \in 1 .. T - 1 : a[k].op # "finalize"
      BY <1>4
    <3>2. a = [k \in 1 .. T - 1 |-> a[k]]
      OBVIOUS
    <3> HIDE DEF a
    <3> QED
      BY <1>0, <3>1, <3>2, PlainMany
  <2>2. Plain(b)
    <3>1. \A k \in 1 .. T : b[k].op # "finalize"
      BY <1>4
    <3>2. b = [k \in 1 .. T |-> b[k]]
      OBVIOUS
    <3> HIDE DEF b
    <3> QED
      BY <1>0, <3>1, <3>2, PlainMany
  <2>3. Plain(c)
    <3>1. \A k \in 1 .. K : c[k].op # "finalize"
      BY <1>4
    <3>2. c = [k \in 1 .. K |-> c[k]]
      OBVIOUS
    <3> HIDE DEF c
    <3> QED
      BY <1>0, <3>1, <3>2, PlainMany
  <2> HIDE DEF a, b, c
  <2>4. Plain(d)
    BY <1>1, <1>3, <2>2, <2>3
  <2>5. SenderSteps = Op("loadEnrollmentCSV") \o a \o Op("generateAesKey")
                        \o BlindAndPartition \o d
    BY DEF SenderSteps, a, b, c
  <2> HIDE DEF d
  <2>6. Plain(BlindAndPartition)
    BY <1>1, <1>3 DEF BlindAndPartition
  <2>7. Plain(Op("loadEnrollmentCSV") \o a \o Op("generateAesKey"))
    BY <1>1, <1>3, <2>1
  <2> QED
    BY <1>3, <2>4, <2>5, <2>6, <2>7
<1>8. Plain(ReceiverSteps)
  <2> DEFINE a == [s \in 1 .. 2 * Rounds |->
                     Step(IF s % 2 = 1 THEN "blindForRound" ELSE "round", (s + 1) \div 2)]
             b == [r \in 1 .. Rounds |-> Step("round", r)]
             c == Op("blindQueries") \o Op("encryptQueryPowers") \o b
             d == IF program.mode = "STLPSI" THEN a ELSE c
  <2>1. Plain(a)
    <3>1. ASSUME NEW k \in 1 .. 2 * Rounds PROVE a[k].op # "finalize"
      <4>1. a[k].op = IF k % 2 = 1 THEN "blindForRound" ELSE "round"
        BY <1>4
      <4> HIDE DEF a
      <4> QED
        BY <4>1
    <3>2. a = [k \in 1 .. 2 * Rounds |-> a[k]]
      OBVIOUS
    <3> HIDE DEF a
    <3> QED
      BY <1>0, <3>1, <3>2, PlainMany
  <2>2. Plain(b)
    <3>1. \A k \in 1 .. Rounds : b[k].op # "finalize"
      BY <1>4
    <3>2. b = [k \in 1 .. Rounds |-> b[k]]
      OBVIOUS
    <3> HIDE DEF b
    <3> QED
      BY <1>0, <3>1, <3>2, PlainMany
  <2> HIDE DEF a, b
  <2>3. Plain(c)
    BY <1>1, <1>3, <2>2
  <2>4. ReceiverSteps = Op("loadQueryCSV") \o d
    BY DEF ReceiverSteps, a, b
  <2> QED
    BY <1>1, <1>3, <2>1, <2>3, <2>4
<1>9. Plain(RungQueries)
  BY <1>1, <1>3 DEF RungQueries
<1>10. Plain(StlpsiRung)
  <2>1. Plain(FreshShares(1))
    <3>1. FreshShares(1) = <<Step("clearShares", 1)>> \o <<Step("setShares", 1)>>
      BY DEF FreshShares
    <3> QED
      BY <1>1, <1>3, <3>1
  <2>2. Plain(Op("buildEnrMap")) /\ Plain(Op("parallelPartitionDB"))
        /\ Plain(<<Step("computeCoefficients", 1)>>)
    BY <1>1
  <2> QED
    BY <1>3, <2>1, <2>2 DEF StlpsiRung
<1>11. Plain(CstpsiRung)
  <2> DEFINE g == [s \in 1 .. 3 * T |-> LET t == (s + 2) \div 3 IN
                   IF s % 3 = 0 THEN Step("computeCoefficients", t) ELSE FreshShares(t)[s % 3]]
  <2>1. ASSUME NEW s \in 1 .. 3 * T PROVE g[s].op # "finalize"
    <3> DEFINE t == (s + 2) \div 3
    <3>1. s \in Nat /\ s % 3 \in 0 .. 2
      BY <1>0
    <3>2. g[s] = IF s % 3 = 0 THEN Step("computeCoefficients", t) ELSE FreshShares(t)[s % 3]
      OBVIOUS
    <3> HIDE DEF t, g
    <3>3. CASE s % 3 = 0
      BY <1>4, <3>2, <3>3
    <3>4. CASE s % 3 = 1
      <4>1. g[s] = Step("clearShares", t)
        BY <3>2, <3>4 DEF FreshShares
      <4> QED
        BY <1>4, <4>1
    <3>5. CASE s % 3 = 2
      <4>1. g[s] = Step("setShares", t)
        BY <3>2, <3>5 DEF FreshShares
      <4> QED
        BY <1>4, <4>1
    <3> QED
      BY <3>1, <3>3, <3>4, <3>5
  <2>2. Plain(g)
    <3>1. g = [k \in 1 .. 3 * T |-> g[k]]
      OBVIOUS
    <3> HIDE DEF g
    <3> QED
      BY <1>0, <2>1, <3>1, PlainMany
  <2> HIDE DEF g
  <2>3. CstpsiRung = Op("buildEnrMap") \o Op("parallelPartitionDB") \o g
    BY DEF CstpsiRung, g
  <2> QED
    BY <1>1, <1>3, <2>2, <2>3
<1> QED
  BY <1>3, <1>5, <1>6, <1>7, <1>8, <1>9, <1>10, <1>11, ConfigTypes DEF Steps

\* So a program that is not recorded has none.
NoReport == ~program.timed => Plain(todo) /\ session_wall_us = 0

LEMMA NoReportInit == Init => NoReport
  BY PlainNone DEF Init, InstrumentationInit, NoReport

LEMMA NoReportNext ==
    ASSUME OrderInv, started \in BOOLEAN, NoReport, [Lives]_vars PROVE NoReport'
<1>0. program \in Configs
  BY DEF OrderInv
<1>1. program' = program /\ (Begins \/ Goes \/ Dies \/ Records \/ Rests)
  BY TodoSteps
<1> SUFFICES ASSUME ~program.timed PROVE Plain(todo') /\ session_wall_us' = 0
  BY <1>1 DEF NoReport, Plain
<1>2. Plain(todo) /\ session_wall_us = 0
  BY DEF NoReport
<1>3. ~Doing("finalize")
  <2> SUFFICES ASSUME Doing("finalize") PROVE FALSE
    OBVIOUS
  <2>1. todo # <<>> /\ IsSeq(todo) /\ Head(todo).op = "finalize"
    BY <1>2 DEF Doing, Plain
  <2>2. Head(todo) = todo[1] /\ 1 \in DOMAIN todo
    BY <2>1, SeqBasics
  <2> QED
    BY <1>2, <2>1, <2>2 DEF Plain
<1>4. session_wall_us' = 0
  BY <1>2, <1>3, WallSteps
<1>5. CASE Begins
  BY <1>0, <1>4, <1>5, PlainPrograms DEF Begins
<1>6. CASE Goes
  <2>1. IsSeq(todo) /\ todo # <<>> /\ todo' = Tail(todo)
    BY <1>2, <1>6 DEF Goes, Plain
  <2>2. /\ Len(todo) \in Nat /\ DOMAIN todo = 1 .. Len(todo)
        /\ IsSeq(Tail(todo)) /\ Len(Tail(todo)) = Len(todo) - 1
        /\ \A k \in 1 .. Len(todo) - 1 : Tail(todo)[k] = todo[k + 1]
    BY <2>1, SeqBasics
  <2>3. DOMAIN Tail(todo) = 1 .. Len(todo) - 1
    BY <2>2, SeqBasics
  <2>4. ASSUME NEW k \in 1 .. Len(todo) - 1 PROVE Tail(todo)[k].op # "finalize"
    <3>1. k + 1 \in DOMAIN todo
      BY <2>2
    <3> QED
      BY <1>2, <2>2, <3>1 DEF Plain
  <2> QED
    BY <1>4, <2>1, <2>2, <2>3, <2>4 DEF Plain
<1>7. CASE Dies
  BY <1>4, <1>7, PlainNone DEF Dies
<1>8. CASE Rests
  BY <1>2, <1>4, <1>8 DEF Rests
<1>9. ~Records
  BY DEF Records
<1> QED
  BY <1>1, <1>4, <1>5, <1>6, <1>7, <1>8, <1>9

\* The clock counts whole units.
LEMMA ClockType ==
    ASSUME [Lives]_vars, clock \in Nat PROVE clock' \in Nat
<1>0. /\ PackCost \in Nat /\ GcCost \in Nat /\ PowersCost \in Nat /\ HomCost \in Nat
      /\ DecryptCost \in Nat
  BY CostsOK
<1>1. \A us \in Nat : Work(us) => clock' \in Nat
  BY DEF Work
<1>2. 0 \in Nat /\ 1 \in Nat /\ HomCost + DecryptCost \in Nat
  BY <1>0
<1> HIDE DEF Work
<1>3. CASE applyToGlobals \/ ChooseDatabase \/ loadEnrollmentCSV \/ shareAgain
  BY <1>3 DEF applyToGlobals, ChooseDatabase, loadEnrollmentCSV, shareAgain
<1>4. CASE clearShares \/ setShares \/ generateAesKey \/ blindDatabaseOffline
  BY <1>1, <1>2, <1>4 DEF clearShares, setShares, generateAesKey, blindDatabaseOffline
<1>5. CASE parallelPartitionDB \/ computeCoefficients \/ simdPartitions
  BY <1>0, <1>1, <1>2, <1>5 DEF parallelPartitionDB, computeCoefficients, simdPartitions
<1>6. CASE loadQueries \/ prepareQueries \/ endRound \/ submitRecordedQuery \/ submitQuery
  BY <1>0, <1>1, <1>6
     DEF loadQueries, prepareQueries, endRound, submitRecordedQuery, submitQuery
<1>7. CASE findRecordedMatches
  BY <1>1, <1>2, <1>7 DEF findRecordedMatches
<1>8. CASE record
  BY <1>0, <1>1, <1>2, <1>8 DEF record
<1>9. CASE UNCHANGED vars \/ Exit
  BY <1>9 DEF vars, Exit
<1> QED
  BY <1>3, <1>4, <1>5, <1>6, <1>7, <1>8, <1>9 DEF Lives, Next

\* A vector has a value at every position, blinded or not.
VectorInv == \A id \in DOMAIN enr_ss_map : DOMAIN enr_ss_map[id] = Positions

LEMMA VectorNext ==
    ASSUME ControlInv, FileInv, VectorInv, [Lives]_vars PROVE VectorInv'
<1> USE DEF enrollment_vars
<1>0. started \in BOOLEAN
  BY DEF ControlInv, DataInv
<1>1. ASSUME enr_ss_map' = enr_ss_map PROVE VectorInv'
  BY <1>1 DEF VectorInv
<1>2. CASE applyToGlobals \/ shareAgain \/ clearShares \/ setShares \/ generateAesKey
  BY <1>1, <1>2 DEF applyToGlobals, shareAgain, clearShares, setShares, generateAesKey
<1>3. CASE ChooseDatabase
  BY <1>3, VectorsOK DEF ChooseDatabase, VectorInv
<1>4. CASE loadEnrollmentCSV
  <2>1. CASE EnrollLine(program.label_col)
    <3>1. rest # <<>> /\ ~Skipped(Head(rest)) /\ enr_ss_map' = Put(enr_ss_map, Head(rest).id, Head(rest).items)
      BY <2>1 DEF EnrollLine
    <3>2. FromFile /\ db_file \in Files
      <4>1. Doing("loadEnrollmentCSV")
        BY <1>4 DEF loadEnrollmentCSV
      <4> QED
        BY <4>1, DoingOf DEF FileInv
    <3>3. PICK n \in DOMAIN db_file : Head(rest) = db_file[n]
      <4>1. rest' = Tail(rest)
        BY <2>1 DEF EnrollLine
      <4>2. program' = program /\ db_file' = db_file
        BY <1>0, TodoSteps
      <4> QED
        BY <3>1, <4>1, <4>2, ReadLine
    <3>4. DOMAIN Head(rest).items = Positions
      BY <3>1, <3>2, <3>3, VectorsOK DEF Skipped
    <3> QED
      BY <3>1, <3>4 DEF Put, VectorInv
  <2>2. CASE ~EnrollLine(program.label_col)
    BY <1>1, <1>4, <2>2 DEF loadEnrollmentCSV, SkipLine
  <2> QED
    BY <2>1, <2>2
<1>5. CASE blindDatabaseOffline
  BY <1>5 DEF blindDatabaseOffline, Blinded, VectorInv
<1>6. CASE parallelPartitionDB \/ computeCoefficients \/ simdPartitions \/ loadQueries
  BY <1>1, <1>6 DEF parallelPartitionDB, computeCoefficients, simdPartitions, loadQueries
<1>7. CASE prepareQueries \/ endRound \/ submitRecordedQuery \/ record
  BY <1>1, <1>7 DEF prepareQueries, endRound, submitRecordedQuery, record
<1>8. ASSUME NEW r, NEW n, Answer(r, n) PROVE VectorInv'
  BY <1>1, <1>8 DEF Answer
<1>9. CASE submitQuery \/ findRecordedMatches
  BY <1>8, <1>9 DEF submitQuery, findRecordedMatches
<1>10. CASE UNCHANGED vars \/ Exit
  BY <1>1, <1>10 DEF vars, Exit
<1> QED
  BY <1>2, <1>3, <1>4, <1>5, <1>6, <1>7, <1>9, <1>10 DEF Lives, Next

\* The polynomials have numbers as values, on the rows and off them.
LEMMA RowType ==
    ASSUME NEW M \in Nat \ {0}, NEW set, NEW query, NEW shares, NEW elsewhere,
           DOMAIN elsewhere = Missed(set, query),
           \A point \in Missed(set, query) : elsewhere[point] \in Int,
           NEW part \in Rows(set), DOMAIN part \subseteq Nat,
           \A k \in DOMAIN part :
              shares[part[k]].secret \in Int /\ shares[part[k]].coef \in Int,
           NEW i \in Positions, FIELD_MODULUS = M
    PROVE  Row(set, shares, part, query, elsewhere)[i] \in Int
<1> DEFINE e == [h \in {h \in Positions : <<part, h>> \in DOMAIN elsewhere} |->
                   elsewhere[<<part, h>>]]
<1>1. Row(set, shares, part, query, elsewhere)
        = evalPartition(part, set.x, shares, query, e, M)
  BY DEF Row, e
<1>2. PICK hits : hits = Hits(part, set.x, query, i)
  OBVIOUS
<1>3. CASE hits = {}
  <2>1. <<part, i>> \in Missed(set, query)
    BY <1>2, <1>3 DEF Missed
  <2>2. e[i] = elsewhere[<<part, i>>]
    BY <2>1
  <2> HIDE DEF e
  <2>3. evalPartition(part, set.x, shares, query, e, M)[i] = e[i]
    BY <1>2, <1>3 DEF evalPartition
  <2> QED
    BY <1>1, <2>1, <2>2, <2>3
<1>4. CASE hits # {}
  <2> HIDE DEF e
  <2>1. hits \subseteq DOMAIN part /\ hits \subseteq Nat
    BY <1>2 DEF Hits
  <2>2. First(hits) \in DOMAIN part
    BY <1>4, <2>1, LeastOf
  <2>3. PICK sharing : sharing = shares[part[First(hits)]]
    OBVIOUS
  <2>4. sharing.secret \in Int /\ sharing.coef \in Int
    BY <2>2, <2>3
  <2>5. evalPartition(part, set.x, shares, query, e, M)[i]
          = (sharing.secret + sharing.coef * i) % M
    BY <1>2, <1>4, <2>3 DEF evalPartition, createSecretShares
  <2>6. i \in Int
    BY DEF Positions
  <2>7. PICK a \in Int : a = sharing.coef * i
    BY <2>4, <2>6
  <2>8. PICK b \in Int : b = sharing.secret + a
    BY <2>4, <2>7
  <2>9. b % M \in Int
    BY IntDivMod
  <2> QED
    BY <1>1, <2>5, <2>7, <2>8, <2>9
<1> QED
  BY <1>3, <1>4

\* So every label of an answer is a number of the field.
LEMMA LabelsInField ==
    ASSUME FieldInv, NEW r, NEW n, Answer(r, n), NEW set, NEW query, NEW pairs,
           NEW elsewhere \in [Missed(set, query) -> IdsElsewhere],
           \A part \in set.parts :
              /\ DOMAIN part \subseteq Nat
              /\ \A k \in DOMAIN part : LabelShared(set, part[k])
    PROVE  LabelsOf(set, query, elsewhere, pairs) \subseteq 0 .. FIELD_MODULUS - 1
<1> SUFFICES ASSUME NEW label \in LabelsOf(set, query, elsewhere, pairs)
             PROVE  label \in 0 .. FIELD_MODULUS - 1
  OBVIOUS
<1>1. PICK part \in Rows(set) : label \in reconstructFromPairs(inverses',
         {p \in Pairs : <<part, p>> \in pairs}, Row(set, set.label, part, query, elsewhere),
         FIELD_MODULUS)
  BY DEF LabelsOf
<1>2. PICK row : row = Row(set, set.label, part, query, elsewhere)
  OBVIOUS
<1>3. PICK p \in Pairs : label = repK2(inverses', p[1], p[2], row[p[1]], row[p[2]], FIELD_MODULUS)
  BY <1>1, <1>2 DEF reconstructFromPairs
<1>4. p[1] \in Positions /\ p[2] \in Positions /\ p[1] < p[2]
  BY <1>3 DEF Pairs
<1>5. PICK i \in Positions, j \in Positions : i = p[1] /\ j = p[2] /\ i < j
  BY <1>4
<1>6. FIELD_MODULUS \in Nat \ {0} /\ smallDiffInverse(inverses', j - i, FIELD_MODULUS) \in Int
  BY <1>5, AnswerInverts DEF Inverts
<1>7. DOMAIN part \subseteq Nat
      /\ \A k \in DOMAIN part :
            set.label[part[k]].secret \in Int /\ set.label[part[k]].coef \in Int
  <2>1. part \in set.parts \/ part = <<>>
    BY DEF Rows
  <2>2. CASE part = <<>>
    <3>1. DOMAIN part = {}
      BY <2>2
    <3> QED
      BY <3>1
  <2>3. CASE part \in set.parts
    BY <2>3 DEF LabelShared
  <2> QED
    BY <2>1, <2>2, <2>3
<1>8. DOMAIN elsewhere = Missed(set, query)
      /\ \A point \in Missed(set, query) : elsewhere[point] \in Int
  BY ElsewhereOK
<1>9. ASSUME NEW h \in Positions PROVE row[h] \in Int
  BY <1>2, <1>6, <1>7, <1>8, RowType
<1>10. PICK a \in Int, b \in Int : a = row[i] /\ b = row[j]
  BY <1>5, <1>9
<1>11. label = repK2(inverses', i, j, a, b, FIELD_MODULUS)
  BY <1>3, <1>5, <1>10
<1> QED
  BY <1>5, <1>6, <1>10, <1>11, Interpolates

\* Every answer is one of labels of the field that is in force.
FiledInv == \A place \in DOMAIN filed : filed[place] \subseteq 0 .. FIELD_MODULUS - 1

LEMMA AnswersInField ==
    ASSUME AnswerInv, NEW r, NEW n, Answering(r, n)
    PROVE  filed'[<<r, n>>] \subseteq 0 .. FIELD_MODULUS - 1
<1>0. /\ ControlInv /\ NumberInv /\ WholeInv /\ FieldInv /\ program \in Configs
      /\ Past(9) /\ ~crashed /\ T \in Nat \ {0} /\ Answer(r, n) /\ r \in 1 .. Rounds
  BY ConfigTypes
     DEF AnswerInv, SenderInv, ControlInv, DataInv, OrderInv, Encrypted, Answering
<1>1. PICK s : s = IF Kind(r) = "verify" THEN 1 ELSE r
  OBVIOUS
<1>2. s \in DOMAIN sets
  BY <1>0, <1>1, EnoughSets
<1>3. PICK set : set = sets[s]
  OBVIOUS
<1>4. set.parts = db_partitions
  BY <1>0, <1>2, <1>3 DEF ControlInv, DataInv, SetsInv
<1>5. \A part \in set.parts :
         /\ DOMAIN part \subseteq Nat
         /\ \A k \in DOMAIN part : LabelShared(set, part[k])
  BY <1>0, <1>2, <1>3, <1>4, RowsAreEnrolled DEF WholeInv
<1>6. \E elsewhere \in [Missed(set, encrypted[n]) -> IdsElsewhere] : \E pairs :
         File(r, n, pairs, LabelsOf(set, encrypted[n], elsewhere, pairs))
  BY <1>0, <1>1, <1>3 DEF Answer
<1>7. PICK elsewhere \in [Missed(set, encrypted[n]) -> IdsElsewhere] : \E pairs :
         File(r, n, pairs, LabelsOf(set, encrypted[n], elsewhere, pairs))
  BY <1>6
<1>8. PICK pairs : File(r, n, pairs, LabelsOf(set, encrypted[n], elsewhere, pairs))
  BY <1>7
<1>9. filed'[<<r, n>>] = LabelsOf(set, encrypted[n], elsewhere, pairs)
  BY <1>8, FiledIsWhatIsPut
<1> QED
  BY <1>0, <1>5, <1>9, LabelsInField

\* The modulus does not change once it is set.
LEMMA FieldStays ==
    ASSUME started, [Lives]_vars PROVE FIELD_MODULUS' = FIELD_MODULUS
<1> USE DEF field_vars
<1>1. CASE ChooseDatabase \/ loadEnrollmentCSV \/ shareAgain \/ clearShares \/ setShares
  BY <1>1 DEF ChooseDatabase, loadEnrollmentCSV, shareAgain, clearShares, setShares
<1>2. CASE generateAesKey \/ blindDatabaseOffline \/ parallelPartitionDB \/ computeCoefficients
  BY <1>2 DEF generateAesKey, blindDatabaseOffline, parallelPartitionDB, computeCoefficients
<1>3. CASE simdPartitions \/ loadQueries \/ prepareQueries \/ endRound
  BY <1>3 DEF simdPartitions, loadQueries, prepareQueries, endRound
<1>4. CASE submitRecordedQuery \/ record
  BY <1>4 DEF submitRecordedQuery, record
<1>5. ASSUME NEW r, NEW n, Answer(r, n) PROVE FIELD_MODULUS' = FIELD_MODULUS
  BY <1>5 DEF Answer
<1>6. CASE submitQuery \/ findRecordedMatches
  BY <1>5, <1>6 DEF submitQuery, findRecordedMatches
<1>7. CASE UNCHANGED vars \/ Exit
  BY <1>7 DEF vars, Exit
<1>8. ~applyToGlobals
  BY DEF applyToGlobals
<1> QED
  BY <1>1, <1>2, <1>3, <1>4, <1>6, <1>7, <1>8 DEF Lives, Next

LEMMA FiledNext ==
    ASSUME AnswerInv, FiledInv, [Lives]_vars PROVE FiledInv'
<1>0. DataInv /\ EncInv /\ started \in BOOLEAN
  BY DEF AnswerInv, SenderInv, ControlInv, DataInv
<1>1. CASE started /\ filed' = filed
  BY <1>1, FieldStays DEF FiledInv
<1>2. CASE ~started /\ filed' = filed
  <2>1. ~Encrypted
    BY <1>2 DEF Encrypted, Past
  <2>2. DOMAIN filed' = {}
    BY <1>0, <1>2, <2>1 DEF EncInv, NotEncrypted
  <2> QED
    BY <2>2 DEF FiledInv
<1>3. CASE Answers
  <2>1. PICK r, n : Answering(r, n)
    BY <1>3, AnswersPlace
  <2>2. /\ DOMAIN filed' = DOMAIN filed \cup {<<r, n>>}
        /\ \A place \in DOMAIN filed : place # <<r, n>> => filed'[place] = filed[place]
    BY <2>1, AnswerIsFiled DEF Answering
  <2>3. FIELD_MODULUS' = FIELD_MODULUS
    <3>1. started
      BY <2>1 DEF Answering, Encrypted, Past
    <3> QED
      BY <3>1, FieldStays
  <2>4. filed'[<<r, n>>] \subseteq 0 .. FIELD_MODULUS - 1
    BY <2>1, AnswersInField
  <2> QED
    BY <2>2, <2>3, <2>4 DEF FiledInv
<1>4. Passes \/ loadQueries \/ prepareQueries => filed' = filed
  BY DEF Passes, query_vars, loadQueries, prepareQueries
<1> QED
  BY <1>0, <1>1, <1>2, <1>3, <1>4, QueryVarsSteps

----------------------------------------------------------------------------

TypeInv ==
    /\ AnswerInv /\ ReportInv
    /\ NoReport /\ VectorInv /\ FiledInv /\ clock \in Nat

LEMMA TypeInvInit == Init => TypeInv
<1> SUFFICES ASSUME Init PROVE TypeInv
  OBVIOUS
<1>1. DOMAIN <<>> = {} /\ 0 \in Nat
  OBVIOUS
<1>2. VectorInv /\ FiledInv /\ clock \in Nat
  BY <1>1 DEF Init, EnrollmentInit, VectorInv, FiledInv
<1> QED
  BY <1>2, AnswerInvInit, ReportInvInit, NoReportInit DEF TypeInv

LEMMA TypeInvNext == TypeInv /\ [Lives]_vars => TypeInv'
<1> SUFFICES ASSUME TypeInv, [Lives]_vars PROVE TypeInv'
  OBVIOUS
<1>1. /\ AnswerInv /\ SenderInv /\ ReportInv /\ ControlInv /\ FileInv
      /\ NoReport /\ VectorInv /\ FiledInv /\ clock \in Nat
  BY DEF TypeInv, AnswerInv, SenderInv
<1>2. OrderInv /\ started \in BOOLEAN
  BY <1>1 DEF ControlInv, DataInv
<1> HIDE DEF TypeInv
<1>3. AnswerInv' /\ ReportInv'
  BY <1>1, AnswerInvNext, ReportInvNext
<1>4. NoReport' /\ VectorInv' /\ FiledInv' /\ clock' \in Nat
  BY <1>1, <1>2, NoReportNext, VectorNext, FiledNext, ClockType
<1> QED
  BY <1>3, <1>4 DEF TypeInv

LEMMA TypesAreRight == TypeInv => TypeOK
<1> SUFFICES ASSUME TypeInv PROVE TypeOK
  OBVIOUS
<1>1. /\ AnswerInv /\ ReportInv /\ NoReport /\ VectorInv /\ FiledInv /\ clock \in Nat
      /\ FieldInv /\ ControlInv /\ FoundInv
  BY DEF TypeInv, AnswerInv, SenderInv
<1>2. program \in Configs /\ started \in BOOLEAN /\ crashed \in BOOLEAN /\ InOrder(todo)
  BY <1>1 DEF ControlInv, DataInv, OrderInv
<1>3. ASSUME NEW k \in DOMAIN todo PROVE DOMAIN todo[k] = {"op", "on"}
  <2>1. todo[k] = [op |-> todo[k].op, on |-> todo[k].on]
    BY <1>2 DEF InOrder, IsStep, Step
  <2>2. \A a, b : DOMAIN [op |-> a, on |-> b] = {"op", "on"}
    OBVIOUS
  <2> QED
    BY <2>1, <2>2
<1>4. FIELD_MODULUS \in {DefaultModulus, PlainModulus} /\ DOMAIN found = DOMAIN filed
  BY <1>1 DEF FieldInv, FoundInv
<1>5. session_wall_us \in Nat
  BY <1>1, WallIsNumber DEF NoReport, ReportInv, Unreported
<1> QED
  BY <1>1, <1>2, <1>3, <1>4, <1>5 DEF TypeOK, VectorInv, FiledInv

\* Who dies of an empty database leaves them as they are.
LEMMA StarvingKeepsTypes ==
    ASSUME TypeInv, seedWithoutIds PROVE (Starved /\ TypeOK)'
<1>1. TypeOK
  BY TypesAreRight
<1>2. Starved'
  BY Starving DEF TypeInv, AnswerInv, SenderInv, ControlInv
<1>3. /\ UNCHANGED <<program, FIELD_MODULUS, enr_ss_map, found, filed, session_wall_us, clock>>
      /\ started' \in BOOLEAN /\ crashed' \in BOOLEAN /\ todo' = <<>>
  BY <1>1 DEF seedWithoutIds, Die, TypeOK, field_vars, enrollment_vars, query_vars,
              instrumentation_vars
<1>4. DOMAIN todo' = {}
  BY <1>3
<1> QED
  BY <1>1, <1>2, <1>3, <1>4 DEF TypeOK

LEMMA StarvedKeepsTypes ==
    ASSUME Starved, TypeOK, [Next]_vars PROVE (Starved /\ TypeOK)'
<1>1. UNCHANGED vars /\ Starved'
  BY StarvedStays
<1>2. UNCHANGED <<program, started, crashed, todo, FIELD_MODULUS, enr_ss_map, found, filed,
                  session_wall_us, clock>>
  BY <1>1 DEF vars, control_vars, field_vars, enrollment_vars, query_vars, instrumentation_vars
<1> QED
  BY <1>1, <1>2 DEF TypeOK

\* Every operation leaves the data of its program well formed: vectors keep one
\* value per position, answers are labels of the field in force, and nothing but
\* the report of the recorded bench writes a total.
THEOREM TypesAreKept == Spec => []TypeOK
<1>1. TypeInv /\ [Next]_vars => (TypeInv \/ (Starved /\ TypeOK))'
  BY TypeInvNext, StarvingKeepsTypes DEF Lives
<1>2. Starved /\ TypeOK /\ [Next]_vars => (Starved /\ TypeOK)'
  BY StarvedKeepsTypes
<1> QED
  BY <1>1, <1>2, TypeInvInit, TypesAreRight, PTL DEF Spec
=============================================================================
