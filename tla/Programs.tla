------------------------------ MODULE Programs ------------------------------
(***************************************************************************)
(* The programs of the repository from their inputs to their results: the  *)
(* bench and the csv run of app/cli.cc, the two apps (app/sender.cc and    *)
(* app/receiver.cc, whose session is in Session), and the two kernel rungs *)
(* of app/flpsi_experiment.cc.  Each is a sequence of the same operations, *)
(* in an order of its own: todo holds those still to be done.  Partitions  *)
(* are what Partition guarantees, rows arrive as Packing guarantees, and   *)
(* the ciphertexts are what they encrypt.                                  *)
(***************************************************************************)
EXTENDS Kernel, Enrollment, Instrumentation, SequencesExt

CONSTANTS
    Configs,        \* the programs with their options
    partition_size, \* rows of a partition
    DefaultModulus, \* FIELD_MODULUS before main, and F of the experiment
    PlainModulus,   \* plain_modulus of the parameter file
    Keys,           \* AES keys, as the functions that blindItemOffline is
    Databases,      \* what the bench and the experiment may enroll
    Files,          \* enrollment files
    QueryFiles,     \* query files
    Probes,         \* queries of the experiment
    NrofQueries,    \* nrof_que_ids
    TokensElsewhere, IdsElsewhere, \* values of the two channels off the rows
    PackCost, GcCost, PowersCost, HomCost, DecryptCost  \* durations in the bench

\* No number of positions divides a modulus: both are primes above inN.
ASSUME FieldsOK ==
    \A M \in {DefaultModulus, PlainModulus} :
        M \in Nat \ {0, 1} /\ \A k \in 2 .. inN - 1 : M % k # 0

\* Only the bench has a recorder, and only the apps have rounds of chunks.
ASSUME ConfigsOK ==
    \A config \in Configs :
        /\ config.name \in {"bench", "csv_run", "apps", "rung_stlpsi", "rung_cstpsi"}
        /\ config.timed \in BOOLEAN /\ config.T \in Nat \ {0} /\ config.K \in Nat
        /\ config.timed => config.name = "bench"
        /\ config.K > 0 => config.name = "apps"

ASSUME RowsOK == partition_size \in Nat \ {0}

\* Ids and labels are numbers that an int holds and not negative, where a line has
\* them: createSecretShares takes a negative secret for one that is 2^64 larger
\* (modpoly.c:77), and a label that is too large is cut (csv.cc:70).  Files are
\* sequences of lines; a query is found by an id of a finite map.
MaxInt == 2147483647
ASSUME InputsOK ==
    /\ TokenCoefs \subseteq Int /\ LabelCoefs \subseteq Int
    /\ \A file \in Files \cup QueryFiles :
          /\ Len(file) \in Nat
          /\ file = [n \in 1 .. Len(file) |-> file[n]]
          /\ \A n \in 1 .. Len(file) : file[n] # BadLine =>
                /\ file[n].id \in 0 .. MaxInt
                /\ \A column \in DOMAIN file[n].labels :
                      file[n].labels[column] # BadLabel =>
                         file[n].labels[column] \in 0 .. MaxInt
    /\ \A database \in Databases : DOMAIN database \subseteq 0 .. MaxInt
    /\ \A probes \in Probes : DOMAIN probes \subseteq Int /\ IsFiniteSet(DOMAIN probes)
    /\ NrofQueries \in Nat

\* A line with fewer columns than positions is skipped, so a vector has them all;
\* and a polynomial has numbers as values, wherever it is evaluated.
ASSUME VectorsOK ==
    /\ \A file \in Files : \A n \in DOMAIN file :
          file[n] # BadLine =>
             file[n].items = BadItems \/ DOMAIN file[n].items = Positions
    /\ \A database \in Databases : \A id \in DOMAIN database : DOMAIN database[id] = Positions

\* Items lie in the field.  The synthetic and the recorded ones do, and so does
\* what blinding makes of any item; but the csv run takes those of its files as
\* they are, and neither the interpolation nor the int keys of dup_map are made
\* for others.
Fits(items) == \A i \in Positions : items[i] \in 0 .. PlainModulus - 1
ASSUME ItemsOK ==
    /\ \A file \in Files \cup QueryFiles : \A n \in DOMAIN file :
          file[n] # BadLine /\ file[n].items # BadItems => Fits(file[n].items)
    /\ \A database \in Databases : \A id \in DOMAIN database : Fits(database[id])
    /\ \A key \in Keys : \A item \in DOMAIN key : key[item] \in 0 .. PlainModulus - 1

ASSUME ElsewhereOK == TokensElsewhere \cup IdsElsewhere \subseteq Int

\* What is timed takes time.  Every other section takes a unit.
ASSUME CostsOK ==
    \A cost \in {PackCost, GcCost, PowersCost, HomCost, DecryptCost} : cost \in Nat \ {0}

VARIABLES
    program,          \* the member of Configs that runs
    db_file,          \* the enrollment file, <<>> without one
    started,          \* applyToGlobals is done
    todo,             \* the operations still to be done
    crashed,          \* the process has died
    FIELD_MODULUS,
    MAX_SUB,          \* the dummies of the padding start behind it
    inverses,         \* the static table of smallDiffInverse, <<>> until built
    gc_key,
    db_partitions,
    token_share_maps, \* the token sharings after the first
    sets,             \* the coefficient sets
    que_ss_map,
    encrypted,        \* the queries as they are encrypted, in key order
    found,            \* <<round, query>> -> the pairs that gave the results
    filed,            \* <<round, query>> -> the results, as a set of labels
    clock,            \* the work done in timed sections
    enrolled, asked   \* history: the vectors and queries before any blinding

field_vars == <<FIELD_MODULUS, MAX_SUB, inverses>>
offline_vars == <<gc_key, db_partitions, token_share_maps, sets>>
query_vars == <<que_ss_map, encrypted, found, filed>>
history_vars == <<enrolled, asked>>
control_vars == <<program, db_file, started, todo, crashed>>
vars == <<control_vars, field_vars, enrollment_vars, offline_vars, query_vars,
          clock, history_vars, instrumentation_vars>>

----------------------------------------------------------------------------

\* The operations of each program, in its order.
Step(op, on) == [op |-> op, on |-> on]
Op(op) == <<Step(op, 0)>>
Timed(section, ops) ==
    IF program.timed
      THEN <<Step("recordOfflineStepStart", section)>> \o ops
             \o <<Step("recordOfflineStepEnd", section)>>
      ELSE ops

SubStep(name) == IF program.timed THEN Op(name) ELSE <<>>

\* Mutant: the queries are copied once the database is blinded.
BlindAndCopy == Timed("step_blind", Op("blindDatabaseOffline")) \o Op("copyQueries")
CopyAndBlind == Op("copyQueries") \o Timed("step_blind", Op("blindDatabaseOffline"))

BenchSteps ==
    Op("generateDatabase")
      \o Timed("step_init", Op("generateAesKey"))
      \o Timed("step_partition", Op("parallelPartitionDB"))
      \o CopyAndBlind
      \o Timed("step_share", Op("setShares"))
      \o Timed("step_interp_pack",
               <<Step("computeCoefficients", 1)>> \o SubStep("interpolate")
                 \o Op("simdPartitions") \o SubStep("simd_pack"))
      \o Op("blindQueries") \o Op("encryptQueryPowers")
      \o <<Step("round", 1)>>
      \o IF program.timed THEN Op("finalize") ELSE <<>>

CsvRunSteps ==
    Op("loadEnrollmentCSV") \o Op("parallelPartitionDB") \o Op("loadQueryCSV")
      \o <<Step("computeCoefficients", 1)>> \o Op("encryptQueryPowers")
      \o <<Step("round", 1)>>

T == program.T
K == program.K
Rounds == IF K > 0 THEN T + K ELSE 1

\* Mutant: the database is partitioned before it is blinded.
PartitionAndBlind == Op("parallelPartitionDB") \o Op("blindDatabaseOffline")
BlindAndPartition == Op("blindDatabaseOffline") \o Op("parallelPartitionDB")

\* app/sender.cc up to its accept loop.
SenderSteps ==
    Op("loadEnrollmentCSV") \o [t \in 1 .. T - 1 |-> Step("shareAgain", t + 1)]
      \o Op("generateAesKey") \o BlindAndPartition
      \o IF K > 0
           THEN [t \in 1 .. T |-> Step("computeTokenSet", t)]
                  \o [r \in 1 .. K |-> Step("computeLabelSet", r)]
           ELSE <<Step("computeCoefficients", 1)>>

\* app/receiver.cc.  In STLPSI mode every round blinds and encrypts again.
ReceiverSteps ==
    Op("loadQueryCSV")
      \o IF program.mode = "STLPSI"
           THEN [s \in 1 .. 2 * Rounds |->
                   Step(IF s % 2 = 1 THEN "blindForRound" ELSE "round", (s + 1) \div 2)]
           ELSE Op("blindQueries") \o Op("encryptQueryPowers")
                  \o [r \in 1 .. Rounds |-> Step("round", r)]

\* One token sharing of the experiment.
\* Mutant: the maps are cleared after the shares are made.
ClearLate(t) == <<Step("setShares", t), Step("clearShares", t)>>
FreshShares(t) == <<Step("clearShares", t), Step("setShares", t)>>

StlpsiRung ==
    Op("buildEnrMap") \o FreshShares(1) \o Op("parallelPartitionDB")
      \o <<Step("computeCoefficients", 1)>>
CstpsiRung ==
    Op("buildEnrMap") \o Op("parallelPartitionDB")
      \o [s \in 1 .. 3 * T |-> LET t == (s + 2) \div 3 IN
            IF s % 3 = 0 THEN Step("computeCoefficients", t) ELSE FreshShares(t)[s % 3]]
RungQueries == Op("chooseProbes") \o Op("encryptQueryPowers") \o <<Step("round", 1)>>

Steps ==
    CASE program.name = "bench" -> BenchSteps
      [] program.name = "csv_run" -> CsvRunSteps
      [] program.name = "apps" -> SenderSteps \o ReceiverSteps
      [] program.name = "rung_stlpsi" -> StlpsiRung \o RungQueries
      [] program.name = "rung_cstpsi" -> CstpsiRung \o RungQueries

Doing(op) == started /\ todo # <<>> /\ Head(todo).op = op
On == Head(todo).on
Advance == todo' = Tail(todo) /\ UNCHANGED <<program, db_file, started, crashed>>
Stay == UNCHANGED control_vars
Die == crashed' = TRUE /\ todo' = <<>> /\ UNCHANGED <<program, db_file, started>>

\* Only the instrumented bench looks at the clock.
Work(us) == clock' = IF program.timed THEN clock + us ELSE clock

----------------------------------------------------------------------------
(* Parameters and inputs                                                    *)

\* What the apps accept: STLPSI is the mode of one token round, with chunks, and
\* several token rounds are followed by chunks (receiver.cc:158).
parseArgs(config) ==
    config.name = "apps" =>
        /\ config.mode = "STLPSI" => config.K > 0 /\ config.T = 1
        /\ config.T > 1 => config.K > 0

Init ==
    /\ program \in Configs
    /\ parseArgs(program)
    /\ db_file \in IF program.name \in {"csv_run", "apps"} THEN Files ELSE {<<>>}
    /\ started = FALSE
    /\ todo = <<>>
    /\ crashed = FALSE
    /\ FIELD_MODULUS = DefaultModulus
    /\ MAX_SUB = -1
    /\ inverses = <<>>
    /\ EnrollmentInit(db_file)
    /\ gc_key = <<>>
    /\ db_partitions = {}
    /\ token_share_maps = <<>>
    /\ sets = <<>>
    /\ que_ss_map = <<>>
    /\ encrypted = <<>>
    /\ found = <<>>
    /\ filed = <<>>
    /\ clock = 0
    /\ enrolled = <<>>
    /\ asked = <<>>
    /\ InstrumentationInit

\* loadFromJSON, validate and applyToGlobals; the experiment has constants.
applyToGlobals ==
    /\ ~started
    /\ started' = TRUE
    /\ \/ /\ program.name \in {"bench", "csv_run", "apps"}
          /\ FIELD_MODULUS' = PlainModulus
          /\ MAX_SUB' = FIELD_MODULUS - 1
       \/ /\ program.name \notin {"bench", "csv_run", "apps"}
          /\ UNCHANGED <<FIELD_MODULUS, MAX_SUB>>
    /\ todo' = Steps
    /\ UNCHANGED <<program, db_file, crashed, inverses, enrollment_vars, offline_vars,
                   query_vars, clock, history_vars, instrumentation_vars>>

\* The bench draws its vectors, the experiment takes those of its records, and
\* both note the largest subsample.
ChooseDatabase ==
    /\ \/ Doing("generateDatabase")
       \/ Doing("buildEnrMap")
    /\ Advance
    /\ enr_ss_map' \in Databases
    /\ MAX_SUB' =
         Max({0} \cup {enr_ss_map'[id][i] : id \in DOMAIN enr_ss_map', i \in Positions})
    /\ enrolled' = enr_ss_map'
    /\ UNCHANGED <<FIELD_MODULUS, inverses, rest, token_share_map, id_share_map, offline_vars,
                   query_vars, clock, asked, instrumentation_vars>>

loadEnrollmentCSV ==
    /\ Doing("loadEnrollmentCSV")
    /\ \/ (SkipLine \/ EnrollLine(program.label_col)) /\ Stay
       \/ rest = <<>> /\ Advance /\ UNCHANGED enrollment_vars
    /\ enrolled' = enr_ss_map'
    /\ UNCHANGED <<field_vars, offline_vars, query_vars, clock, asked,
                   instrumentation_vars>>

\* token_share_maps[t] of the sender, for t > 0.
shareAgain ==
    /\ Doing("shareAgain")
    /\ Advance
    /\ \E coef \in [DOMAIN enr_ss_map -> TokenCoefs] :
          token_share_maps' =
            Append(token_share_maps,
                   [id \in DOMAIN enr_ss_map |-> Sharing(token, coef[id])])
    /\ UNCHANGED <<field_vars, enrollment_vars, gc_key, db_partitions, sets, query_vars,
                   clock, history_vars, instrumentation_vars>>

\* Mutant: the label shares of the round before are kept.
LabelSharesOfBefore == id_share_map
NoLabelShares == <<>>
clearShares ==
    /\ Doing("clearShares")
    /\ Advance
    /\ token_share_map' = <<>>
    /\ id_share_map' = NoLabelShares
    /\ UNCHANGED <<field_vars, rest, enr_ss_map, offline_vars, query_vars, clock,
                   history_vars, instrumentation_vars>>

\* setShares for every enrolled id: the label is the id.
setShares ==
    /\ Doing("setShares")
    /\ Advance
    /\ \E c \in [DOMAIN enr_ss_map -> TokenCoefs], d \in [DOMAIN enr_ss_map -> LabelCoefs] :
          /\ token_share_map' = PushAll(token_share_map,
                [id \in DOMAIN enr_ss_map |-> Sharing(token, c[id])])
          /\ id_share_map' = PushAll(id_share_map,
                [id \in DOMAIN enr_ss_map |-> Sharing(id, d[id])])
    /\ Work(1)
    /\ UNCHANGED <<field_vars, rest, enr_ss_map, offline_vars, query_vars, history_vars,
                   instrumentation_vars>>

----------------------------------------------------------------------------
(* Offline: blinding, partitions, coefficient sets                          *)

generateAesKey ==
    /\ Doing("generateAesKey")
    /\ Advance
    /\ gc_key' \in Keys
    /\ Work(1)
    /\ UNCHANGED <<field_vars, enrollment_vars, db_partitions, token_share_maps, sets,
                   query_vars, history_vars, instrumentation_vars>>

\* blindItemOffline on every item of a map.
Blinded(ss_map) ==
    [id \in DOMAIN ss_map |-> [i \in Positions |-> gc_key[ss_map[id][i]]]]

blindDatabaseOffline ==
    /\ Doing("blindDatabaseOffline")
    /\ Advance
    /\ enr_ss_map' = Blinded(enr_ss_map)
    /\ Work(1)
    /\ UNCHANGED <<field_vars, rest, token_share_map, id_share_map, offline_vars,
                   query_vars, history_vars, instrumentation_vars>>

Agree(a, b) == {i \in Positions : a[i] = b[i]}

\* The partitions of a database, in the orders that the shuffle may give: every
\* id in one row, and rows that agree nowhere (Partition: PlacedExactlyOnce,
\* PositionsDistinct, PartitionsFit).
RowOrders(ids) ==
    UNION {{p \in [1 .. n -> ids] : \A k, l \in 1 .. n : p[k] = p[l] => k = l} :
           n \in 1 .. partition_size}
Layouts(ss_map) ==
    {layout \in SUBSET RowOrders(DOMAIN ss_map) :
        /\ \A id \in DOMAIN ss_map : \E part \in layout : \E k \in DOMAIN part :
              \A other \in layout : \A l \in DOMAIN other :
                 other[l] = id <=> (other = part /\ l = k)
        /\ \A part \in layout : \A k, l \in DOMAIN part :
              k # l => Agree(ss_map[part[k]], ss_map[part[l]]) = {}}

parallelPartitionDB ==
    /\ Doing("parallelPartitionDB")
    /\ DOMAIN enr_ss_map # {}
    /\ Advance
    /\ db_partitions' \in Layouts(enr_ss_map)
    /\ Work(1)
    /\ UNCHANGED <<field_vars, enrollment_vars, gc_key, token_share_maps, sets, query_vars,
                   history_vars, instrumentation_vars>>

\* Where nobody is enrolled, partitionDB reads the first id all the same, from a
\* vector that is empty, and the process dies (sender.cc:46).
seedWithoutIds ==
    /\ Doing("parallelPartitionDB")
    /\ DOMAIN enr_ss_map = {}
    /\ Die
    /\ UNCHANGED <<field_vars, enrollment_vars, offline_vars, query_vars, clock,
                   history_vars, instrumentation_vars>>

\* The x-coordinates of a partition before the guard of getSplitCoefficients: the
\* values of its ids, then dummies, row by row.
Dummy(n) == (MAX_SUB + n) % FIELD_MODULUS
Padded(part, k, i) ==
    IF k \in DOMAIN part THEN enr_ss_map[part[k]][i]
    ELSE Dummy((k - Len(part) - 1) * inN + i)

\* The guard goes position by position and row by row.  Where it has replaced the
\* coordinates at the places lost, those are the next dummies in that order.
LaterPlaces == Positions \X (2 .. partition_size)
Point(part, lost, k, i) ==
    IF <<i, k>> \in lost
      THEN Dummy((partition_size - Len(part)) * inN
                   + Cardinality({p \in lost : p[1] < i \/ (p[1] = i /\ p[2] <= k)}))
      ELSE Padded(part, k, i)

\* What it replaces: a coordinate that an earlier row has, as it is by then.
Repairs(part) ==
    {lost \in SUBSET LaterPlaces : \A place \in LaterPlaces :
        place \in lost <=> \E l \in 1 .. place[2] - 1 :
           Point(part, lost, l, place[1]) = Padded(part, place[2], place[1])}

\* A replacement is not looked up: it may leave two points equal, which the
\* interpolation cannot invert (Padding: PointsDistinct).
Singular(part) ==
    \E lost \in Repairs(part), i \in Positions, k, l \in 1 .. partition_size :
        k # l /\ Point(part, lost, k, i) = Point(part, lost, l, i)

\* Every row of a set is interpolated through its shares.  Those of an id that
\* is in no share map are read through a null pointer.
Interpolable(token_shares, id_shares) ==
    /\ DOMAIN enr_ss_map \subseteq DOMAIN token_shares \cap DOMAIN id_shares
    /\ \A part \in db_partitions : ~Singular(part)

ComputeSet(token_shares, id_shares) ==
    \/ /\ Interpolable(token_shares, id_shares)
       /\ \E lost \in [db_partitions -> UNION {Repairs(part) : part \in db_partitions}] :
             /\ \A part \in db_partitions : lost[part] \in Repairs(part)
             /\ sets' = Append(sets,
                   [x |-> [part \in db_partitions |->
                             [k \in 1 .. partition_size |->
                                [i \in Positions |-> Point(part, lost[part], k, i)]]],
                    parts |-> db_partitions,
                    token |-> token_shares, label |-> id_shares])
       /\ Advance
    \/ /\ ~Interpolable(token_shares, id_shares)
       /\ Die
       /\ UNCHANGED sets

TokenShares(t) ==
    IF t = 1 THEN FirstSharings(token_share_map) ELSE token_share_maps[t - 1]

\* One set of shares in both channels, labels from the share map; a token round;
\* a label chunk, which has the first token sharing as its gate.
computeCoefficients ==
    /\ \/ /\ Doing("computeCoefficients")
          /\ ComputeSet(FirstSharings(token_share_map), FirstSharings(id_share_map))
       \/ /\ Doing("computeTokenSet")
          /\ ComputeSet(TokenShares(On), TokenShares(On))
       \/ /\ Doing("computeLabelSet")
          /\ \E coef \in [IdsOf(db_file, Relabelled(db_file, On)) -> LabelCoefs] :
                ComputeSet(TokenShares(1), loadIdSharesOnly(db_file, On, coef))
    /\ Work(1)
    /\ UNCHANGED <<field_vars, enrollment_vars, gc_key, db_partitions, token_share_maps,
                   query_vars, history_vars, instrumentation_vars>>

\* simdPartitions and encodeCoeffs keep the sets as they are (Packing).
simdPartitions ==
    /\ Doing("simdPartitions")
    /\ Advance
    /\ Work(PackCost)
    /\ UNCHANGED <<field_vars, enrollment_vars, offline_vars, query_vars, history_vars,
                   instrumentation_vars>>

----------------------------------------------------------------------------
(* The queries                                                              *)

loadQueries ==
    /\ \/ /\ Doing("loadQueryCSV")
          /\ \E file \in QueryFiles : que_ss_map' = loadQueryCSV(file)
          /\ asked' = que_ss_map'
       \/ /\ Doing("chooseProbes")
          /\ que_ss_map' \in Probes
          /\ asked' = que_ss_map'
       \/ /\ Doing("copyQueries")
          /\ que_ss_map' = [id \in 0 .. NrofQueries - 1 |-> enr_ss_map[id]]
          /\ asked' = [id \in 0 .. NrofQueries - 1 |-> enrolled[id]]
    /\ Advance
    /\ UNCHANGED <<field_vars, enrollment_vars, offline_vars, encrypted, found, filed,
                   clock, enrolled, instrumentation_vars>>

\* query_keys, sorted: the places of the queries in every result.
query_keys ==
    LET ids == DOMAIN que_ss_map
        places == 1 .. Cardinality(ids)
    IN CHOOSE keys \in [places -> ids] : \A j, k \in places : j < k => keys[j] < keys[k]
InKeyOrder(ss_map) == [n \in DOMAIN query_keys |-> ss_map[query_keys[n]]]

\* The joint blinding, flattened and scattered back; computeQueryPowers and
\* encryption; and in STLPSI mode both on a copy, for one round.
prepareQueries ==
    /\ \/ /\ Doing("blindQueries")
          /\ que_ss_map' = Blinded(que_ss_map)
          /\ Work(GcCost)
          /\ UNCHANGED encrypted
       \/ /\ Doing("encryptQueryPowers")
          /\ encrypted' = InKeyOrder(que_ss_map)
          /\ UNCHANGED <<que_ss_map, clock>>
       \/ /\ Doing("blindForRound")
          /\ encrypted' = InKeyOrder(Blinded(que_ss_map))
          /\ UNCHANGED <<que_ss_map, clock>>
    /\ Advance
    /\ UNCHANGED <<field_vars, enrollment_vars, offline_vars, found, filed, history_vars,
                   instrumentation_vars>>

----------------------------------------------------------------------------
(* The rounds                                                               *)

\* What a round does with a result: findMatches, a token round of several,
\* reconstructLabels on the pairs verified before, or all of them at once.
Kind(r) ==
    CASE program.name = "apps" /\ T > 1 -> IF r <= T THEN "token" ELSE "label"
      [] program.name = "rung_cstpsi" -> "verify"
      [] OTHER -> "match"

\* Rows that hold no partition come back to the programs of cli.cc: the apps
\* drop them, and the experiment does not pack.
Rows(set) == set.parts \cup IF program.name \in {"bench", "csv_run"} THEN {<<>>} ELSE {}

\* The points of a result at which the query meets no row.
Missed(set, query) ==
    {point \in Rows(set) \X Positions : Hits(point[1], set.x, query, point[2]) = {}}

\* One channel of the result for a partition.
Row(set, shares, part, query, elsewhere) ==
    evalPartition(part, set.x, shares, query,
                  [i \in {i \in Positions : <<part, i>> \in DOMAIN elsewhere} |->
                     elsewhere[<<part, i>>]], FIELD_MODULUS)

\* The pairs of all rows, and the labels of some of them.
PairsOf(set, query, elsewhere) ==
    UNION {{<<part, p>> : p \in checkPartitionPairs(inverses',
                   Row(set, set.token, part, query, elsewhere), FIELD_MODULUS)} :
           part \in Rows(set)}
LabelsOf(set, query, elsewhere, pairs) ==
    UNION {reconstructFromPairs(inverses', {p \in Pairs : <<part, p>> \in pairs},
                   Row(set, set.label, part, query, elsewhere), FIELD_MODULUS) :
           part \in Rows(set)}

\* The table is built at the first reconstruction.
\* Mutant: it is built with the program.
TableAtLoad == InverseTable(DefaultModulus)
BuiltTable == IF inverses = <<>> THEN InverseTable(FIELD_MODULUS) ELSE inverses

File(r, n, pairs, labels) ==
    /\ found' = Put(found, <<r, n>>, pairs)
    /\ filed' = Put(filed, <<r, n>>, labels)

Answer(r, n) ==
    /\ inverses' = BuiltTable
    /\ LET query == encrypted[n]
           set == sets[IF Kind(r) = "verify" THEN 1 ELSE r]
           missed == Missed(set, query)
       IN \E ids \in [missed -> IdsElsewhere] :
          \/ /\ Kind(r) \in {"match", "token"}
             /\ \E tokens \in [missed -> TokensElsewhere] :
                   LET pairs == PairsOf(set, query, tokens) IN
                   File(r, n, pairs, LabelsOf(set, query, ids, pairs))
          \/ /\ Kind(r) = "label"
             /\ LET pairs == findVerifiedPairs([t \in 1 .. T |-> found[<<t, n>>]]) IN
                File(r, n, pairs, LabelsOf(set, query, ids, pairs))
          \/ /\ Kind(r) = "verify"
             /\ \E tokens \in [1 .. T -> [missed -> TokensElsewhere]] :
                   LET pairs == findVerifiedPairs(
                                  [t \in 1 .. T |-> PairsOf(sets[t], query, tokens[t])]) IN
                   File(r, n, pairs, LabelsOf(set, query, ids, pairs))
    /\ UNCHANGED <<FIELD_MODULUS, MAX_SUB, enrollment_vars, offline_vars, que_ss_map, encrypted,
                   history_vars, instrumentation_vars>>

Unanswered(r) == {n \in DOMAIN encrypted : <<r, n>> \notin DOMAIN filed}

\* The loop over the queries: in order in the apps, by OpenMP threads in the
\* others, unless the bench records.
submitQuery ==
    /\ Doing("round")
    /\ ~program.timed
    /\ \E n \in Unanswered(On) :
          /\ program.name = "apps" => \A k \in Unanswered(On) : n <= k
          /\ Answer(On, n)
    /\ Stay
    /\ UNCHANGED clock

endRound ==
    /\ Doing("round")
    /\ Unanswered(On) = {}
    /\ Advance
    /\ UNCHANGED <<field_vars, enrollment_vars, offline_vars, query_vars, clock,
                   history_vars, instrumentation_vars>>

----------------------------------------------------------------------------
(* The recorded bench                                                       *)

RecordedQuery(n) ==
    <<Step("startQuery", n), Step("recordStepGC", n), Step("recordStepQueryPowers", n),
      Step("startHomRound", n), Step("ctxt_inner_product", n), Step("wall", n),
      Step("recordHomRoundReceiverSubStep", n), Step("endHomRound", n),
      Step("findMatches", n), Step("recordStepTokenCheck", n),
      Step("recordStepLabelRecovery", n), Step("recordQueryResult", n),
      Step("endQuery", n)>>

submitRecordedQuery ==
    /\ Doing("round")
    /\ program.timed
    /\ \E n \in Unanswered(On) :
          /\ \A k \in Unanswered(On) : n <= k
          /\ todo' = RecordedQuery(n) \o todo
    /\ UNCHANGED <<program, db_file, started, crashed, field_vars, enrollment_vars,
                   offline_vars, query_vars, clock, history_vars, instrumentation_vars>>

findRecordedMatches ==
    /\ Doing("findMatches")
    /\ Answer(1, On)
    /\ Advance
    /\ Work(1)

\* The time of the circuit is divided among the queries.
GcShare == GcCost \div (IF NrofQueries > 1 THEN NrofQueries ELSE 1)

\* The calls of the recorder, each after the work that it records.
record ==
    /\ \/ Doing("recordOfflineStepStart") /\ recordOfflineStepStart(On, clock) /\ Work(0)
       \/ Doing("recordOfflineStepEnd") /\ recordOfflineStepEnd(On, clock) /\ Work(0)
       \/ Doing("interpolate") /\ recordSubStepTiming("interpolate", 1) /\ Work(0)
       \/ Doing("simd_pack") /\ recordSubStepTiming("simd_pack", PackCost) /\ Work(0)
       \/ Doing("startQuery") /\ startQuery(query_keys[On]) /\ Work(0)
       \/ Doing("recordStepGC") /\ recordStepGC(GcShare) /\ Work(0)
       \/ /\ Doing("recordStepQueryPowers")
          /\ recordStepQueryPowers(PowersCost)
          /\ Work(PowersCost)
       \/ Doing("startHomRound") /\ startHomRound /\ Work(HomCost + DecryptCost)
       \/ /\ Doing("ctxt_inner_product")
          /\ recordHomRoundSenderSubStep("ctxt_inner_product", HomCost)
          /\ Work(0)
       \/ Doing("wall") /\ recordHomRoundSenderSubStep("wall", HomCost) /\ Work(0)
       \/ /\ Doing("recordHomRoundReceiverSubStep")
          /\ recordHomRoundReceiverSubStep(DecryptCost)
          /\ Work(0)
       \/ Doing("endHomRound") /\ endHomRound /\ Work(0)
       \/ Doing("recordStepTokenCheck") /\ recordStepTokenCheck(1) /\ Work(0)
       \/ Doing("recordStepLabelRecovery") /\ recordStepLabelRecovery(0) /\ Work(0)
       \/ Doing("recordQueryResult") /\ recordQueryResult(filed[<<1, On>>]) /\ Work(0)
       \/ Doing("endQuery") /\ endQuery /\ Work(0)
       \/ Doing("finalize") /\ finalize /\ Work(0)
    /\ Advance
    /\ UNCHANGED <<field_vars, enrollment_vars, offline_vars, query_vars, history_vars>>

----------------------------------------------------------------------------

Done == started /\ todo = <<>>
Exit == Done /\ UNCHANGED vars

Next ==
    \/ applyToGlobals \/ ChooseDatabase \/ loadEnrollmentCSV
    \/ shareAgain \/ clearShares \/ setShares
    \/ generateAesKey \/ blindDatabaseOffline
    \/ parallelPartitionDB \/ seedWithoutIds
    \/ computeCoefficients \/ simdPartitions
    \/ loadQueries \/ prepareQueries
    \/ submitQuery \/ endRound
    \/ submitRecordedQuery \/ findRecordedMatches \/ record
    \/ Exit

Spec == Init /\ [][Next]_vars
=============================================================================
