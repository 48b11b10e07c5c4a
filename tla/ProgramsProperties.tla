------------------------- MODULE ProgramsProperties -------------------------
(***************************************************************************)
(* What the programs of Programs guarantee to who runs them.               *)
(***************************************************************************)
EXTENDS Programs

\* The types of the variables that the operations are chosen by and of the
\* data that outlives an operation.
TypeOK ==
    /\ program \in Configs
    /\ started \in BOOLEAN /\ crashed \in BOOLEAN
    /\ \A k \in DOMAIN todo : DOMAIN todo[k] = {"op", "on"}
    /\ FIELD_MODULUS \in {DefaultModulus, PlainModulus}
    /\ \A id \in DOMAIN enr_ss_map : DOMAIN enr_ss_map[id] = Positions
    /\ \A place \in DOMAIN filed : filed[place] \subseteq 0 .. FIELD_MODULUS - 1
    /\ DOMAIN found = DOMAIN filed
    /\ session_wall_us \in Nat /\ clock \in Nat

\* The two share maps of core.cc go together, wherever a line is given up and
\* however often they are cleared and filled: an id is in both or in neither,
\* with as many shares of its label as of the token.
TokenSharings == [secret : {token}, coef : TokenCoefs]
ShareMapsAgree ==
    /\ DOMAIN token_share_map = DOMAIN id_share_map
    /\ \A id \in DOMAIN token_share_map :
          /\ token_share_map[id] \in Seq(TokenSharings) \ {<<>>}
          /\ Len(token_share_map[id]) = Len(id_share_map[id])

----------------------------------------------------------------------------

Blinds == program.name \in {"bench", "apps"}
Seen(value) == IF Blinds THEN gc_key[value] ELSE value

\* An id whose coordinate the guard of getSplitCoefficients has replaced.
Displaced(set, id, i) ==
    \E part \in set.parts : \E k \in DOMAIN part :
        part[k] = id /\ set.x[part][k][i] # enr_ss_map[id][i]

KeptPositions(id) == {i \in Positions : ~Displaced(sets[1], id, i)}

\* The ids that match query n by threshold, on the values themselves and on
\* what blinding makes of them (rung_kofn, flpsi_experiment.cc:152).
AgreeRaw(id, n) == {i \in KeptPositions(id) : enrolled[id][i] = asked[query_keys[n]][i]}
AgreeSeen(id, n) ==
    {i \in KeptPositions(id) : Seen(enrolled[id][i]) = Seen(asked[query_keys[n]][i])}
KOfN(n) == {id \in DOMAIN enrolled : Cardinality(AgreeRaw(id, n)) >= 2}
KOfNSeen(n) == {id \in DOMAIN enrolled : Cardinality(AgreeSeen(id, n)) >= 2}

\* The label that round r has for an id: the token in a token round; the first
\* readable label of its lines, or for a chunk the last one; the id itself.
EnrolledRows(id) ==
    {n \in RowsOf(db_file) : db_file[n].id = id /\ db_file[n].items # BadItems}
Readable(rows, column) == {n \in rows : LabelOf(db_file[n], column) # BadLabel}
LabelIn(r, id) ==
    IF program.name \notin {"csv_run", "apps"} THEN id
    ELSE IF K > 0 /\ r <= T THEN token
    ELSE IF K > 0
      THEN LabelOf(db_file[LastOf(db_file, Relabelled(db_file, r - T), id)], r - T)
    ELSE LET rows == Readable(EnrolledRows(id), program.label_col)
         IN LabelOf(db_file[First(rows)], program.label_col)

Labels(r, ids) == {LabelIn(r, id) % FIELD_MODULUS : id \in ids}

\* The sets and the queries are there, and no other ones will come.
Ready == encrypted # <<>> /\ sets # <<>> /\ ~crashed
Places == (1 .. Rounds) \X (DOMAIN encrypted)

\* The programs implement the promise: whoever agrees with a query in two
\* positions is in the answer to that query and to no other place's, whatever
\* the partition, the randomness and the order of the threads; a position where
\* another row took the coordinate does not count.
PSI == INSTANCE ThresholdPSI WITH
    promised <- IF Ready THEN [place \in Places |-> Labels(place[1], KOfN(place[2]))] ELSE <<>>,
    answers <- filed
ImplementsThePromise == PSI!Spec

\* The pairs that every token round before a result accepted, and one of them
\* that is not two points of one row, at coordinates of its own.
Accepted(r, n) ==
    IF Kind(r) = "label"
      THEN {pair \in found[<<1, n>>] : \A t \in 1 .. T : pair \in found[<<t, n>>]}
      ELSE found[<<r, n>>]
Foreign(r, n) ==
    \E pair \in Accepted(r, n) :
        LET hits(i) == Hits(pair[1], sets[1].x, encrypted[n], i)
            i == pair[2][1]
            j == pair[2][2]
        IN \/ hits(i) = {} \/ hits(j) = {} \/ First(hits(i)) # First(hits(j))
           \/ \E p \in {i, j} : Displaced(sets[1], pair[1][First(hits(p))], p)

\* The answers are exact but for coincidences: unless a foreign pair has the
\* token, in every token round if there are several, an answer holds the labels
\* of the matching ids of its round and nothing else.
ExactButForCoincidence ==
    \A place \in DOMAIN filed :
        LET r == place[1]
            n == place[2]
        IN ~Foreign(r, n) => filed[place] = Labels(r, KOfNSeen(n))

\* Every id is interpolated at its own coordinates, whatever the dummies meet, in
\* every program but the bench, which partitions first and blinds afterwards
\* (sender.cc:213-224); and there an id loses one only if blinding has made the
\* coordinates of two rows of its partition equal: its own and an earlier one, or
\* two before it, the later of which got a dummy that equals its own.
OnlyTheBenchDisplaces ==
    \A s \in DOMAIN sets : \A id \in DOMAIN enrolled : \A i \in Positions :
        Displaced(sets[s], id, i) =>
            /\ program.name = "bench"
            /\ \E part \in sets[s].parts : \E j, k, l \in DOMAIN part :
                  /\ part[l] = id /\ j < k /\ k <= l
                  /\ enrolled[part[j]][i] # enrolled[part[k]][i]
                  /\ gc_key[enrolled[part[j]][i]] = gc_key[enrolled[part[k]][i]]

\* An enrolled id that some share map leaves out, because no line of it has a
\* readable label in a column that is used.
WithoutShares ==
    {id \in DOMAIN enrolled :
        /\ program.name \in {"csv_run", "apps"}
        /\ \/ Readable(EnrolledRows(id), program.label_col) = {}
           \/ \E r \in 1 .. K :
                 {n \in Relabelled(db_file, r) : db_file[n].id = id} = {}}

\* Nothing that a loader skips is an error to it, but three things kill a program
\* later, and nothing else does: a program that ends has died exactly if nobody was
\* enrolled, an id was left without shares, or the repair of the padding left two
\* points of a polynomial equal.
DeathsHaveCauses ==
    Done => (crashed <=> \/ DOMAIN enrolled = {}
                         \/ WithoutShares # {}
                         \/ \E part \in db_partitions : Singular(part))

\* The table of inverses is the one of the modulus in force, wherever and in
\* whichever thread the first reconstruction happened (receiver.cc:151-159).
InversesAreCurrent == inverses \in {<<>>, InverseTable(FIELD_MODULUS)}

----------------------------------------------------------------------------

\* When the bench has ended without dying, and so has written its report, record n
\* is the one of query n: it has its id, its answer and one round, and every
\* section was measured.  Only the circuit may count for nothing, where there are
\* more queries than units of it.
RecordsAreOfTheirQuery ==
    Done /\ ~crashed /\ program.timed =>
        /\ Len(queries) = Len(encrypted)
        /\ \A n \in DOMAIN queries :
              /\ queries[n].query_id = query_keys[n]
              /\ queries[n].labels = filed[<<1, n>>]
              /\ Len(queries[n].hom_rounds) = 1
              /\ queries[n].r_encrypt_us > 0
              /\ queries[n].gc_us > 0 <=> NrofQueries <= GcCost
        /\ \A section \in OfflineSteps : offline[section] > 0

\* session_wall_us counts the work of every timed section once; only the rest
\* of the division of the circuit's time among the queries is lost, or all of
\* it where there are none.
WallIsTheWork ==
    Done /\ ~crashed /\ program.timed =>
        session_wall_us =
            clock - IF NrofQueries = 0 THEN GcCost ELSE GcCost % NrofQueries
=============================================================================
