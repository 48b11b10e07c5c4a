# Verification of CSTPSI

TLA+ models of the composable set-threshold labeled PSI program in this
repository, TLC instances that check them, and TLAPS proofs of what matters most
for every value of the parameters. Every definition is translated from the
source; the `map` section of `PROJECT.json` names the lines it stands for.

## 1. The system

Two processes run the protocol. The **sender** (`app/sender.cc`) holds a database
of enrolled ids, each with a vector of `inN` subsamples and secret shares; the
**receiver** (`app/receiver.cc`) holds query vectors. A query matches an id if at
least two positions agree. Offline, the sender blinds its vectors with AES,
partitions the ids so that no two ids of a partition agree anywhere, interpolates
one polynomial per partition and position, and packs the coefficients into SIMD
plaintexts. Online, the receiver obtains the blinding of its query in a garbled
circuit (GC), encrypts the powers of the query, and the sender evaluates its
polynomials homomorphically, once per *round* (token rounds, then label rounds).

### Inventory

| Component | State | Operations | What is hard | What makes it correct |
|---|---|---|---|---|
| Session protocol: `app/sender.cc` main, `app/receiver.cc` main, `sendQueryWithRetry` | accept loop, round and query counters on both sides, `query_cache`, `stop_flag`, retry counter | setup/ack, GC phase, query/response, abandon, retry, give up, stop | messages carry no round or query number; both parties count; retries on fresh sockets; a second receiver; kills; signals | every answer is filed where it belongs; the sender comes back to its accept loop; everybody ends |
| REQ/REP transport: `src/network/network.cc` | ZeroMQ sockets, whose turn it is | send, receive, reconnect, error reply | a closed socket's request stays in flight; a swallowed request leaves a reply owed for ever | replies go to the socket that asked |
| GC blinding: `src/gc/*` | EMP channel | `gcSenderRole`, `gcReceiverRole` | the accept blocks and takes whoever connects | both parties leave the phase together |
| Partitioning: `protocol/sender.cc` 13-120 | partitions, `next_part`, one thread per range | seed, cyclic search, open a partition | the first id of a range is placed outside the loop; search carries over | distinct positions, sizes, every id exactly once |
| Interpolation inputs: `getSplitCoefficients` | `x`, `dummy_item` | pad, repair duplicates | dummies wrap around the field and meet real values | real rows untouched, distinct points |
| SIMD packing: `simdPartitions`, `simdQueryPowers`, `extendPartitionRows`, `decryptQueryResult` | slots, `m_cnt` | pack, repeat, cut, drop padding rows | rests of rows, last plaintext, two counters that must agree | row *c* of the result is partition *c* |
| Matching: `protocol/receiver.cc` 143-295, `protocol/helper.cc` | inverse table, pairs, labels | `repK2`, `findMatches`, `findVerifiedPairs`, `reconstructLabels` | a table built once; pairs that have the token by chance; rows of the packing that are nobody's | no match is missed; what else is reported is a coincidence in every token round |
| Enrollment and query files: `io/csv.cc` | `enr_ss_map`, share maps | load lines, re-share, write results | an exception between two insertions; ids on several lines; results by place instead of key | the share maps have the same keys; each answer is in the place of its query |
| Parameter loader: `io/param_loader.cc`, `protocol/params.*` | globals | load, apply, validate | order of assignments | derived values follow their inputs |
| Serialization: `network/serialization.cc` | byte vectors | pack and unpack ciphertexts | lengths | what is read is what was written |
| Evaluation, FLINT and SEAL | ciphertexts | polynomial evaluation | arithmetic only | outside a model checker's reach |
| Instrumentation: `io/instrumentation.cc` | step timers, query records, two "current" indices | start/end of steps, queries, rounds; `finalize` | a record is found by the index an earlier call left; walls contain their parts | a record is that of its query; the total counts every section once |
| Bench and experiment programs: `app/cli.cc`, `app/flpsi_experiment.cc` | the globals of the protocol code | the same operations in another order, without the network | which step sees blinded values, cleared maps, the right field | the same answers as the apps |
| Scripts, demo, containers | - | tooling | - | outside the program |

`PROJECT.json` lists each with its status, and every hazard of this code with its
line and the properties that would show it going wrong.

### How the parts interact

Both mains share nothing but the REQ/REP connection, the EMP connection and
parameters configured separately. Offline data flows Partition -> Padding ->
interpolation -> Packing; the order of the partitions that Partition fixes is the
order of the rows that the receiver gets back. Padding relies on what Partition
guarantees (`PositionsDistinct`): it is the condition `Distinct` of its `Init`.
Programs composes the whole computation from files to results and takes from
Partition and Packing what they guarantee: a database has any layout of rows that
agree nowhere (`Layouts`), the rows of a result are the partitions. Padding and
repair it has itself, as the points that they end with (`Point`, `Repairs`).

## 2. Modules

| Module | Models |
|---|---|
| `Session` | both mains, transport, GC phase, faults |
| `SessionProperties` | what the session guarantees, and under which faults |
| `QueryService` | the abstract promise to a receiver: served alone, answered in order, answers right |
| `Partition` | `isDistinct`, `partitionDB`, `parallelPartitionDB` |
| `PartitionSearch` | the search loops of `partitionDB` turn by turn, which implement Partition |
| `Padding` | the x-coordinates of `getSplitCoefficients` |
| `Packing` | `simdPartitions` against the receiver's row cutting |
| `Kernel` | shares, inverses, `repK2`, pairs and labels of a row, values of the polynomials at a query |
| `Enrollment` | the loaders of `io/csv.cc` and the share maps of `core.cc` |
| `Instrumentation` | the recorder and `finalize` |
| `Programs` | bench, csv run, apps and kernel rungs as sequences of operations (extends the three above) |
| `ThresholdPSI` | the abstract promise: every place is answered once, with at least the labels of the ids that match |
| `ProgramsProperties` | what Programs guarantees, and the refinement of `ThresholdPSI` |
| `MC_*` | instances for TLC |
| `*_proofs` | theorems about the module of that name |
| `ProgramsPromise_proofs` | the refinement of `ThresholdPSI` and its converse, the report of the instrumented bench, and the types, on top of `Programs_proofs` |
| `DivisionLemmas` | quotients and remainders, cited by the proofs |

### Session

`spc` is where the sender's main thread is: `setup` is the accept loop (poll and
`receiveSessionSetup`), `ack` and `gc` the session setup, `query` and `eval` the
loop over rounds and queries. `rpc[p]` is the same for receiver `p`. `r`, `qi`,
`rround`, `rindex` are the loop counters of the two programs; `cache` is
`query_cache`; `owed` is the connection to which the REP socket still has to
reply, because ZeroMQ refuses a receive while it owes one. A request that left
its socket stays in `requests` when the socket is closed; a reply to a closed
socket is dropped. `requests` is a set, so requests may be served in any order:
REQ sockets of one receiver are different TCP connections.

A query is `<<receiver, index>>`; an answer records which query was evaluated and
with which round's coefficients. Ciphertexts, shares and blinding are abstracted
to that: all that the session can get wrong is which query meets which
coefficients and where the answer is filed.

Each action is a handler with all its consequences: `SendResponse` evaluates,
replies and steps both loops; `RejectRequest` replies with an error and abandons
the session, as the `catch` blocks in `app/sender.cc:477-495` do; `Retry` counts,
closes the socket, and opens the next. The faults are switched by the constant
`Faults`: `timeout` (a receive of the receiver times out although nothing is lost:
the timer is not related to the sender's speed), `loss`, `kill` (of a receiver),
`gc` (a circuit or EMP failure), `corrupt` (a message that does not deserialize),
`stop` (SIGINT to the sender).

### Partition

One action per turn of `partitionDB`'s outer loop. The inner search is stated as
a set: of the partitions that the loop would try and find distinct
(`Candidates`), the first one in cyclic order (`Distance`).

`PartitionSearch` has the two inner loops as the code runs them: `Turn` begins a
turn of the `for`, `SkipFull` is one of the `while`, and a turn ends in `Include` or
`Reject`; `OpenNew` comes after the last turn. `at_part` is the code's `next_part`,
which moves during a search, while `next_part` stays what the last id left. The
variables of Partition are its own, so that it implements Partition is
`ImplementsPartition == Spec`, the odd cases included: from `next_part = -1` the
search never recognises its start, a lone partition is never tried twice, and the
partition the search began at is tried only on the way back from another one.

That a search ends is stated without fairness. Every step that puts no id away brings
it nearer to its end (`SearchesEnd`: fewer turns of the `for` are left, or as many and
fewer partitions up to the one where the turn began); the `while` is never at a full
partition with no other one to come to (`NoSearchIsStuck`); and TLC finds no deadlock
before all threads are through. With `partition_size` 1 the second of these is false: the
first search of a range starts from -1 and goes round its one, full partition for ever.

### Padding

Two loops, one action per turn: `Pad` (row by row) and the guard (position by
position). `Seen` is `dup_map`. A replacement is not looked up again. `Init` takes
rows that differ at every position (what `Partition` proves) and values from 1 up
(`reduceAesOutput` never returns 0); `MaxSubs` holds the values that the callers
give `MAX_SUB`: the largest value of the data in `cli.cc` and `flpsi_experiment.cc`;
`FIELD_MODULUS - 1` by the parameter loader, which reads the `FIELD_MODULUS` of before
it sets it, so that this is the field of the run only because every parameter file in
the repository has the modulus of `params.cc:37`.

### Packing

One action per partition (`PackPartition`), and `Overrun` for a turn that would
write behind the row. A slot holds `<<partition, position>>` or the dummy; the
layout is the same for all coefficients and both channels. The receiver's side
(`QuerySubsample`, `ExtendedRow`, `KeptRows`) are operators, because it is a pure
function of the slots.

### Programs, with Kernel, Enrollment and Instrumentation

`todo` is the rest of the program as a sequence of operations; `Steps` gives it
for each member of `Configs` (`bench`, `csv_run`, `apps` with their mode, T, K and
label column, `rung_stlpsi`, `rung_cstpsi`). The operations are shared, as the
functions are shared by the mains; only their order and their arguments differ,
and that is what the hazards are about. `FIELD_MODULUS`, the share maps and the
table of `smallDiffInverse` are state, because operations that run later read
what earlier ones left.

A sharing is its secret and the slope of its line; the share maps hold sequences
of sharings because the code appends and reads the first `inN` numbers. A line of
a file is a record of its columns; `BadLine` is a line that every loader skips,
`BadItems` one whose items are not all numbers (which `loadIdSharesOnly`
does not look at), `BadLabel` a label that is no number (where `EnrollLine` leaves
the id without shares). Blinding is any function on the values, of which one in the
instance makes two of them equal. The polynomials of a partition are known
by their values at the queries: the share of the row that has the query's
coordinate, and otherwise any value of `TokensElsewhere` or `IdsElsewhere`, chosen
for each row, position, round and query; so a coincidental pair can happen in
every combination that these values allow. The coordinates of a partition are those
that padding and repair leave: `Padded` are the ids' values and the dummies behind
`MAX_SUB`, row by row; `Repairs` the places that the guard replaces, which it visits
position by position; `Point` what is there then. `parallelPartitionDB` fixes the layout
before the bench blinds, so a dummy can take a value that a later row has, and that row
loses its own; the history variable `enrolled` tells which (`Displaced`).

Three things kill a program: `seedWithoutIds`, because `partitionDB` reads the first
id of its range without asking whether there is one and no caller does; a coefficient set
with an id that is in no share map; and two equal points of a polynomial (`Singular`),
with which the interpolation cannot go on (`modpoly.c:113`). `Die` ends the program in the
operation that meets them. The rows of the packing that hold no
partition are such rows with no points (`Rows`): the programs of `cli.cc` keep
them, the apps drop them by the count in the session ACK.

`encrypted` is the queries in key order; `found` and `filed` map a round and a
place to the pairs and the labels. The apps answer in order, the OpenMP loops in
any order. The recorded bench interleaves each query with the calls of the
recorder; `clock` counts the work of the timed sections, whose durations are
constants, so a section counted twice or left out changes the total. The circuit's
time is divided among the queries (`GcShare`), as `cli.cc:409` does, and what the
division leaves is lost. `enrolled` and `asked` are history: the vectors before
any blinding, against which the answers are judged.

## 3. Runs

| Run | Instance | Shows |
|---|---|---|
| `session` | 2 receivers in sequence, 3 rounds, 2 queries, no faults; 242 states | answers right, accept loop open, everybody served, `QueryService` implemented, in both modes |
| `session_retry` | 1 receiver, 2 rounds, 2 queries, 2 sends per query, 5 sockets, timeout/loss/corrupt/GC faults; 8 648 states | what retries can do: misplaced answers only after a retry, skew of at most one place per socket, never an earlier round, no empty evaluation; the receiver ends |
| `session_faults` | 2 concurrent receivers, 2 rounds, 2 queries, 2 sockets each, every fault, symmetry; 830 615 states | own queries answered, turns of REQ/REP, answers form a prefix, sender never behind |
| `session_misplaced` | 1 receiver, timeouts only | **violated**: `AnswersCorrect` |
| `session_wedged` | 1 receiver, timeouts only | **violated**: `AcceptLoopCanReceive` |
| `partition` | 7 ids, 4 vectors over 2 positions, size 2, 2 threads, the search loops turn by turn, every assignment of vectors; 1 736 000 states | the loops implement Partition, every search ends and none is stuck; types, distinct positions, sizes, every id placed once, few partly filled |
| `partition_splits` | 3 ids, 4 threads | **violated**: `PlacedExactlyOnce` |
| `padding` | field of 7, 2 positions, 3 rows, every real partition, three values of `MAX_SUB`; 419 904 states | all of Padding's properties |
| `padding_repair` | the same with the loader's `MAX_SUB` | **violated**: `PointsDistinct` |
| `packing` | 7 shapes, up to 9 partitions; 385 states | all of Packing's properties |
| `programs` | nine configurations of the programs, field of 7 (before `applyToGlobals` and in the experiment: 13), 3 positions, partitions of 3 rows, databases of 2 and 3 ids, 5 enrollment and 2 query files, 2 blindings; 27 994 states | types; the share maps agree; every match is answered in its place (`ImplementsThePromise`); nothing else is unless a foreign pair has the token in every round; only the bench displaces coordinates, and only where blinding makes two values of a partition equal; a program dies exactly of an empty database, an id without shares or two equal points (`DeathsHaveCauses`); the inverses are those of the field in force; the report's records and total |
| `packing_unaligned` | m = 2048, N = 96, up to 22 partitions | **violated**: `NeverOverruns` |

Why the bounds are enough. Three rounds distinguish first, middle and last (the
first fills the cache, the last ends the session), two queries first and last; two
receivers are all it takes for one to meet the other's session, cache or reply.
Two sends per query are a first and a last attempt; `session_retry` needs
`MaxSockets` at least 5 so that the bound never stops a retry: with one retry per
query and four queries a receiver uses five sockets. In `session_faults` the
bound of two sockets does stop a second retry (named `MaxSockets`); the proofs
of its properties hold for every bound. Seven ids in two ranges of three and four make full and partly
filled partitions, collisions of one and of two positions, and a search that wraps
around, steps over a full one and comes back to where it began; what the loops do
with several full ones in a row is in the proofs, which bound nothing. The
shapes of `packing` include rests of rows of 1 and 2 slots, a single
partition per plaintext, and more than two plaintexts. In `programs`, three
positions are the fewest at which two pairs of a row overlap and a pair can mix two
rows, and three rows the fewest at which one that was replaced displaces another. The
files hold no line that is taken, a broken label, an id on two good lines and on one that only
the label loader reads, an id beyond the field, skipped lines, keys out of
order, and two ids in one partition whose padding a repair makes singular, in the csv run
and in the apps. The databases hold values that one blinding makes equal, and one that is
then the next dummy. Slopes of `TokenCoefs` may be equal or not, and the value 6 off the rows
is on the line of slope 2 at position 3 and on that of slope 3 at position 2, so foreign pairs
occur with and without the token; two token rounds are the fewest that can disagree. In a field of seven, dummies
meet real values, replacements meet others, and the counter wraps around.

Deadlock is checked where the system should go on for ever (`session`,
`partition`: when all threads are through, only `Join` is left); the runs with faults
switch it off because a stopped or wedged sender and finished receivers are ends, and `Padding` and `Packing` because a function
returns. `programs` checks deadlock: `Exit` is the only step of a program that is
done, so an operation that nobody can do would be found.

Fairness (`session`, `session_retry`): weak fairness of the sender's thread, of
each receiver process and of the joint GC step: they are scheduled by the
operating system, timers expire, and two connected EMP parties complete. No
fairness for starting a receiver, losing a message, a signal or a kill.

## 4. Proofs

TLAPS checks every theorem, with no assumption beyond the named `ASSUME`s of the
modules (sizes are positive, the shuffled list enumerates the ids, a row takes at
least one partition, ...), which TLC evaluates in the runs.

**Session** (any number of receivers, rounds, queries, retries, sockets; any set of
faults):

- `TypeCorrect`, `AlwaysOwed`: types and turns of the REP socket are proved
  together, since the type of a reply needs the connection owed to.
- `AlwaysOwnQuery`: the answer evaluated from its own request is the
  receiver's. Not inductive: `Lockstep` says that a REQ
  socket has one thing outstanding at a time (its request in flight, the reply
  the sender owes it, or that reply in flight), nothing while its owner is about
  to send, and that no message names a socket a receiver has not opened;
  `OwnInv` follows a payload from its request through `received` and the reply.
- `SenderAlwaysAhead`: the invariant is `NotBehind`, with the position of a
  reply in flight; `SetupInv` (a receiver sends its SETUP once, and it is the only
  way to own a session) is needed so that an old session cannot be taken up.
- `AlwaysAPrefix`: `PrefixInv`, by the injectivity of places in the two loops.

**Which answer is filed where** (second part of `Session_proofs`; any number of
receivers, rounds, queries, retries and sockets). Messages carry no session, so all of it
needs that no query of another receiver reaches a session. That is so in two kinds
of use: `Alone`, one receiver under any set of faults, and `Patient`, any number of
receivers that run one after the other and neither time out nor are killed (a
loss, a stop, a corrupted message or a failure of the circuit may still happen).
Both give `NoStrangers`, and the rest of the argument is the same for the two;
with a second receiver that is not patient an old query in flight can enter the next session,
which `session_faults` therefore does not exclude.

- `SkewAlwaysBounded`: the sender is at most one place ahead for every socket opened
  after the first. Inductive with the queries in flight and the one in evaluation on
  the sender's side of the balance, and the one the receiver waits for on the other
  (`SkewInv`): the requests are a finite set and the proof counts it.
- `NeverEmpty` by `CacheInv`: entries up to the sender's place are filled, no
  trigger without a body is in flight in the first round (for that the skew and
  `SenderNeverBehind` meet). `NeverEarlier` by `LaterInv`: a result in flight was
  evaluated in the receiver's round or later.
- `RetriesAloneMisplace` by `PlaceInv`: on the first socket, cache entry *i* is
  the receiver's query *i* and a result in flight is for the place it is at.
  `AlwaysCorrect` follows where no receive of a receiver times out, because then
  nobody opens a second socket.
- `AlwaysCanReceive`, for patient receivers without corrupted messages: in
  `TurnsInv`, the two loops are at the same place unless the last reply of the session is
  on its way (`LoopsFollowed`), so the sender does not leave a session that has
  a query to come, nor the receiver one that the sender holds.
- `SessionImplementsService`: the refinement of `QueryService`, step by step (each
  receiver action is a service step or a stutter, the sender's are stutters), where no receive
  of a receiver times out. Under time-outs it is false: `session_misplaced`.

`session` is an instance of `Patient` and `session_retry` one of `Alone`.

**Partition** (any finite set of ids, positions, threads, rows): `TypeCorrect`,
`AlwaysDistinct`, `AlwaysFit`, `AlwaysFewPartlyFilled`, and `AlwaysExactlyOnce`
under the hypothesis that there are as many ids as threads, which is exactly what
the run `partition_splits` shows to be needed. `Progress` says that a
thread is past the first place of its range exactly when it has placed its seed; `Placed` and `OncePerSplit` say that a split holds the
ids of its range up to that index, each once; `RangesDisjoint` and `RangesCover`
put the splits together.

`SearchImplements`: the loops of PartitionSearch implement Partition, so all of this
is true of the loops. `Include` has to be an addition to the first candidate on the
way around and `OpenNew` a step in a state without candidates; the other steps are
stutters. The invariant is `SearchInv`. Between two turns (`BetweenTurns`) the search
is at least as many partitions away from its start as it has had turns but one, and no
candidate is behind it; or there is no candidate at all (`Hopeless`), which is how a
search that has gone past its start is described, as the remainders do not tell a
second lap from the first. In a turn (`InTurn`) all that the `while` stepped over
is full, and where the turn began is behind, unless it is the start of the search. So
after as many turns as partitions nothing is left to try, and a turn that comes back to
where it began has met no other partition with room. The arithmetic of the circle
is `Around`. `LoopsKeepThePromises` and `LoopsPlaceEveryId` state the consequences for
`SearchSpec`, the specification that the runs check.

`AlwaysNearer` and `NeverStuck` (for `partition_size` above 1): a search ends. The
invariant adds two things. `OnlyTheSeed`, that a range from which nothing was searched yet
has one partition with one id, so that a search from -1 has room where it is. And
`Placed`, that the id in hand is in no partition, so that a step which leaves the
partitions as they are is a turn or a step of the `while`. `OneNearer` is the distance
in the circle to where the turn began.

**Padding** (any field, numbers of positions and rows): `TypeCorrect`;
`AlwaysUntouched`, the claim of the comment at `sender.cc:165-166`, by
`RealsKept`; `AlwaysRepairs`: equal points take two coincidences, by
`FromTheCounter` (each dummy is the remainder of a number the counter has had)
and `DummiesDiffer` (so they differ while the counter has not gone around);
`AlwaysDistinctAbove`: with `MAX_SUB` above the data nothing is ever repaired.

**Packing** (any shape, any number of partitions): `TypeCorrect`; `AlwaysAligned`
by `Counter`, which gives the slot counter as a function of the loop index;
`AlwaysRows` by `Contents` (each packed partition is in its place);
`NeverOverwritten` by `NothingAhead` (no place ahead has been written).

**Kernel** (any field in which the differences of positions have inverses, any
number of positions): `SharesReconstruct`: any two shares of a sharing give its
secret back, by a small theory of congruences (`Cong`). `ForeignPairsNeedEqualSlopes`:
points of two different token sharings give the token exactly if the slopes are
equal. `MatchIsFound` and `MatchIsLabelled` carry this to a row of a result,
whatever the other rows and the values off the rows are. `InverseFound`:
`field_mod_inverse` returns the inverse of every number that has no divisor but 1 in
common with the modulus. The library's induction theorems cannot be used here, so both
halves argue with a least counterexample (`LeastOf`): that the recursion has a solution
at all (`EuclidUnfolds`, put together from functions that are right for remainders
below n and agree where they are), and that it keeps the invariant of the loop
(`Follows`: t and newt, times a, are r and newr modulo M, and r and newr have no
divisor in common), which at newr = 0 leaves r = 1.

**Programs** (any set of configurations that `parseArgs` accepts, any files,
databases, blindings, layouts, queries, slopes and values off the rows, any order
of the threads). The assumptions are `FieldsOK` (no number of
positions divides a modulus, as both are primes above `inN`; `DifferencesInvert` has from
it, by `InverseFound`, that the differences of positions have inverses), `ConfigsOK` (T at least 1, K at least 0, label
chunks only in the apps, as their option parsers have it), `RowsOK` (a partition has
rows), `InputsOK` (ids and
readable labels are numbers from 0 to `MaxInt`), `VectorsOK` (a
vector has a value at every position: a line with fewer columns is skipped), `ItemsOK`
(items lie in the field),
`ElsewhereOK` (the value of a polynomial is a number wherever it is evaluated) and
`CostsOK` (what is timed takes time).

Two of these are narrower than what the code accepts, and outside of them nothing is
claimed. Ids and labels: the code takes a negative secret for one that is 2^64
larger (`modpoly.c:77`), and cuts a label that an `int` does not hold (`csv.cc:70`).
Items: blinding puts them into the field and the synthetic ones are in it, but the csv run
takes those of its files as they are (64 bits, `csv.h:22`), and neither the interpolation
nor `dup_map`, whose keys are `int`, is made for larger ones. And as `Layouts` takes
over what Partition guarantees, Programs has at least as many ids as splits, or none at all;
in between is what `partition_splits` shows.

- `InversesCurrent`, by `FieldInv`: nothing reconstructs before `applyToGlobals` and
  the field does not change after. `ShareMapsStayInStep`, by `ShareInv`, which adds
  that the sharings of an id are sequences.
- The order of the operations. All that follows needs to know what a program has
  done when it does something else, while `todo` is only a sequence. `Phase` and
  `Turn` give an operation its place, `StepSet` is the set of operations of the
  program that runs, and `StepsParts` proves, program by program, that `Steps` has
  exactly these in the order `Before`. `OrderInv` keeps that for what is left;
  `UpSet` adds that whatever comes after an operation that is left is left too, so
  `Doing(op)` settles for every other operation whether it is done or to come
  (`DoingSplits`, `LeftStep`).
- `OnlyBlindingAfterwardsDisplaces`, by `DataInv`: `EnrInv` (the database is as
  enrolled, or blinded once), `PartsInv` (the partitions are a layout of what they
  were made from: in the bench of the vectors before blinding), `SetsInv` (every
  set is interpolated from the database and the partitions as they stay, at the points that
  padding and repair leave, which differ). The guard leaves the rows of a layout alone
  where their values differ. In the bench an id that loses its coordinate finds it either in
  an earlier row or in a dummy that replaced an earlier row's, and that one was
  equal to a row before it. That the places replaced are determined is
  `RepairIsUnique`: two different answers would differ first at a place before
  which they agree.
- `DeathsAreExplained`, by `SenderInv` or `Starved`: a program with nobody enrolled dies
  at its partitioning, with no set, no query and no answer (`Starved` is that state, which
  nothing leaves), and all that follows is about the others (`Lives`). For these `FileInv` and `LoadInv` relate the share
  maps to the lines read so far, `LabelInv` the first sharing of an id to its first
  readable label, `SharedInv` and `AgainInv` the sharings of the other programs and
  rounds, `NumberInv` counts the sets against the operations done, and `WholeInv`
  says that every set has a token sharing and a sharing of the label of its round.
- `AnswersKeepMatches`: the step that answers a query keeps the pair and the label
  of every row that the query meets in two positions.
- `ProgramsKeepThePromise`: the refinement of `ThresholdPSI`, step by step. The
  invariant is `AnswerInv`: to `SenderInv` it adds `AskedInv` (the queries are as
  asked or blinded once), `EncInv` (what is encrypted is the queries in key order,
  blinded once, and does not change once there), `TimedInv` (a recorded query that
  waits for its check is not answered yet, and its round is not over), `RoundsInv`
  (a round is over only when every place has its answer) and `FoundInv` (the pairs
  of every match are in what a token round has found). Then a match on the values
  is a row met twice (`MatchInRow`), it is kept by the answer of its round
  (`AnswerHasMatch`), and what is promised never changes (`PromiseStays`).
  That the query keys can be put in order is `FiniteSetsSort`.
- `AnswersAreExact`, the converse: unless a foreign pair has the token in every
  token round, an answer holds the labels of the matches and nothing else. A label
  is read through an accepted pair (`LabelsAreOfPairs`, `FoundIsAccepted`), both
  points of it are one row's, whose id then agrees with the query in two positions
  (`PairIsMatch`). `ExactInv` adds that a label round has its token rounds behind
  it, so nothing it was verified against is filed again. How likely a foreign
  pair is, is what `ForeignPairsNeedEqualSlopes` says.

- `RecordsKeepTheirQuery` and `WallCountsTheWork`, for any number of queries and any
  durations. Both are about one state, the one after `finalize`, and what is in it
  is the work of all operations before, so the invariant follows the recorded
  bench from its first operation to its last. `ReportInv` says where it is: at one of
  the 22 offline operations, at one of the 15 places of a query (13 operations, then the
  round and the report, once all queries are through), or at the end. For each place
  `OfflineAt` and `RecordAt` give the record of the recorder as it is there, and the
  clock is the cost of what is done. The records behind the current one are complete,
  which is where `CurrentQuery` must not have moved. In `finalize` the sum over the
  records is a product because the records are alike; as there is no induction,
  a least number of records for which it fails is shown not to exist. That the bench
  gets that far without dying is from `SenderInv`.
- A bench that dies writes no report; for one with nobody enrolled `Silenced` has that no
  answer is filed, which is where the invariants of the answers and of the report start from.
- `TypesAreKept`, by `TypeInv`: an answer is in the field in force because every label
  is a remainder by it and the field does not change once there are answers (`FiledInv`);
  vectors are whole whether blinded or not (`VectorInv`); the total is a number because
  only the recorded bench writes one (`NoReport`), and for it `ReportInv` says which.

Only model-checked: liveness under fairness (`EveryReceiverServed`,
`EveryReceiverEnds`), which is out of the prover's reach, and the absence of
deadlock. Every other property of the runs that pass is a theorem.

## 5. Where code and documents part

- `session_misplaced`: a query that is only slow is sent again, the sender takes
  the copy for its next query, and later answers are filed one place early without
  an error.
- `session_wedged`: a request that is not a SESSION_SETUP is received by the
  accept loop and never replied to; the REP socket cannot receive any more.
- `partition_splits`: with fewer ids than threads one id is put into several
  partitions.
- `padding_repair`: a replaced duplicate may be a duplicate again, although the
  loop is there to make the points distinct. Two coincidences at one position are
  needed, so it is rare in the field the program uses.
- `packing_unaligned`: an N that does not divide m, as the documented 96, writes
  behind a row as soon as a second plaintext is needed.

Met while modelling, without a run of their own: `cli.cc:241-242` and `:341` say
that `isDistinct` may modify `enr_ss_map` in place; it only compares (Partition). A
line whose label is no number is reported as "skipping" (`csv.cc:78`), but its id
stays enrolled without shares and the program dies when it interpolates, unless
another line of that id has a label. A file of which no line is taken is no error
either, and the program dies in `partitionDB`, although `parallelPartitionDB` counts what
was "actually loaded from the CSV" (`sender.cc:89-90`). `DeathsHaveCauses` states when
a program dies. `param_loader.cc:98` calls `FIELD_MODULUS - 1` a safe upper bound
of the subsamples, but takes the modulus of before it is set.

The `findings` of `PROJECT.json` quote the lines.

## 6. Not modelled, and the plan

Left out for good: the arithmetic of SEAL, FLINT, AES and EMP; the text of options,
JSON files and CSV lines; serialization (byte layout around SEAL's own save and
load); bytes, memory and system information of the instrumentation and its JSON;
feature extraction, distance rungs, error rates, manifests and query logs of the
experiment; the wrapper that loads data sets; scripts and containers. A sender crash
other than the one of `EvaluateEmptyQuery` is not modelled: nothing of the sender
is persistent, a restarted one is a new `Init`. In Programs the apps exchange
their messages without faults; what faults do to the order of answers is the
subject of Session, and the two are not composed.

What could be added:

1. `Framing`: message headers and vector lengths in `network.cc` and
   `serialization.cc`, with short and foreign messages.
2. The bookkeeping of hits, real and garbage answers in `runDeep1B`.
3. A session that hands Programs' queries to Session's rounds: the two meet only
   in what each assumes of the other.
