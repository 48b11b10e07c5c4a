----------------------------- MODULE Enrollment -----------------------------
(***************************************************************************)
(* The loaders of io/csv.cc and setShares of protocol/core.cc.  A line of  *)
(* a file is a record: its id, its items or BadItems where one of them is  *)
(* no number, and its label columns, of which one may be BadLabel, no      *)
(* number.  A comment, the header, a line with too few columns and one     *)
(* without a readable id are BadLine, which no loader takes.  The share    *)
(* maps hold sharings (a secret and the slope of its line); push_back      *)
(* appends one, and every reader takes the first inN shares, those of the  *)
(* first sharing.                                                          *)
(***************************************************************************)
EXTENDS Integers, Sequences, FiniteSets

CONSTANTS
    BadLine, BadItems, BadLabel,
    TokenCoefs, LabelCoefs  \* the random slopes of the two kinds of sharings

VARIABLES
    rest,            \* the lines of the enrollment file not yet read
    enr_ss_map,      \* id -> its vector
    token_share_map, \* id -> sequence of sharings of token
    id_share_map     \* id -> sequence of sharings of its label

enrollment_vars == <<rest, enr_ss_map, token_share_map, id_share_map>>

Sharing(secret, coef) == [secret |-> secret, coef |-> coef]

\* map[id] = value, and map[id].push_back of the shares of one sharing.
Put(map, id, value) ==
    [k \in DOMAIN map \cup {id} |-> IF k = id THEN value ELSE map[k]]
Push(map, id, sharing) ==
    Put(map, id, Append(IF id \in DOMAIN map THEN map[id] ELSE <<>>, sharing))

PushAll(map, sharings) ==
    [id \in DOMAIN map \cup DOMAIN sharings |->
        (IF id \in DOMAIN map THEN map[id] ELSE <<>>)
          \o (IF id \in DOMAIN sharings THEN <<sharings[id]>> ELSE <<>>)]

\* What a reader of the share maps sees.
FirstSharings(map) == [id \in DOMAIN map |-> Head(map[id])]

\* A label column, counted after the items; the id where there is none.
LabelOf(line, column) ==
    IF column \in DOMAIN line.labels THEN line.labels[column] ELSE line.id

\* Lines that are skipped before anything is stored.
\* Mutant: the items are taken as they come.
SkippedOnlyBadLines(line) == line = BadLine
Skipped(line) == IF line = BadLine THEN TRUE ELSE line.items = BadItems

\* The state before main: every map is empty, the file unread.
EnrollmentInit(file) ==
    /\ rest = file
    /\ enr_ss_map = <<>>
    /\ token_share_map = <<>>
    /\ id_share_map = <<>>

SkipLine ==
    /\ rest # <<>>
    /\ Skipped(Head(rest))
    /\ rest' = Tail(rest)
    /\ UNCHANGED <<enr_ss_map, token_share_map, id_share_map>>

\* One line of loadEnrollmentCSV.  The items are in the map before the label
\* is read; where that throws, the line is given up and they stay.
EnrollLine(column) ==
    /\ rest # <<>>
    /\ ~Skipped(Head(rest))
    /\ rest' = Tail(rest)
    /\ LET line == Head(rest) IN
       /\ enr_ss_map' = Put(enr_ss_map, line.id, line.items)
       /\ \/ /\ LabelOf(line, column) = BadLabel
             /\ UNCHANGED <<token_share_map, id_share_map>>
          \/ /\ LabelOf(line, column) # BadLabel
             /\ \E c \in TokenCoefs, d \in LabelCoefs :
                   /\ token_share_map' = Push(token_share_map, line.id, Sharing(0, c))
                   /\ id_share_map' =
                         Push(id_share_map, line.id, Sharing(LabelOf(line, column), d))

----------------------------------------------------------------------------

\* The other two loaders, for a whole file.
RowsOf(file) == {n \in DOMAIN file : file[n] # BadLine}
LastOf(file, rows, id) == CHOOSE n \in rows :
    file[n].id = id /\ \A k \in rows : file[k].id = id => k <= n
IdsOf(file, rows) == {file[n].id : n \in rows}

\* loadQueryCSV: the last good line of an id counts.
loadQueryCSV(file) ==
    LET rows == {n \in RowsOf(file) : file[n].items # BadItems} IN
    [id \in IdsOf(file, rows) |-> file[LastOf(file, rows, id)].items]

\* loadIdSharesOnly: items are not looked at, a broken label is swallowed, and
\* the last readable line of an id counts.
Relabelled(file, column) ==
    {n \in RowsOf(file) : LabelOf(file[n], column) # BadLabel}
loadIdSharesOnly(file, column, coef) ==
    LET rows == Relabelled(file, column) IN
    [id \in IdsOf(file, rows) |->
        Sharing(LabelOf(file[LastOf(file, rows, id)], column), coef[id])]
=============================================================================
