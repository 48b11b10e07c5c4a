---------------------------- MODULE MC_Programs ----------------------------
(***************************************************************************)
(* The programs over a field of seven elements (the experiment, whose      *)
(* field is built in: thirteen), with vectors of three subsamples and      *)
(* partitions of three rows.  The parameter file changes the field from    *)
(* thirteen elements to seven, so its dummies are 6, 0, 1, 2 and so on.    *)
(***************************************************************************)
EXTENDS ProgramsProperties, TLC

Config(name, timed, mode, t, k, label_col) ==
    [name |-> name, timed |-> timed, mode |-> mode, T |-> t, K |-> k,
     label_col |-> label_col]

MCConfigs ==
    {Config("bench", TRUE, "CSTPSI", 1, 0, 0), Config("bench", FALSE, "CSTPSI", 1, 0, 0),
     Config("csv_run", FALSE, "CSTPSI", 1, 0, 0), Config("apps", FALSE, "CSTPSI", 1, 0, 1),
     Config("apps", FALSE, "STLPSI", 1, 1, 0), Config("apps", FALSE, "STLPSI", 2, 1, 0),
     Config("apps", FALSE, "CSTPSI", 2, 1, 0),
     Config("rung_stlpsi", FALSE, "CSTPSI", 1, 0, 0),
     Config("rung_cstpsi", FALSE, "CSTPSI", 2, 0, 0)}

\* Blinding that keeps the values apart, and one that does not.
MCKeys == {<<2, 1, 4, 3, 6, 5>>, <<3, 3, 5, 1, 4, 2>>}

Two(a, b) == (0 :> a) @@ (1 :> b)

\* Two ids that fit into one partition, and two that do not; and three, of which
\* the second key makes two equal at two positions, and one the next dummy.
MCDatabases ==
    {Two(<<1, 2, 3>>, <<2, 1, 1>>), Two(<<1, 2, 3>>, <<1, 3, 2>>),
     Two(<<1, 2, 3>>, <<3, 3, 1>>) @@ (2 :> <<4, 1, 2>>)}

Line(id, items, label) == [id |-> id, items |-> items, labels |-> <<label>>]

\* What a line with an item that is no number has of numbers.
MCBadItems == <<1, 1>>

\* No line that is taken; a broken label; an id on two good lines and on one that
\* only the label loader reads; an id beyond the field, and a line whose label is
\* broken; and two ids whose padding is repaired with a value of theirs.
MCFiles ==
    {<<BadLine, Line(1, MCBadItems, 3)>>,
     <<Line(2, <<1, 3, 2>>, 1), Line(4, <<2, 1, 1>>, 2)>>,
     <<Line(0, <<1, 2, 3>>, 3), Line(1, <<2, 1, 1>>, BadLabel)>>,
     <<Line(1, <<2, 3, 1>>, 2), BadLine, Line(1, <<3, 1, 2>>, 4), Line(0, <<1, 2, 3>>, 1),
       Line(1, MCBadItems, 3)>>,
     <<Line(6, <<1, 1, 2>>, 4), Line(0, <<1, 2, 2>>, BadLabel), Line(0, <<1, 2, 2>>, 2)>>}

\* Keys that do not come in order, and lines that are skipped or replaced.
MCQueryFiles ==
    {<<Line(7, <<1, 2, 1>>, 0), BadLine, Line(3, <<3, 1, 2>>, 0)>>,
     <<Line(7, <<1, 1, 3>>, 0), Line(7, <<1, 2, 2>>, 0), Line(9, MCBadItems, 0)>>}

MCProbes == {(2 :> <<1, 2, 1>>) @@ (4 :> <<1, 1, 1>>)}
============================================================================
