---------------------------- MODULE ThresholdPSI ----------------------------
(***************************************************************************)
(* What set-threshold labeled PSI promises, seen from outside: when the    *)
(* inputs are known, so are the labels that each answer has to contain;    *)
(* then every place is answered once, with at least those labels, and no   *)
(* answer is ever taken back.  An answer may contain more: two lines may   *)
(* meet by chance.                                                         *)
(***************************************************************************)
VARIABLES
    promised,  \* place -> the labels that its answer has to contain
    answers    \* place -> the labels it got; only answered places

vars == <<promised, answers>>

Init == promised = <<>> /\ answers = <<>>

\* The inputs may still change what is promised.
Learn == answers = <<>> /\ answers' = answers

Answer ==
    /\ promised' = promised
    /\ \E place \in DOMAIN promised \ DOMAIN answers :
          /\ DOMAIN answers' = DOMAIN answers \cup {place}
          /\ \A other \in DOMAIN answers : answers'[other] = answers[other]
          /\ promised[place] \subseteq answers'[place]

Next == Learn \/ Answer

Spec == Init /\ [][Next]_vars
=============================================================================
