--------------------------- MODULE QueryService ---------------------------
(***************************************************************************)
(* What a receiver is promised by a session, without messages, sockets or  *)
(* caches: it is served alone, its queries are answered one by one, round  *)
(* after round, and the answer to query i of round n is the evaluation of  *)
(* that receiver's query i with the coefficients of round n.  A session    *)
(* may be refused or break off at any point; what was answered stays.      *)
(***************************************************************************)
EXTENDS Naturals

CONSTANTS Receivers, NrofRounds, NrofQueries, None

VARIABLES status, answers

vars == <<status, answers>>

Places == (0 .. NrofRounds - 1) \X (0 .. NrofQueries - 1)

Init ==
    /\ status = [p \in Receivers |-> "out"]
    /\ answers = [p \in Receivers |-> [x \in Places |-> None]]

Before(x, y) == x[1] < y[1] \/ (x[1] = y[1] /\ x[2] < y[2])

\* One receiver at a time.
Open(p) ==
    /\ status[p] = "out"
    /\ \A q \in Receivers : status[q] # "in"
    /\ status' = [status EXCEPT ![p] = "in"]
    /\ UNCHANGED answers

\* The next answer is the right one; the last one ends the session.
Answer(p) ==
    /\ status[p] = "in"
    /\ \E x \in Places :
          /\ answers[p][x] = None
          /\ \A y \in Places : Before(y, x) => answers[p][y] # None
          /\ answers' = [answers EXCEPT ![p][x] =
                            [query |-> <<p, x[2]>>, round |-> x[1]]]
    /\ status' = [status EXCEPT ![p] =
          IF \A x \in Places : answers'[p][x] # None THEN "served" ELSE "in"]

Break(p) ==
    /\ status[p] = "in"
    /\ status' = [status EXCEPT ![p] = "broken"]
    /\ UNCHANGED answers

Next == \E p \in Receivers : Open(p) \/ Answer(p) \/ Break(p)

Spec == Init /\ [][Next]_vars
============================================================================
