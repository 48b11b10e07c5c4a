------------------------- MODULE SessionProperties -------------------------
(***************************************************************************)
(* What the session protocol of module Session is expected to guarantee,   *)
(* and under which faults.                                                 *)
(***************************************************************************)
EXTENDS Session

Answered(p, x) == answers[p][x] # None

\* Every answer a receiver files under round n and query i is the evaluation
\* of its own query i with the coefficients of round n.  Nothing in a message
\* says so: it rests on both parties' loops staying in step (sender.cc:407-496
\* and receiver.cc:384-578).
AnswersCorrect ==
    \A p \in Receivers, x \in Rounds \X Indices :
        Answered(p, x) =>
            answers[p][x] = [query |-> <<p, x[2]>>, round |-> x[1]]

\* A sender that waits for a SESSION_SETUP owes no reply: its REP socket can
\* receive, so the next receiver is heard (sender.cc:338-351).
AcceptLoopCanReceive == spc = "setup" => owed = None

\* The session of a receiver implements the service it is promised.
Status == [p \in Receivers |->
              CASE rpc[p] = "idle" -> "out"
                [] rpc[p] \in {"ack", "gc", "send", "wait"} -> "in"
                [] rpc[p] = "done" -> "served"
                [] OTHER -> "broken"]
QS == INSTANCE QueryService WITH status <- Status
ImplementsQueryService == QS!Spec

\* Without faults every receiver that starts is served to the end, and the
\* sender comes back to its accept loop.
EveryReceiverServed ==
    \A p \in Receivers : rpc[p] = "ack" ~> (rpc[p] = "done" /\ spc = "setup")

----------------------------------------------------------------------------
(* Properties that survive retries, lost requests and garbled messages.     *)

Position(n, i) == n * NrofQueries + i
InQueryLoop(p) == rpc[p] \in {"gc", "send", "wait"}

\* The receiver that owns the session is never ahead of the sender: it does
\* not skip a round or a query, however its requests were delayed or repeated.
SenderNeverBehind ==
    \A p \in Receivers :
        (session = p /\ spc \in {"query", "eval"} /\ InQueryLoop(p)) =>
            Position(rround[p], rindex[p]) <= Position(r, qi)

\* A retry is the only cause of misplaced answers: as long as a receiver has
\* not opened a second socket (receiver.cc:208-221) its answers are right.
OnlyRetriesMisplace ==
    \A p \in Receivers, x \in Rounds \X Indices :
        (sock[p] = 0 /\ Answered(p, x)) =>
            answers[p][x] = [query |-> <<p, x[2]>>, round |-> x[1]]

\* Each retry moves the sender at most one place ahead of the receiver.
SkewIsBounded ==
    \A p \in Receivers :
        (session = p /\ InQueryLoop(p)) =>
            Position(r, qi) <= Position(rround[p], rindex[p]) + sock[p] + 1

\* A misplaced answer always comes from a later place of the same receiver's
\* session, never from an earlier round.
NeverAnEarlierRound ==
    \A p \in Receivers, x \in Rounds \X Indices :
        Answered(p, x) => answers[p][x].round >= x[1]

\* An evaluation never meets an empty query vector: every trigger finds the
\* query of its index in the cache (sender.cc:462-466).
NeverEvaluatesEmptyQuery == spc = "eval" => EncryptedQuery # None

\* Retries are bounded: a receiver that starts ends, served or not.
EveryReceiverEnds ==
    \A p \in Receivers : rpc[p] = "ack" ~> rpc[p] \in {"done", "failed"}

----------------------------------------------------------------------------
(* Properties that survive every fault, with any number of receivers.       *)

\* An answer evaluated from the payload of its own request is an answer to
\* the receiver's own query: REQ/REP returns it to the socket that asked, and
\* a socket that was closed hears nothing.  In STLPSI mode that is every
\* answer, in CSTPSI mode those of the sender's round 0.
OwnQueryAnswered ==
    \A p \in Receivers, x \in Rounds \X Indices :
        (Answered(p, x) /\ (mode = "STLPSI" \/ answers[p][x].round = 0)) =>
            answers[p][x].query = <<p, x[2]>>

\* The REP socket owes a reply exactly while the sender serves a request, or
\* after the accept loop has swallowed one.
RepliesAreOwed ==
    /\ spc \in {"ack", "eval"} => owed # None
    /\ spc \in {"gc", "query"} => owed = None

\* A receiver that is done has an answer for every round and query, and one
\* that stopped before has a prefix of them: the rounds it wrote are complete.
AnswersFormAPrefix ==
    \A p \in Receivers, x \in Rounds \X Indices :
        Answered(p, x) <=>
            \/ rpc[p] = "done"
            \/ Position(x[1], x[2]) < Position(rround[p], rindex[p])
============================================================================
