------------------------------ MODULE Session ------------------------------
(***************************************************************************)
(* One sender process (app/sender.cc) serving receiver processes           *)
(* (app/receiver.cc) over a ZeroMQ REQ/REP socket pair and an EMP channel. *)
(*                                                                         *)
(* A session is SESSION_SETUP / ack, one garbled-circuit (GC) phase in     *)
(* CSTPSI mode or one per round in STLPSI mode, and then, for every round, *)
(* one request and one response per query.  The messages carry no session, *)
(* round or query number: both parties find their place by counting.  In   *)
(* CSTPSI mode the query itself travels in round 0 only (send-once); later *)
(* rounds send an empty trigger and the sender evaluates its cached copy.  *)
(*                                                                         *)
(* A query is the pair <<receiver, index>>; an answer records the query    *)
(* that was evaluated and the round whose coefficients were used.  The     *)
(* encrypted values are abstracted to these.                               *)
(***************************************************************************)
EXTENDS Naturals

CONSTANTS
    Receivers,    \* receiver processes: one run of cstpsi_receiver each
    Modes,        \* the protocol modes (--mode) that are considered
    NrofRounds,   \* token rounds + label rounds, or 1 in single-round use
    NrofQueries,  \* query records of a receiver: receiver_item_count / inN
    MaxRetries,   \* max_retries of sendQueryWithRetry
    MaxSockets,   \* bound: REQ sockets a receiver may open in its life
    Faults,       \* what may go wrong, a subset of FaultKinds
    Sequential,   \* TRUE: a receiver starts only when no other one runs
    None          \* no value: no connection, an empty ciphertext vector

FaultKinds == {"timeout", "kill", "loss", "gc", "corrupt", "stop"}

ASSUME ConstantsOK ==
    /\ Modes \subseteq {"CSTPSI", "STLPSI"}
    /\ NrofRounds \in Nat \ {0}
    /\ NrofQueries \in Nat \ {0}
    /\ MaxRetries \in Nat \ {0}
    /\ MaxSockets \in Nat \ {0}
    /\ Faults \subseteq FaultKinds
    /\ Sequential \in BOOLEAN

Rounds  == 0 .. NrofRounds - 1
Indices == 0 .. NrofQueries - 1

Conn    == [proc : Receivers, sock : 0 .. MaxSockets - 1]
Query   == Receivers \X Indices
Payload == Query \cup {None}
Answer  == [query : Query, round : Rounds]

Request == [conn : Conn, kind : {"setup", "query"}, payload : Payload]
Reply   == [conn : Conn, kind : {"ack", "result", "error"},
            answer : Answer \cup {None}]

ASSUME NoneIsNoValue == None \notin Receivers \cup Conn \cup Query \cup Answer

VARIABLES
    mode,      \* opts.mode, the same at both parties
    requests,  \* requests in flight or queued at the REP socket
    replies,   \* replies in flight or queued at an open REQ socket
    spc,       \* where the sender's main thread is
    owed,      \* the connection the REP socket owes a reply to, or None
    session,   \* the receiver whose SESSION_SETUP opened the session, or None
    r, qi,     \* the sender's loop counters: round and query of the session
    received,  \* payload of the request being served
    cache,     \* query_cache
    stop,      \* stop_flag
    rpc,       \* where each receiver is
    sock,      \* number of each receiver's current REQ socket
    rround, rindex,  \* each receiver's loop counters
    attempt,   \* sendQueryWithRetry's loop counter
    answers    \* the answers each receiver has accepted, by round and index

transportVars == <<requests, replies, owed>>
senderVars    == <<spc, session, r, qi, received, cache, stop>>
receiverVars  == <<rpc, sock, rround, rindex, attempt, answers>>
vars == <<mode, transportVars, senderVars, receiverVars>>

SenderPC   == {"setup", "ack", "gc", "query", "eval", "exited", "crashed"}
ReceiverPC == {"idle", "ack", "gc", "send", "wait", "done", "failed", "killed"}

TypeOK ==
    /\ mode \in Modes
    /\ requests \subseteq Request
    /\ replies \subseteq Reply
    /\ spc \in SenderPC
    /\ owed \in Conn \cup {None}
    /\ session \in Receivers \cup {None}
    /\ r \in Rounds
    /\ qi \in Indices
    /\ received \in Payload
    /\ cache \in [Indices -> Payload]
    /\ stop \in BOOLEAN
    /\ rpc \in [Receivers -> ReceiverPC]
    /\ sock \in [Receivers -> 0 .. MaxSockets - 1]
    /\ rround \in [Receivers -> Rounds]
    /\ rindex \in [Receivers -> Indices]
    /\ attempt \in [Receivers -> 0 .. MaxRetries - 1]
    /\ answers \in [Receivers -> [Rounds \X Indices -> Answer \cup {None}]]

EmptyCache == [i \in Indices |-> None]

Init ==
    /\ mode \in Modes
    /\ requests = {} /\ replies = {} /\ owed = None
    /\ spc = "setup" /\ session = None
    /\ r = 0 /\ qi = 0 /\ received = None /\ cache = EmptyCache
    /\ stop = FALSE
    /\ rpc = [p \in Receivers |-> "idle"]
    /\ sock = [p \in Receivers |-> 0]
    /\ rround = [p \in Receivers |-> 0]
    /\ rindex = [p \in Receivers |-> 0]
    /\ attempt = [p \in Receivers |-> 0]
    /\ answers = [p \in Receivers |-> [x \in Rounds \X Indices |-> None]]

----------------------------------------------------------------------------
(* The transport.  A REQ socket has one request outstanding; a reply to a   *)
(* socket that was closed is discarded; a request that left a socket stays  *)
(* in flight when the socket closes (no linger is set, network.cc:397-418). *)

\* Mutant: send-once in STLPSI too.
SendOnceInBothModes == TRUE
SendOnce == mode = "CSTPSI"

\* Mutants: one query too many, one too few.
LastIndexOffByOne(i) == i = NrofQueries
LastIndexOneShort(i) == i + 2 >= NrofQueries
LastIndex(i) == i + 1 = NrofQueries

Active(p)  == rpc[p] \in {"ack", "gc", "send", "wait"}
Current(p) == [proc |-> p, sock |-> sock[p]]
IsOpen(c)  == Active(c.proc) /\ c = Current(c.proc)

Post(p, kind, payload) ==
    requests' = requests \cup
        {[conn |-> Current(p), kind |-> kind, payload |-> payload]}

\* Mutant: the REP socket is not given its turn back.
RespondStillOwing(c, kind, answer) ==
    /\ replies' = IF IsOpen(c)
                    THEN replies \cup
                            {[conn |-> c, kind |-> kind, answer |-> answer]}
                    ELSE replies
    /\ UNCHANGED owed
Respond(c, kind, answer) ==
    /\ replies' = IF IsOpen(c)
                    THEN replies \cup
                            {[conn |-> c, kind |-> kind, answer |-> answer]}
                    ELSE replies
    /\ owed' = None

RepliesWithout(p) == {m \in replies : m.conn.proc # p}

----------------------------------------------------------------------------
(* The sender.                                                              *)

SessionOver == IF stop THEN "exited" ELSE "setup"

\* The head of the round loop: a GC first in STLPSI, the query loop otherwise.
RoundHead == IF stop THEN "exited"
             ELSE IF mode = "STLPSI" THEN "gc" ELSE "query"

\* The accept loop takes any request; one that is not a SESSION_SETUP, or does
\* not parse, makes receiveSessionSetup throw, and the loop continues without
\* having replied.
ReceiveSessionSetup ==
    /\ spc = "setup" /\ owed = None
    /\ \E m \in requests :
          /\ requests' = requests \ {m}
          /\ owed' = m.conn
          /\ \/ m.kind = "setup" /\ spc' = "ack" /\ session' = m.conn.proc
             \/ /\ m.kind # "setup" \/ "corrupt" \in Faults
                /\ UNCHANGED <<spc, session>>
    /\ UNCHANGED <<mode, replies, r, qi, received, cache, stop, receiverVars>>

\* rcvtimeo expires, or recv fails because a reply is owed: poll again.
PollIdle ==
    /\ spc = "setup" /\ ~stop
    /\ UNCHANGED vars

SendSessionAck ==
    /\ spc = "ack"
    /\ Respond(owed, "ack", None)
    /\ spc' = IF mode = "CSTPSI" THEN "gc" ELSE RoundHead
    /\ r' = 0 /\ qi' = 0
    /\ received' = None /\ cache' = EmptyCache
    /\ UNCHANGED <<mode, requests, session, stop, receiverVars>>

\* The full query arrives in round 0 and is cached under the sender's index.
\* Mutant: a trigger overwrites the cached query.
CacheEveryRound(payload) ==
    IF SendOnce THEN [cache EXCEPT ![qi] = payload] ELSE cache
CacheAfter(payload) ==
    IF SendOnce /\ r = 0 THEN [cache EXCEPT ![qi] = payload] ELSE cache

ReceiveQuery ==
    /\ spc = "query" /\ ~stop /\ owed = None
    /\ \E m \in requests :
          /\ m.kind = "query"
          /\ requests' = requests \ {m}
          /\ owed' = m.conn
          /\ received' = m.payload
          /\ cache' = CacheAfter(m.payload)
    /\ spc' = "eval"
    /\ UNCHANGED <<mode, replies, session, r, qi, stop, receiverVars>>

\* A SESSION_SETUP in the query loop, or a request that does not deserialize:
\* an ERROR_RESPONSE goes back and the session is abandoned.
RejectRequest ==
    /\ spc = "query" /\ ~stop /\ owed = None
    /\ \E m \in requests :
          /\ m.kind = "setup" \/ "corrupt" \in Faults
          /\ requests' = requests \ {m}
          /\ Respond(m.conn, "error", None)
    /\ spc' = SessionOver
    /\ session' = None
    /\ UNCHANGED <<mode, r, qi, received, cache, stop, receiverVars>>

\* Mutant: a cache of one query.
FirstQueryCached == IF SendOnce THEN cache[0] ELSE received
EncryptedQuery == IF SendOnce THEN cache[qi] ELSE received

\* coeffs: one coefficient set per round.
\* Mutant: the coefficients of the first round for all.
FirstCoefficientsOnly(n) == 0
CoefficientsOf(n) == n

\* Mutants: the sender stops a round too early, or not at all.
LastRoundEarly == r + 2 >= NrofRounds
LastRoundLate == r = NrofRounds
LastRound == r + 1 = NrofRounds
\* Mutant: the round counter is not advanced.
SameRound == r
NextRound == r + 1

\* The step of the sender's query and round loops.
AdvanceLoops ==
    \/ /\ ~LastIndex(qi)
       /\ qi' = qi + 1 /\ r' = r
       /\ spc' = (IF stop THEN "exited" ELSE "query")
       /\ UNCHANGED session
    \/ /\ LastIndex(qi) /\ ~LastRound
       /\ qi' = 0 /\ r' = NextRound
       /\ spc' = RoundHead
       /\ UNCHANGED session
    \/ /\ LastIndex(qi) /\ LastRound
       /\ spc' = SessionOver /\ session' = None
       /\ UNCHANGED <<r, qi>>

\* homomorphicPolyEval and sendResponse.
SendResponse ==
    /\ spc = "eval" /\ EncryptedQuery # None
    /\ Respond(owed, "result",
               [query |-> EncryptedQuery, round |-> CoefficientsOf(r)])
    /\ AdvanceLoops
    /\ UNCHANGED <<mode, requests, received, cache, stop, receiverVars>>

\* evalPartition indexes the vector of query powers: with an empty one it
\* reads out of bounds inside an OpenMP region, and the process dies.
EvaluateEmptyQuery ==
    /\ spc = "eval" /\ EncryptedQuery = None
    /\ spc' = "crashed" /\ owed' = None /\ session' = None
    /\ UNCHANGED <<mode, requests, replies, r, qi, received, cache, stop,
                   receiverVars>>

Signal ==
    /\ "stop" \in Faults /\ ~stop
    /\ stop' = TRUE
    /\ UNCHANGED <<mode, transportVars, spc, session, r, qi, received, cache,
                   receiverVars>>

\* stop_flag is looked at when a receive times out or fails and at the heads
\* of the loops; a request read after it was set is never answered.
Shutdown ==
    /\ stop /\ spc \in {"setup", "query"}
    /\ spc' = "exited" /\ session' = None
    /\ UNCHANGED <<mode, transportVars, r, qi, received, cache, stop,
                   receiverVars>>

----------------------------------------------------------------------------
(* The receivers.                                                           *)

Start(p) ==
    /\ rpc[p] = "idle"
    /\ Sequential => \A q \in Receivers : ~Active(q)
    /\ rpc' = [rpc EXCEPT ![p] = "ack"]
    /\ Post(p, "setup", None)
    /\ UNCHANGED <<mode, replies, owed, senderVars, sock, rround, rindex,
                   attempt, answers>>

\* Leaving main: the REQ socket closes with the process.
Exit(p, how) ==
    /\ rpc' = [rpc EXCEPT ![p] = how]
    /\ replies' = RepliesWithout(p)
    /\ UNCHANGED <<sock, rround, rindex, attempt, answers>>

\* An ERROR_RESPONSE is the wrong type for receiveSessionAck, which throws, as
\* it does for an ack that does not parse.
ReceiveSessionAck(p) ==
    /\ rpc[p] = "ack"
    /\ \E m \in replies :
          /\ m.conn = Current(p)
          /\ \/ /\ m.kind = "ack"
                /\ rpc' = [rpc EXCEPT ![p] = "gc"]
                /\ replies' = replies \ {m}
                /\ UNCHANGED <<sock, rround, rindex, attempt, answers>>
             \/ /\ m.kind # "ack" \/ "corrupt" \in Faults
                /\ Exit(p, "failed")
    /\ UNCHANGED <<mode, requests, owed, senderVars>>

\* to_send: the full query, or EMPTY_QUERY once the sender has it cached.
ToSend(p) == IF SendOnce /\ rround[p] > 0 THEN None ELSE <<p, rindex[p]>>

SendQuery(p) ==
    /\ rpc[p] = "send"
    /\ Post(p, "query", ToSend(p))
    /\ rpc' = [rpc EXCEPT ![p] = "wait"]
    /\ UNCHANGED <<mode, replies, owed, senderVars, sock, rround, rindex,
                   attempt, answers>>

\* The step of the receiver's two loops once an answer is accepted; the
\* round's result file is written when the last query of the round is in.
NextQuery(p) ==
    \/ /\ ~LastIndex(rindex[p])
       /\ rpc' = [rpc EXCEPT ![p] = "send"]
       /\ rindex' = [rindex EXCEPT ![p] = @ + 1]
       /\ UNCHANGED rround
    \/ /\ LastIndex(rindex[p]) /\ rround[p] + 1 < NrofRounds
       /\ rpc' = [rpc EXCEPT ![p] = IF mode = "STLPSI" THEN "gc" ELSE "send"]
       /\ rindex' = [rindex EXCEPT ![p] = 0]
       /\ rround' = [rround EXCEPT ![p] = @ + 1]
    \/ /\ LastIndex(rindex[p]) /\ rround[p] + 1 = NrofRounds
       /\ rpc' = [rpc EXCEPT ![p] = "done"]
       /\ UNCHANGED <<rround, rindex>>

ReceiveResponse(p) ==
    /\ rpc[p] = "wait"
    /\ \E m \in replies :
          /\ m.conn = Current(p)
          /\ m.kind = "result"
          /\ replies' = replies \ {m}
          /\ answers' =
                [answers EXCEPT ![p][<<rround[p], rindex[p]>>] = m.answer]
    /\ attempt' = [attempt EXCEPT ![p] = 0]
    /\ NextQuery(p)
    /\ UNCHANGED <<mode, requests, owed, senderVars, sock>>

\* An ERROR_RESPONSE or a response that does not parse is not retried.
RejectResponse(p) ==
    /\ rpc[p] = "wait"
    /\ \E m \in replies :
          /\ m.conn = Current(p)
          /\ m.kind = "error" \/ "corrupt" \in Faults
    /\ Exit(p, "failed")
    /\ UNCHANGED <<mode, requests, owed, senderVars>>

\* Mutants: no reconnect before a retry; retries without a limit.
RetryOnOldSocket(p) == sock[p]
NextSocket(p) == sock[p] + 1
UncountedAttempt(p) == attempt[p]
NextAttempt(p) == attempt[p] + 1

\* A timed-out query is sent again on a fresh socket, MaxRetries sends in all.
Retry(p) ==
    /\ "timeout" \in Faults
    /\ rpc[p] = "wait"
    /\ NextAttempt(p) < MaxRetries
    /\ sock[p] + 1 < MaxSockets
    /\ attempt' = [attempt EXCEPT ![p] = NextAttempt(p)]
    /\ sock' = [sock EXCEPT ![p] = NextSocket(p)]
    /\ replies' = RepliesWithout(p)
    /\ rpc' = [rpc EXCEPT ![p] = "send"]
    /\ UNCHANGED <<mode, requests, owed, senderVars, rround, rindex, answers>>

\* The last timeout of a query, and a timeout of the session ack, are fatal.
GiveUp(p) ==
    /\ "timeout" \in Faults
    /\ rpc[p] = "ack" \/ (rpc[p] = "wait" /\ NextAttempt(p) = MaxRetries)
    /\ Exit(p, "failed")
    /\ UNCHANGED <<mode, requests, owed, senderVars>>

----------------------------------------------------------------------------
(* The GC phase: gcSenderRole accepts one EMP connection, from whichever    *)
(* receiver is in gcReceiverRole, and both leave when the circuits are done.*)

RunGC(p) ==
    /\ spc = "gc" /\ rpc[p] = "gc"
    /\ spc' = IF stop THEN "exited" ELSE "query"
    /\ rpc' = [rpc EXCEPT ![p] = "send"]
    /\ UNCHANGED <<mode, transportVars, session, r, qi, received, cache, stop,
                   sock, rround, rindex, attempt, answers>>

GCFails(p) ==
    /\ "gc" \in Faults
    /\ spc = "gc" /\ rpc[p] = "gc"
    /\ spc' = SessionOver /\ session' = None
    /\ Exit(p, "failed")
    /\ UNCHANGED <<mode, requests, owed, r, qi, received, cache, stop>>

----------------------------------------------------------------------------
(* The environment.                                                         *)

Kill(p) ==
    /\ "kill" \in Faults
    /\ Active(p)
    /\ Exit(p, "killed")
    /\ UNCHANGED <<mode, requests, owed, senderVars>>

LoseRequest ==
    /\ "loss" \in Faults
    /\ \E m \in requests : requests' = requests \ {m}
    /\ UNCHANGED <<mode, replies, owed, senderVars, receiverVars>>

----------------------------------------------------------------------------

SenderStep ==
    \/ ReceiveSessionSetup \/ PollIdle \/ SendSessionAck
    \/ ReceiveQuery \/ RejectRequest
    \/ SendResponse \/ EvaluateEmptyQuery \/ Shutdown

ReceiverStep(p) ==
    \/ ReceiveSessionAck(p) \/ SendQuery(p)
    \/ ReceiveResponse(p) \/ RejectResponse(p)
    \/ Retry(p) \/ GiveUp(p)

Next ==
    \/ SenderStep
    \/ \E p \in Receivers : ReceiverStep(p) \/ RunGC(p) \/ GCFails(p)
    \/ \E p \in Receivers : Start(p) \/ Kill(p)
    \/ Signal
    \/ LoseRequest

Spec == Init /\ [][Next]_vars

(* Each process takes a step that stays possible: the threads are scheduled, *)
(* the timers run out, and the EMP connection and the circuits complete.     *)
(* Nothing obliges an operator to start a receiver, the network to lose a    *)
(* message or anyone to kill a process.                                      *)
Fairness ==
    /\ WF_vars(SenderStep)
    /\ \A p \in Receivers : WF_vars(ReceiverStep(p)) /\ WF_vars(RunGC(p))

FairSpec == Spec /\ Fairness
============================================================================
