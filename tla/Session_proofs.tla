--------------------------- MODULE Session_proofs ---------------------------
(***************************************************************************)
(* What the session protocol guarantees for any number of receivers,       *)
(* rounds, queries and retries, under any set of faults.                   *)
(***************************************************************************)
EXTENDS SessionProperties, DivisionLemmas, FiniteSetTheorems

\* The index sets of rounds and queries are not empty and hold numbers.
LEMMA ConstantTypes ==
    /\ NrofRounds \in Nat \ {0} /\ NrofQueries \in Nat \ {0}
    /\ MaxRetries \in Nat \ {0} /\ MaxSockets \in Nat \ {0}
    /\ 0 \in Rounds /\ 0 \in Indices
BY ConstantsOK DEF Rounds, Indices

\* The initial states have the right types.
LEMMA TypeInit == Init => TypeOK
<1> SUFFICES ASSUME Init PROVE TypeOK
  OBVIOUS
<1>1. /\ mode \in Modes /\ requests \subseteq Request /\ replies \subseteq Reply
      /\ spc \in SenderPC /\ stop \in BOOLEAN
      /\ owed \in Conn \cup {None} /\ session \in Receivers \cup {None}
  BY DEF Init, SenderPC
<1>2. r \in Rounds /\ qi \in Indices /\ received \in Payload
  BY ConstantTypes DEF Init, Payload
<1>3. cache \in [Indices -> Payload]
  BY DEF Init, EmptyCache, Payload
<1>4. rpc \in [Receivers -> ReceiverPC]
  BY DEF Init, ReceiverPC
<1>5. /\ sock \in [Receivers -> 0 .. MaxSockets - 1]
      /\ attempt \in [Receivers -> 0 .. MaxRetries - 1]
  BY ConstantTypes DEF Init
<1>6. rround \in [Receivers -> Rounds] /\ rindex \in [Receivers -> Indices]
  BY ConstantTypes DEF Init
<1>7. answers \in [Receivers -> [Rounds \X Indices -> Answer \cup {None}]]
  BY DEF Init
<1> QED
  BY <1>1, <1>2, <1>3, <1>4, <1>5, <1>6, <1>7 DEF TypeOK

\* The connection, the requests and the replies that the actions build.
LEMMA CurrentType ==
    ASSUME TypeOK, NEW p \in Receivers
    PROVE  /\ Current(p) \in Conn
           /\ ToSend(p) \in Payload
BY DEF TypeOK, Current, Conn, ToSend, Payload, Query

\* A posted request is a request.
LEMMA PostType ==
    ASSUME TypeOK, NEW p \in Receivers, NEW payload \in Payload,
           NEW kind \in {"setup", "query"}, Post(p, kind, payload)
    PROVE  requests' \subseteq Request
<1>1. [conn |-> Current(p), kind |-> kind, payload |-> payload] \in Request
  BY CurrentType DEF Request
<1> QED
  BY <1>1 DEF TypeOK, Post

\* A reply that is sent is a reply, and clears the debt.
LEMMA RespondType ==
    ASSUME TypeOK, NEW c \in Conn, NEW kind \in {"ack", "result", "error"},
           NEW answer \in Answer \cup {None}, Respond(c, kind, answer)
    PROVE  replies' \subseteq Reply /\ owed' = None
BY DEF TypeOK, Respond, Reply

\* A receiver that leaves keeps the types.
LEMMA ExitType ==
    ASSUME TypeOK, NEW p \in Receivers, NEW how \in ReceiverPC, Exit(p, how)
    PROVE  /\ rpc' \in [Receivers -> ReceiverPC]
           /\ replies' \subseteq Reply
           /\ UNCHANGED <<sock, rround, rindex, attempt, answers>>
BY DEF TypeOK, Exit, RepliesWithout

\* A query that can be evaluated gives an answer.
LEMMA EncryptedQueryType ==
    ASSUME TypeOK, EncryptedQuery # None
    PROVE  /\ EncryptedQuery \in Query
           /\ [query |-> EncryptedQuery, round |-> CoefficientsOf(r)] \in Answer
BY DEF TypeOK, EncryptedQuery, Payload, Answer, CoefficientsOf

\* A loop counter that is advanced stays within its range.
LEMMA NextIndex ==
    /\ \A i \in Indices : ~LastIndex(i) => i + 1 \in Indices
    /\ \A n \in Rounds : n + 1 # NrofRounds => n + 1 \in Rounds
    /\ \A n \in Rounds : n + 1 < NrofRounds => n + 1 \in Rounds
BY ConstantTypes DEF Rounds, Indices, LastIndex

\* Every step keeps the types, and the REP socket in turn: the connection that
\* is answered exists because a reply is owed to it.
LEMMA TypeStep == TypeOK /\ RepliesAreOwed /\ [Next]_vars => (TypeOK /\ RepliesAreOwed)'
<1> SUFFICES ASSUME TypeOK, RepliesAreOwed, [Next]_vars
             PROVE  TypeOK' /\ RepliesAreOwed'
  OBVIOUS
<1> USE DEF TypeOK, RepliesAreOwed, transportVars, senderVars, receiverVars
<1>1. CASE ReceiveSessionSetup
  <2>1. PICK m \in requests :
           /\ requests' = requests \ {m} /\ owed' = m.conn
           /\ \/ spc' = "ack" /\ session' = m.conn.proc
              \/ UNCHANGED <<spc, session>> /\ spc = "setup"
    BY <1>1 DEF ReceiveSessionSetup
  <2>2. m.conn \in Conn /\ m.conn.proc \in Receivers /\ m.conn # None
    BY NoneIsNoValue DEF Request, Conn
  <2> QED
    BY <1>1, <2>1, <2>2 DEF ReceiveSessionSetup, SenderPC
<1>2. CASE PollIdle
  BY <1>2 DEF PollIdle, vars
<1>3. CASE SendSessionAck
  <2>1. owed \in Conn
    BY <1>3 DEF SendSessionAck
  <2>2. replies' \subseteq Reply /\ owed' = None
    BY <1>3, <2>1, RespondType DEF SendSessionAck
  <2> QED
    BY <1>3, <2>2, ConstantTypes
       DEF SendSessionAck, RoundHead, SenderPC, EmptyCache, Payload
<1>4. CASE ReceiveQuery
  <2>1. PICK m \in requests :
           /\ requests' = requests \ {m} /\ owed' = m.conn
           /\ received' = m.payload /\ cache' = CacheAfter(m.payload)
    BY <1>4 DEF ReceiveQuery
  <2>2. m.conn \in Conn /\ m.payload \in Payload /\ m.conn # None
    BY NoneIsNoValue DEF Request
  <2> QED
    BY <1>4, <2>1, <2>2 DEF ReceiveQuery, SenderPC, CacheAfter
<1>5. CASE RejectRequest
  <2>1. replies' \subseteq Reply /\ owed' = None /\ requests' \subseteq requests
    BY <1>5, RespondType DEF RejectRequest, Request
  <2> QED
    BY <1>5, <2>1 DEF RejectRequest, SessionOver, SenderPC
<1>6. CASE SendResponse
  <2>1. owed \in Conn
    BY <1>6 DEF SendResponse
  <2>2. replies' \subseteq Reply /\ owed' = None
    BY <1>6, <2>1, RespondType, EncryptedQueryType DEF SendResponse
  <2>3. r' \in Rounds /\ qi' \in Indices
    BY <1>6, NextIndex, ConstantTypes DEF SendResponse, AdvanceLoops, LastRound, NextRound
  <2>4. spc' \in {"setup", "query", "gc", "exited"} /\ session' \in Receivers \cup {None}
    BY <1>6 DEF SendResponse, AdvanceLoops, SessionOver, RoundHead
  <2> QED
    BY <1>6, <2>2, <2>3, <2>4 DEF SendResponse, SenderPC
<1>7. CASE EvaluateEmptyQuery
  BY <1>7 DEF EvaluateEmptyQuery, SenderPC
<1>8. CASE Shutdown
  BY <1>8 DEF Shutdown, SenderPC
<1>9. CASE Signal
  BY <1>9 DEF Signal
<1>10. CASE LoseRequest
  BY <1>10 DEF LoseRequest
<1>11. ASSUME NEW p \in Receivers, Start(p) PROVE TypeOK' /\ RepliesAreOwed'
  <2>1. requests' \subseteq Request
    BY <1>11, PostType DEF Start, Payload
  <2> QED
    BY <1>11, <2>1 DEF Start, ReceiverPC
<1>12. ASSUME NEW p \in Receivers, ReceiveSessionAck(p) PROVE TypeOK' /\ RepliesAreOwed'
  BY <1>12, ExitType DEF ReceiveSessionAck, ReceiverPC
<1>13. ASSUME NEW p \in Receivers, SendQuery(p) PROVE TypeOK' /\ RepliesAreOwed'
  <2>1. requests' \subseteq Request
    BY <1>13, PostType, CurrentType DEF SendQuery
  <2> QED
    BY <1>13, <2>1 DEF SendQuery, ReceiverPC
<1>14. ASSUME NEW p \in Receivers, ReceiveResponse(p) PROVE TypeOK' /\ RepliesAreOwed'
  <2>1. /\ rpc' \in [Receivers -> ReceiverPC]
        /\ rround' \in [Receivers -> Rounds]
        /\ rindex' \in [Receivers -> Indices]
    <3>1. NextQuery(p) /\ rround[p] \in Rounds /\ rindex[p] \in Indices
      BY <1>14 DEF ReceiveResponse
    <3>2. CASE ~LastIndex(rindex[p])
      <4>1. rindex[p] + 1 \in Indices
        BY <3>1, <3>2, NextIndex
      <4> QED
        BY <3>1, <3>2, <4>1 DEF NextQuery, ReceiverPC
    <3>3. CASE LastIndex(rindex[p])
      <4>1. CASE rround[p] + 1 < NrofRounds
        <5>1. rround[p] + 1 \in Rounds
          BY <3>1, <4>1, NextIndex
        <5>2. /\ rround' = [rround EXCEPT ![p] = rround[p] + 1]
              /\ rindex' = [rindex EXCEPT ![p] = 0]
          BY <3>1, <3>3, <4>1, ConstantTypes DEF NextQuery, Rounds
        <5>3. \E pc \in {"gc", "send"} : rpc' = [rpc EXCEPT ![p] = pc]
          BY <3>1, <3>3, <4>1, ConstantTypes DEF NextQuery, Rounds
        <5> QED
          BY <5>1, <5>2, <5>3, ConstantTypes DEF ReceiverPC
      <4>2. CASE ~(rround[p] + 1 < NrofRounds)
        BY <3>1, <3>3, <4>2 DEF NextQuery, ReceiverPC
      <4> QED
        BY <4>1, <4>2
    <3> QED
      BY <3>2, <3>3
  <2>2. /\ replies' \subseteq Reply
        /\ answers' \in [Receivers -> [Rounds \X Indices -> Answer \cup {None}]]
    <3>1. PICK m \in replies :
             /\ replies' = replies \ {m}
             /\ answers' =
                   [answers EXCEPT ![p][<<rround[p], rindex[p]>>] = m.answer]
      BY <1>14 DEF ReceiveResponse
    <3>2. m.answer \in Answer \cup {None}
      BY DEF Reply
    <3> QED
      BY <3>1, <3>2
  <2>3. attempt' \in [Receivers -> 0 .. MaxRetries - 1]
    BY <1>14, ConstantTypes DEF ReceiveResponse
  <2> QED
    BY <1>14, <2>1, <2>2, <2>3 DEF ReceiveResponse
<1>15. ASSUME NEW p \in Receivers, RejectResponse(p) PROVE TypeOK' /\ RepliesAreOwed'
  BY <1>15, ExitType DEF RejectResponse, ReceiverPC
<1>16. ASSUME NEW p \in Receivers, Retry(p) PROVE TypeOK' /\ RepliesAreOwed'
  <2>1. attempt' \in [Receivers -> 0 .. MaxRetries - 1]
    BY <1>16, ConstantTypes DEF Retry, NextAttempt
  <2>2. sock' \in [Receivers -> 0 .. MaxSockets - 1]
    BY <1>16, ConstantTypes DEF Retry, NextSocket
  <2> QED
    BY <1>16, <2>1, <2>2 DEF Retry, ReceiverPC, RepliesWithout
<1>17. ASSUME NEW p \in Receivers, GiveUp(p) PROVE TypeOK' /\ RepliesAreOwed'
  BY <1>17, ExitType DEF GiveUp, ReceiverPC
<1>18. ASSUME NEW p \in Receivers, RunGC(p) PROVE TypeOK' /\ RepliesAreOwed'
  BY <1>18 DEF RunGC, ReceiverPC, SenderPC
<1>19. ASSUME NEW p \in Receivers, GCFails(p) PROVE TypeOK' /\ RepliesAreOwed'
  BY <1>19, ExitType DEF GCFails, ReceiverPC, SenderPC, SessionOver
<1>20. ASSUME NEW p \in Receivers, Kill(p) PROVE TypeOK' /\ RepliesAreOwed'
  BY <1>20, ExitType DEF Kill, ReceiverPC
<1>21. CASE UNCHANGED vars
  BY <1>21 DEF vars
<1> QED
  BY <1>1, <1>2, <1>3, <1>4, <1>5, <1>6, <1>7, <1>8, <1>9, <1>10, <1>11, <1>12,
     <1>13, <1>14, <1>15, <1>16, <1>17, <1>18, <1>19, <1>20, <1>21
     DEF Next, SenderStep, ReceiverStep

\* Both parties keep their types under every fault.
THEOREM TypeCorrect == Spec => []TypeOK
<1>1. Init => TypeOK /\ RepliesAreOwed
  BY TypeInit DEF Init, RepliesAreOwed
<1> QED
  BY <1>1, TypeStep, PTL DEF Spec

\* The REP socket owes a reply exactly while a request is being served, or
\* after the accept loop has swallowed one (network.cc:138-172).
THEOREM AlwaysOwed == Spec => []RepliesAreOwed
<1>1. Init => TypeOK /\ RepliesAreOwed
  BY TypeInit DEF Init, RepliesAreOwed
<1> QED
  BY <1>1, TypeStep, PTL DEF Spec

----------------------------------------------------------------------------
(* A REQ socket has one thing outstanding at a time: its request in flight, *)
(* the reply the sender owes it, or that reply in flight.                   *)

Quiet(p) == owed # Current(p) /\ \A m \in requests \cup replies : m.conn # Current(p)

OneOutstanding ==
    /\ \A m, n \in requests : m.conn = n.conn => m = n
    /\ \A m, n \in replies : m.conn = n.conn => m = n
    /\ \A m \in requests, n \in replies : m.conn # n.conn
    /\ \A m \in requests \cup replies : m.conn # owed

SocketsInUse ==
    /\ \A m \in requests : m.conn.sock <= sock[m.conn.proc]
    /\ owed # None => owed.sock <= sock[owed.proc]
    /\ \A m \in replies : IsOpen(m.conn)
    /\ \A p \in Receivers : rpc[p] \in {"idle", "gc", "send"} => Quiet(p)

Lockstep == OneOutstanding /\ SocketsInUse

\* A connection is known by its process and its socket number.
LEMMA ConnParts ==
    ASSUME NEW c \in Conn
    PROVE  /\ c.proc \in Receivers /\ c.sock \in 0 .. MaxSockets - 1
           /\ \A p \in Receivers :
                 c = Current(p) <=> (c.proc = p /\ c.sock = sock[p])
           /\ \A p \in Receivers :
                 c = Current(p)' <=> (c.proc = p /\ c.sock = sock'[p])
BY DEF Conn, Current

\* What a reply does to the set of replies.
LEMMA RespondEffect ==
    ASSUME NEW c, NEW kind, NEW answer, Respond(c, kind, answer)
    PROVE  /\ owed' = None
           /\ replies \subseteq replies'
           /\ \A m \in replies' : \/ m \in replies
                                  \/ /\ IsOpen(c)
                                     /\ m = [conn |-> c, kind |-> kind,
                                             answer |-> answer]
BY DEF Respond

\* The sender takes a request.
LEMMA TakeKeepsLockstep ==
    ASSUME TypeOK, Lockstep, owed = None, NEW m \in requests,
           requests' = requests \ {m}, owed' = m.conn,
           UNCHANGED <<replies, rpc, sock>>
    PROVE  Lockstep'
<1>1. OneOutstanding'
  BY DEF Lockstep, OneOutstanding
<1>2. m.conn \in Conn
  BY DEF TypeOK, Request
<1>3. SocketsInUse'
  BY <1>2 DEF Lockstep, SocketsInUse, Quiet, IsOpen, Active, Current
<1> QED
  BY <1>1, <1>3 DEF Lockstep

\* The sender answers the request it has taken.
LEMMA RespondKeepsLockstep ==
    ASSUME TypeOK, Lockstep, owed \in Conn,
           NEW kind, NEW answer, Respond(owed, kind, answer),
           UNCHANGED <<requests, rpc, sock>>
    PROVE  Lockstep'
<1>1. /\ owed' = None
      /\ \A m \in replies' : \/ m \in replies
                             \/ IsOpen(owed) /\ m = [conn |-> owed, kind |-> kind,
                                                     answer |-> answer]
  BY RespondEffect
<1>2. \A m \in replies' : m \in replies \/ (m.conn = owed /\ IsOpen(owed))
  BY <1>1
<1>3. None \notin Conn /\ \A m \in requests \cup replies : m.conn \in Conn
  BY NoneIsNoValue DEF TypeOK, Request, Reply
<1>4. OneOutstanding'
  BY <1>1, <1>2, <1>3 DEF Lockstep, OneOutstanding
<1>5. \A p \in Receivers : rpc[p] \in {"idle", "gc", "send"} => owed # Current(p)
  BY DEF Lockstep, SocketsInUse, Quiet
<1>6. \A p \in Receivers : Current(p) # None
  BY <1>3, CurrentType
<1>7. SocketsInUse'
  BY <1>1, <1>2, <1>5, <1>6 DEF Lockstep, SocketsInUse, Quiet, IsOpen, Active, Current
<1> QED
  BY <1>4, <1>7 DEF Lockstep

\* A receiver posts a request on a socket with nothing outstanding.
LEMMA PostKeepsLockstep ==
    ASSUME TypeOK, Lockstep, NEW p \in Receivers, rpc[p] \in {"idle", "send"},
           NEW kind, NEW payload, Post(p, kind, payload),
           NEW pc \in {"ack", "wait"}, rpc' = [rpc EXCEPT ![p] = pc],
           UNCHANGED <<replies, owed, sock>>
    PROVE  Lockstep'
<1> DEFINE new == [conn |-> Current(p), kind |-> kind, payload |-> payload]
<1>1. requests' = requests \cup {new} /\ new.conn = Current(p)
  BY DEF Post
<1>2. Quiet(p)
  BY DEF Lockstep, SocketsInUse
<1>3. OneOutstanding'
  BY <1>1, <1>2 DEF Lockstep, OneOutstanding, Quiet
<1>4. Current(p).proc = p /\ Current(p).sock = sock[p] /\ sock[p] \in Int
  BY DEF Current, TypeOK
<1>5. \A q \in Receivers \ {p} : Current(q) # Current(p)
  BY DEF Current
<1>6. SocketsInUse'
  <2>1. \A m \in requests' : m.conn.sock <= sock'[m.conn.proc]
    BY <1>1, <1>4 DEF Lockstep, SocketsInUse
  <2>2. \A m \in replies' : IsOpen(m.conn)'
    BY DEF Lockstep, SocketsInUse, IsOpen, Active, Current, TypeOK
  <2>3. \A q \in Receivers : rpc'[q] \in {"idle", "gc", "send"} => Quiet(q)'
    BY <1>1, <1>5 DEF Lockstep, SocketsInUse, Quiet, Current, TypeOK
  <2> QED
    BY <2>1, <2>2, <2>3 DEF Lockstep, SocketsInUse
<1> QED
  BY <1>3, <1>6 DEF Lockstep

\* A receiver takes the reply it waits for.
LEMMA AcceptKeepsLockstep ==
    ASSUME TypeOK, Lockstep, NEW p \in Receivers, NEW m \in replies,
           m.conn = Current(p), replies' = replies \ {m},
           NEW pc \in {"gc", "send", "done"}, rpc' = [rpc EXCEPT ![p] = pc],
           UNCHANGED <<requests, owed, sock>>
    PROVE  Lockstep'
<1>1. OneOutstanding'
  BY DEF Lockstep, OneOutstanding
<1>2. Quiet(p)'
  BY DEF Lockstep, OneOutstanding, Quiet, Current
<1>3. \A n \in replies' : n.conn.proc # p
  <2>1. \A n \in replies : n.conn.proc = p => n.conn = Current(p)
    BY DEF Lockstep, SocketsInUse, IsOpen
  <2> QED
    BY <2>1 DEF Lockstep, OneOutstanding
<1>4. SocketsInUse'
  <2>1. \A n \in replies' : IsOpen(n.conn)'
    BY <1>3 DEF Lockstep, SocketsInUse, IsOpen, Active, Current, TypeOK
  <2>2. \A q \in Receivers : rpc'[q] \in {"idle", "gc", "send"} => Quiet(q)'
    BY <1>2 DEF Lockstep, SocketsInUse, Quiet, Current, TypeOK
  <2> QED
    BY <2>1, <2>2 DEF Lockstep, SocketsInUse
<1> QED
  BY <1>1, <1>4 DEF Lockstep

\* A receiver leaves, or leaves its socket for a fresh one.
LEMMA LeaveKeepsLockstep ==
    ASSUME TypeOK, TypeOK', Lockstep, NEW p \in Receivers,
           replies' = RepliesWithout(p),
           \/ /\ sock' = sock
              /\ \E pc \in {"failed", "killed"} : rpc' = [rpc EXCEPT ![p] = pc]
           \/ /\ sock' = [sock EXCEPT ![p] = @ + 1]
              /\ rpc' = [rpc EXCEPT ![p] = "send"],
           UNCHANGED <<requests, owed>>
    PROVE  Lockstep'
<1>1. OneOutstanding'
  BY DEF Lockstep, OneOutstanding, RepliesWithout
<1>2. \A n \in replies' : n \in replies /\ n.conn.proc # p
  BY DEF RepliesWithout
<1>3. \A q \in Receivers : sock[q] \in Int /\ sock'[q] \in Int /\ sock[q] <= sock'[q]
  <2>1. sock \in [Receivers -> 0 .. MaxSockets - 1]
    BY DEF TypeOK
  <2> QED
    BY <2>1
<1>4. /\ \A n \in requests \cup replies : n.conn \in Conn
      /\ owed # None => owed \in Conn
  BY DEF TypeOK, Request, Reply
<1>5. SocketsInUse'
  <2>1. \A n \in replies' : IsOpen(n.conn)'
    BY <1>2, <1>4 DEF Lockstep, SocketsInUse, IsOpen, Active, Current, TypeOK, Conn
  <2>2. /\ \A n \in requests' : n.conn.sock <= sock'[n.conn.proc]
        /\ owed' # None => owed'.sock <= sock'[owed'.proc]
    BY <1>3, <1>4, ConnParts DEF Lockstep, SocketsInUse
  <2>3. ASSUME NEW q \in Receivers, rpc'[q] \in {"idle", "gc", "send"}
        PROVE  Quiet(q)'
    <3>1. CASE q # p
      BY <2>3, <3>1 DEF Lockstep, SocketsInUse, Quiet, Current, TypeOK, RepliesWithout
    <3>2. CASE q = p
      <4>1. sock'[p] = sock[p] + 1
        BY <2>3, <3>2 DEF TypeOK
      <4>2. /\ \A n \in requests : n.conn.proc = p => n.conn.sock # sock'[p]
            /\ owed # None /\ owed.proc = p => owed.sock # sock'[p]
        BY <1>3, <1>4, <4>1, ConnParts DEF Lockstep, SocketsInUse
      <4>3. Current(p)'.proc = p /\ Current(p)'.sock = sock'[p]
        BY DEF Current
      <4>4. owed # Current(p)'
        <5>1. Current(p)' \in Conn
          BY DEF Current, Conn, TypeOK
        <5> QED
          BY <1>4, <4>2, <4>3, <5>1, ConnParts, NoneIsNoValue
      <4> QED
        BY <1>2, <3>2, <4>2, <4>3, <4>4 DEF Quiet
    <3> QED
      BY <3>1, <3>2
  <2> QED
    BY <2>1, <2>2, <2>3 DEF SocketsInUse
<1> QED
  BY <1>1, <1>5 DEF Lockstep

\* At first nothing is outstanding.
LEMMA LockstepInit == Init => Lockstep
BY NoneIsNoValue, TypeInit, CurrentType
   DEF Init, Lockstep, OneOutstanding, SocketsInUse, Quiet

\* Every step keeps at most one request or reply outstanding per socket.
LEMMA LockstepStep ==
    TypeOK /\ RepliesAreOwed /\ Lockstep /\ [Next]_vars => Lockstep'
<1> SUFFICES ASSUME TypeOK, RepliesAreOwed, Lockstep, [Next]_vars
             PROVE  Lockstep'
  OBVIOUS
<1>0. TypeOK'
  BY TypeStep
<1> USE DEF senderVars, receiverVars, transportVars
<1>1. CASE ReceiveSessionSetup
  BY <1>1, TakeKeepsLockstep DEF ReceiveSessionSetup
<1>2. CASE PollIdle \/ Signal \/ Shutdown \/ UNCHANGED vars
  BY <1>2 DEF PollIdle, Signal, Shutdown, vars, Lockstep, OneOutstanding,
              SocketsInUse, Quiet, IsOpen, Active, Current
<1>3. CASE SendSessionAck \/ SendResponse
  <2>1. owed \in Conn
    BY <1>3 DEF SendSessionAck, SendResponse, RepliesAreOwed, TypeOK
  <2>2. \E kind, answer : Respond(owed, kind, answer)
    BY <1>3 DEF SendSessionAck, SendResponse
  <2> QED
    BY <1>3, <2>1, <2>2, RespondKeepsLockstep DEF SendSessionAck, SendResponse
<1>4. CASE ReceiveQuery
  BY <1>4, TakeKeepsLockstep DEF ReceiveQuery
<1>5. CASE RejectRequest
  <2>1. PICK m \in requests :
           requests' = requests \ {m} /\ Respond(m.conn, "error", None)
    BY <1>5 DEF RejectRequest
  <2>2. /\ m.conn \in Conn /\ owed = None /\ owed' = None
        /\ \A n \in replies' : n \in replies \/ (n.conn = m.conn /\ IsOpen(m.conn))
        /\ \A n, k \in replies' : n \in replies \/ k \in replies \/ n = k
    BY <1>5, <2>1, RespondEffect DEF RejectRequest, TypeOK, Request
  <2>3. OneOutstanding'
    BY <2>1, <2>2 DEF Lockstep, OneOutstanding
  <2>4. SocketsInUse'
    BY <1>5, <2>1, <2>2 DEF RejectRequest, Lockstep, SocketsInUse, Quiet, IsOpen,
       Active, Current
  <2> QED
    BY <2>3, <2>4 DEF Lockstep
<1>6. CASE EvaluateEmptyQuery
  <2>1. /\ None \notin Conn
        /\ \A m \in requests \cup replies : m.conn \in Conn
        /\ \A p \in Receivers : Current(p) \in Conn
    BY NoneIsNoValue, CurrentType DEF TypeOK, Request, Reply
  <2> QED
    BY <1>6, <2>1 DEF EvaluateEmptyQuery, Lockstep, OneOutstanding, SocketsInUse,
       Quiet, IsOpen, Active, Current
<1>7. CASE LoseRequest
  BY <1>7 DEF LoseRequest, Lockstep, OneOutstanding, SocketsInUse, Quiet, IsOpen,
              Active, Current
<1>8. ASSUME NEW p \in Receivers, Start(p) \/ SendQuery(p) PROVE Lockstep'
  BY <1>8, PostKeepsLockstep DEF Start, SendQuery
<1>9. ASSUME NEW p \in Receivers, NEW pc \in {"failed", "killed"}, Exit(p, pc),
             UNCHANGED <<requests, owed>>
      PROVE  Lockstep'
  BY <1>0, <1>9, LeaveKeepsLockstep DEF Exit
<1>10. ASSUME NEW p \in Receivers,
              RejectResponse(p) \/ GiveUp(p) \/ GCFails(p) \/ Kill(p)
       PROVE  Lockstep'
  BY <1>9, <1>10 DEF RejectResponse, GiveUp, GCFails, Kill
<1>11. ASSUME NEW p \in Receivers, ReceiveSessionAck(p) PROVE Lockstep'
  <2>1. PICK m \in replies :
           /\ m.conn = Current(p)
           /\ \/ rpc' = [rpc EXCEPT ![p] = "gc"] /\ replies' = replies \ {m} /\ sock' = sock
              \/ Exit(p, "failed")
    BY <1>11 DEF ReceiveSessionAck
  <2> QED
    BY <1>9, <1>11, <2>1, AcceptKeepsLockstep DEF ReceiveSessionAck
<1>12. ASSUME NEW p \in Receivers, ReceiveResponse(p) PROVE Lockstep'
  <2>1. PICK m \in replies : m.conn = Current(p) /\ replies' = replies \ {m}
    BY <1>12 DEF ReceiveResponse
  <2>2. \E pc \in {"gc", "send", "done"} : rpc' = [rpc EXCEPT ![p] = pc]
    BY <1>12 DEF ReceiveResponse, NextQuery
  <2> QED
    BY <1>12, <2>1, <2>2, AcceptKeepsLockstep DEF ReceiveResponse
<1>13. ASSUME NEW p \in Receivers, Retry(p) PROVE Lockstep'
  BY <1>0, <1>13, LeaveKeepsLockstep DEF Retry, NextSocket
<1>14. ASSUME NEW p \in Receivers, RunGC(p) PROVE Lockstep'
  BY <1>14 DEF RunGC, Lockstep, OneOutstanding, SocketsInUse, Quiet, IsOpen,
               Active, Current, TypeOK
<1> QED
  BY <1>1, <1>2, <1>3, <1>4, <1>5, <1>6, <1>7, <1>8, <1>10, <1>11, <1>12, <1>13,
     <1>14 DEF Next, SenderStep, ReceiverStep

\* REQ/REP lockstep holds in every reachable state.
LEMMA LockstepInvariant == Spec => [](TypeOK /\ RepliesAreOwed /\ Lockstep)
<1>1. Init => TypeOK /\ RepliesAreOwed /\ Lockstep
  BY TypeInit, LockstepInit DEF Init, RepliesAreOwed
<1> QED
  BY <1>1, TypeStep, LockstepStep, PTL DEF Spec

----------------------------------------------------------------------------
(* The payload of a waiting receiver's request, wherever it is: in flight,  *)
(* with the sender, or in the result that was evaluated from it.            *)

Own(p) == <<p, rindex[p]>>

RequestsAreOwn ==
    \A m \in requests :
        (m.conn = Current(m.conn.proc) /\ rpc[m.conn.proc] = "wait") =>
            m.payload \in {None, Own(m.conn.proc)}

ServedIsOwn ==
    spc = "eval" =>
        /\ (owed = Current(owed.proc) /\ rpc[owed.proc] = "wait") =>
              received \in {None, Own(owed.proc)}
        /\ (SendOnce /\ r = 0) => cache[qi] = received

ResultsAreOwn ==
    \A m \in replies :
        (/\ m.kind = "result" /\ rpc[m.conn.proc] = "wait"
         /\ mode = "STLPSI" \/ m.answer.round = 0) =>
            m.answer.query = Own(m.conn.proc)

OwnInv == RequestsAreOwn /\ ServedIsOwn /\ ResultsAreOwn /\ OwnQueryAnswered

\* What a step has to leave alone to keep the payloads in their places.
LEMMA OwnFrame ==
    ASSUME TypeOK, RepliesAreOwed, OwnInv,
           \A m \in requests' : m \in requests \/ m.payload = None,
           \A m \in replies' : m \in replies \/ m.kind # "result",
           UNCHANGED <<mode, rround, rindex, answers>>,
           UNCHANGED <<spc, r, qi, received, cache, owed>> \/ spc' # "eval",
           \A p \in Receivers : \/ rpc'[p] = rpc[p] /\ sock'[p] = sock[p]
                                \/ rpc'[p] # "wait"
    PROVE  OwnInv'
<1>1. /\ \A m \in requests : m.conn \in Conn
      /\ \A m \in replies : m.conn \in Conn
      /\ spc = "eval" => owed \in Conn
  BY DEF TypeOK, Request, Reply, RepliesAreOwed
<1>2. \A c \in Conn : rpc'[c.proc] = "wait" /\ c = Current(c.proc)'
                         => rpc[c.proc] = "wait" /\ c = Current(c.proc)
  BY ConnParts
<1>3. \A c \in Conn : rpc'[c.proc] = "wait" => rpc[c.proc] = "wait"
  BY ConnParts
<1>4. RequestsAreOwn'
  BY <1>1, <1>2 DEF OwnInv, RequestsAreOwn, Own
<1>5. ResultsAreOwn'
  BY <1>1, <1>3 DEF OwnInv, ResultsAreOwn, Own
<1>6. OwnQueryAnswered'
  BY DEF OwnInv, OwnQueryAnswered, Answered
<1>7. ServedIsOwn'
  <2>1. spc' = "eval" => /\ spc = "eval" /\ owed \in Conn /\ owed' = owed
                         /\ UNCHANGED <<r, qi, received, cache, mode>>
    BY <1>1
  <2> QED
    BY <1>2, <2>1 DEF OwnInv, ServedIsOwn, Own, SendOnce
<1> QED
  BY <1>4, <1>5, <1>6, <1>7 DEF OwnInv

\* The sender takes a query: its payload belongs to whoever is owed a reply.
LEMMA OwnReceiveQuery ==
    ASSUME TypeOK, OwnInv, ReceiveQuery PROVE OwnInv'
<1>1. PICK m \in requests :
         /\ requests' = requests \ {m} /\ owed' = m.conn
         /\ received' = m.payload /\ cache' = CacheAfter(m.payload)
  BY DEF ReceiveQuery
<1>2. UNCHANGED <<mode, replies, r, qi, rpc, sock, rround, rindex, answers>>
  BY DEF ReceiveQuery, receiverVars
<1>3. ServedIsOwn'
  <2>1. SendOnce /\ r = 0 => cache'[qi] = m.payload
    BY <1>1 DEF CacheAfter, TypeOK
  <2> QED
    BY <1>1, <1>2, <2>1 DEF OwnInv, RequestsAreOwn, ServedIsOwn, Own, Current, SendOnce
<1>4. RequestsAreOwn' /\ ResultsAreOwn' /\ OwnQueryAnswered'
  BY <1>1, <1>2 DEF OwnInv, RequestsAreOwn, ResultsAreOwn, OwnQueryAnswered, Own,
                    Current, Answered
<1> QED
  BY <1>3, <1>4 DEF OwnInv

\* The sender evaluates the payload of the request it answers.
LEMMA OwnSendResponse ==
    ASSUME TypeOK, RepliesAreOwed, OwnInv, SendResponse PROVE OwnInv'
<1> DEFINE result == [query |-> EncryptedQuery, round |-> CoefficientsOf(r)]
<1>1. /\ UNCHANGED <<mode, requests, rpc, sock, rround, rindex, answers>>
      /\ spc' # "eval"
  BY DEF SendResponse, AdvanceLoops, SessionOver, RoundHead, receiverVars
<1>2. \A m \in replies' : m \in replies \/ (/\ IsOpen(owed) /\ m.conn = owed
                                            /\ m.answer = result)
  BY RespondEffect DEF SendResponse
<1>3. mode = "STLPSI" \/ r = 0 => EncryptedQuery = received
  BY DEF SendResponse, EncryptedQuery, OwnInv, ServedIsOwn, SendOnce
<1>4. IsOpen(owed) /\ rpc[owed.proc] = "wait" /\ (mode = "STLPSI" \/ r = 0)
         => EncryptedQuery = Own(owed.proc)
  BY <1>3 DEF SendResponse, IsOpen, OwnInv, ServedIsOwn
<1>5. ResultsAreOwn'
  BY <1>1, <1>2, <1>4 DEF OwnInv, ResultsAreOwn, Own, CoefficientsOf
<1>6. RequestsAreOwn' /\ ServedIsOwn' /\ OwnQueryAnswered'
  BY <1>1 DEF OwnInv, RequestsAreOwn, ServedIsOwn, OwnQueryAnswered, Own, Current,
              Answered
<1> QED
  BY <1>5, <1>6 DEF OwnInv

\* A receiver posts its own query, or an empty trigger.
LEMMA OwnSendQuery ==
    ASSUME TypeOK, RepliesAreOwed, Lockstep, OwnInv,
           NEW p \in Receivers, SendQuery(p)
    PROVE  OwnInv'
<1> DEFINE new == [conn |-> Current(p), kind |-> "query", payload |-> ToSend(p)]
<1>1. /\ requests' = requests \cup {new}
      /\ rpc' = [rpc EXCEPT ![p] = "wait"]
      /\ UNCHANGED <<mode, replies, owed, spc, r, qi, received, cache, sock,
                     rround, rindex, answers>>
  BY DEF SendQuery, Post, senderVars
<1>2. Quiet(p) /\ new.conn.proc = p /\ new.payload \in {None, Own(p)}
  BY DEF SendQuery, Lockstep, SocketsInUse, Current, ToSend, Own
<1>3. \A m \in replies : m.conn.proc # p
  BY <1>2 DEF Lockstep, SocketsInUse, IsOpen, Quiet
<1>4. \A q \in Receivers \ {p} : rpc'[q] = rpc[q]
  BY <1>1 DEF TypeOK
<1>5. RequestsAreOwn'
  BY <1>1, <1>2, <1>4 DEF OwnInv, RequestsAreOwn, Own, Current, Quiet, TypeOK,
                          Request, Conn
<1>6. ServedIsOwn'
  <2>1. spc = "eval" => owed.proc \in Receivers
    BY DEF RepliesAreOwed, TypeOK, Conn
  <2> QED
    BY <1>1, <1>2, <1>4, <2>1 DEF OwnInv, ServedIsOwn, Own, Current, Quiet, SendOnce
<1>7. ResultsAreOwn'
  <2>1. \A m \in replies : m.conn.proc \in Receivers \ {p}
    BY <1>3 DEF TypeOK, Reply, Conn
  <2> QED
    BY <1>1, <1>4, <2>1 DEF OwnInv, ResultsAreOwn, Own
<1>8. OwnQueryAnswered'
  BY <1>1 DEF OwnInv, OwnQueryAnswered, Answered
<1> QED
  BY <1>5, <1>6, <1>7, <1>8 DEF OwnInv

\* A receiver files the answer it waits for.
LEMMA OwnReceiveResponse ==
    ASSUME TypeOK, RepliesAreOwed, OwnInv, NEW p \in Receivers, ReceiveResponse(p)
    PROVE  OwnInv'
<1>1. PICK m \in replies :
         /\ m.conn = Current(p) /\ m.kind = "result"
         /\ replies' = replies \ {m}
         /\ answers' = [answers EXCEPT ![p][<<rround[p], rindex[p]>>] = m.answer]
  BY DEF ReceiveResponse
<1>2. /\ UNCHANGED <<mode, requests, owed, spc, r, qi, received, cache, sock>>
      /\ rpc[p] = "wait"
      /\ rpc'[p] # "wait"
      /\ \A q \in Receivers \ {p} :
            rpc'[q] = rpc[q] /\ rround'[q] = rround[q] /\ rindex'[q] = rindex[q]
  BY DEF ReceiveResponse, NextQuery, senderVars, TypeOK
<1>3. RequestsAreOwn' /\ ServedIsOwn' /\ ResultsAreOwn'
  <2>1. /\ \A n \in requests \cup replies : n.conn.proc \in Receivers
        /\ spc = "eval" => owed.proc \in Receivers
    BY DEF TypeOK, Request, Reply, Conn, RepliesAreOwed
  <2> QED
    BY <1>1, <1>2, <2>1 DEF OwnInv, RequestsAreOwn, ServedIsOwn, ResultsAreOwn,
                            Own, Current, SendOnce
<1>4. OwnQueryAnswered'
  <2> SUFFICES ASSUME NEW q \in Receivers, NEW x \in Rounds \X Indices,
                      answers'[q][x] # None,
                      mode = "STLPSI" \/ answers'[q][x].round = 0
               PROVE  answers'[q][x].query = <<q, x[2]>>
    BY <1>2 DEF OwnQueryAnswered, Answered
  <2>1. CASE q = p /\ x = <<rround[p], rindex[p]>>
    <3>1. answers'[p][x] = m.answer
      BY <1>1, <2>1 DEF TypeOK
    <3>2. m.answer.query = <<p, rindex[p]>>
      BY <1>1, <1>2, <2>1, <3>1 DEF OwnInv, ResultsAreOwn, Own, Current
    <3> QED
      BY <2>1, <3>1, <3>2
  <2>2. CASE ~(q = p /\ x = <<rround[p], rindex[p]>>)
    <3>1. answers'[q][x] = answers[q][x]
      BY <1>1, <2>2 DEF TypeOK
    <3> QED
      BY <3>1 DEF OwnInv, OwnQueryAnswered, Answered
  <2> QED
    BY <2>1, <2>2
<1> QED
  BY <1>3, <1>4 DEF OwnInv

\* Every step keeps payloads with the connections they came from.
LEMMA OwnStep ==
    TypeOK /\ RepliesAreOwed /\ Lockstep /\ OwnInv /\ [Next]_vars => OwnInv'
<1> SUFFICES ASSUME TypeOK, RepliesAreOwed, Lockstep, OwnInv, [Next]_vars
             PROVE  OwnInv'
  OBVIOUS
<1> USE DEF senderVars, receiverVars, transportVars
<1>1. CASE ReceiveSessionSetup
  BY <1>1, OwnFrame DEF ReceiveSessionSetup, TypeOK
<1>2. CASE PollIdle \/ Signal \/ Shutdown \/ LoseRequest \/ UNCHANGED vars
  BY <1>2, OwnFrame DEF PollIdle, Signal, Shutdown, LoseRequest, vars
<1>3. CASE SendSessionAck \/ RejectRequest \/ EvaluateEmptyQuery
  BY <1>3, OwnFrame, RespondEffect
     DEF SendSessionAck, RejectRequest, EvaluateEmptyQuery, SessionOver, RoundHead
<1>4. ASSUME NEW p \in Receivers, Start(p) PROVE OwnInv'
  <2>1. \A m \in requests' : m \in requests \/ m.payload = None
    BY <1>4 DEF Start, Post
  <2> QED
    BY <1>4, <2>1, OwnFrame DEF Start, TypeOK
<1>5. ASSUME NEW p \in Receivers, NEW pc \in {"failed", "killed"}, Exit(p, pc),
             UNCHANGED <<mode, requests, r, qi, received, cache, owed>>,
             UNCHANGED spc \/ spc' # "eval"
      PROVE  OwnInv'
  BY <1>5, OwnFrame DEF Exit, RepliesWithout, TypeOK
<1>6. ASSUME NEW p \in Receivers,
             RejectResponse(p) \/ GiveUp(p) \/ GCFails(p) \/ Kill(p)
      PROVE  OwnInv'
  BY <1>5, <1>6 DEF RejectResponse, GiveUp, GCFails, Kill, SessionOver
<1>7. ASSUME NEW p \in Receivers, ReceiveSessionAck(p) PROVE OwnInv'
  <2>1. CASE Exit(p, "failed")
    BY <1>5, <1>7, <2>1 DEF ReceiveSessionAck
  <2>2. CASE ~Exit(p, "failed")
    BY <1>7, <2>2, OwnFrame DEF ReceiveSessionAck, TypeOK
  <2> QED
    BY <2>1, <2>2
<1>8. ASSUME NEW p \in Receivers, Retry(p) PROVE OwnInv'
  BY <1>8, OwnFrame DEF Retry, RepliesWithout, TypeOK
<1>9. ASSUME NEW p \in Receivers, RunGC(p) PROVE OwnInv'
  BY <1>9, OwnFrame DEF RunGC, TypeOK
<1> QED
  BY <1>1, <1>2, <1>3, <1>4, <1>6, <1>7, <1>8, <1>9, OwnReceiveQuery,
     OwnSendResponse, OwnSendQuery, OwnReceiveResponse
     DEF Next, SenderStep, ReceiverStep

\* An answer evaluated from the payload of its own request is an answer to the
\* receiver's own query, whatever fails and however many receivers there are.
THEOREM AlwaysOwnQuery == Spec => []OwnQueryAnswered
<1>1. Init => OwnInv
  BY DEF Init, OwnInv, RequestsAreOwn, ServedIsOwn, ResultsAreOwn,
         OwnQueryAnswered, Answered
<1>2. OwnInv => OwnQueryAnswered
  BY DEF OwnInv
<1> QED
  BY <1>1, <1>2, LockstepInvariant, OwnStep, PTL DEF Spec

----------------------------------------------------------------------------
(* A receiver opens its session once, and before anything else.             *)

NotAcked(p) == \A m \in replies : m.kind = "ack" => m.conn.proc # p

FreshStart ==
    \A p \in Receivers : rpc[p] \in {"idle", "ack"} =>
        sock[p] = 0 /\ rround[p] = 0 /\ rindex[p] = 0

IdleIsSilent ==
    \A p \in Receivers : rpc[p] = "idle" =>
        session # p /\ \A m \in requests : m.conn.proc # p

SetupInFlight ==
    \A m \in requests : m.kind = "setup" =>
        /\ m.conn.sock = 0
        /\ session # m.conn.proc
        /\ ~InQueryLoop(m.conn.proc)
        /\ NotAcked(m.conn.proc)

SetupServed ==
    spc = "ack" =>
        /\ session = owed.proc
        /\ ~InQueryLoop(session)
        /\ NotAcked(session)

SetupInv == FreshStart /\ IdleIsSilent /\ SetupInFlight /\ SetupServed

\* Steps that send no setup, acknowledge none and start no query loop.
LEMMA SetupFrame ==
    ASSUME TypeOK, RepliesAreOwed, SetupInv,
           \A m \in requests' : \/ m \in requests
                                \/ m.kind = "query" /\ rpc'[m.conn.proc] # "idle",
           \A m \in replies' : m \in replies \/ m.kind # "ack",
           session' \in {session, None},
           UNCHANGED <<spc, owed, session>> \/ spc' # "ack",
           \A p \in Receivers :
              \/ UNCHANGED <<rpc[p], sock[p], rround[p], rindex[p]>>
              \/ /\ rpc'[p] \notin {"idle", "ack"}
                 /\ InQueryLoop(p)' => InQueryLoop(p)
    PROVE  SetupInv'
<1>1. /\ \A m \in requests : m.conn.proc \in Receivers
      /\ spc = "ack" => owed.proc \in Receivers
      /\ None \notin Receivers
  BY NoneIsNoValue DEF TypeOK, Request, Conn, RepliesAreOwed
<1>2. \A p \in Receivers : InQueryLoop(p)' => InQueryLoop(p)
  BY DEF InQueryLoop
<1>3. FreshStart'
  <2> SUFFICES ASSUME NEW p \in Receivers, rpc'[p] \in {"idle", "ack"}
               PROVE  sock'[p] = 0 /\ rround'[p] = 0 /\ rindex'[p] = 0
    BY DEF FreshStart
  <2>1. UNCHANGED <<rpc[p], sock[p], rround[p], rindex[p]>>
    OBVIOUS
  <2> QED
    BY <2>1 DEF SetupInv, FreshStart
<1>4. IdleIsSilent'
  BY <1>1 DEF SetupInv, IdleIsSilent
<1>5. SetupInFlight'
  BY <1>1, <1>2 DEF SetupInv, SetupInFlight, NotAcked
<1>6. SetupServed'
  BY <1>1, <1>2 DEF SetupInv, SetupServed, NotAcked
<1> QED
  BY <1>3, <1>4, <1>5, <1>6 DEF SetupInv

\* The accept loop takes a request.
LEMMA SetupReceive ==
    ASSUME TypeOK, Lockstep, SetupInv, ReceiveSessionSetup PROVE SetupInv'
<1>1. PICK m \in requests :
         /\ requests' = requests \ {m} /\ owed' = m.conn
         /\ \/ m.kind = "setup" /\ spc' = "ack" /\ session' = m.conn.proc
            \/ UNCHANGED <<spc, session>>
  BY DEF ReceiveSessionSetup
<1>2. UNCHANGED <<replies, rpc, sock, rround, rindex>> /\ spc = "setup"
  BY DEF ReceiveSessionSetup, receiverVars
<1>3. \A n \in requests : n.conn \in Conn
  BY DEF TypeOK, Request
<1>4. \A p \in Receivers : InQueryLoop(p)' <=> InQueryLoop(p)
  BY <1>2 DEF InQueryLoop
<1>5. FreshStart' /\ IdleIsSilent'
  BY <1>1, <1>2, <1>3 DEF SetupInv, FreshStart, IdleIsSilent
<1>6. ASSUME m.kind = "setup", NEW n \in requests', n.kind = "setup"
      PROVE  n.conn.proc # m.conn.proc
  <2>1. n \in requests /\ n # m /\ n.conn.sock = 0 /\ m.conn.sock = 0
    BY <1>1, <1>6 DEF SetupInv, SetupInFlight
  <2>2. n.conn # m.conn
    BY <2>1 DEF Lockstep, OneOutstanding
  <2> QED
    BY <1>3, <2>1, <2>2 DEF Conn
<1>7. SetupInFlight'
  BY <1>1, <1>2, <1>3, <1>4, <1>6, ConnParts DEF SetupInv, SetupInFlight, NotAcked
<1>8. SetupServed'
  BY <1>1, <1>2, <1>3, <1>4, ConnParts DEF SetupInv, SetupInFlight, SetupServed, NotAcked
<1> QED
  BY <1>5, <1>7, <1>8 DEF SetupInv

\* The sender acknowledges a setup and resets its counters.
LEMMA SetupAcknowledge ==
    ASSUME TypeOK, SetupInv, SendSessionAck PROVE SetupInv'
<1>1. /\ UNCHANGED <<requests, session, rpc, sock, rround, rindex>>
      /\ spc = "ack" /\ spc' # "ack"
  BY DEF SendSessionAck, RoundHead, receiverVars
<1>2. \A m \in replies' : m \in replies \/ m.conn.proc = session
  BY RespondEffect DEF SendSessionAck, SetupInv, SetupServed
<1>3. SetupInFlight'
  BY <1>1, <1>2 DEF SetupInv, SetupInFlight, NotAcked, InQueryLoop
<1> QED
  BY <1>1, <1>3 DEF SetupInv, FreshStart, IdleIsSilent, SetupServed

\* A receiver starts with a setup on its first socket.
LEMMA SetupStart ==
    ASSUME TypeOK, RepliesAreOwed, Lockstep, SetupInv, NEW p \in Receivers, Start(p)
    PROVE  SetupInv'
<1> DEFINE new == [conn |-> Current(p), kind |-> "setup", payload |-> None]
<1>1. /\ requests' = requests \cup {new} /\ new.conn.proc = p
      /\ new.conn.sock = 0
      /\ rpc[p] = "idle" /\ rpc' = [rpc EXCEPT ![p] = "ack"]
      /\ UNCHANGED <<replies, spc, owed, session, sock, rround, rindex>>
  BY DEF Start, Post, Current, senderVars, SetupInv, FreshStart
<1>2. /\ rpc'[p] = "ack" /\ \A q \in Receivers \ {p} : rpc'[q] = rpc[q]
      /\ \A q \in Receivers : InQueryLoop(q)' <=> InQueryLoop(q)
  BY <1>1 DEF TypeOK, InQueryLoop
<1>3. \A m \in replies : m.conn.proc # p
  BY <1>1 DEF Lockstep, SocketsInUse, IsOpen, Active
<1>4. FreshStart' /\ IdleIsSilent'
  BY <1>1, <1>2 DEF SetupInv, FreshStart, IdleIsSilent
<1>5. SetupInFlight'
  <2>1. \A m \in requests : m.conn.proc \in Receivers
    BY DEF TypeOK, Request, Conn
  <2> QED
    BY <1>1, <1>2, <1>3, <2>1 DEF SetupInv, SetupInFlight, IdleIsSilent, NotAcked,
                                  InQueryLoop
<1>6. SetupServed'
  <2>1. spc = "ack" => owed.proc \in Receivers
    BY DEF RepliesAreOwed, TypeOK, Conn
  <2> QED
    BY <1>1, <1>2, <2>1 DEF SetupInv, SetupServed, NotAcked
<1> QED
  BY <1>4, <1>5, <1>6 DEF SetupInv

\* A receiver takes the ack, at the start of its own loops.
LEMMA SetupAccepted ==
    ASSUME TypeOK, RepliesAreOwed, SetupInv, NEW p \in Receivers, NEW m \in replies,
           m.conn = Current(p), m.kind = "ack", replies' = replies \ {m},
           rpc' = [rpc EXCEPT ![p] = "gc"],
           UNCHANGED <<requests, spc, owed, session, sock, rround, rindex>>
    PROVE  SetupInv'
<1>1. /\ \A q \in Receivers \ {p} : rpc'[q] = rpc[q] /\ (InQueryLoop(q)' <=> InQueryLoop(q))
      /\ rpc'[p] = "gc"
  BY DEF TypeOK, InQueryLoop
<1>2. ~NotAcked(p)
  BY DEF NotAcked, Current
<1>3. FreshStart' /\ IdleIsSilent'
  BY <1>1 DEF SetupInv, FreshStart, IdleIsSilent
<1>4. SetupInFlight'
  <2>1. \A n \in requests : n.conn.proc \in Receivers
    BY DEF TypeOK, Request, Conn
  <2> QED
    BY <1>1, <1>2, <2>1 DEF SetupInv, SetupInFlight, NotAcked
<1>5. SetupServed'
  <2>1. spc = "ack" => owed.proc \in Receivers
    BY DEF RepliesAreOwed, TypeOK, Conn
  <2> QED
    BY <1>1, <1>2, <2>1 DEF SetupInv, SetupServed, NotAcked
<1> QED
  BY <1>3, <1>4, <1>5 DEF SetupInv

\* Every step keeps the handshake invariant.
LEMMA SetupStep ==
    TypeOK /\ RepliesAreOwed /\ Lockstep /\ SetupInv /\ [Next]_vars => SetupInv'
<1> SUFFICES ASSUME TypeOK, RepliesAreOwed, Lockstep, SetupInv, [Next]_vars
             PROVE  SetupInv'
  OBVIOUS
<1> USE DEF senderVars, receiverVars, transportVars
<1>1. CASE PollIdle \/ Signal \/ Shutdown \/ LoseRequest \/ UNCHANGED vars
  BY <1>1, SetupFrame DEF PollIdle, Signal, Shutdown, LoseRequest, vars
<1>2. CASE ReceiveQuery \/ EvaluateEmptyQuery
  BY <1>2, SetupFrame DEF ReceiveQuery, EvaluateEmptyQuery
<1>3. CASE RejectRequest
  BY <1>3, SetupFrame, RespondEffect DEF RejectRequest, SessionOver
<1>4. CASE SendResponse
  BY <1>4, SetupFrame, RespondEffect DEF SendResponse, AdvanceLoops, SessionOver, RoundHead
<1>5. ASSUME NEW p \in Receivers, SendQuery(p) PROVE SetupInv'
  <2>1. \A m \in requests' : m \in requests \/ (m.kind = "query" /\ m.conn.proc = p)
    BY <1>5 DEF SendQuery, Post, Current
  <2> QED
    BY <1>5, <2>1, SetupFrame DEF SendQuery, TypeOK, InQueryLoop
<1>6. ASSUME NEW p \in Receivers, ReceiveResponse(p) PROVE SetupInv'
  <2>1. /\ rpc[p] = "wait" /\ rpc'[p] \in {"send", "gc", "done"}
        /\ \A q \in Receivers \ {p} : UNCHANGED <<rpc[q], sock[q], rround[q], rindex[q]>>
    BY <1>6 DEF ReceiveResponse, NextQuery, TypeOK
  <2>2. replies' \subseteq replies /\ UNCHANGED <<requests, owed, spc, session>>
    BY <1>6 DEF ReceiveResponse
  <2> QED
    BY <2>1, <2>2, SetupFrame DEF InQueryLoop
<1>7. ASSUME NEW p \in Receivers, NEW pc \in {"failed", "killed"}, Exit(p, pc),
             UNCHANGED <<requests, owed>>, session' \in {session, None},
             UNCHANGED <<spc, session>> \/ spc' # "ack"
      PROVE  SetupInv'
  BY <1>7, SetupFrame DEF Exit, RepliesWithout, TypeOK, InQueryLoop
<1>8. ASSUME NEW p \in Receivers,
             RejectResponse(p) \/ GiveUp(p) \/ GCFails(p) \/ Kill(p)
      PROVE  SetupInv'
  BY <1>7, <1>8 DEF RejectResponse, GiveUp, GCFails, Kill, SessionOver
<1>9. ASSUME NEW p \in Receivers, ReceiveSessionAck(p) PROVE SetupInv'
  <2>1. CASE Exit(p, "failed")
    BY <1>7, <1>9, <2>1 DEF ReceiveSessionAck
  <2>2. CASE ~Exit(p, "failed")
    BY <1>9, <2>2, SetupAccepted DEF ReceiveSessionAck
  <2> QED
    BY <2>1, <2>2
<1>10. ASSUME NEW p \in Receivers, Retry(p) PROVE SetupInv'
  BY <1>10, SetupFrame DEF Retry, RepliesWithout, TypeOK, InQueryLoop
<1>11. ASSUME NEW p \in Receivers, RunGC(p) PROVE SetupInv'
  BY <1>11, SetupFrame DEF RunGC, TypeOK, InQueryLoop
<1> QED
  BY <1>1, <1>2, <1>3, <1>4, <1>5, <1>6, <1>8, <1>9, <1>10, <1>11, SetupReceive,
     SetupAcknowledge, SetupStart DEF Next, SenderStep, ReceiverStep

\* At first no receiver has started.
LEMMA SetupInit == Init => SetupInv
BY NoneIsNoValue DEF Init, SetupInv, FreshStart, IdleIsSilent, SetupInFlight, SetupServed

----------------------------------------------------------------------------
(* Places of the two loops, counted from the start of the session.          *)

\* Positions are natural numbers, and advance by one.
LEMMA PositionType ==
    ASSUME NEW n \in Rounds, NEW i \in Indices
    PROVE  /\ Position(n, i) \in Nat
           /\ Position(n, i + 1) = Position(n, i) + 1
           /\ LastIndex(i) => Position(n + 1, 0) = Position(n, i) + 1
<1>1. n \in Nat /\ i \in Nat /\ NrofQueries \in Nat
  BY ConstantTypes DEF Rounds, Indices
<1>2. n * NrofQueries \in Nat /\ (n + 1) * NrofQueries = n * NrofQueries + NrofQueries
  BY <1>1
<1> QED
  BY <1>1, <1>2 DEF Position, LastIndex

\* Positions order places first by round, then by query.
LEMMA PositionOrder ==
    ASSUME NEW n \in Rounds, NEW m \in Rounds, NEW i \in Indices, NEW j \in Indices,
           n < m
    PROVE  Position(n, i) < Position(m, j)
<1>1. /\ n \in Nat /\ m \in Nat /\ i \in Nat /\ j \in Nat /\ NrofQueries \in Nat
      /\ i < NrofQueries /\ n + 1 <= m
  BY ConstantTypes DEF Rounds, Indices
<1>2. (n + 1) * NrofQueries <= m * NrofQueries
  BY <1>1, MulMono
<1>3. /\ n * NrofQueries \in Nat /\ m * NrofQueries \in Nat
      /\ (n + 1) * NrofQueries = n * NrofQueries + NrofQueries
  BY <1>1
<1> QED
  BY <1>1, <1>2, <1>3 DEF Position

\* A position determines its place.
LEMMA PositionInjective ==
    ASSUME NEW n \in Rounds, NEW m \in Rounds, NEW i \in Indices, NEW j \in Indices,
           Position(n, i) = Position(m, j)
    PROVE  n = m /\ i = j
<1>1. n \in Int /\ m \in Int /\ i \in Int /\ j \in Int
  BY DEF Rounds, Indices
<1>2. Position(n, i) \in Int /\ Position(m, j) \in Int
  BY PositionType
<1>3. ~(n < m) /\ ~(m < n)
  BY <1>2, PositionOrder
<1>4. n = m
  BY <1>1, <1>3
<1>5. n * NrofQueries \in Int
  BY <1>1, ConstantTypes
<1> QED
  BY <1>1, <1>4, <1>5 DEF Position

\* A socket has one reply at most.
LEMMA OnlyReply ==
    ASSUME Lockstep, NEW p \in Receivers, NEW m \in replies, m.conn = Current(p)
    PROVE  \A n \in replies \ {m} : n.conn.proc # p
<1>1. \A n \in replies : n.conn.proc = p => n.conn = Current(p)
  BY DEF Lockstep, SocketsInUse, IsOpen
<1> QED
  BY <1>1 DEF Lockstep, OneOutstanding

----------------------------------------------------------------------------
(* The receiver of the session is never ahead of the sender.                *)

InRounds == spc \in {"gc", "query", "eval"}

\* A result on its way shows that the sender has moved on.
NotBehind ==
    \A p \in Receivers :
        (session = p /\ InRounds /\ InQueryLoop(p)) =>
            /\ Position(rround[p], rindex[p]) <= Position(r, qi)
            /\ \A m \in replies : (m.kind = "result" /\ m.conn.proc = p) =>
                  Position(rround[p], rindex[p]) < Position(r, qi)

\* Steps that leave the counters and the results alone.
LEMMA BehindFrame ==
    ASSUME TypeOK, NotBehind,
           \A m \in replies' : m \in replies \/ m.kind # "result",
           UNCHANGED <<r, qi, rround, rindex>>,
           session' \in {session, None},
           InRounds' => InRounds,
           \A p \in Receivers : InQueryLoop(p)' => InQueryLoop(p)
    PROVE  NotBehind'
BY NoneIsNoValue DEF NotBehind, Position

\* The sender that answers moves to its next place, or ends the session.
LEMMA RespondAdvances ==
    ASSUME TypeOK, SendResponse
    PROVE  /\ \/ session' = None /\ LastIndex(qi) /\ LastRound
              \/ session' = session /\ Position(r, qi)' = Position(r, qi) + 1
           /\ UNCHANGED <<requests, rpc, rround, rindex, sock, cache, received, mode, answers>>
           /\ owed' = None
           /\ spc = "eval" /\ spc' # "eval" /\ spc' # "ack"
<1>1. CASE ~LastIndex(qi)
  BY <1>1, PositionType, RespondEffect
     DEF SendResponse, AdvanceLoops, TypeOK, Position, receiverVars
<1>2. CASE LastIndex(qi) /\ ~LastRound
  <2>1. r' = r + 1 /\ qi' = 0 /\ session' = session
    BY <1>2 DEF SendResponse, AdvanceLoops, NextRound
  <2>2. Position(r, qi)' = Position(r, qi) + 1
    BY <1>2, <2>1, PositionType DEF TypeOK, Position
  <2> QED
    BY <1>2, <2>1, <2>2, RespondEffect
       DEF SendResponse, AdvanceLoops, RoundHead, receiverVars
<1>3. CASE LastIndex(qi) /\ LastRound
  BY <1>3, RespondEffect DEF SendResponse, AdvanceLoops, SessionOver, receiverVars
<1> QED
  BY <1>1, <1>2, <1>3

\* The receiver that accepts an answer moves to its next place, or is done.
LEMMA AcceptAdvances ==
    ASSUME TypeOK, NEW p \in Receivers, ReceiveResponse(p)
    PROVE  /\ rpc[p] = "wait" /\ rpc'[p] \in {"gc", "send", "done"}
           /\ rpc'[p] # "done" =>
                 Position(rround'[p], rindex'[p]) = Position(rround[p], rindex[p]) + 1
           /\ rpc'[p] = "done" <=> (LastIndex(rindex[p]) /\ rround[p] + 1 = NrofRounds)
           /\ \A q \in Receivers \ {p} :
                 UNCHANGED <<rpc[q], rround[q], rindex[q]>>
           /\ UNCHANGED <<mode, requests, owed, spc, session, r, qi, received, cache, sock>>
<1>1. /\ rpc[p] = "wait" /\ NextQuery(p)
      /\ UNCHANGED <<mode, requests, owed, spc, session, r, qi, received, cache, sock>>
  BY DEF ReceiveResponse, senderVars
<1>2. rpc'[p] \in {"gc", "send", "done"}
      /\ \A q \in Receivers \ {p} : UNCHANGED <<rpc[q], rround[q], rindex[q]>>
  BY <1>1 DEF NextQuery, TypeOK
<1>3. CASE ~LastIndex(rindex[p])
  BY <1>1, <1>2, <1>3, PositionType DEF NextQuery, TypeOK
<1>4. CASE LastIndex(rindex[p])
  <2>1. CASE rround[p] + 1 < NrofRounds
    <3>1. rround'[p] = rround[p] + 1 /\ rindex'[p] = 0 /\ rpc'[p] # "done"
      BY <1>1, <1>4, <2>1, ConstantTypes DEF NextQuery, TypeOK, Rounds
    <3>2. rround[p] + 1 # NrofRounds
      BY <2>1, ConstantTypes DEF TypeOK, Rounds
    <3> QED
      BY <1>1, <1>2, <1>4, <3>1, <3>2, PositionType DEF TypeOK
  <2>2. CASE ~(rround[p] + 1 < NrofRounds)
    BY <1>1, <1>2, <1>4, <2>2 DEF NextQuery, TypeOK
  <2> QED
    BY <2>1, <2>2
<1> QED
  BY <1>3, <1>4

\* The sender answers and advances: its result is behind its new place.
LEMMA BehindRespond ==
    ASSUME TypeOK, NotBehind, SendResponse PROVE NotBehind'
<1>1. UNCHANGED <<rpc, rround, rindex>> /\ InRounds
  BY RespondAdvances DEF InRounds
<1>2. session' # None => session' = session /\ Position(r, qi)' = Position(r, qi) + 1
  BY RespondAdvances
<1> SUFFICES ASSUME NEW p \in Receivers, session' = p, InQueryLoop(p)'
             PROVE  Position(rround[p], rindex[p]) < Position(r, qi)'
  BY <1>1, <1>2, NoneIsNoValue, PositionType DEF NotBehind, TypeOK, Position
<1>3. Position(rround[p], rindex[p]) <= Position(r, qi)
  BY <1>1, <1>2, NoneIsNoValue DEF NotBehind, InQueryLoop
<1>4. Position(rround[p], rindex[p]) \in Nat /\ Position(r, qi) \in Nat
  BY PositionType DEF TypeOK
<1>5. Position(r, qi)' = Position(r, qi) + 1
  BY <1>2, NoneIsNoValue
<1> QED
  BY <1>3, <1>4, <1>5

\* The receiver accepts a result and advances, up to the sender at most.
LEMMA BehindAccept ==
    ASSUME TypeOK, Lockstep, NotBehind, NEW p \in Receivers, ReceiveResponse(p)
    PROVE  NotBehind'
<1>1. PICK m \in replies :
         m.conn = Current(p) /\ m.kind = "result" /\ replies' = replies \ {m}
  BY DEF ReceiveResponse
<1>2. /\ UNCHANGED <<spc, session, r, qi>> /\ rpc[p] = "wait"
      /\ \A q \in Receivers \ {p} : UNCHANGED <<rpc[q], rround[q], rindex[q]>>
  BY DEF ReceiveResponse, NextQuery, senderVars, TypeOK
<1>3. rpc'[p] \in {"gc", "send"} =>
         Position(rround'[p], rindex'[p]) = Position(rround[p], rindex[p]) + 1
  BY AcceptAdvances
<1>4. \A n \in replies' : n.conn.proc # p
  BY <1>1, OnlyReply
<1> SUFFICES ASSUME NEW q \in Receivers, session = q, InRounds, InQueryLoop(q)'
             PROVE  /\ Position(rround'[q], rindex'[q]) <= Position(r, qi)
                    /\ \A n \in replies' : (n.kind = "result" /\ n.conn.proc = q) =>
                          Position(rround'[q], rindex'[q]) < Position(r, qi)
  BY <1>2 DEF NotBehind, InRounds, Position
<1>5. CASE q # p
  BY <1>1, <1>2, <1>5 DEF NotBehind, InQueryLoop
<1>6. CASE q = p
  <2>1. Position(rround[p], rindex[p]) < Position(r, qi)
    BY <1>1, <1>2, <1>6 DEF NotBehind, InQueryLoop, Current
  <2>2. Position(rround[p], rindex[p]) \in Nat /\ Position(r, qi) \in Nat
    BY PositionType DEF TypeOK
  <2>3. rpc'[p] \in {"gc", "send"}
    BY <1>6 DEF ReceiveResponse, NextQuery, TypeOK, InQueryLoop
  <2> QED
    BY <1>3, <1>4, <1>6, <2>1, <2>2, <2>3
<1> QED
  BY <1>5, <1>6

\* A receiver that has its ack starts at the first place.
LEMMA BehindAcked ==
    ASSUME TypeOK, Lockstep, SetupInv, NotBehind, NEW p \in Receivers,
           NEW m \in replies, m.conn = Current(p), replies' = replies \ {m},
           rpc[p] = "ack", rpc' = [rpc EXCEPT ![p] = "gc"],
           UNCHANGED <<spc, session, r, qi, rround, rindex>>
    PROVE  NotBehind'
<1>1. \A n \in replies' : n.conn.proc # p
  BY OnlyReply
<1>2. Position(rround[p], rindex[p]) = 0
  BY ConstantTypes DEF SetupInv, FreshStart, Position
<1>3. Position(r, qi) \in Nat
  BY PositionType DEF TypeOK
<1>4. \A q \in Receivers \ {p} : InQueryLoop(q)' <=> InQueryLoop(q)
  BY DEF TypeOK, InQueryLoop
<1> QED
  BY <1>1, <1>2, <1>3, <1>4 DEF NotBehind, InRounds, Position

\* Every step keeps the receiver behind the sender.
LEMMA BehindStep ==
    /\ TypeOK /\ RepliesAreOwed /\ Lockstep /\ SetupInv /\ NotBehind /\ [Next]_vars
    => NotBehind'
<1> SUFFICES ASSUME TypeOK, RepliesAreOwed, Lockstep, SetupInv, NotBehind, [Next]_vars
             PROVE  NotBehind'
  OBVIOUS
<1> USE DEF senderVars, receiverVars, transportVars, InRounds
<1>1. CASE ReceiveSessionSetup
  BY <1>1 DEF ReceiveSessionSetup, NotBehind
<1>2. CASE PollIdle \/ Signal \/ Shutdown \/ LoseRequest \/ UNCHANGED vars
  BY <1>2, BehindFrame DEF PollIdle, Signal, Shutdown, LoseRequest, vars, InQueryLoop
<1>3. CASE ReceiveQuery \/ EvaluateEmptyQuery
  BY <1>3, BehindFrame DEF ReceiveQuery, EvaluateEmptyQuery, InQueryLoop
<1>4. CASE RejectRequest
  BY <1>4, BehindFrame, RespondEffect DEF RejectRequest, SessionOver, InQueryLoop
<1>5. CASE SendSessionAck
  BY <1>5 DEF SendSessionAck, SetupInv, SetupServed, NotBehind, InQueryLoop
<1>6. ASSUME NEW p \in Receivers, Start(p) \/ SendQuery(p) PROVE NotBehind'
  BY <1>6, BehindFrame DEF Start, SendQuery, TypeOK, InQueryLoop
<1>7. ASSUME NEW p \in Receivers, NEW pc \in {"failed", "killed"}, Exit(p, pc),
             UNCHANGED <<r, qi>>, session' \in {session, None}, InRounds' => InRounds
      PROVE  NotBehind'
  BY <1>7, BehindFrame DEF Exit, RepliesWithout, TypeOK, InQueryLoop
<1>8. ASSUME NEW p \in Receivers,
             RejectResponse(p) \/ GiveUp(p) \/ GCFails(p) \/ Kill(p)
      PROVE  NotBehind'
  BY <1>7, <1>8 DEF RejectResponse, GiveUp, GCFails, Kill, SessionOver
<1>9. ASSUME NEW p \in Receivers, ReceiveSessionAck(p) PROVE NotBehind'
  <2>1. CASE Exit(p, "failed")
    BY <1>7, <1>9, <2>1 DEF ReceiveSessionAck
  <2>2. CASE ~Exit(p, "failed")
    BY <1>9, <2>2, BehindAcked DEF ReceiveSessionAck
  <2> QED
    BY <2>1, <2>2
<1>10. ASSUME NEW p \in Receivers, Retry(p) PROVE NotBehind'
  BY <1>10, BehindFrame DEF Retry, RepliesWithout, TypeOK, InQueryLoop
<1>11. ASSUME NEW p \in Receivers, RunGC(p) PROVE NotBehind'
  BY <1>11, BehindFrame DEF RunGC, TypeOK, InQueryLoop
<1> QED
  BY <1>1, <1>2, <1>3, <1>4, <1>5, <1>6, <1>8, <1>9, <1>10, <1>11, BehindRespond,
     BehindAccept DEF Next, SenderStep, ReceiverStep

\* Whatever is lost, late, repeated or killed, the receiver that owns the
\* session never runs ahead of the sender.
THEOREM SenderAlwaysAhead == Spec => []SenderNeverBehind
<1>1. Init => TypeOK /\ RepliesAreOwed /\ Lockstep /\ SetupInv /\ NotBehind
  <2>1. Init => NotBehind
    BY DEF Init, NotBehind, InRounds
  <2> QED
    BY <2>1, TypeInit, LockstepInit, SetupInit DEF Init, RepliesAreOwed
<1>2. NotBehind => SenderNeverBehind
  BY DEF NotBehind, SenderNeverBehind, InRounds
<1> QED
  BY <1>1, <1>2, TypeStep, LockstepStep, SetupStep, BehindStep, PTL DEF Spec

----------------------------------------------------------------------------
(* What a receiver has filed when it stops.                                 *)

ResultsAreAnswers == \A m \in replies : m.kind = "result" => m.answer \in Answer

PrefixInv == ResultsAreAnswers /\ AnswersFormAPrefix

\* Steps that leave the answers and the receiver's counters alone.
LEMMA PrefixFrame ==
    ASSUME PrefixInv,
           \A m \in replies' : m \in replies \/ m.kind # "result",
           UNCHANGED <<rround, rindex, answers>>,
           \A p \in Receivers : rpc'[p] = "done" <=> rpc[p] = "done"
    PROVE  PrefixInv'
BY DEF PrefixInv, ResultsAreAnswers, AnswersFormAPrefix, Answered, Position

\* An accepted answer extends the prefix by one place.
LEMMA PrefixAccept ==
    ASSUME TypeOK, PrefixInv, NEW p \in Receivers, ReceiveResponse(p)
    PROVE  PrefixInv'
<1> DEFINE here == <<rround[p], rindex[p]>>
<1>1. PICK m \in replies :
         /\ m.kind = "result" /\ replies' = replies \ {m}
         /\ answers' = [answers EXCEPT ![p][here] = m.answer]
  BY DEF ReceiveResponse
<1>2. m.answer # None
  BY <1>1, NoneIsNoValue DEF PrefixInv, ResultsAreAnswers
<1>3. /\ rpc[p] = "wait"
      /\ \A q \in Receivers \ {p} : UNCHANGED <<rpc[q], rround[q], rindex[q]>>
  BY DEF ReceiveResponse, NextQuery, TypeOK
<1>4. /\ here \in Rounds \X Indices
      /\ Position(rround[p], rindex[p]) \in Nat
  BY PositionType DEF TypeOK
<1>5. \A x \in Rounds \X Indices :
         Answered(p, x)' <=> Answered(p, x) \/ x = here
  BY <1>1, <1>2, <1>4 DEF Answered, TypeOK
<1>6. \A q \in Receivers \ {p}, x \in Rounds \X Indices :
         Answered(q, x)' <=> Answered(q, x)
  BY <1>1, <1>4 DEF Answered, TypeOK
<1>7. \A x \in Rounds \X Indices :
         Answered(p, x)' <=> Position(x[1], x[2]) <= Position(rround[p], rindex[p])
  <2> SUFFICES ASSUME NEW n \in Rounds, NEW i \in Indices
               PROVE  Answered(p, <<n, i>>)' <=>
                         Position(n, i) <= Position(rround[p], rindex[p])
    OBVIOUS
  <2>1. Answered(p, <<n, i>>) <=> Position(n, i) < Position(rround[p], rindex[p])
    BY <1>3 DEF PrefixInv, AnswersFormAPrefix
  <2>2. Position(n, i) = Position(rround[p], rindex[p]) <=> <<n, i>> = here
    BY <1>4, PositionInjective DEF TypeOK
  <2>3. Position(n, i) \in Nat
    BY PositionType
  <2> QED
    BY <1>4, <1>5, <2>1, <2>2, <2>3
<1>8. CASE rpc'[p] = "done"
  <2>1. rround[p] + 1 = NrofRounds /\ rindex[p] + 1 = NrofQueries
    BY <1>3, <1>8 DEF ReceiveResponse, NextQuery, TypeOK, LastIndex
  <2>2. \A x \in Rounds \X Indices : Answered(p, x)'
    <3> SUFFICES ASSUME NEW n \in Rounds, NEW i \in Indices
                 PROVE  Position(n, i) <= Position(rround[p], rindex[p])
      BY <1>7
    <3>1. n = rround[p] \/ n < rround[p]
      <4>1. rround[p] \in Rounds
        BY DEF TypeOK
      <4> QED
        BY <2>1, <4>1, ConstantTypes DEF Rounds
    <3>2. CASE n < rround[p]
      BY <3>2, PositionOrder, PositionType DEF TypeOK
    <3>3. CASE n = rround[p]
      <4>1. i \in Nat /\ rindex[p] \in Nat /\ i <= rindex[p]
        BY <2>1, ConstantTypes DEF Indices, TypeOK
      <4>2. n * NrofQueries \in Nat
        BY ConstantTypes DEF Rounds
      <4> QED
        BY <3>3, <4>1, <4>2 DEF Position
    <3> QED
      BY <3>1, <3>2, <3>3
  <2> QED
    BY <1>1, <1>3, <1>6, <1>8, <2>2
       DEF PrefixInv, ResultsAreAnswers, AnswersFormAPrefix, Position
<1>9. CASE rpc'[p] # "done"
  <2>1. Position(rround'[p], rindex'[p]) = Position(rround[p], rindex[p]) + 1
    BY <1>9, AcceptAdvances
  <2>2. \A x \in Rounds \X Indices :
           Answered(p, x)' <=> Position(x[1], x[2]) < Position(rround'[p], rindex'[p])
    <3>1. \A x \in Rounds \X Indices : Position(x[1], x[2]) \in Nat
      BY PositionType
    <3> QED
      BY <1>4, <1>7, <2>1, <3>1
  <2> QED
    BY <1>1, <1>3, <1>6, <1>9, <2>2
       DEF PrefixInv, ResultsAreAnswers, AnswersFormAPrefix, Position
<1> QED
  BY <1>8, <1>9

\* Every step keeps the answers of each receiver a prefix.
LEMMA PrefixStep ==
    TypeOK /\ RepliesAreOwed /\ PrefixInv /\ [Next]_vars => PrefixInv'
<1> SUFFICES ASSUME TypeOK, RepliesAreOwed, PrefixInv, [Next]_vars PROVE PrefixInv'
  OBVIOUS
<1> USE DEF senderVars, receiverVars, transportVars
<1>1. CASE PollIdle \/ Signal \/ Shutdown \/ LoseRequest \/ UNCHANGED vars
  BY <1>1, PrefixFrame DEF PollIdle, Signal, Shutdown, LoseRequest, vars
<1>2. CASE ReceiveSessionSetup \/ ReceiveQuery \/ EvaluateEmptyQuery
  BY <1>2, PrefixFrame DEF ReceiveSessionSetup, ReceiveQuery, EvaluateEmptyQuery
<1>3. CASE SendSessionAck \/ RejectRequest
  BY <1>3, PrefixFrame, RespondEffect DEF SendSessionAck, RejectRequest
<1>4. CASE SendResponse
  <2>1. \A m \in replies' : m \in replies \/ m.answer \in Answer
    BY <1>4, RespondEffect, EncryptedQueryType DEF SendResponse
  <2>2. UNCHANGED <<rpc, rround, rindex, answers>>
    BY <1>4 DEF SendResponse
  <2> QED
    BY <2>1, <2>2 DEF PrefixInv, ResultsAreAnswers, AnswersFormAPrefix, Answered, Position
<1>5. ASSUME NEW p \in Receivers, Start(p) \/ SendQuery(p) \/ RunGC(p) PROVE PrefixInv'
  BY <1>5, PrefixFrame DEF Start, SendQuery, RunGC, TypeOK
<1>6. ASSUME NEW p \in Receivers, NEW pc \in {"failed", "killed"}, Exit(p, pc),
             rpc[p] # "done"
      PROVE  PrefixInv'
  BY <1>6, PrefixFrame DEF Exit, RepliesWithout, TypeOK
<1>7. ASSUME NEW p \in Receivers,
             RejectResponse(p) \/ GiveUp(p) \/ GCFails(p) \/ Kill(p)
      PROVE  PrefixInv'
  BY <1>6, <1>7 DEF RejectResponse, GiveUp, GCFails, Kill, Active
<1>8. ASSUME NEW p \in Receivers, ReceiveSessionAck(p) PROVE PrefixInv'
  <2>1. CASE Exit(p, "failed")
    BY <1>6, <1>8, <2>1 DEF ReceiveSessionAck
  <2>2. CASE ~Exit(p, "failed")
    BY <1>8, <2>2, PrefixFrame DEF ReceiveSessionAck, TypeOK
  <2> QED
    BY <2>1, <2>2
<1>9. ASSUME NEW p \in Receivers, Retry(p) PROVE PrefixInv'
  BY <1>9, PrefixFrame DEF Retry, RepliesWithout, TypeOK
<1> QED
  BY <1>1, <1>2, <1>3, <1>4, <1>5, <1>7, <1>8, <1>9, PrefixAccept
     DEF Next, SenderStep, ReceiverStep

\* At first nothing is filed, and every receiver is at its first place.
LEMMA PrefixInit == Init => PrefixInv
<1> SUFFICES ASSUME Init, NEW p \in Receivers, NEW x \in Rounds \X Indices
             PROVE  /\ ~Answered(p, x) /\ rpc[p] # "done"
                    /\ ~(Position(x[1], x[2]) < Position(rround[p], rindex[p]))
  BY DEF Init, PrefixInv, ResultsAreAnswers, AnswersFormAPrefix
<1>1. Position(x[1], x[2]) \in Nat /\ Position(0, 0) = 0
  BY PositionType, ConstantTypes DEF Position
<1> QED
  BY <1>1 DEF Init, Answered

\* A receiver that stops has filed the answers of a prefix of its places, and
\* one that is done has filed them all.
THEOREM AlwaysAPrefix == Spec => []AnswersFormAPrefix
<1>1. Init => TypeOK /\ RepliesAreOwed /\ PrefixInv
  BY PrefixInit, TypeInit DEF Init, RepliesAreOwed
<1>2. PrefixInv => AnswersFormAPrefix
  BY DEF PrefixInv
<1> QED
  BY <1>1, <1>2, TypeStep, PrefixStep, PTL DEF Spec

(***************************************************************************)
(* Which answer a receiver files at which place.  Two kinds of use are     *)
(* considered: one receiver on its own, under any faults, its retries      *)
(* included; and any number of receivers that run one after the other,     *)
(* never time out and are never killed.  What both have in common is that  *)
(* nobody else's query reaches a session (NoStrangers); the rest of the    *)
(* argument is the same for the two.                                       *)
(***************************************************************************)

Alone == \A p, q \in Receivers : p = q
Patient == Sequential /\ "timeout" \notin Faults /\ "kill" \notin Faults

----------------------------------------------------------------------------
(* A session is open exactly while the sender is in it.                     *)

SessionHeld ==
    /\ spc = "setup" => session = None
    /\ spc \in {"ack", "gc", "query", "eval"} => session \in Receivers

\* Every step keeps the session with the loops that serve it.
LEMMA HeldStep == TypeOK /\ RepliesAreOwed /\ SessionHeld /\ [Next]_vars => SessionHeld'
<1> SUFFICES ASSUME TypeOK, RepliesAreOwed, SessionHeld, [Next]_vars
             PROVE  SessionHeld'
  OBVIOUS
<1> USE DEF SessionHeld, senderVars
<1>1. CASE ReceiveSessionSetup
  <2>1. \A m \in requests : m.conn.proc \in Receivers
    BY DEF TypeOK, Request, Conn
  <2> QED
    BY <1>1, <2>1 DEF ReceiveSessionSetup
<1>2. CASE PollIdle \/ Signal \/ Shutdown \/ LoseRequest \/ UNCHANGED vars
  BY <1>2 DEF PollIdle, Signal, Shutdown, LoseRequest, vars
<1>3. CASE SendSessionAck
  BY <1>3 DEF SendSessionAck, RoundHead
<1>4. CASE ReceiveQuery \/ RejectRequest \/ EvaluateEmptyQuery
  BY <1>4 DEF ReceiveQuery, RejectRequest, EvaluateEmptyQuery, SessionOver
<1>5. CASE SendResponse
  BY <1>5 DEF SendResponse, AdvanceLoops, RoundHead, SessionOver
<1>6. ASSUME NEW p \in Receivers, RunGC(p) \/ GCFails(p) PROVE SessionHeld'
  BY <1>6 DEF RunGC, GCFails, SessionOver
<1>7. ASSUME NEW p \in Receivers, ReceiverStep(p) \/ Start(p) \/ Kill(p)
      PROVE  SessionHeld'
  BY <1>7 DEF ReceiverStep, ReceiveSessionAck, SendQuery, ReceiveResponse,
              RejectResponse, Retry, GiveUp, Start, Kill
<1> QED
  BY <1>1, <1>2, <1>3, <1>4, <1>5, <1>6, <1>7 DEF Next, SenderStep

----------------------------------------------------------------------------
(* A receiver asks nothing before its session is acknowledged.              *)

NeverAsked(p) == \A m \in requests : m.kind = "query" => m.conn.proc # p

AskedInLoop ==
    /\ \A m \in requests : m.kind = "query" => rpc[m.conn.proc] \notin {"idle", "ack"}
    /\ spc = "eval" => rpc[owed.proc] \notin {"idle", "ack"}

SetupFirst ==
    /\ \A m \in requests : m.kind = "setup" => NeverAsked(m.conn.proc)
    /\ spc = "ack" => NeverAsked(session)

AskInv == AskedInLoop /\ SetupFirst

\* Steps that send no request and take none into service.
LEMMA AskFrame ==
    ASSUME TypeOK, RepliesAreOwed, AskInv, requests' \subseteq requests,
           UNCHANGED <<spc, owed, session>> \/ spc' \notin {"ack", "eval"},
           \A p \in Receivers : rpc'[p] \in {"idle", "ack"} => rpc[p] \in {"idle", "ack"}
    PROVE  AskInv'
<1>1. /\ \A m \in requests : m.conn.proc \in Receivers
      /\ spc = "eval" => owed.proc \in Receivers
  BY DEF TypeOK, Request, Conn, RepliesAreOwed
<1> QED
  BY <1>1 DEF AskInv, AskedInLoop, SetupFirst, NeverAsked

\* Every step keeps the order of setup and queries.
LEMMA AskStep ==
    TypeOK /\ RepliesAreOwed /\ SetupInv /\ AskInv /\ [Next]_vars => AskInv'
<1> SUFFICES ASSUME TypeOK, RepliesAreOwed, SetupInv, AskInv, [Next]_vars
             PROVE  AskInv'
  OBVIOUS
<1> USE DEF senderVars, receiverVars, transportVars
<1>1. CASE ReceiveSessionSetup
  <2>1. PICK m \in requests :
           /\ requests' = requests \ {m} /\ owed' = m.conn
           /\ \/ m.kind = "setup" /\ spc' = "ack" /\ session' = m.conn.proc
              \/ UNCHANGED <<spc, session>> /\ spc = "setup"
    BY <1>1 DEF ReceiveSessionSetup
  <2> QED
    BY <1>1, <2>1 DEF ReceiveSessionSetup, AskInv, AskedInLoop, SetupFirst, NeverAsked
<1>2. CASE PollIdle \/ Signal \/ Shutdown \/ LoseRequest \/ UNCHANGED vars
  BY <1>2, AskFrame DEF PollIdle, Signal, Shutdown, LoseRequest, vars
<1>3. CASE SendSessionAck \/ RejectRequest \/ EvaluateEmptyQuery
  BY <1>3, AskFrame
     DEF SendSessionAck, RejectRequest, EvaluateEmptyQuery, SessionOver, RoundHead
<1>4. CASE ReceiveQuery
  <2>1. PICK m \in requests :
           m.kind = "query" /\ requests' = requests \ {m} /\ owed' = m.conn
    BY <1>4 DEF ReceiveQuery
  <2> QED
    BY <1>4, <2>1 DEF ReceiveQuery, AskInv, AskedInLoop, SetupFirst, NeverAsked
<1>5. CASE SendResponse
  BY <1>5, AskFrame, RespondAdvances
<1>6. ASSUME NEW p \in Receivers, Start(p) PROVE AskInv'
  <2>1. /\ \A m \in requests' : m \in requests \/ (m.kind = "setup" /\ m.conn.proc = p)
        /\ rpc[p] = "idle" /\ rpc' = [rpc EXCEPT ![p] = "ack"]
        /\ UNCHANGED <<spc, owed, session>>
    BY <1>6 DEF Start, Post, Current
  <2>2. NeverAsked(p)
    BY <2>1 DEF AskInv, AskedInLoop, NeverAsked
  <2>3. \A m \in requests : m.conn.proc \in Receivers
    BY DEF TypeOK, Request, Conn
  <2>4. spc = "eval" => owed.proc \in Receivers
    BY DEF TypeOK, RepliesAreOwed, Conn
  <2>5. AskedInLoop'
    BY <2>1, <2>3, <2>4 DEF AskInv, AskedInLoop, TypeOK
  <2>6. SetupFirst'
    BY <2>1, <2>2 DEF AskInv, SetupFirst, NeverAsked
  <2> QED
    BY <2>5, <2>6 DEF AskInv
<1>7. ASSUME NEW p \in Receivers, SendQuery(p) PROVE AskInv'
  <2>1. /\ \A m \in requests' : m \in requests \/ (m.kind = "query" /\ m.conn.proc = p)
        /\ rpc[p] = "send" /\ rpc' = [rpc EXCEPT ![p] = "wait"]
        /\ UNCHANGED <<spc, owed, session>>
    BY <1>7 DEF SendQuery, Post, Current
  <2>2. /\ \A m \in requests : m.kind = "setup" => m.conn.proc # p
        /\ spc = "ack" => session # p
    BY <2>1 DEF SetupInv, SetupInFlight, SetupServed, InQueryLoop
  <2>3. \A m \in requests : m.conn.proc \in Receivers
    BY DEF TypeOK, Request, Conn
  <2>4. spc = "eval" => owed.proc \in Receivers
    BY DEF TypeOK, RepliesAreOwed, Conn
  <2>5. AskedInLoop'
    BY <2>1, <2>3, <2>4 DEF AskInv, AskedInLoop, TypeOK
  <2>6. SetupFirst'
    BY <2>1, <2>2 DEF AskInv, SetupFirst, NeverAsked
  <2> QED
    BY <2>5, <2>6 DEF AskInv
<1>8. ASSUME NEW p \in Receivers, ReceiveResponse(p) PROVE AskInv'
  <2>1. \A q \in Receivers : rpc'[q] \in {"idle", "ack"} => rpc[q] \in {"idle", "ack"}
    BY <1>8, AcceptAdvances
  <2> QED
    BY <1>8, <2>1, AskFrame DEF ReceiveResponse
<1>9. ASSUME NEW p \in Receivers,
             RejectResponse(p) \/ GiveUp(p) \/ GCFails(p) \/ Kill(p)
      PROVE  AskInv'
  BY <1>9, AskFrame DEF RejectResponse, GiveUp, GCFails, Kill, Exit, SessionOver, TypeOK
<1>10. ASSUME NEW p \in Receivers, ReceiveSessionAck(p) \/ Retry(p) \/ RunGC(p)
       PROVE  AskInv'
  BY <1>10, AskFrame DEF ReceiveSessionAck, Exit, Retry, RunGC, TypeOK
<1> QED
  BY <1>1, <1>2, <1>3, <1>4, <1>5, <1>6, <1>7, <1>8, <1>9, <1>10
     DEF Next, SenderStep, ReceiverStep

----------------------------------------------------------------------------
(* Nobody else's request is in the way of a receiver, and nobody else's     *)
(* query reaches its session.                                               *)

NoStrangers ==
    /\ \A p \in Receivers : Active(p) =>
          /\ \A q \in Receivers : Active(q) => q = p
          /\ \A m \in requests : m.conn.proc = p
          /\ owed # None => owed.proc = p
    /\ spc \in {"ack", "gc", "query", "eval"} =>
          \A m \in requests : m.kind = "query" => m.conn.proc = session
    /\ spc = "eval" => owed.proc = session

\* A single receiver meets no stranger, whatever happens to it.
LEMMA AloneNoStrangers ==
    ASSUME Alone, TypeOK, RepliesAreOwed, SessionHeld PROVE NoStrangers
<1>1. /\ \A m \in requests : m.conn.proc \in Receivers
      /\ owed # None => owed.proc \in Receivers
  BY DEF TypeOK, Request, Conn
<1> QED
  BY <1>1 DEF Alone, NoStrangers, SessionHeld, RepliesAreOwed

----------------------------------------------------------------------------
(* The sender is at most as many places ahead of the receiver as there have *)
(* been retries: each query that was sent moves it by one place, once.      *)

Queries(set) == {m \in set : m.kind = "query"}
Serving == IF spc = "eval" THEN 1 ELSE 0
Waiting(p) == IF rpc[p] = "wait" THEN 1 ELSE 0
Backlog == Cardinality(Queries(requests)) + Serving

SkewInv ==
    /\ IsFiniteSet(requests)
    /\ \A p \in Receivers : (session = p /\ spc # "ack" /\ Active(p)) =>
          Position(r, qi) + Backlog
            <= Position(rround[p], rindex[p]) + sock[p] + Waiting(p)

\* How the number of queries in flight changes with the requests.
LEMMA QueryCount ==
    ASSUME NEW set, IsFiniteSet(set)
    PROVE  /\ Cardinality(Queries(set)) \in Nat
           /\ \A sub \in SUBSET set :
                 IsFiniteSet(sub) /\ Cardinality(Queries(sub)) <= Cardinality(Queries(set))
           /\ \A m : /\ IsFiniteSet(set \cup {m})
                     /\ Cardinality(Queries(set \cup {m})) <= Cardinality(Queries(set)) + 1
           /\ \A m : m.kind # "query" => Queries(set \cup {m}) = Queries(set)
           /\ \A m \in set : m.kind = "query" =>
                 Cardinality(Queries(set \ {m})) = Cardinality(Queries(set)) - 1
<1>1. IsFiniteSet(Queries(set)) /\ Queries(set) \in SUBSET set
  BY FS_Subset DEF Queries
<1>2. Cardinality(Queries(set)) \in Nat
  BY <1>1, FS_CardinalityType
<1>3. ASSUME NEW sub \in SUBSET set
      PROVE  IsFiniteSet(sub) /\ Cardinality(Queries(sub)) <= Cardinality(Queries(set))
  <2>1. Queries(sub) \in SUBSET Queries(set)
    BY DEF Queries
  <2> QED
    BY <1>1, <2>1, FS_Subset
<1>4. ASSUME NEW m
      PROVE  /\ IsFiniteSet(set \cup {m})
             /\ Cardinality(Queries(set \cup {m})) <= Cardinality(Queries(set)) + 1
  <2>1. IsFiniteSet(set \cup {m})
    BY FS_AddElement
  <2>2. /\ IsFiniteSet(Queries(set) \cup {m})
        /\ Cardinality(Queries(set) \cup {m}) <= Cardinality(Queries(set)) + 1
    <3>1. /\ IsFiniteSet(Queries(set) \cup {m})
          /\ Cardinality(Queries(set) \cup {m}) =
               IF m \in Queries(set) THEN Cardinality(Queries(set))
               ELSE Cardinality(Queries(set)) + 1
      BY <1>1, FS_AddElement
    <3> QED
      BY <1>2, <3>1
  <2>3. /\ Queries(set \cup {m}) \in SUBSET (Queries(set) \cup {m})
        /\ IsFiniteSet(Queries(set \cup {m}))
    BY <2>1, FS_Subset DEF Queries
  <2>4. /\ Cardinality(Queries(set \cup {m})) \in Nat
        /\ Cardinality(Queries(set) \cup {m}) \in Nat
        /\ Cardinality(Queries(set \cup {m})) <= Cardinality(Queries(set) \cup {m})
    BY <2>2, <2>3, FS_Subset, FS_CardinalityType
  <2> QED
    BY <1>2, <2>1, <2>2, <2>4
<1>5. \A m : m.kind # "query" => Queries(set \cup {m}) = Queries(set)
  BY DEF Queries
<1>6. ASSUME NEW m \in set, m.kind = "query"
      PROVE  Cardinality(Queries(set \ {m})) = Cardinality(Queries(set)) - 1
  <2>1. Queries(set \ {m}) = Queries(set) \ {m} /\ m \in Queries(set)
    BY <1>6 DEF Queries
  <2> QED
    BY <1>1, <2>1, FS_RemoveElement
<1> QED
  BY <1>2, <1>3, <1>4, <1>5, <1>6

\* Numbers of the skew.
LEMMA SkewTypes ==
    ASSUME TypeOK, IsFiniteSet(requests), NEW p \in Receivers
    PROVE  /\ Position(r, qi) \in Nat /\ Position(rround[p], rindex[p]) \in Nat
           /\ sock[p] \in Nat /\ Waiting(p) \in {0, 1} /\ Serving \in {0, 1}
           /\ Cardinality(Queries(requests)) \in Nat
<1>1. Position(r, qi) \in Nat /\ Position(rround[p], rindex[p]) \in Nat
  BY PositionType DEF TypeOK
<1>2. sock[p] \in Nat
  BY ConstantTypes DEF TypeOK
<1> QED
  BY <1>1, <1>2, QueryCount DEF Waiting, Serving

\* Steps that send no query and leave the places of both parties.
LEMMA SkewFrame ==
    ASSUME TypeOK, TypeOK', SkewInv,
           requests' \subseteq requests,
           spc' = "ack" \/ (session' \in {session, None} /\ spc # "ack"),
           spc' = "eval" => spc = "eval",
           UNCHANGED <<r, qi, rround, rindex>>,
           \A p \in Receivers : Active(p)' =>
              /\ Active(p)
              /\ sock[p] + Waiting(p) <= sock'[p] + Waiting(p)'
    PROVE  SkewInv'
<1>1. /\ IsFiniteSet(requests)'
      /\ Cardinality(Queries(requests')) \in Nat
      /\ Cardinality(Queries(requests')) <= Cardinality(Queries(requests))
  BY QueryCount DEF SkewInv
<1> SUFFICES ASSUME NEW p \in Receivers, session' = p, spc' # "ack", Active(p)'
             PROVE  Position(r, qi) + (Cardinality(Queries(requests')) + Serving')
                      <= Position(rround[p], rindex[p]) + sock'[p] + Waiting(p)'
  BY <1>1 DEF SkewInv, Backlog, Position
<1>2. Position(r, qi) + (Cardinality(Queries(requests)) + Serving)
        <= Position(rround[p], rindex[p]) + sock[p] + Waiting(p)
  BY NoneIsNoValue DEF SkewInv, Backlog
<1>3. Serving' <= Serving /\ Serving' \in {0, 1}
  BY DEF Serving
<1>4. sock'[p] \in Nat /\ Waiting(p)' \in {0, 1}
  BY <1>1, ConstantTypes DEF TypeOK, Waiting
<1>5. sock[p] + Waiting(p) <= sock'[p] + Waiting(p)'
  OBVIOUS
<1> QED
  BY <1>1, <1>2, <1>3, <1>4, <1>5, SkewTypes DEF SkewInv

\* The sender begins a session at its first place, with nothing asked.
LEMMA SkewAcknowledge ==
    ASSUME TypeOK, TypeOK', SetupInv, AskInv, NoStrangers, SkewInv, SendSessionAck
    PROVE  SkewInv'
<1>1. /\ UNCHANGED <<requests, session, rpc, sock, rround, rindex>>
      /\ spc = "ack" /\ spc' \notin {"ack", "eval"} /\ r' = 0 /\ qi' = 0
  BY DEF SendSessionAck, RoundHead, receiverVars
<1>2. Queries(requests) = {}
  BY <1>1 DEF NoStrangers, AskInv, SetupFirst, NeverAsked, Queries
<1>3. Backlog' = 0 /\ Position(r, qi)' = 0
  BY <1>1, <1>2, FS_EmptySet, ConstantTypes DEF Backlog, Serving, Position
<1> SUFFICES ASSUME NEW p \in Receivers, session = p, Active(p)
             PROVE  0 <= Position(rround[p], rindex[p]) + sock[p] + Waiting(p)
  BY <1>1, <1>3 DEF SkewInv, Position, Waiting, Active
<1> QED
  BY SkewTypes DEF SkewInv

\* The sender takes a query into service.
LEMMA SkewTake ==
    ASSUME TypeOK, SkewInv, ReceiveQuery PROVE SkewInv'
<1>1. PICK m \in requests : m.kind = "query" /\ requests' = requests \ {m}
  BY DEF ReceiveQuery
<1>2. /\ spc = "query" /\ spc' = "eval"
      /\ UNCHANGED <<session, r, qi, rpc, sock, rround, rindex>>
  BY DEF ReceiveQuery, receiverVars
<1>3. IsFiniteSet(requests)'
  BY <1>1, QueryCount DEF SkewInv
<1>4. Backlog' = Backlog
  <2>1. /\ Cardinality(Queries(requests')) = Cardinality(Queries(requests)) - 1
        /\ Cardinality(Queries(requests)) \in Nat
    BY <1>1, QueryCount DEF SkewInv
  <2> QED
    BY <1>2, <2>1 DEF Backlog, Serving
<1> QED
  BY <1>2, <1>3, <1>4 DEF SkewInv, Position, Waiting, Active

\* The sender answers: one place further, one request less in service.
LEMMA SkewRespond ==
    ASSUME TypeOK, TypeOK', SkewInv, SendResponse PROVE SkewInv'
<1>1. /\ UNCHANGED <<requests, rpc, sock, rround, rindex>>
      /\ spc = "eval" /\ spc' # "eval"
      /\ session' # None =>
            session' = session /\ Position(r, qi)' = Position(r, qi) + 1
  BY RespondAdvances
<1> SUFFICES ASSUME NEW p \in Receivers, session' = p, Active(p)
             PROVE  Position(r, qi)' + Backlog'
                      <= Position(rround[p], rindex[p]) + sock[p] + Waiting(p)
  BY <1>1 DEF SkewInv, Position, Waiting, Active
<1>2. /\ Position(r, qi)' = Position(r, qi) + 1
      /\ Position(r, qi) + Backlog
            <= Position(rround[p], rindex[p]) + sock[p] + Waiting(p)
  BY <1>1, NoneIsNoValue DEF SkewInv
<1>3. Backlog = Cardinality(Queries(requests)) + 1
      /\ Backlog' = Cardinality(Queries(requests)) + 0
  BY <1>1 DEF Backlog, Serving
<1> QED
  BY <1>2, <1>3, SkewTypes DEF SkewInv

\* A receiver starts: no session is its own yet.
LEMMA SkewStart ==
    ASSUME TypeOK, SetupInv, SkewInv, NEW p \in Receivers, Start(p) PROVE SkewInv'
<1> DEFINE new == [conn |-> Current(p), kind |-> "setup", payload |-> None]
<1>1. /\ requests' = requests \cup {new} /\ new.kind # "query"
      /\ rpc[p] = "idle" /\ rpc' = [rpc EXCEPT ![p] = "ack"]
      /\ UNCHANGED <<spc, session, r, qi, sock, rround, rindex>>
  BY DEF Start, Post, senderVars
<1> HIDE DEF new
<1>2. IsFiniteSet(requests)' /\ Queries(requests') = Queries(requests)
  BY <1>1, QueryCount DEF SkewInv
<1>3. Backlog' = Backlog
  BY <1>1, <1>2 DEF Backlog, Serving
<1> SUFFICES ASSUME NEW q \in Receivers, session = q, spc # "ack", Active(q)'
             PROVE  Position(r, qi) + Backlog
                      <= Position(rround[q], rindex[q]) + sock[q] + Waiting(q)'
  BY <1>1, <1>2, <1>3 DEF SkewInv, Position
<1>4. q # p
  BY <1>1 DEF SetupInv, IdleIsSilent
<1> QED
  BY <1>1, <1>4 DEF SkewInv, Active, Waiting, TypeOK

\* A receiver sends one query, and waits.
LEMMA SkewSend ==
    ASSUME TypeOK, NoStrangers, SkewInv, NEW p \in Receivers, SendQuery(p)
    PROVE  SkewInv'
<1> DEFINE new == [conn |-> Current(p), kind |-> "query", payload |-> ToSend(p)]
<1>1. /\ requests' = requests \cup {new}
      /\ rpc[p] = "send" /\ rpc' = [rpc EXCEPT ![p] = "wait"]
      /\ UNCHANGED <<spc, session, r, qi, sock, rround, rindex>>
  BY DEF SendQuery, Post, senderVars
<1> HIDE DEF new
<1>2. /\ IsFiniteSet(requests)'
      /\ Cardinality(Queries(requests')) <= Cardinality(Queries(requests)) + 1
      /\ Cardinality(Queries(requests')) \in Nat
  BY <1>1, QueryCount DEF SkewInv
<1> SUFFICES ASSUME NEW q \in Receivers, session = q, spc # "ack", Active(q)'
             PROVE  Position(r, qi) + Backlog'
                      <= Position(rround[q], rindex[q]) + sock[q] + Waiting(q)'
  BY <1>1, <1>2 DEF SkewInv, Position
<1>3. Active(p) /\ Active(q)
  BY <1>1 DEF Active, TypeOK
<1>4. q = p
  BY <1>3 DEF NoStrangers
<1>5. Waiting(q) = 0 /\ Waiting(q)' = 1 /\ Serving' = Serving
  BY <1>1, <1>4 DEF Waiting, Serving, TypeOK
<1>6. Position(r, qi) + Backlog
        <= Position(rround[q], rindex[q]) + sock[q] + Waiting(q)
  BY <1>3 DEF SkewInv
<1> QED
  BY <1>2, <1>5, <1>6, SkewTypes DEF SkewInv, Backlog

\* A receiver accepts an answer: one place further, no longer waiting.
LEMMA SkewAccept ==
    ASSUME TypeOK, SkewInv, NEW p \in Receivers, ReceiveResponse(p) PROVE SkewInv'
<1>1. /\ rpc[p] = "wait" /\ rpc'[p] \in {"gc", "send", "done"}
      /\ rpc'[p] # "done" =>
            Position(rround'[p], rindex'[p]) = Position(rround[p], rindex[p]) + 1
      /\ \A q \in Receivers \ {p} : UNCHANGED <<rpc[q], rround[q], rindex[q]>>
      /\ UNCHANGED <<requests, spc, session, r, qi, sock>>
  BY AcceptAdvances
<1>2. Backlog' = Backlog
  BY <1>1 DEF Backlog, Serving
<1> SUFFICES ASSUME NEW q \in Receivers, session = q, spc # "ack", Active(q)'
             PROVE  Position(r, qi) + Backlog
                      <= Position(rround'[q], rindex'[q]) + sock[q] + Waiting(q)'
  BY <1>1, <1>2 DEF SkewInv, Position
<1>3. Active(q)
  BY <1>1 DEF Active
<1>4. Position(r, qi) + Backlog
        <= Position(rround[q], rindex[q]) + sock[q] + Waiting(q)
  BY <1>3 DEF SkewInv
<1>5. CASE q # p
  BY <1>1, <1>4, <1>5 DEF Waiting
<1>6. CASE q = p
  <2>1. Waiting(q) = 1 /\ Waiting(q)' = 0
    BY <1>1, <1>6 DEF Waiting
  <2>2. Position(rround'[q], rindex'[q]) = Position(rround[q], rindex[q]) + 1
    BY <1>1, <1>6 DEF Active
  <2>3. Backlog \in Nat
    BY SkewTypes DEF SkewInv, Backlog
  <2> QED
    BY <1>4, <2>1, <2>2, <2>3, SkewTypes DEF SkewInv
<1> QED
  BY <1>5, <1>6

\* Every step keeps the bound on the skew.
LEMMA SkewStep ==
    /\ TypeOK /\ RepliesAreOwed /\ SetupInv /\ AskInv /\ NoStrangers /\ SkewInv
    /\ [Next]_vars
    => SkewInv'
<1> SUFFICES ASSUME TypeOK, RepliesAreOwed, SetupInv, AskInv, NoStrangers, SkewInv,
                    [Next]_vars
             PROVE  SkewInv'
  OBVIOUS
<1>0. TypeOK'
  BY TypeStep
<1> USE DEF senderVars, receiverVars, transportVars
<1>1. CASE ReceiveSessionSetup
  <2>1. spc' = "ack" \/ (session' = session /\ spc = "setup" /\ spc' = "setup")
    BY <1>1 DEF ReceiveSessionSetup
  <2>2. /\ requests' \subseteq requests
        /\ UNCHANGED <<r, qi, rpc, sock, rround, rindex>>
    BY <1>1 DEF ReceiveSessionSetup
  <2> QED
    BY <1>0, <2>1, <2>2, SkewFrame, SkewTypes DEF Active, Waiting, SkewInv
<1>2. CASE PollIdle \/ Signal \/ Shutdown \/ LoseRequest \/ UNCHANGED vars
  <2>1. CASE spc = "ack"
    BY <1>2, <2>1, QueryCount
       DEF PollIdle, Signal, Shutdown, LoseRequest, vars, SkewInv
  <2>2. CASE spc # "ack"
    <3>1. /\ requests' \subseteq requests /\ session' \in {session, None}
          /\ spc' = "eval" => spc = "eval"
          /\ UNCHANGED <<r, qi, rpc, sock, rround, rindex>>
      BY <1>2 DEF PollIdle, Signal, Shutdown, LoseRequest, vars
    <3> QED
      BY <1>0, <2>2, <3>1, SkewFrame, SkewTypes DEF Active, Waiting, SkewInv
  <2> QED
    BY <2>1, <2>2
<1>3. CASE RejectRequest \/ EvaluateEmptyQuery
  <2>1. /\ requests' \subseteq requests /\ session' = None /\ spc # "ack"
        /\ spc' # "eval"
        /\ UNCHANGED <<r, qi, rpc, sock, rround, rindex>>
    BY <1>3 DEF RejectRequest, EvaluateEmptyQuery, SessionOver
  <2> QED
    BY <1>0, <2>1, SkewFrame, SkewTypes DEF Active, Waiting, SkewInv
<1>4. ASSUME NEW p \in Receivers, NEW pc \in {"failed", "killed"}, Exit(p, pc),
             requests' = requests, UNCHANGED <<r, qi>>, session' \in {session, None},
             \/ UNCHANGED <<spc, session>>
             \/ spc # "ack" /\ spc' \notin {"ack", "eval"}
      PROVE  SkewInv'
  <2>1. rpc' = [rpc EXCEPT ![p] = pc] /\ UNCHANGED <<sock, rround, rindex>>
    BY <1>4 DEF Exit
  <2>2. \A q \in Receivers : Active(q)' =>
           Active(q) /\ rpc'[q] = rpc[q] /\ sock'[q] = sock[q]
    BY <2>1 DEF Active, TypeOK
  <2>3. \A q \in Receivers : Active(q)' =>
           Active(q) /\ sock[q] + Waiting(q) <= sock'[q] + Waiting(q)'
    BY <2>2, SkewTypes DEF SkewInv, Waiting
  <2> QED
    BY <1>0, <1>4, <2>1, <2>3, SkewFrame
<1>5. ASSUME NEW p \in Receivers,
             RejectResponse(p) \/ GiveUp(p) \/ GCFails(p) \/ Kill(p)
      PROVE  SkewInv'
  BY <1>4, <1>5 DEF RejectResponse, GiveUp, GCFails, Kill, SessionOver
<1>6. ASSUME NEW p \in Receivers, ReceiveSessionAck(p) PROVE SkewInv'
  <2>1. CASE Exit(p, "failed")
    BY <1>4, <1>6, <2>1 DEF ReceiveSessionAck
  <2>2. CASE ~Exit(p, "failed")
    <3>1. /\ rpc[p] = "ack" /\ rpc' = [rpc EXCEPT ![p] = "gc"]
          /\ UNCHANGED <<requests, spc, session, r, qi, sock, rround, rindex>>
      BY <1>6, <2>2 DEF ReceiveSessionAck
    <3>2. \A q \in Receivers : Active(q)' =>
             Active(q) /\ Waiting(q)' = Waiting(q) /\ sock'[q] = sock[q]
      BY <3>1 DEF Active, Waiting, TypeOK
    <3> QED
      BY <1>0, <3>1, <3>2, SkewFrame, SkewTypes DEF SkewInv
  <2> QED
    BY <2>1, <2>2
<1>7. ASSUME NEW p \in Receivers, RunGC(p) PROVE SkewInv'
  <2>1. /\ rpc[p] = "gc" /\ rpc' = [rpc EXCEPT ![p] = "send"]
        /\ spc = "gc" /\ spc' \notin {"ack", "eval"}
        /\ UNCHANGED <<requests, session, r, qi, sock, rround, rindex>>
    BY <1>7 DEF RunGC
  <2>2. \A q \in Receivers : Active(q)' =>
           Active(q) /\ Waiting(q)' = Waiting(q) /\ sock'[q] = sock[q]
    BY <2>1 DEF Active, Waiting, TypeOK
  <2> QED
    BY <1>0, <2>1, <2>2, SkewFrame, SkewTypes DEF SkewInv
<1>8. ASSUME NEW p \in Receivers, Retry(p) PROVE SkewInv'
  <2>1. /\ rpc[p] = "wait" /\ rpc' = [rpc EXCEPT ![p] = "send"]
        /\ sock' = [sock EXCEPT ![p] = sock[p] + 1]
        /\ UNCHANGED <<requests, spc, session, r, qi, rround, rindex>>
    BY <1>8 DEF Retry, NextSocket
  <2>2. ASSUME NEW q \in Receivers, Active(q)'
        PROVE  Active(q) /\ sock[q] + Waiting(q) <= sock'[q] + Waiting(q)'
    <3>1. CASE q = p
      BY <2>1, <3>1, SkewTypes DEF Active, Waiting, TypeOK, SkewInv
    <3>2. CASE q # p
      BY <2>1, <2>2, <3>2, SkewTypes DEF Active, Waiting, TypeOK, SkewInv
    <3> QED
      BY <3>1, <3>2
  <2> QED
    BY <1>0, <2>1, <2>2, SkewFrame
<1> QED
  BY <1>0, <1>1, <1>2, <1>3, <1>5, <1>6, <1>7, <1>8, SkewAcknowledge, SkewTake,
     SkewRespond, SkewStart, SkewSend, SkewAccept
     DEF Next, SenderStep, ReceiverStep

\* While the receiver has one socket, the sender serves its place and no other.
LEMMA ServedInPlace ==
    ASSUME TypeOK, NotBehind, SkewInv, NEW p \in Receivers, session = p,
           InRounds, InQueryLoop(p), sock[p] = 0,
           spc = "eval" \/ \E m \in requests : m.kind = "query"
    PROVE  r = rround[p] /\ qi = rindex[p]
<1>1. Position(rround[p], rindex[p]) <= Position(r, qi)
  BY DEF NotBehind
<1>2. Position(r, qi) + Backlog <= Position(rround[p], rindex[p]) + sock[p] + Waiting(p)
  BY DEF SkewInv, InRounds, InQueryLoop, Active
<1>3. Cardinality(Queries(requests)) >= 1 \/ Serving = 1
  <2>1. CASE spc = "eval"
    BY <2>1 DEF Serving
  <2>2. ASSUME NEW m \in requests, m.kind = "query"
        PROVE  Cardinality(Queries(requests)) >= 1
    <3>1. m \in Queries(requests) /\ Queries(requests) \in SUBSET requests
      BY <2>2 DEF Queries
    <3>2. IsFiniteSet(Queries(requests))
      BY <3>1, FS_Subset DEF SkewInv
    <3>3. Cardinality(Queries(requests)) # 0
      BY <3>1, <3>2, FS_EmptySet
    <3> QED
      BY <3>3, SkewTypes DEF SkewInv
  <2> QED
    BY <2>1, <2>2
<1>4. Position(rround[p], rindex[p]) = Position(r, qi)
  BY <1>1, <1>2, <1>3, SkewTypes DEF SkewInv, Backlog
<1> QED
  BY <1>4, PositionInjective DEF TypeOK

----------------------------------------------------------------------------
(* The cache is filled in round 0, and triggers come after it.              *)

Reached(i) == r > 0 \/ i < qi \/ (i = qi /\ spc = "eval")

CacheInv ==
    /\ \A m \in requests : (m.kind = "query" /\ m.payload = None) => SendOnce
    /\ (InRounds /\ SendOnce) => \A i \in Indices : Reached(i) => cache[i] # None
    /\ (InRounds /\ r = 0) => \A m \in requests : m.kind = "query" => m.payload # None
    /\ (spc = "eval" /\ ~SendOnce) => received # None

\* Steps that neither ask nor evaluate.
LEMMA CacheFrame ==
    ASSUME CacheInv, \A m \in requests' : m \in requests \/ m.kind # "query",
           UNCHANGED <<mode, r, qi, received, cache>>,
           spc' = "eval" => spc = "eval", InRounds' => InRounds
    PROVE  CacheInv'
BY DEF CacheInv, Reached, SendOnce

\* An answered query is behind the sender's new place.
LEMMA ReachedAfterResponse ==
    ASSUME TypeOK, SendResponse, InRounds', NEW i \in Indices, Reached(i)'
    PROVE  Reached(i)
<1>1. r \in Nat /\ qi \in Nat /\ i \in Nat /\ i < NrofQueries
  BY ConstantTypes DEF TypeOK, Rounds, Indices
<1>2. CASE ~LastIndex(qi)
  BY <1>1, <1>2 DEF SendResponse, AdvanceLoops, Reached
<1>3. CASE LastIndex(qi)
  BY <1>1, <1>3, ConstantTypes DEF SendResponse, Reached, LastIndex
<1> QED
  BY <1>2, <1>3

\* The loops start with an empty cache and nothing asked.
LEMMA NothingReached ==
    ASSUME TypeOK, SendSessionAck
    PROVE  \A i \in Indices : ~Reached(i)'
<1>1. r' = 0 /\ qi' = 0 /\ spc' # "eval"
  BY DEF SendSessionAck, RoundHead
<1> QED
  BY <1>1, ConstantTypes DEF Reached, Indices

\* Every step keeps the cache filled as far as the sender has come.
LEMMA CacheStep ==
    /\ TypeOK /\ RepliesAreOwed /\ AskInv /\ NotBehind /\ NoStrangers /\ NoStrangers'
    /\ CacheInv /\ [Next]_vars
    => CacheInv'
<1> SUFFICES ASSUME TypeOK, RepliesAreOwed, AskInv, NotBehind, NoStrangers, NoStrangers',
                    CacheInv, [Next]_vars
             PROVE  CacheInv'
  OBVIOUS
<1> USE DEF senderVars, receiverVars, transportVars, InRounds
<1>1. CASE PollIdle \/ Signal \/ Shutdown \/ LoseRequest \/ UNCHANGED vars
  BY <1>1, CacheFrame DEF PollIdle, Signal, Shutdown, LoseRequest, vars
<1>2. CASE ReceiveSessionSetup \/ RejectRequest \/ EvaluateEmptyQuery
  BY <1>2, CacheFrame
     DEF ReceiveSessionSetup, RejectRequest, EvaluateEmptyQuery, SessionOver
<1>3. CASE SendSessionAck
  <2>1. \A m \in requests : m.kind # "query"
    BY <1>3 DEF SendSessionAck, NoStrangers, AskInv, SetupFirst, NeverAsked
  <2>2. requests' = requests /\ spc' # "eval"
    BY <1>3 DEF SendSessionAck, RoundHead
  <2> QED
    BY <1>3, <2>1, <2>2, NothingReached DEF CacheInv
<1>4. CASE ReceiveQuery
  <2>1. PICK m \in requests :
           /\ m.kind = "query" /\ requests' = requests \ {m}
           /\ received' = m.payload /\ cache' = CacheAfter(m.payload)
    BY <1>4 DEF ReceiveQuery
  <2>2. /\ UNCHANGED <<mode, r, qi>> /\ spc = "query" /\ spc' = "eval"
    BY <1>4 DEF ReceiveQuery
  <2>3. (SendOnce /\ r = 0) => cache' = [cache EXCEPT ![qi] = m.payload] /\ m.payload # None
    BY <2>1, <2>2 DEF CacheAfter, CacheInv
  <2>4. r # 0 => cache' = cache /\ r > 0
    BY <2>1, ConstantTypes DEF CacheAfter, TypeOK, Rounds
  <2>5. SendOnce => \A i \in Indices : Reached(i)' => cache'[i] # None
    BY <2>2, <2>3, <2>4 DEF CacheInv, Reached, TypeOK
  <2> QED
    BY <2>1, <2>2, <2>5 DEF CacheInv, SendOnce
<1>5. CASE SendResponse
  <2>1. /\ UNCHANGED <<mode, requests, cache>> /\ spc = "eval" /\ spc' # "eval"
    BY <1>5, RespondAdvances
  <2>2. InRounds' /\ r' = 0 => r = 0
    BY <1>5, ConstantTypes
       DEF SendResponse, AdvanceLoops, NextRound, SessionOver, TypeOK, Rounds
  <2> QED
    BY <1>5, <2>1, <2>2, ReachedAfterResponse DEF CacheInv, SendOnce
<1>6. ASSUME NEW p \in Receivers, SendQuery(p) PROVE CacheInv'
  <2> DEFINE new == [conn |-> Current(p), kind |-> "query", payload |-> ToSend(p)]
  <2>1. /\ requests' = requests \cup {new} /\ rpc[p] = "send"
        /\ UNCHANGED <<mode, spc, session, r, qi, received, cache>>
    BY <1>6 DEF SendQuery, Post
  <2>2. new.conn.proc = p /\ new.kind = "query" /\ new.payload = ToSend(p)
    BY DEF Current
  <2>3. <<p, rindex[p]>> # None
    BY NoneIsNoValue DEF TypeOK, Query
  <2>4. new.payload = None => SendOnce
    BY <2>2, <2>3 DEF ToSend
  <2>5. ASSUME InRounds, r = 0 PROVE new.payload # None
    <3>1. session = p
      BY <2>1, <2>2, <2>5 DEF NoStrangers
    <3>2. Position(rround[p], rindex[p]) <= Position(r, qi)
      BY <2>1, <2>5, <3>1 DEF NotBehind, InQueryLoop
    <3>3. rround[p] \in Nat /\ (0 < rround[p] => Position(r, qi) < Position(rround[p], rindex[p]))
      BY <2>5, PositionOrder, ConstantTypes DEF TypeOK, Rounds
    <3>4. Position(r, qi) \in Nat /\ Position(rround[p], rindex[p]) \in Nat
      BY PositionType DEF TypeOK
    <3> QED
      BY <2>2, <2>3, <3>2, <3>3, <3>4 DEF ToSend
  <2> HIDE DEF new
  <2> QED
    BY <2>1, <2>4, <2>5 DEF CacheInv, Reached, SendOnce
<1>7. ASSUME NEW p \in Receivers, Start(p) PROVE CacheInv'
  BY <1>7, CacheFrame DEF Start, Post
<1>8. ASSUME NEW p \in Receivers, ReceiveResponse(p) \/ RunGC(p) \/ GCFails(p) PROVE CacheInv'
  BY <1>8, CacheFrame DEF ReceiveResponse, RunGC, GCFails, SessionOver
<1>9. ASSUME NEW p \in Receivers,
             \/ ReceiveSessionAck(p) \/ RejectResponse(p)
             \/ Retry(p) \/ GiveUp(p) \/ Kill(p)
      PROVE  CacheInv'
  BY <1>9, CacheFrame DEF ReceiveSessionAck, RejectResponse, Retry, GiveUp, Kill
<1> QED
  BY <1>1, <1>2, <1>3, <1>4, <1>5, <1>6, <1>7, <1>8, <1>9
     DEF Next, SenderStep, ReceiverStep

\* What is evaluated is there.
LEMMA CacheImplies == TypeOK /\ CacheInv => NeverEvaluatesEmptyQuery
BY DEF TypeOK, CacheInv, NeverEvaluatesEmptyQuery, EncryptedQuery, Reached, InRounds

----------------------------------------------------------------------------
(* An answer is never of an earlier round than the place it is filed at.    *)

LaterInv ==
    /\ \A m \in replies : m.kind = "result" => rround[m.conn.proc] <= m.answer.round
    /\ NeverAnEarlierRound

\* Steps that send no result and file none.
LEMMA LaterFrame ==
    ASSUME LaterInv, \A m \in replies' : m \in replies \/ m.kind # "result",
           UNCHANGED <<rround, answers>>
    PROVE  LaterInv'
BY DEF LaterInv, NeverAnEarlierRound, Answered

\* The receiver whose query is evaluated and who can still hear the answer is
\* the one of the session, and waits.
LEMMA HearerWaits ==
    ASSUME TypeOK, RepliesAreOwed, Lockstep, AskInv, NoStrangers,
           spc = "eval", IsOpen(owed)
    PROVE  /\ owed.proc \in Receivers /\ owed.proc = session
           /\ owed = Current(owed.proc) /\ rpc[owed.proc] = "wait"
<1>1. owed.proc \in Receivers /\ owed.proc = session
  BY DEF RepliesAreOwed, TypeOK, Conn, NoStrangers
<1>2. owed = Current(owed.proc) /\ Active(owed.proc)
  BY DEF IsOpen
<1>3. rpc[owed.proc] \notin {"idle", "gc", "send", "ack"}
  BY <1>1, <1>2 DEF Lockstep, SocketsInUse, Quiet, AskInv, AskedInLoop
<1> QED
  BY <1>1, <1>2, <1>3 DEF Active

\* Every step keeps the answers at or after their places.
LEMMA LaterStep ==
    /\ TypeOK /\ RepliesAreOwed /\ Lockstep /\ AskInv /\ NotBehind /\ NoStrangers
    /\ LaterInv /\ [Next]_vars
    => LaterInv'
<1> SUFFICES ASSUME TypeOK, RepliesAreOwed, Lockstep, AskInv, NotBehind, NoStrangers,
                    LaterInv, [Next]_vars
             PROVE  LaterInv'
  OBVIOUS
<1> USE DEF senderVars, receiverVars, transportVars
<1>1. CASE PollIdle \/ Signal \/ Shutdown \/ LoseRequest \/ UNCHANGED vars
  BY <1>1, LaterFrame DEF PollIdle, Signal, Shutdown, LoseRequest, vars
<1>2. CASE ReceiveSessionSetup \/ ReceiveQuery \/ EvaluateEmptyQuery
  BY <1>2, LaterFrame DEF ReceiveSessionSetup, ReceiveQuery, EvaluateEmptyQuery
<1>3. CASE SendSessionAck \/ RejectRequest
  BY <1>3, LaterFrame, RespondEffect DEF SendSessionAck, RejectRequest
<1>4. CASE SendResponse
  <2>1. \A m \in replies' : m \in replies \/ (/\ IsOpen(owed) /\ m.conn = owed
                                              /\ m.answer.round = r)
    BY <1>4, RespondEffect DEF SendResponse, CoefficientsOf
  <2>2. ASSUME IsOpen(owed) PROVE rround[owed.proc] <= r
    <3>1. /\ owed.proc \in Receivers /\ owed.proc = session
          /\ rpc[owed.proc] = "wait" /\ InRounds
      BY <1>4, <2>2, HearerWaits DEF SendResponse, InRounds
    <3>2. Position(rround[owed.proc], rindex[owed.proc]) <= Position(r, qi)
      BY <3>1 DEF NotBehind, InQueryLoop
    <3>3. /\ rround[owed.proc] \in Rounds /\ rindex[owed.proc] \in Indices
          /\ r \in Rounds /\ qi \in Indices
      BY <3>1 DEF TypeOK
    <3>4. rround[owed.proc] \in Int /\ r \in Int
      BY <3>3 DEF Rounds
    <3>5. r < rround[owed.proc] =>
             Position(r, qi) < Position(rround[owed.proc], rindex[owed.proc])
      BY <3>3, PositionOrder
    <3>6. /\ Position(r, qi) \in Nat
          /\ Position(rround[owed.proc], rindex[owed.proc]) \in Nat
      BY <3>3, PositionType
    <3> QED
      BY <3>2, <3>4, <3>5, <3>6
  <2>3. UNCHANGED <<rround, answers>>
    BY <1>4 DEF SendResponse
  <2> QED
    BY <2>1, <2>2, <2>3 DEF LaterInv, NeverAnEarlierRound, Answered
<1>5. ASSUME NEW p \in Receivers, ReceiveResponse(p) PROVE LaterInv'
  <2>1. PICK m \in replies :
           /\ m.conn = Current(p) /\ m.kind = "result" /\ replies' = replies \ {m}
           /\ answers' = [answers EXCEPT ![p][<<rround[p], rindex[p]>>] = m.answer]
    BY <1>5 DEF ReceiveResponse
  <2>2. \A n \in replies' : n \in replies /\ n.conn.proc # p /\ n.conn.proc \in Receivers
    BY <2>1, OnlyReply DEF TypeOK, Reply, Conn
  <2>3. \A q \in Receivers \ {p} : rround'[q] = rround[q]
    BY <1>5, AcceptAdvances
  <2>4. rround[p] <= m.answer.round
    BY <2>1 DEF LaterInv, Current
  <2>5. NeverAnEarlierRound'
    <3> SUFFICES ASSUME NEW q \in Receivers, NEW x \in Rounds \X Indices,
                        answers'[q][x] # None
                 PROVE  answers'[q][x].round >= x[1]
      BY DEF NeverAnEarlierRound, Answered
    <3>1. CASE q = p /\ x = <<rround[p], rindex[p]>>
      <4>1. answers'[q][x] = m.answer
        BY <2>1, <3>1 DEF TypeOK
      <4>2. m.answer.round \in Int /\ rround[p] \in Int
        BY <3>1, <4>1, NoneIsNoValue DEF TypeOK, Reply, Answer, Rounds
      <4> QED
        BY <2>4, <3>1, <4>1, <4>2
    <3>2. CASE ~(q = p /\ x = <<rround[p], rindex[p]>>)
      <4>1. answers'[q][x] = answers[q][x]
        BY <2>1, <3>2 DEF TypeOK
      <4> QED
        BY <4>1 DEF LaterInv, NeverAnEarlierRound, Answered
    <3> QED
      BY <3>1, <3>2
  <2> QED
    BY <2>2, <2>3, <2>5 DEF LaterInv
<1>6. ASSUME NEW p \in Receivers, Start(p) \/ SendQuery(p) \/ RunGC(p) PROVE LaterInv'
  BY <1>6, LaterFrame DEF Start, SendQuery, RunGC
<1>7. ASSUME NEW p \in Receivers,
             \/ ReceiveSessionAck(p) \/ RejectResponse(p) \/ Retry(p)
             \/ GiveUp(p) \/ Kill(p) \/ GCFails(p)
      PROVE  LaterInv'
  BY <1>7, LaterFrame DEF ReceiveSessionAck, RejectResponse, Retry, GiveUp, Kill,
                          GCFails, Exit, RepliesWithout
<1> QED
  BY <1>1, <1>2, <1>3, <1>4, <1>5, <1>6, <1>7 DEF Next, SenderStep, ReceiverStep

----------------------------------------------------------------------------
(* The right query at the right place, as long as nobody retries.           *)

CachedOwn ==
    \A p \in Receivers :
        (session = p /\ InRounds /\ SendOnce /\ Active(p) /\ sock[p] = 0) =>
            \A i \in Indices : Reached(i) => cache[i] = <<p, i>>

ResultsInPlace ==
    \A m \in replies : (m.kind = "result" /\ m.conn.sock = 0) =>
        m.answer = [query |-> Own(m.conn.proc), round |-> rround[m.conn.proc]]

PlaceInv == CachedOwn /\ ResultsInPlace /\ OnlyRetriesMisplace

\* Steps that move nobody and neither cache, nor send nor file an answer.
LEMMA PlaceFrame ==
    ASSUME PlaceInv,
           \A m \in replies' : m \in replies \/ m.kind # "result",
           UNCHANGED <<mode, rround, rindex, answers>>,
           InRounds' => InRounds /\ UNCHANGED <<session, r, qi, cache>>,
           spc' = "eval" => spc = "eval",
           \A p \in Receivers : /\ sock'[p] = 0 => sock[p] = 0
                                /\ Active(p)' => (Active(p) \/ session # p)
    PROVE  PlaceInv'
<1>1. CachedOwn'
  BY DEF PlaceInv, CachedOwn, Reached, SendOnce
<1>2. ResultsInPlace'
  BY DEF PlaceInv, ResultsInPlace, Own
<1>3. OnlyRetriesMisplace'
  BY DEF PlaceInv, OnlyRetriesMisplace, Answered
<1> QED
  BY <1>1, <1>2, <1>3 DEF PlaceInv

\* The query that is cached is the query of its index.
LEMMA PlaceTake ==
    ASSUME TypeOK, Lockstep, AskInv, OwnInv, NotBehind, NoStrangers, SkewInv, CacheInv,
           PlaceInv, ReceiveQuery
    PROVE  PlaceInv'
<1>1. PICK m \in requests :
         /\ m.kind = "query" /\ requests' = requests \ {m}
         /\ cache' = CacheAfter(m.payload)
  BY DEF ReceiveQuery
<1>2. /\ spc = "query" /\ spc' = "eval" /\ InRounds
      /\ UNCHANGED <<mode, replies, session, r, qi, rpc, sock, rround, rindex, answers>>
  BY DEF ReceiveQuery, receiverVars, InRounds
<1>3. ASSUME NEW p \in Receivers, session = p, SendOnce, Active(p), sock[p] = 0,
             NEW i \in Indices, Reached(i)'
      PROVE  cache'[i] = <<p, i>>
  <2>1. CASE Reached(i) /\ cache'[i] = cache[i]
    BY <1>2, <1>3, <2>1 DEF PlaceInv, CachedOwn
  <2>2. CASE r = 0 /\ i = qi
    <3>1. m.conn \in Conn /\ m.conn.proc = p
      BY <1>1, <1>2, <1>3 DEF NoStrangers, TypeOK, Request
    <3>2. m.conn = Current(p)
      <4>1. m.conn.sock <= 0
        BY <1>3, <3>1 DEF Lockstep, SocketsInUse
      <4> QED
        BY <1>3, <3>1, <4>1, ConstantTypes, ConnParts
    <3>3. rpc[p] = "wait"
      <4>1. rpc[p] \notin {"idle", "ack"}
        BY <1>1, <3>1 DEF AskInv, AskedInLoop
      <4>2. rpc[p] \notin {"gc", "send"}
        BY <3>2 DEF Lockstep, SocketsInUse, Quiet
      <4> QED
        BY <1>3, <4>1, <4>2 DEF Active
    <3>4. m.payload = Own(p)
      BY <1>1, <1>2, <2>2, <3>1, <3>2, <3>3 DEF OwnInv, RequestsAreOwn, CacheInv
    <3>5. qi = rindex[p]
      BY <1>1, <1>2, <1>3, <3>3, ServedInPlace DEF InQueryLoop
    <3> QED
      BY <1>1, <1>3, <2>2, <3>4, <3>5 DEF CacheAfter, Own, TypeOK
  <2>3. r \in Nat /\ qi \in Nat /\ i \in Nat
    BY DEF TypeOK, Rounds, Indices
  <2>4. r = 0 => Reached(i) \/ i = qi
    BY <1>2, <1>3 DEF Reached
  <2>5. r = 0 /\ i # qi => cache'[i] = cache[i]
    BY <1>1 DEF CacheAfter, TypeOK
  <2>6. r # 0 => Reached(i) /\ cache' = cache
    BY <1>1, <2>3 DEF CacheAfter, Reached
  <2> QED
    BY <2>1, <2>2, <2>4, <2>5, <2>6
<1>4. CachedOwn'
  BY <1>2, <1>3 DEF CachedOwn, SendOnce, Active
<1> QED
  BY <1>2, <1>4 DEF PlaceInv, ResultsInPlace, OnlyRetriesMisplace, Answered, Own

\* The query that is evaluated is the one its receiver waits for.
LEMMA PlaceRespond ==
    ASSUME TypeOK, RepliesAreOwed, Lockstep, AskInv, OwnInv, NotBehind, NoStrangers,
           SkewInv, PlaceInv, SendResponse
    PROVE  PlaceInv'
<1>1. /\ UNCHANGED <<mode, requests, rpc, rround, rindex, sock, cache, answers>>
      /\ spc = "eval" /\ InRounds /\ EncryptedQuery # None
      /\ session' = None \/ session' = session
  BY RespondAdvances DEF InRounds, SendResponse
<1>2. CachedOwn'
  BY <1>1, ReachedAfterResponse, NoneIsNoValue
     DEF PlaceInv, CachedOwn, SendOnce, Active
<1>3. ASSUME IsOpen(owed), owed.sock = 0
      PROVE  EncryptedQuery = Own(owed.proc) /\ r = rround[owed.proc]
  <2>1. /\ owed.proc \in Receivers /\ owed.proc = session
        /\ owed = Current(owed.proc) /\ rpc[owed.proc] = "wait"
    BY <1>1, <1>3, HearerWaits
  <2>2. sock[owed.proc] = 0
    BY <1>3, <2>1 DEF Current
  <2>3. r = rround[owed.proc] /\ qi = rindex[owed.proc]
    BY <1>1, <2>1, <2>2, ServedInPlace DEF InQueryLoop
  <2>4. SendOnce => cache[qi] = <<owed.proc, qi>>
    BY <1>1, <2>1, <2>2 DEF PlaceInv, CachedOwn, Reached, Active, TypeOK
  <2>5. received # None => received = Own(owed.proc)
    BY <1>1, <2>1 DEF OwnInv, ServedIsOwn
  <2> QED
    BY <1>1, <2>3, <2>4, <2>5 DEF EncryptedQuery, Own
<1>4. \A m \in replies' : m \in replies \/ (/\ IsOpen(owed) /\ m.conn = owed
                                            /\ m.answer = [query |-> EncryptedQuery,
                                                           round |-> r])
  BY RespondEffect DEF SendResponse, CoefficientsOf
<1>5. ResultsInPlace'
  BY <1>1, <1>3, <1>4 DEF PlaceInv, ResultsInPlace, Own
<1> QED
  BY <1>1, <1>2, <1>5 DEF PlaceInv, OnlyRetriesMisplace, Answered

\* The answer that is filed is the one of the place it is filed at.
LEMMA PlaceAccept ==
    ASSUME TypeOK, Lockstep, PlaceInv, NEW p \in Receivers, ReceiveResponse(p)
    PROVE  PlaceInv'
<1>1. PICK m \in replies :
         /\ m.conn = Current(p) /\ m.kind = "result" /\ replies' = replies \ {m}
         /\ answers' = [answers EXCEPT ![p][<<rround[p], rindex[p]>>] = m.answer]
  BY DEF ReceiveResponse
<1>2. /\ UNCHANGED <<mode, spc, session, r, qi, cache, sock>> /\ rpc[p] = "wait"
      /\ \A q \in Receivers \ {p} : UNCHANGED <<rpc[q], rround[q], rindex[q]>>
  BY AcceptAdvances
<1>3. \A n \in replies' : n \in replies /\ n.conn.proc \in Receivers \ {p}
  BY <1>1, OnlyReply DEF TypeOK, Reply, Conn
<1>4. CachedOwn'
  BY <1>2 DEF PlaceInv, CachedOwn, Active, InRounds, SendOnce, Reached
<1>5. ResultsInPlace'
  BY <1>2, <1>3 DEF PlaceInv, ResultsInPlace, Own
<1>6. OnlyRetriesMisplace'
  <2> SUFFICES ASSUME NEW q \in Receivers, NEW x \in Rounds \X Indices,
                      sock[q] = 0, answers'[q][x] # None
               PROVE  answers'[q][x] = [query |-> <<q, x[2]>>, round |-> x[1]]
    BY <1>2 DEF OnlyRetriesMisplace, Answered
  <2>1. CASE q = p /\ x = <<rround[p], rindex[p]>>
    <3>1. answers'[q][x] = m.answer
      BY <1>1, <2>1 DEF TypeOK
    <3>2. m.conn.sock = 0 /\ m.conn.proc = p
      BY <1>1, <2>1 DEF Current
    <3> QED
      BY <1>1, <2>1, <3>1, <3>2 DEF PlaceInv, ResultsInPlace, Own
  <2>2. CASE ~(q = p /\ x = <<rround[p], rindex[p]>>)
    <3>1. answers'[q][x] = answers[q][x]
      BY <1>1, <2>2 DEF TypeOK
    <3> QED
      BY <3>1 DEF PlaceInv, OnlyRetriesMisplace, Answered
  <2> QED
    BY <2>1, <2>2
<1> QED
  BY <1>4, <1>5, <1>6 DEF PlaceInv

\* Every step keeps the queries and the answers in their places.
LEMMA PlaceStep ==
    /\ TypeOK /\ RepliesAreOwed /\ Lockstep /\ SetupInv /\ AskInv /\ OwnInv /\ NotBehind
    /\ NoStrangers /\ SkewInv /\ CacheInv /\ PlaceInv /\ [Next]_vars
    => PlaceInv'
<1> SUFFICES ASSUME TypeOK, RepliesAreOwed, Lockstep, SetupInv, AskInv, OwnInv, NotBehind,
                    NoStrangers, SkewInv, CacheInv, PlaceInv, [Next]_vars
             PROVE  PlaceInv'
  OBVIOUS
<1> USE DEF senderVars, receiverVars, transportVars
<1>1. CASE PollIdle \/ Signal \/ Shutdown \/ LoseRequest \/ UNCHANGED vars
  BY <1>1, PlaceFrame
     DEF PollIdle, Signal, Shutdown, LoseRequest, vars, InRounds, Active
<1>2. CASE ReceiveSessionSetup \/ EvaluateEmptyQuery
  BY <1>2, PlaceFrame
     DEF ReceiveSessionSetup, EvaluateEmptyQuery, InRounds, Active
<1>3. CASE RejectRequest
  BY <1>3, PlaceFrame, RespondEffect DEF RejectRequest, SessionOver, InRounds, Active
<1>4. CASE SendSessionAck
  <2>1. \A m \in replies' : m \in replies \/ m.kind # "result"
    BY <1>4, RespondEffect DEF SendSessionAck
  <2>2. UNCHANGED <<rround, rindex, sock, answers>>
    BY <1>4 DEF SendSessionAck
  <2> QED
    BY <1>4, <2>1, <2>2, NothingReached
       DEF PlaceInv, CachedOwn, ResultsInPlace, OnlyRetriesMisplace, Answered, Own
<1>5. ASSUME NEW p \in Receivers, Start(p) PROVE PlaceInv'
  <2>1. session # p
    BY <1>5 DEF Start, SetupInv, IdleIsSilent
  <2>2. \A q \in Receivers : Active(q)' => Active(q) \/ session # q
    BY <1>5, <2>1 DEF Start, Active, TypeOK
  <2> QED
    BY <1>5, <2>2, PlaceFrame DEF Start, InRounds
<1>6. ASSUME NEW p \in Receivers, NEW pc, rpc' = [rpc EXCEPT ![p] = pc], Active(p)
      PROVE  \A q \in Receivers : Active(q)' => Active(q)
  BY <1>6 DEF Active, TypeOK
<1>7. ASSUME NEW p \in Receivers,
             SendQuery(p) \/ RunGC(p) \/ GCFails(p) \/ ReceiveSessionAck(p)
      PROVE  PlaceInv'
  <2>1. Active(p) /\ \E pc : rpc' = [rpc EXCEPT ![p] = pc]
    BY <1>7 DEF SendQuery, RunGC, GCFails, ReceiveSessionAck, Exit, Active
  <2>2. \A m \in replies' : m \in replies
    BY <1>7 DEF SendQuery, RunGC, GCFails, ReceiveSessionAck, Exit, RepliesWithout
  <2> QED
    BY <1>6, <1>7, <2>1, <2>2, PlaceFrame
       DEF SendQuery, RunGC, GCFails, ReceiveSessionAck, Exit, SessionOver, InRounds
<1>8. ASSUME NEW p \in Receivers,
             RejectResponse(p) \/ Retry(p) \/ GiveUp(p) \/ Kill(p)
      PROVE  PlaceInv'
  <2>1. Active(p) /\ \E pc : rpc' = [rpc EXCEPT ![p] = pc]
    BY <1>8 DEF RejectResponse, Retry, GiveUp, Kill, Exit, Active
  <2>2. \A m \in replies' : m \in replies
    BY <1>8 DEF RejectResponse, Retry, GiveUp, Kill, Exit, RepliesWithout
  <2>3. \A q \in Receivers : sock'[q] = 0 => sock[q] = 0
    BY <1>8, ConstantTypes DEF RejectResponse, Retry, GiveUp, Kill, Exit, NextSocket, TypeOK
  <2>4. UNCHANGED <<mode, spc, session, r, qi, cache, rround, rindex, answers>>
    BY <1>8 DEF RejectResponse, Retry, GiveUp, Kill, Exit
  <2> QED
    BY <1>6, <2>1, <2>2, <2>3, <2>4, PlaceFrame DEF InRounds
<1> QED
  BY <1>1, <1>2, <1>3, <1>4, <1>5, <1>7, <1>8, PlaceTake, PlaceRespond, PlaceAccept
     DEF Next, SenderStep, ReceiverStep

----------------------------------------------------------------------------
(* Receivers that run one after the other, and leave only when the sender   *)
(* has left them: nothing of an earlier receiver is around for a later one. *)

AtLastPlace(p) == LastIndex(rindex[p]) /\ rround[p] + 1 = NrofRounds

\* The sender is in the session of p, or will not open another one.
Followed(p) == (session = p /\ InRounds) \/ spc \in {"exited", "crashed"}

\* The reply on its way to p is the last one of its session.
SessionLeft(p) ==
    \E m \in replies :
        /\ m.conn = Current(p)
        /\ m.kind = "error" \/ (m.kind = "result" /\ AtLastPlace(p))

OneAtATime == \A p, q \in Receivers : Active(p) /\ Active(q) => p = q

OneSocketEach == \A p \in Receivers : sock[p] = 0

RequestsAwaited ==
    /\ \A m \in requests :
          rpc[m.conn.proc] = IF m.kind = "setup" THEN "ack" ELSE "wait"
    /\ owed # None => Active(owed.proc)
    /\ spc = "eval" => owed.proc = session

LoopsFollowed ==
    /\ \A m \in replies : m.kind = "ack" => Followed(m.conn.proc)
    /\ \A p \in Receivers : InQueryLoop(p) => Followed(p) \/ SessionLeft(p)

TurnsInv == OneAtATime /\ OneSocketEach /\ RequestsAwaited /\ LoopsFollowed

\* With one socket each, whatever is outstanding belongs to a current socket,
\* and a receiver has one thing outstanding.
LEMMA TurnsConnections ==
    ASSUME TypeOK, Lockstep, OneSocketEach
    PROVE  /\ \A m \in requests \cup replies :
                 m.conn.proc \in Receivers /\ m.conn = Current(m.conn.proc)
           /\ owed # None => owed.proc \in Receivers /\ owed = Current(owed.proc)
           /\ \A m \in replies : Active(m.conn.proc)
           /\ \A m, n \in requests : m.conn.proc = n.conn.proc => m = n
           /\ \A m, n \in replies : m.conn.proc = n.conn.proc => m = n
           /\ \A m \in requests, n \in replies : m.conn.proc # n.conn.proc
           /\ owed # None => \A m \in requests \cup replies : m.conn.proc # owed.proc
<1>1. \A c \in Conn : c.sock <= sock[c.proc] => c.proc \in Receivers /\ c = Current(c.proc)
  BY ConstantTypes, ConnParts DEF OneSocketEach
<1>2. /\ \A m \in requests \cup replies : m.conn \in Conn
      /\ owed # None => owed \in Conn
  BY DEF TypeOK, Request, Reply
<1>3. /\ \A m \in requests \cup replies :
            m.conn.proc \in Receivers /\ m.conn = Current(m.conn.proc)
      /\ owed # None => owed.proc \in Receivers /\ owed = Current(owed.proc)
  <2>1. \A m \in replies : m.conn = Current(m.conn.proc)
    BY DEF Lockstep, SocketsInUse, IsOpen
  <2> QED
    BY <1>1, <1>2, <2>1, ConnParts DEF Lockstep, SocketsInUse
<1>4. \A m \in replies : Active(m.conn.proc)
  BY DEF Lockstep, SocketsInUse, IsOpen
<1>5. /\ \A m, n \in requests : m.conn.proc = n.conn.proc => m = n
      /\ \A m, n \in replies : m.conn.proc = n.conn.proc => m = n
      /\ \A m \in requests, n \in replies : m.conn.proc # n.conn.proc
      /\ owed # None => \A m \in requests \cup replies : m.conn.proc # owed.proc
  BY <1>3 DEF Lockstep, OneOutstanding
<1> QED
  BY <1>3, <1>4, <1>5

\* Receivers that take turns meet no stranger.
LEMMA TurnsNoStrangers ==
    ASSUME TypeOK, Lockstep, SessionHeld, TurnsInv PROVE NoStrangers
<1> USE DEF TurnsInv
<1>1. \A m \in requests : m.conn.proc \in Receivers /\ Active(m.conn.proc)
  BY TurnsConnections DEF RequestsAwaited, Active
<1>2. owed # None => owed.proc \in Receivers /\ Active(owed.proc)
  BY TurnsConnections DEF RequestsAwaited
<1>3. ASSUME NEW m \in requests, m.kind = "query", spc \in {"ack", "gc", "query", "eval"}
      PROVE  m.conn.proc = session
  <2>1. m.conn.proc \in Receivers /\ InQueryLoop(m.conn.proc)
    BY <1>1, <1>3 DEF RequestsAwaited, InQueryLoop
  <2>2. ~SessionLeft(m.conn.proc)
    BY TurnsConnections DEF SessionLeft, Current
  <2> QED
    BY <1>3, <2>1, <2>2 DEF LoopsFollowed, Followed
<1> QED
  BY <1>1, <1>2, <1>3 DEF NoStrangers, OneAtATime, RequestsAwaited

\* Steps of the sender that end no session, and steps that end the sender.
LEMMA TurnsFrame ==
    ASSUME TurnsInv, requests' \subseteq requests, replies \subseteq replies',
           \A m \in replies' : m \in replies \/ m.kind # "ack",
           owed' \in {owed, None}, UNCHANGED <<rpc, sock, rround, rindex>>,
           \A p \in Receivers \cup {m.conn.proc : m \in replies} : Followed(p) => Followed(p)',
           spc' = "eval" => UNCHANGED <<spc, owed, session>>
    PROVE  TurnsInv'
<1>1. OneAtATime' /\ OneSocketEach'
  BY DEF TurnsInv, OneAtATime, OneSocketEach, Active
<1>2. RequestsAwaited'
  BY DEF TurnsInv, RequestsAwaited, Active
<1>3. \A p \in Receivers : SessionLeft(p) => SessionLeft(p)'
  BY DEF SessionLeft, Current, AtLastPlace
<1>4. LoopsFollowed'
  BY <1>3 DEF TurnsInv, LoopsFollowed, InQueryLoop
<1> QED
  BY <1>1, <1>2, <1>4 DEF TurnsInv

\* The accept loop hears a receiver; nobody is in its query loop unless the
\* sender has left it.
LEMMA TurnsReceive ==
    ASSUME TypeOK, Lockstep, TurnsInv, ReceiveSessionSetup PROVE TurnsInv'
<1>1. PICK m \in requests :
         /\ requests' = requests \ {m} /\ owed' = m.conn
         /\ spc' = "ack" \/ (spc' = spc /\ session' = session)
  BY DEF ReceiveSessionSetup
<1>2. spc = "setup" /\ UNCHANGED <<replies, rpc, sock, rround, rindex>>
  BY DEF ReceiveSessionSetup, receiverVars
<1>3. Active(m.conn.proc)
  BY DEF TurnsInv, RequestsAwaited, Active
<1>4. RequestsAwaited'
  BY <1>1, <1>2, <1>3 DEF TurnsInv, RequestsAwaited, Active
<1>5. LoopsFollowed'
  BY <1>2 DEF TurnsInv, LoopsFollowed, Followed, InRounds, SessionLeft, InQueryLoop,
              Current, AtLastPlace
<1> QED
  BY <1>2, <1>4, <1>5 DEF TurnsInv, OneAtATime, OneSocketEach, Active

\* The sender acknowledges, and is in the session from then on.
LEMMA TurnsAcknowledge ==
    ASSUME TypeOK, SetupInv, SessionHeld, TurnsInv, SendSessionAck PROVE TurnsInv'
<1>1. /\ spc = "ack" /\ (InRounds' \/ spc' = "exited") /\ spc' # "eval"
      /\ session' = session /\ owed' = None
      /\ UNCHANGED <<requests, rpc, sock, rround, rindex>>
  BY DEF SendSessionAck, RoundHead, InRounds, Respond, receiverVars
<1>2. /\ replies \subseteq replies'
      /\ \A m \in replies' : m \in replies \/ m.conn.proc = session
  BY <1>1, RespondEffect DEF SendSessionAck, SetupInv, SetupServed
<1>3. LoopsFollowed'
  <2>1. Followed(session)'
    BY <1>1 DEF Followed
  <2>2. \A p \in Receivers : SessionLeft(p) => SessionLeft(p)'
    BY <1>1, <1>2 DEF SessionLeft, Current, AtLastPlace
  <2> QED
    BY <1>1, <1>2, <2>1, <2>2 DEF TurnsInv, LoopsFollowed, Followed, InRounds, InQueryLoop
<1> QED
  BY <1>1, <1>3 DEF TurnsInv, OneAtATime, OneSocketEach, RequestsAwaited, Active

\* The query that is taken is one of the session.
LEMMA TurnsTake ==
    ASSUME TypeOK, Lockstep, SessionHeld, TurnsInv, ReceiveQuery PROVE TurnsInv'
<1>1. PICK m \in requests :
         m.kind = "query" /\ requests' = requests \ {m} /\ owed' = m.conn
  BY DEF ReceiveQuery
<1>2. /\ spc = "query" /\ spc' = "eval"
      /\ UNCHANGED <<replies, session, rpc, sock, rround, rindex>>
  BY DEF ReceiveQuery, receiverVars
<1>3. Active(m.conn.proc) /\ m.conn.proc = session
  BY <1>1, <1>2, TurnsNoStrangers DEF TurnsInv, RequestsAwaited, Active, NoStrangers
<1>4. RequestsAwaited'
  BY <1>1, <1>2, <1>3 DEF TurnsInv, RequestsAwaited, Active
<1>5. LoopsFollowed'
  BY <1>2 DEF TurnsInv, LoopsFollowed, Followed, InRounds, SessionLeft, InQueryLoop,
              Current, AtLastPlace
<1> QED
  BY <1>2, <1>4, <1>5 DEF TurnsInv, OneAtATime, OneSocketEach, Active

\* The sender leaves a session with a reply that tells the receiver so.
LEMMA TurnsPart ==
    ASSUME TypeOK, Lockstep, TurnsInv, NEW p \in Receivers, Active(p),
           \A m \in replies : m.conn.proc # p,
           NEW kind \in {"error", "result"}, NEW answer, Respond(Current(p), kind, answer),
           kind = "result" => AtLastPlace(p),
           requests' \subseteq requests, spc' # "eval",
           UNCHANGED <<rpc, sock, rround, rindex>>
    PROVE  TurnsInv'
<1> DEFINE last == [conn |-> Current(p), kind |-> kind, answer |-> answer]
<1>1. IsOpen(Current(p))
  BY DEF IsOpen, Current
<1>2. replies' = replies \cup {last} /\ owed' = None
  BY <1>1 DEF Respond
<1>3. replies = {}
  <2>1. \A m \in replies : m.conn.proc \in Receivers /\ Active(m.conn.proc)
    BY TurnsConnections DEF TurnsInv
  <2> QED
    BY <2>1 DEF TurnsInv, OneAtATime
<1>4. SessionLeft(p)'
  <2>1. /\ last \in replies' /\ last.conn = Current(p) /\ last.kind = kind
        /\ Current(p)' = Current(p) /\ AtLastPlace(p)' = AtLastPlace(p)
    BY <1>2 DEF Current, AtLastPlace
  <2> QED
    BY <2>1 DEF SessionLeft
<1>5. \A q \in Receivers : InQueryLoop(q)' => q = p
  BY DEF InQueryLoop, Active, TurnsInv, OneAtATime
<1>6. LoopsFollowed'
  BY <1>2, <1>3, <1>4, <1>5 DEF LoopsFollowed
<1> QED
  BY <1>2, <1>6 DEF TurnsInv, OneAtATime, OneSocketEach, RequestsAwaited, Active

\* The sender answers: the session goes on, or this was its last place.
LEMMA TurnsRespond ==
    ASSUME TypeOK, RepliesAreOwed, Lockstep, SessionHeld, AskInv, NotBehind, SkewInv,
           TurnsInv, SendResponse
    PROVE  TurnsInv'
<1>1. /\ UNCHANGED <<requests, rpc, rround, rindex, sock>>
      /\ spc = "eval" /\ spc' # "eval"
  BY RespondAdvances
<1>2. owed # None /\ owed.proc \in Receivers /\ owed = Current(owed.proc)
  BY <1>1, TurnsConnections DEF RepliesAreOwed, TurnsInv
<1>3. CASE LastIndex(qi) /\ LastRound
  <2>1. IsOpen(owed)
    BY <1>2 DEF IsOpen, TurnsInv, RequestsAwaited
  <2>2. owed.proc = session /\ rpc[owed.proc] = "wait"
    BY <1>1, <2>1, HearerWaits, TurnsNoStrangers
  <2>3. r = rround[owed.proc] /\ qi = rindex[owed.proc]
    BY <1>1, <1>2, <2>2, ServedInPlace DEF InQueryLoop, InRounds, TurnsInv, OneSocketEach
  <2>4. AtLastPlace(owed.proc)
    BY <1>3, <2>3 DEF AtLastPlace, LastRound
  <2>5. \A m \in replies : m.conn.proc # owed.proc
    BY <1>2, TurnsConnections DEF TurnsInv
  <2>6. \E answer : Respond(Current(owed.proc), "result", answer)
    BY <1>2 DEF SendResponse
  <2> QED
    BY <1>1, <1>2, <2>1, <2>4, <2>5, <2>6, TurnsPart DEF IsOpen
<1>4. CASE ~(LastIndex(qi) /\ LastRound)
  <2>1. session' = session /\ (InRounds' \/ spc' = "exited")
    BY <1>4 DEF SendResponse, AdvanceLoops, RoundHead, InRounds
  <2>2. \A p : Followed(p) => Followed(p)'
    BY <1>1, <2>1 DEF Followed
  <2>3. /\ owed' = None /\ replies \subseteq replies'
        /\ \A m \in replies' : m \in replies \/ m.kind # "ack"
    BY RespondEffect DEF SendResponse
  <2> QED
    BY <1>1, <2>2, <2>3, TurnsFrame
<1> QED
  BY <1>3, <1>4

\* A receiver starts when nobody else is running, and finds nothing on its way.
LEMMA TurnsStart ==
    ASSUME Sequential, TypeOK, Lockstep, TurnsInv, NEW p \in Receivers, Start(p)
    PROVE  TurnsInv'
<1> DEFINE setup == [conn |-> Current(p), kind |-> "setup", payload |-> None]
<1>1. /\ requests' = requests \cup {setup} /\ setup.conn.proc = p /\ setup.kind = "setup"
      /\ rpc' = [rpc EXCEPT ![p] = "ack"] /\ rpc[p] = "idle"
      /\ UNCHANGED <<replies, owed, spc, session, sock, rround, rindex>>
  BY DEF Start, Post, senderVars, Current
<1> HIDE DEF setup
<1>2. \A q \in Receivers : ~Active(q)
  BY DEF Start
<1>3. requests = {} /\ replies = {} /\ owed = None
  <2>1. \A m \in requests : Active(m.conn.proc)
    BY DEF TurnsInv, RequestsAwaited, Active
  <2> QED
    BY <1>2, <2>1, TurnsConnections DEF TurnsInv, RequestsAwaited
<1>4. rpc'[p] = "ack" /\ \A q \in Receivers \ {p} : rpc'[q] = rpc[q]
  BY <1>1 DEF TypeOK
<1>5. OneAtATime' /\ OneSocketEach'
  BY <1>1, <1>2, <1>4 DEF TurnsInv, OneAtATime, OneSocketEach, Active
<1>6. RequestsAwaited'
  BY <1>1, <1>3, <1>4 DEF TurnsInv, RequestsAwaited
<1>7. LoopsFollowed'
  BY <1>1, <1>2, <1>3, <1>4 DEF LoopsFollowed, InQueryLoop, Active
<1> QED
  BY <1>5, <1>6, <1>7 DEF TurnsInv

\* A receiver with nothing on its way but, perhaps, a reply it takes now moves on.
LEMMA TurnsMove ==
    ASSUME TypeOK, TurnsInv, NEW p \in Receivers, Active(p),
           \A q \in Receivers \ {p} : rpc'[q] = rpc[q],
           \A m \in requests : m.conn.proc # p,
           Active(p)' \/ owed = None \/ owed.proc # p,
           \A m \in replies' : m \in replies,
           InQueryLoop(p)' => Followed(p)' \/ SessionLeft(p)',
           \A m \in replies' : m.kind = "ack" => Followed(m.conn.proc)',
           owed # None => owed.proc \in Receivers,
           \A m \in requests : m.conn.proc \in Receivers,
           UNCHANGED <<requests, owed, sock>>,
           spc' = "eval" => UNCHANGED <<spc, session>>
    PROVE  TurnsInv'
<1>1. OneAtATime' /\ OneSocketEach'
  BY DEF TurnsInv, OneAtATime, OneSocketEach, Active
<1>2. RequestsAwaited'
  BY DEF TurnsInv, RequestsAwaited, Active
<1>3. \A q \in Receivers : InQueryLoop(q)' => q = p
  BY DEF TurnsInv, OneAtATime, InQueryLoop, Active
<1> QED
  BY <1>1, <1>2, <1>3 DEF TurnsInv, LoopsFollowed

\* Every step of receivers that take turns keeps their turns.
LEMMA TurnsStep ==
    ASSUME Patient
    PROVE  /\ TypeOK /\ RepliesAreOwed /\ Lockstep /\ SetupInv /\ SessionHeld /\ AskInv
           /\ NotBehind /\ SkewInv /\ TurnsInv /\ [Next]_vars
           => TurnsInv'
<1> SUFFICES ASSUME TypeOK, RepliesAreOwed, Lockstep, SetupInv, SessionHeld, AskInv,
                    NotBehind, SkewInv, TurnsInv, [Next]_vars
             PROVE  TurnsInv'
  OBVIOUS
<1> USE DEF senderVars, receiverVars, transportVars
<1>0. /\ \A m \in requests \cup replies :
            m.conn.proc \in Receivers /\ m.conn = Current(m.conn.proc)
      /\ owed # None => owed.proc \in Receivers /\ owed = Current(owed.proc)
  BY TurnsConnections DEF TurnsInv
<1>1. CASE PollIdle \/ Signal \/ Shutdown \/ LoseRequest \/ UNCHANGED vars
  BY <1>1, TurnsFrame
     DEF PollIdle, Signal, Shutdown, LoseRequest, vars, Followed, InRounds
<1>2. CASE EvaluateEmptyQuery
  BY <1>2, TurnsFrame DEF EvaluateEmptyQuery, Followed
<1>3. CASE RejectRequest
  <2>1. PICK m \in requests :
           requests' = requests \ {m} /\ Respond(m.conn, "error", None)
    BY <1>3 DEF RejectRequest
  <2>2. /\ m.conn.proc \in Receivers /\ m.conn = Current(m.conn.proc)
        /\ Active(m.conn.proc) /\ \A n \in replies : n.conn.proc # m.conn.proc
    BY <1>0, TurnsConnections DEF TurnsInv, RequestsAwaited, Active
  <2> QED
    BY <1>3, <2>1, <2>2, TurnsPart DEF RejectRequest, SessionOver
<1>4. ASSUME NEW p \in Receivers, NEW m \in replies, m.conn = Current(p)
      PROVE  /\ \A n \in requests : n.conn.proc # p
             /\ owed = None \/ owed.proc # p
             /\ \A n \in replies : n.conn = Current(p) => n = m
  BY <1>4, TurnsConnections DEF TurnsInv, Current
<1>5. ASSUME NEW p \in Receivers, Exit(p, "failed"), Active(p),
             \A n \in requests : n.conn.proc # p, owed = None \/ owed.proc # p,
             UNCHANGED <<requests, owed>>, spc' # "eval" \/ UNCHANGED <<spc, session>>
      PROVE  TurnsInv'
  <2>1. /\ \A q \in Receivers \ {p} : rpc'[q] = rpc[q]
        /\ rpc'[p] = "failed" /\ UNCHANGED sock
    BY <1>5 DEF Exit, TypeOK
  <2>2. replies' = {}
    <3>1. \A n \in replies : n.conn.proc = p
      BY <1>5, TurnsConnections DEF TurnsInv, OneAtATime
    <3> QED
      BY <1>5, <3>1 DEF Exit, RepliesWithout
  <2> QED
    BY <1>0, <1>5, <2>1, <2>2, TurnsMove DEF InQueryLoop
<1>6. ASSUME NEW p \in Receivers, RejectResponse(p) PROVE TurnsInv'
  BY <1>4, <1>5, <1>6 DEF RejectResponse, Active
<1>7. ASSUME NEW p \in Receivers, GCFails(p) PROVE TurnsInv'
  <2>1. rpc[p] = "gc" /\ owed = None /\ \A n \in requests : n.conn.proc # p
    BY <1>7 DEF GCFails, RepliesAreOwed, TurnsInv, RequestsAwaited
  <2> QED
    BY <1>5, <1>7, <2>1 DEF GCFails, Active, SessionOver
<1>8. ASSUME NEW p \in Receivers, ReceiveSessionAck(p) PROVE TurnsInv'
  <2>1. PICK m \in replies :
           /\ m.conn = Current(p)
           /\ \/ /\ m.kind = "ack" /\ rpc' = [rpc EXCEPT ![p] = "gc"]
                 /\ replies' = replies \ {m} /\ UNCHANGED sock
              \/ Exit(p, "failed")
    BY <1>8 DEF ReceiveSessionAck
  <2>2. /\ UNCHANGED <<requests, owed, spc, session>> /\ Active(p)
    BY <1>8 DEF ReceiveSessionAck, Active
  <2>3. CASE Exit(p, "failed")
    BY <1>4, <1>5, <2>1, <2>2, <2>3
  <2>4. CASE m.kind = "ack" /\ rpc' = [rpc EXCEPT ![p] = "gc"] /\ replies' = replies \ {m}
             /\ UNCHANGED sock
    <3>1. \A q : Followed(q) => Followed(q)'
      BY <2>2 DEF Followed, InRounds
    <3>2. Followed(p)
      BY <2>1, <2>4 DEF TurnsInv, LoopsFollowed, Current
    <3>3. rpc'[p] = "gc" /\ \A q \in Receivers \ {p} : rpc'[q] = rpc[q]
      BY <2>4 DEF TypeOK
    <3>4. \A n \in replies' : n.kind = "ack" => Followed(n.conn.proc)'
      BY <2>4, <3>1 DEF TurnsInv, LoopsFollowed
    <3> QED
      BY <1>0, <1>4, <2>1, <2>2, <2>4, <3>1, <3>2, <3>3, <3>4, TurnsMove DEF Active
  <2> QED
    BY <2>1, <2>3, <2>4
<1>9. ASSUME NEW p \in Receivers, SendQuery(p) PROVE TurnsInv'
  <2> DEFINE query == [conn |-> Current(p), kind |-> "query", payload |-> ToSend(p)]
  <2>1. /\ requests' = requests \cup {query} /\ query.conn.proc = p /\ query.kind = "query"
        /\ rpc[p] = "send" /\ rpc' = [rpc EXCEPT ![p] = "wait"]
        /\ UNCHANGED <<replies, owed, spc, session, sock, rround, rindex>>
    BY <1>9 DEF SendQuery, Post, Current
  <2> HIDE DEF query
  <2>2. rpc'[p] = "wait" /\ \A q \in Receivers \ {p} : rpc'[q] = rpc[q]
    BY <2>1 DEF TypeOK
  <2>3. \A q \in Receivers : Active(q)' <=> Active(q)
    BY <2>1, <2>2 DEF Active
  <2>4. \A m \in requests : m.conn.proc # p
    BY <2>1 DEF TurnsInv, RequestsAwaited
  <2>5. RequestsAwaited'
    BY <1>0, <2>1, <2>2, <2>3, <2>4 DEF TurnsInv, RequestsAwaited
  <2>6. LoopsFollowed'
    <3>1. \A q \in Receivers : InQueryLoop(q)' => InQueryLoop(q)
      BY <2>1, <2>2 DEF InQueryLoop
    <3> QED
      BY <2>1, <3>1 DEF TurnsInv, LoopsFollowed, Followed, InRounds, SessionLeft, Current,
                        AtLastPlace
  <2> QED
    BY <2>1, <2>3, <2>5, <2>6 DEF TurnsInv, OneAtATime, OneSocketEach
<1>10. ASSUME NEW p \in Receivers, ReceiveResponse(p) PROVE TurnsInv'
  <2>1. PICK m \in replies :
           m.conn = Current(p) /\ m.kind = "result" /\ replies' = replies \ {m}
    BY <1>10 DEF ReceiveResponse
  <2>2. /\ rpc[p] = "wait" /\ UNCHANGED <<requests, owed, spc, session, sock>>
        /\ rpc'[p] = "done" <=> AtLastPlace(p)
        /\ \A q \in Receivers \ {p} : rpc'[q] = rpc[q]
    BY <1>10, AcceptAdvances DEF AtLastPlace
  <2>3. \A q : Followed(q) => Followed(q)'
    BY <2>2 DEF Followed, InRounds
  <2>4. InQueryLoop(p)' => Followed(p)
    BY <1>4, <2>1, <2>2 DEF TurnsInv, LoopsFollowed, SessionLeft, InQueryLoop
  <2>5. \A n \in replies' : n.kind = "ack" => Followed(n.conn.proc)'
    BY <2>1, <2>3 DEF TurnsInv, LoopsFollowed
  <2>6. Active(p)
    BY <2>2 DEF Active
  <2> QED
    BY <1>0, <1>4, <2>1, <2>2, <2>3, <2>4, <2>5, <2>6, TurnsMove
<1>11. ASSUME NEW p \in Receivers, RunGC(p) PROVE TurnsInv'
  <2>1. /\ spc = "gc" /\ spc' \in {"exited", "query"} /\ rpc[p] = "gc" /\ rpc'[p] = "send"
        /\ \A q \in Receivers \ {p} : rpc'[q] = rpc[q]
        /\ UNCHANGED <<requests, replies, owed, session, sock, rround, rindex>>
    BY <1>11 DEF RunGC, TypeOK
  <2>2. \A q : Followed(q) => Followed(q)'
    BY <2>1 DEF Followed, InRounds
  <2>3. \A n \in requests : n.conn.proc # p
    BY <2>1 DEF TurnsInv, RequestsAwaited
  <2>4. InQueryLoop(p) /\ Active(p) /\ Active(p)'
    BY <2>1 DEF InQueryLoop, Active
  <2>5. SessionLeft(p) => SessionLeft(p)'
    BY <2>1 DEF SessionLeft, Current, AtLastPlace
  <2>6. \A n \in replies' : n.kind = "ack" => Followed(n.conn.proc)'
    BY <2>1, <2>2 DEF TurnsInv, LoopsFollowed
  <2>7. Followed(p)' \/ SessionLeft(p)'
    BY <2>2, <2>4, <2>5 DEF TurnsInv, LoopsFollowed
  <2> QED
    BY <1>0, <2>1, <2>3, <2>4, <2>6, <2>7, TurnsMove
<1>12. ASSUME NEW p \in Receivers, Retry(p) \/ GiveUp(p) \/ Kill(p) PROVE FALSE
  BY <1>12 DEF Retry, GiveUp, Kill, Patient
<1> QED
  BY <1>1, <1>2, <1>3, <1>6, <1>7, <1>8, <1>9, <1>10, <1>11, <1>12, TurnsReceive,
     TurnsAcknowledge, TurnsTake, TurnsRespond, TurnsStart
     DEF Next, SenderStep, ReceiverStep, Patient

----------------------------------------------------------------------------
(* The invariants together.                                                 *)

\* What holds under every fault and with any number of receivers.
Foundation ==
    /\ TypeOK /\ RepliesAreOwed /\ Lockstep /\ SetupInv /\ OwnInv /\ NotBehind
    /\ PrefixInv /\ SessionHeld /\ AskInv

\* What holds of the two kinds of use.
InPlace == SkewInv /\ CacheInv /\ LaterInv /\ PlaceInv

AnswersInv == Foundation /\ InPlace /\ (Patient => TurnsInv)

\* At first everything is silent.
LEMMA AnswersInit == Init => AnswersInv
<1> SUFFICES ASSUME Init PROVE AnswersInv
  OBVIOUS
<1>1. TypeOK /\ RepliesAreOwed /\ Lockstep /\ SetupInv
  BY TypeInit, LockstepInit, SetupInit DEF Init, RepliesAreOwed
<1>2. OwnInv /\ NotBehind
  BY DEF Init, OwnInv, RequestsAreOwn, ServedIsOwn, ResultsAreOwn, OwnQueryAnswered,
         Answered, NotBehind, InRounds
<1>3. PrefixInv
  BY PrefixInit
<1>4. SessionHeld /\ AskInv
  BY DEF Init, SessionHeld, AskInv, AskedInLoop, SetupFirst, NeverAsked
<1>5. SkewInv
  BY FS_EmptySet, NoneIsNoValue DEF Init, SkewInv
<1>6. CacheInv /\ LaterInv /\ PlaceInv
  BY DEF Init, CacheInv, LaterInv, PlaceInv, NeverAnEarlierRound, CachedOwn,
         ResultsInPlace, OnlyRetriesMisplace, Answered, InRounds
<1>7. TurnsInv
  BY DEF Init, TurnsInv, OneAtATime, OneSocketEach, RequestsAwaited, LoopsFollowed,
         Active, InQueryLoop
<1> QED
  BY <1>1, <1>2, <1>3, <1>4, <1>5, <1>6, <1>7 DEF AnswersInv, Foundation, InPlace

\* In both kinds of use nobody else's query reaches a session, neither now
\* nor after a step.
LEMMA AnswersNoStrangers ==
    ASSUME Alone \/ Patient
    PROVE  /\ Foundation /\ (Patient => TurnsInv) => NoStrangers
           /\ (Foundation /\ (Patient => TurnsInv))' => NoStrangers'
<1>1. Foundation /\ (Patient => TurnsInv) => NoStrangers
  BY AloneNoStrangers, TurnsNoStrangers DEF Foundation
<1>2. (Foundation /\ (Patient => TurnsInv))' => NoStrangers'
  BY <1>1, PTL
<1> QED
  BY <1>1, <1>2

\* Every step keeps all of the invariants.
LEMMA AnswersStep ==
    ASSUME Alone \/ Patient PROVE AnswersInv /\ [Next]_vars => AnswersInv'
<1> SUFFICES ASSUME AnswersInv, [Next]_vars PROVE AnswersInv'
  OBVIOUS
<1>1. Foundation'
  BY TypeStep, LockstepStep, SetupStep, OwnStep, BehindStep, PrefixStep, HeldStep, AskStep
     DEF AnswersInv, Foundation
<1>2. (Patient => TurnsInv)'
  BY TurnsStep DEF AnswersInv, Foundation, InPlace, Patient
<1>3. NoStrangers /\ NoStrangers'
  BY <1>1, <1>2, AnswersNoStrangers DEF AnswersInv
<1>4. InPlace'
  BY <1>3, SkewStep, CacheStep, LaterStep, PlaceStep DEF AnswersInv, Foundation, InPlace
<1> QED
  BY <1>1, <1>2, <1>4 DEF AnswersInv

\* The invariants hold in every state the two kinds of use reach.
LEMMA AnswersInvariant ==
    ASSUME Alone \/ Patient PROVE Spec => [](AnswersInv /\ NoStrangers)
<1>1. AnswersInv => NoStrangers
  BY AnswersNoStrangers DEF AnswersInv
<1> QED
  BY <1>1, AnswersInit, AnswersStep, PTL DEF Spec

----------------------------------------------------------------------------
(* What follows for one receiver, or several in turn.                       *)

\* Every retry moves the sender one place ahead of its receiver at most: the
\* query is sent again, and answered again (receiver.cc:208-221).
THEOREM SkewAlwaysBounded ==
    ASSUME Alone \/ Patient PROVE Spec => []SkewIsBounded
<1>1. AnswersInv => SkewIsBounded
  <2> SUFFICES ASSUME AnswersInv, NEW p \in Receivers, session = p, InQueryLoop(p)
               PROVE  Position(r, qi) <= Position(rround[p], rindex[p]) + sock[p] + 1
    BY DEF SkewIsBounded
  <2> USE DEF AnswersInv, Foundation, InPlace
  <2>1. spc # "ack" /\ Active(p)
    BY DEF SetupInv, SetupServed, InQueryLoop, Active
  <2>2. Position(r, qi) + Backlog
          <= Position(rround[p], rindex[p]) + sock[p] + Waiting(p)
    BY <2>1 DEF SkewInv
  <2> QED
    BY <2>2, SkewTypes DEF SkewInv, Backlog
<1> QED
  BY <1>1, AnswersInvariant, PTL

\* An answer that is not of its place is of a later one: the sender never
\* falls back to the coefficients of an earlier round.
THEOREM NeverEarlier ==
    ASSUME Alone \/ Patient PROVE Spec => []NeverAnEarlierRound
<1>1. AnswersInv => NeverAnEarlierRound
  BY DEF AnswersInv, InPlace, LaterInv
<1> QED
  BY <1>1, AnswersInvariant, PTL

\* The empty vector of a trigger is never evaluated: the query of its index
\* is in the cache (sender.cc:462-466).
THEOREM NeverEmpty ==
    ASSUME Alone \/ Patient PROVE Spec => []NeverEvaluatesEmptyQuery
<1>1. AnswersInv => NeverEvaluatesEmptyQuery
  BY CacheImplies DEF AnswersInv, Foundation, InPlace
<1> QED
  BY <1>1, AnswersInvariant, PTL

\* A receiver that has not retried has the right answers, whatever else goes
\* wrong: losses, kills, failed circuits, garbled messages, a signal.
THEOREM RetriesAloneMisplace ==
    ASSUME Alone \/ Patient PROVE Spec => []OnlyRetriesMisplace
<1>1. AnswersInv => OnlyRetriesMisplace
  BY DEF AnswersInv, InPlace, PlaceInv
<1> QED
  BY <1>1, AnswersInvariant, PTL

\* Without timeouts nobody opens a second socket.
LEMMA SocketsStay ==
    ASSUME "timeout" \notin Faults PROVE Spec => []OneSocketEach
<1>1. Init => OneSocketEach
  BY DEF Init, OneSocketEach
<1>2. OneSocketEach /\ [Next]_vars => OneSocketEach'
  <2> SUFFICES ASSUME OneSocketEach, [Next]_vars PROVE OneSocketEach'
    OBVIOUS
  <2>1. sock' = sock
    <3>1. CASE SenderStep \/ Signal \/ LoseRequest \/ UNCHANGED vars
      BY <3>1 DEF SenderStep, ReceiveSessionSetup, PollIdle, SendSessionAck, ReceiveQuery,
         RejectRequest, SendResponse, EvaluateEmptyQuery, Shutdown, Signal, LoseRequest,
         vars, receiverVars
    <3>2. ASSUME NEW p \in Receivers,
                 ReceiverStep(p) \/ RunGC(p) \/ GCFails(p) \/ Start(p) \/ Kill(p)
          PROVE  sock' = sock
      BY <3>2 DEF ReceiverStep, ReceiveSessionAck, SendQuery, ReceiveResponse,
         RejectResponse, Retry, GiveUp, RunGC, GCFails, Start, Kill, Exit
    <3> QED
      BY <3>1, <3>2 DEF Next
  <2> QED
    BY <2>1 DEF OneSocketEach
<1> QED
  BY <1>1, <1>2, PTL DEF Spec

\* Without timeouts every answer is the evaluation of the receiver's own query
\* with the coefficients of the round it is filed under.
THEOREM AlwaysCorrect ==
    ASSUME "timeout" \notin Faults, Alone \/ Patient PROVE Spec => []AnswersCorrect
<1>1. OnlyRetriesMisplace /\ OneSocketEach => AnswersCorrect
  BY DEF OnlyRetriesMisplace, OneSocketEach, AnswersCorrect
<1> QED
  BY <1>1, RetriesAloneMisplace, SocketsStay, PTL

\* While receivers take turns and every message parses, a sender that waits
\* for a SESSION_SETUP can receive one: it has swallowed no other request.
THEOREM AlwaysCanReceive ==
    ASSUME Patient, "corrupt" \notin Faults PROVE Spec => []AcceptLoopCanReceive
<1>1. Init => AcceptLoopCanReceive
  BY DEF Init, AcceptLoopCanReceive
<1>2. AnswersInv /\ AcceptLoopCanReceive /\ [Next]_vars => AcceptLoopCanReceive'
  <2> SUFFICES ASSUME AnswersInv, AcceptLoopCanReceive, [Next]_vars
               PROVE  AcceptLoopCanReceive'
    OBVIOUS
  <2> USE DEF AcceptLoopCanReceive, senderVars, transportVars
  <2>1. TypeOK /\ RepliesAreOwed /\ Lockstep /\ TurnsInv
    BY DEF AnswersInv, Foundation
  <2>2. CASE ReceiveSessionSetup
    <3>1. ASSUME NEW m \in requests, spc = "setup" PROVE m.kind = "setup"
      <4> SUFFICES ASSUME m.kind # "setup" PROVE FALSE
        OBVIOUS
      <4>1. m.conn.proc \in Receivers /\ InQueryLoop(m.conn.proc)
        BY <2>1, TurnsConnections DEF TurnsInv, RequestsAwaited, InQueryLoop
      <4>2. ~SessionLeft(m.conn.proc)
        BY <2>1, TurnsConnections DEF TurnsInv, SessionLeft, Current
      <4> QED
        BY <2>1, <3>1, <4>1, <4>2 DEF TurnsInv, LoopsFollowed, Followed, InRounds
    <3> QED
      BY <2>2, <3>1 DEF ReceiveSessionSetup
  <2>3. CASE PollIdle \/ Signal \/ Shutdown \/ LoseRequest \/ UNCHANGED vars
    BY <2>3 DEF PollIdle, Signal, Shutdown, LoseRequest, vars
  <2>4. CASE SendSessionAck \/ RejectRequest \/ SendResponse
    BY <2>4, RespondEffect DEF SendSessionAck, RejectRequest, SendResponse
  <2>5. CASE ReceiveQuery \/ EvaluateEmptyQuery
    BY <2>5 DEF ReceiveQuery, EvaluateEmptyQuery
  <2>6. ASSUME NEW p \in Receivers, RunGC(p) \/ GCFails(p) PROVE AcceptLoopCanReceive'
    BY <2>1, <2>6 DEF RunGC, GCFails, RepliesAreOwed
  <2>7. ASSUME NEW p \in Receivers, ReceiverStep(p) \/ Start(p) \/ Kill(p)
        PROVE  AcceptLoopCanReceive'
    BY <2>7 DEF ReceiverStep, ReceiveSessionAck, SendQuery, ReceiveResponse,
                RejectResponse, Retry, GiveUp, Start, Kill
  <2> QED
    BY <2>2, <2>3, <2>4, <2>5, <2>6, <2>7 DEF Next, SenderStep
<1> QED
  BY <1>1, <1>2, AnswersInvariant, PTL DEF Spec

----------------------------------------------------------------------------
(* The session implements the service that QueryService promises.           *)

\* How a receiver's status follows its program counter.
StatusOf(pc) ==
    CASE pc = "idle" -> "out"
      [] pc \in {"ack", "gc", "send", "wait"} -> "in"
      [] pc = "done" -> "served"
      [] OTHER -> "broken"

\* The status changes with the program counter of one receiver.
LEMMA StatusMoves ==
    ASSUME TypeOK, NEW p \in Receivers, NEW pc, rpc' = [rpc EXCEPT ![p] = pc]
    PROVE  /\ Status' = [Status EXCEPT ![p] = StatusOf(pc)]
           /\ Status[p] = StatusOf(rpc[p])
           /\ StatusOf(pc) = StatusOf(rpc[p]) => Status' = Status
BY DEF Status, StatusOf, TypeOK

\* A receiver that leaves breaks its session off.
LEMMA ExitBreaks ==
    ASSUME TypeOK, NEW p \in Receivers, Active(p),
           NEW how \in {"failed", "killed"}, Exit(p, how)
    PROVE  QS!Break(p)
<1>1. StatusOf(how) = "broken" /\ StatusOf(rpc[p]) = "in"
  BY DEF StatusOf, Active
<1> QED
  BY <1>1, StatusMoves DEF Exit, QS!Break

\* An accepted response is the next answer of the session, and the right one.
LEMMA AcceptAnswers ==
    ASSUME AnswersInv, AnswersInv', OneSocketEach, NEW p \in Receivers, ReceiveResponse(p)
    PROVE  QS!Answer(p)
<1> DEFINE x == <<rround[p], rindex[p]>>
<1>0. TypeOK /\ TypeOK' /\ AnswersFormAPrefix /\ AnswersFormAPrefix' /\ ResultsInPlace
  BY DEF AnswersInv, Foundation, InPlace, PrefixInv, PlaceInv
<1>1. PICK m \in replies :
         /\ m.conn = Current(p) /\ m.kind = "result"
         /\ answers' = [answers EXCEPT ![p][x] = m.answer]
  BY DEF ReceiveResponse
<1>2. m.answer = [query |-> <<p, x[2]>>, round |-> x[1]]
  BY <1>0, <1>1 DEF ResultsInPlace, Current, Own, OneSocketEach
<1>3. rpc[p] = "wait" /\ rpc'[p] \in {"gc", "send", "done"}
  BY <1>0, AcceptAdvances
<1>4. x \in QS!Places /\ QS!Places = Rounds \X Indices
  BY <1>0 DEF TypeOK, QS!Places, Rounds, Indices
<1>5. Position(rround[p], rindex[p]) \in Nat
  BY <1>0, PositionType DEF TypeOK
<1>6. answers[p][x] = None
  BY <1>0, <1>3, <1>4, <1>5 DEF AnswersFormAPrefix, Answered
<1>7. ASSUME NEW y \in QS!Places, QS!Before(y, x) PROVE answers[p][y] # None
  <2>1. /\ y[1] \in Rounds /\ y[2] \in Indices /\ x[1] \in Rounds /\ x[2] \in Indices
    BY <1>4
  <2>2. Position(y[1], y[2]) < Position(x[1], x[2])
    <3>1. CASE y[1] < x[1]
      BY <2>1, <3>1, PositionOrder
    <3>2. CASE y[1] = x[1] /\ y[2] < x[2]
      <4>1. x[1] * NrofQueries \in Nat /\ y[2] \in Nat /\ x[2] \in Nat
        BY <2>1, ConstantTypes DEF Rounds, Indices
      <4> QED
        BY <3>2, <4>1 DEF Position
    <3> QED
      BY <1>7, <3>1, <3>2 DEF QS!Before
  <2> QED
    BY <1>0, <1>4, <2>2 DEF AnswersFormAPrefix, Answered
<1>8. (\A y \in QS!Places : answers'[p][y] # None) <=> rpc'[p] = "done"
  <2>1. rpc'[p] = "done" => \A y \in QS!Places : answers'[p][y] # None
    BY <1>0, <1>4 DEF AnswersFormAPrefix, Answered
  <2>2. <<rround'[p], rindex'[p]>> \in Rounds \X Indices
    BY <1>0 DEF TypeOK
  <2>3. Position(rround'[p], rindex'[p]) \in Nat
    BY <2>2, PositionType
  <2>4. rpc'[p] # "done" => answers'[p][<<rround'[p], rindex'[p]>>] = None
    BY <1>0, <2>2, <2>3 DEF AnswersFormAPrefix, Answered, Position
  <2> QED
    BY <1>4, <2>1, <2>2, <2>4
<1>9. /\ Status[p] = "in"
      /\ Status' = [Status EXCEPT ![p] =
           IF \A y \in QS!Places : answers'[p][y] # None THEN "served" ELSE "in"]
  <2>1. rpc' = [rpc EXCEPT ![p] = rpc'[p]]
    BY <1>0 DEF ReceiveResponse, NextQuery, TypeOK
  <2>2. /\ StatusOf(rpc[p]) = "in"
        /\ StatusOf(rpc'[p]) = IF rpc'[p] = "done" THEN "served" ELSE "in"
    BY <1>3 DEF StatusOf
  <2> QED
    BY <1>0, <1>8, <2>1, <2>2, StatusMoves
<1> QED
  BY <1>1, <1>2, <1>4, <1>6, <1>7, <1>9 DEF QS!Answer

\* Every step of a session is a step of the service, or none.
LEMMA ServiceStep ==
    ASSUME "timeout" \notin Faults, Alone \/ Patient
    PROVE  AnswersInv /\ AnswersInv' /\ OneSocketEach /\ [Next]_vars => [QS!Next]_QS!vars
<1> SUFFICES ASSUME AnswersInv, AnswersInv', OneSocketEach, [Next]_vars
             PROVE  [QS!Next]_QS!vars
  OBVIOUS
<1>0. TypeOK
  BY DEF AnswersInv, Foundation
<1>1. UNCHANGED <<rpc, answers>> => UNCHANGED QS!vars
  BY DEF QS!vars, Status
<1>2. CASE SenderStep \/ Signal \/ LoseRequest \/ UNCHANGED vars
  BY <1>1, <1>2 DEF SenderStep, ReceiveSessionSetup, PollIdle, SendSessionAck,
     ReceiveQuery, RejectRequest, SendResponse, EvaluateEmptyQuery, Shutdown, Signal,
     LoseRequest, vars, receiverVars
<1>3. ASSUME NEW p \in Receivers, Start(p) PROVE QS!Open(p)
  <2>1. rpc[p] = "idle" /\ rpc' = [rpc EXCEPT ![p] = "ack"] /\ answers' = answers
    BY <1>3 DEF Start
  <2>2. \A q \in Receivers : ~Active(q)
    BY <1>3, <2>1 DEF Start, Active, Alone, Patient
  <2>3. \A q \in Receivers : Status[q] # "in"
    BY <2>2 DEF Status, Active
  <2>4. StatusOf("ack") = "in" /\ StatusOf("idle") = "out"
    BY DEF StatusOf
  <2>5. Status' = [Status EXCEPT ![p] = "in"] /\ Status[p] = "out"
    BY <1>0, <2>1, <2>4, StatusMoves, ZenonT(30)
  <2> QED
    BY <2>1, <2>3, <2>5 DEF QS!Open
<1>4. ASSUME NEW p \in Receivers, NEW pc \in {"gc", "send", "wait"}, Active(p),
             rpc' = [rpc EXCEPT ![p] = pc], answers' = answers
      PROVE  UNCHANGED QS!vars
  <2>1. StatusOf(pc) = StatusOf(rpc[p])
    BY <1>4 DEF StatusOf, Active
  <2> QED
    BY <1>0, <1>4, <2>1, StatusMoves DEF QS!vars
<1>5. ASSUME NEW p \in Receivers, SendQuery(p) \/ RunGC(p) PROVE UNCHANGED QS!vars
  BY <1>4, <1>5 DEF SendQuery, RunGC, Active
<1>6. ASSUME NEW p \in Receivers,
             RejectResponse(p) \/ GCFails(p) \/ GiveUp(p) \/ Kill(p)
      PROVE  QS!Break(p)
  BY <1>0, <1>6, ExitBreaks DEF RejectResponse, GCFails, GiveUp, Kill, Active
<1>7. ASSUME NEW p \in Receivers, ReceiveSessionAck(p)
      PROVE  QS!Break(p) \/ UNCHANGED QS!vars
  <2>1. Active(p)
    BY <1>7 DEF ReceiveSessionAck, Active
  <2> QED
    BY <1>0, <1>4, <1>7, <2>1, ExitBreaks DEF ReceiveSessionAck
<1>8. ASSUME NEW p \in Receivers, Retry(p) PROVE FALSE
  BY <1>8 DEF Retry
<1> QED
  BY <1>2, <1>3, <1>5, <1>6, <1>7, <1>8, AcceptAnswers DEF Next, ReceiverStep, QS!Next

\* Without timeouts the session protocol, with its messages, sockets, counters
\* and cache, implements the service: one receiver at a time, and to each its
\* own answers, in order, up to the end or to where the session breaks off.
THEOREM SessionImplementsService ==
    ASSUME "timeout" \notin Faults, Alone \/ Patient
    PROVE  Spec => ImplementsQueryService
<1>1. Init => QS!Init
  BY DEF Init, QS!Init, QS!Places, Status, Rounds, Indices
<1>2. Spec => [](AnswersInv /\ OneSocketEach)
  BY AnswersInvariant, SocketsStay, PTL
<1> QED
  BY <1>1, <1>2, ServiceStep, PTL DEF Spec, QS!Spec, ImplementsQueryService
============================================================================
