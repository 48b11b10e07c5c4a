\* The documented use: receivers one after the other, nothing fails.
CONSTANTS
    None = None
    p1 = p1
    p2 = p2
    Receivers = {p1, p2}
    Modes = {"CSTPSI", "STLPSI"}
    NrofRounds = 3
    NrofQueries = 2
    MaxRetries = 3
    MaxSockets = 1
    Faults = {}
    Sequential = TRUE
SPECIFICATION FairSpec
INVARIANTS
    TypeOK
    AnswersCorrect
    AcceptLoopCanReceive
PROPERTIES
    ImplementsQueryService
    EveryReceiverServed
