\* One receiver whose requests may be late, lost or garbled, and who retries.
CONSTANTS
    None = None
    p1 = p1
    Receivers = {p1}
    Modes = {"CSTPSI", "STLPSI"}
    NrofRounds = 2
    NrofQueries = 2
    MaxRetries = 2
    MaxSockets = 5
    Faults = {"timeout", "loss", "corrupt", "gc"}
    Sequential = TRUE
SPECIFICATION FairSpec
INVARIANTS
    OnlyRetriesMisplace
    SkewIsBounded
    NeverAnEarlierRound
    NeverEvaluatesEmptyQuery
PROPERTIES
    EveryReceiverEnds
CHECK_DEADLOCK FALSE
