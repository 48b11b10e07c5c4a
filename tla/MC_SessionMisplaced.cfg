\* The retry of a query that was only slow: its answers are not the receiver's.
CONSTANTS
    None = None
    p1 = p1
    Receivers = {p1}
    Modes = {"CSTPSI", "STLPSI"}
    NrofRounds = 2
    NrofQueries = 2
    MaxRetries = 3
    MaxSockets = 3
    Faults = {"timeout"}
    Sequential = TRUE
SPECIFICATION Spec
INVARIANT AnswersCorrect
CHECK_DEADLOCK FALSE
