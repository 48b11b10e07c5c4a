\* A repeated query reaches the accept loop, which never replies to it.
CONSTANTS
    None = None
    p1 = p1
    Receivers = {p1}
    Modes = {"CSTPSI", "STLPSI"}
    NrofRounds = 2
    NrofQueries = 2
    MaxRetries = 3
    MaxSockets = 3
    Faults = {"timeout"}
    Sequential = TRUE
SPECIFICATION Spec
INVARIANT AcceptLoopCanReceive
CHECK_DEADLOCK FALSE
