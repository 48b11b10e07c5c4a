\* Two receivers at once and every fault.
CONSTANTS
    None = None
    p1 = p1
    p2 = p2
    Receivers = {p1, p2}
    Modes = {"CSTPSI", "STLPSI"}
    NrofRounds = 2
    NrofQueries = 2
    MaxRetries = 2
    MaxSockets = 2
    Faults = {"timeout", "kill", "loss", "gc", "corrupt", "stop"}
    Sequential = FALSE
SYMMETRY ReceiverSymmetry
SPECIFICATION Spec
INVARIANTS
    TypeOK
    OwnQueryAnswered
    RepliesAreOwed
    AnswersFormAPrefix
    SenderNeverBehind
CHECK_DEADLOCK FALSE
