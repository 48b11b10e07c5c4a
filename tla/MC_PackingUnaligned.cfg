\* A documented shape: N = 96, m = 2048.
CONSTANTS
    Shapes <- MCShape96
    MaxPartitions = 22
    Dummy = Dummy
SPECIFICATION Spec
INVARIANT NeverOverruns
CHECK_DEADLOCK FALSE
