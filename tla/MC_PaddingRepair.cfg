\* MAX_SUB as the parameter loader leaves it, with the modulus of params.cc.
CONSTANTS
    FIELD_MODULUS = 7
    MaxSubs <- MCLoaderOnly
    Blinded <- MCBlinded
    inN = 2
    partition_size = 3
SPECIFICATION Spec
INVARIANT PointsDistinct
CHECK_DEADLOCK FALSE
