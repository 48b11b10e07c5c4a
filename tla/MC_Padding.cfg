\* Up to three ids in three rows, two positions.
CONSTANTS
    FIELD_MODULUS = 7
    MaxSubs <- MCMaxSubs
    Blinded <- MCBlinded
    inN = 2
    partition_size = 3
SPECIFICATION Spec
INVARIANTS
    TypeOK
    RealsUntouched
    DuplicatesAreRepairs
    DistinctAboveTheData
CHECK_DEADLOCK FALSE
