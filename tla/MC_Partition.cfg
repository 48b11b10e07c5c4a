\* Two threads, every map from seven ids to four vectors.
CONSTANTS
    Ids <- MCIds
    Positions <- MCPositions
    Vectors <- MCVectors
    Order <- MCOrder
    PartitionSize = 2
    NrofSplits = 2
SPECIFICATION SearchSpec
INVARIANTS
    TypeOK
    PositionsDistinct
    PartitionsFit
    PlacedExactlyOnce
    FewPartlyFilled
    NoSearchIsStuck
PROPERTIES
    ImplementsPartition
    SearchesEnd
