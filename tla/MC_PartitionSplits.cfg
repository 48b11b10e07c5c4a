\* More threads than enrolled ids.
CONSTANTS
    Ids <- MCFewIds
    Positions <- MCPositions
    Vectors <- MCVectors
    Order <- MCOrder
    PartitionSize = 2
    NrofSplits = 4
SPECIFICATION SearchSpec
INVARIANT PlacedExactlyOnce
