\* Shapes that divide and shapes that do not, up to nine partitions.
CONSTANTS
    Shapes <- MCShapes
    MaxPartitions = 9
    Dummy = Dummy
SPECIFICATION Spec
INVARIANTS
    TypeOK
    RowsAreThePartitions
    OverrunsOnlyUnaligned
PROPERTIES
    NoSlotIsOverwritten
CHECK_DEADLOCK FALSE
