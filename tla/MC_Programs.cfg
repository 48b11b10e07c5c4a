CONSTANTS
    inN = 3
    BadLine = BadLine
    BadItems <- MCBadItems
    BadLabel = BadLabel
    TokenCoefs = {2, 3}
    LabelCoefs = {2}
    Configs <- MCConfigs
    partition_size = 3
    DefaultModulus = 13
    PlainModulus = 7
    Keys <- MCKeys
    Databases <- MCDatabases
    Files <- MCFiles
    QueryFiles <- MCQueryFiles
    Probes <- MCProbes
    NrofQueries = 2
    TokensElsewhere = {6}
    IdsElsewhere = {3}
    PackCost = 2
    GcCost = 3
    PowersCost = 2
    HomCost = 4
    DecryptCost = 1
SPECIFICATION Spec
INVARIANTS
    TypeOK
    ShareMapsAgree
    ExactButForCoincidence
    OnlyTheBenchDisplaces
    DeathsHaveCauses
    InversesAreCurrent
    RecordsAreOfTheirQuery
    WallIsTheWork
PROPERTY ImplementsThePromise
