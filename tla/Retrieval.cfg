SPECIFICATION Spec
CONSTANTS
    Files <- MCFiles
    MaxLex = 2
    MaxSem = 1
    Dims <- MCDims
    QueryDim = 1
    Unit = 2
    FtsLimit = 2
    Limits <- MCLimits
    MaxCommits = 1
INVARIANTS
    TypeOK
    DominanceRespected
    AheadIsListedFirst
