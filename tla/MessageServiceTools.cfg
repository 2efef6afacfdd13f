\* One request and every conversation of up to three rounds of up to two calls.
CONSTANTS
    r1 = r1
    r2 = r2
    f1 = f1
    f2 = f2
    Requests <- OneRequest
    Flagged = {}
    Files <- TwoFiles
    MaxToolRounds = 3
    MaxCalls = 2
    Faults = {}
SPECIFICATION FairSpec
INVARIANTS
    VerdictIsTold
    AccountingAgrees
    GroundedReads
PROPERTIES
    PostIsBounded
    EveryPostIsRepliedTo
    VerdictArrives
CHECK_DEADLOCK FALSE
