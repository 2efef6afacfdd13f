\* Two requests meet in a chat that may be deleted, with a failing database and crashes.
CONSTANTS
    r1 = r1
    r2 = r2
    f1 = f1
    f2 = f2
    Requests <- TwoRequests
    Flagged = {}
    Files <- OneFile
    MaxToolRounds = 2
    MaxCalls = 1
    Faults = {"database", "crash"}
SPECIFICATION Spec
INVARIANTS
    TypeOK
    AccountingAgrees
    GroundedReads
    AnswersAreRemembered
PROPERTIES
    LifecycleSpec
CHECK_DEADLOCK FALSE
