\* Two requests: the current message of one is not the last of its history.
CONSTANTS
    r1 = r1
    r2 = r2
    f1 = f1
    f2 = f2
    Requests <- TwoRequests
    Flagged = {}
    Files <- OneFile
    MaxToolRounds = 1
    MaxCalls = 1
    Faults = {}
SPECIFICATION Spec
INVARIANTS
    CurrentMessageOnce
CHECK_DEADLOCK FALSE
