\* A message the input guard rejected, then another message.
CONSTANTS
    r1 = r1
    r2 = r2
    f1 = f1
    f2 = f2
    Requests <- TwoRequests
    Flagged = {r1}
    Files <- OneFile
    MaxToolRounds = 1
    MaxCalls = 1
    Faults = {}
SPECIFICATION Spec
INVARIANTS
    RejectedIsNeverSent
CHECK_DEADLOCK FALSE
