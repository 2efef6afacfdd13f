\* Two requests emit the chat's events; the client reconnects at will.
CONSTANTS
    e1 = e1
    e2 = e2
    Emitters <- TwoEmitters
    Ids = {1, 2, 3}
    ForeignIds = {}
    MaxTime = 3
    BatchSize = 2
SPECIFICATION FairSpec
INVARIANTS
    TypeOK
    NoGap
    CursorLeavesNothingBehind
PROPERTIES
    InOrderOnce
    FeedSpec
    EverythingArrives
CHECK_DEADLOCK FALSE
