\* Two requests emit events of the same chat: an event is lost.
CONSTANTS
    e1 = e1
    e2 = e2
    Emitters <- TwoEmitters
    Ids = {1, 2, 3}
    ForeignIds = {}
    MaxTime = 3
    BatchSize = 2
SPECIFICATION Spec
INVARIANTS
    PersistedEventsAreDelivered
CHECK_DEADLOCK FALSE
