\* Two chats and two messages, created, deleted and listed in pages of one or two.
CONSTANTS
    ChatIds = {1, 2}
    MessageIds = {3, 4}
    Stamps = {1, 2}
    Limits = {1, 2}
SPECIFICATION FairSpec
INVARIANTS
    TypeOK
    OnlyDeletionsSkip
    OnlyInsertionsRepeat
    TotalAgrees
PROPERTIES
    WalkEnds
CHECK_DEADLOCK FALSE
