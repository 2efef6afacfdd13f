\* The embeddings provider fails.
CONSTANTS
    w1 = w1
    w2 = w2
    m1 = m1
    m2 = m2
    NoWorker = NoWorker
    NoModel = NoModel
    NoVector = NoVector
    Workers <- OneWorker
    Files <- TwoFiles
    Models <- OneModel
    MaxVersion = 1
    BatchSize = 1
    Faults = {"provider"}
SPECIFICATION Spec
INVARIANTS
    LexicalFallback
CHECK_DEADLOCK FALSE
