\* The embeddings provider leaves out inputs, or changes their order.
CONSTANTS
    w1 = w1
    w2 = w2
    m1 = m1
    m2 = m2
    NoWorker = NoWorker
    NoModel = NoModel
    NoVector = NoVector
    Workers <- OneWorker
    Files <- TwoFiles
    Models <- OneModel
    MaxVersion = 1
    BatchSize = 2
    Faults = {"provider", "order"}
SPECIFICATION Spec
INVARIANTS
    VectorsBelong
CHECK_DEADLOCK FALSE
