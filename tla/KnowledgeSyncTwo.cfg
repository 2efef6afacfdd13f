\* Two processes sync the same database at once.
CONSTANTS
    w1 = w1
    w2 = w2
    m1 = m1
    m2 = m2
    NoWorker = NoWorker
    NoModel = NoModel
    NoVector = NoVector
    Workers <- TwoWorkers
    Files <- TwoFiles
    Models <- OneModel
    MaxVersion = 1
    BatchSize = 2
    Faults = {"provider", "crash"}
SPECIFICATION Spec
INVARIANTS
    TablesAgree
    VectorsBelong
    IndexIsWhatWasFound
PROPERTIES
    IndexSpec
CHECK_DEADLOCK FALSE
