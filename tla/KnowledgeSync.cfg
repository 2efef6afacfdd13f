\* One process, stopped and started again at will, with two embedding models.
CONSTANTS
    w1 = w1
    w2 = w2
    m1 = m1
    m2 = m2
    NoWorker = NoWorker
    NoModel = NoModel
    NoVector = NoVector
    Workers <- OneWorker
    Files <- TwoFiles
    Models <- TwoModels
    MaxVersion = 2
    BatchSize = 1
    Faults = {"provider", "storage", "crash"}
SPECIFICATION FairSpec
INVARIANTS
    TypeOK
    TablesAgree
    VectorsBelong
    IndexIsWhatWasFound
PROPERTIES
    StartupIsBounded
    EmbedsOnlyWhatChanged
    StartupEnds
CHECK_DEADLOCK FALSE
