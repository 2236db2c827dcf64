CONSTANTS
    Sectors = {1, 2}
    WithDeals = {1}
    p1 = p1
    p2 = p2
    Pollers = {p1, p2}
    MaxBatch = 2
    MaxFailures = 3
    Scenarios <- AllScenarios
    MaxFaults = 1
    MaxNames = 2
SPECIFICATION FairSpec
INVARIANTS
    TypeOK
    StageOrder
    OneWorkerPerStage
    NoFutileMessage
PROPERTIES
    EverySectorSettles
