CONSTANTS
    Offerers = {"n1", "n2"}
    TaskIds = {"t1", "t2"}
    MaxOfferCrashes = 1
    Watchers = {"n1", "n2"}
    Msgs = {0}
    Cases <- MCCases
    MinConfidence = 1
    MinEthConfidence = 1
    MaxReorgs = 1
    MaxQueue = 1
    MaxWatchFaults = 1
    Deals = {"d1"}
    MaxPieces = 2
    MaxParkFaults = 1
    Batches = {1, 2, 3}
    BatchSize = 1
    SlotCount = 2
    FinalizeMax = 1
    MaxBatchFaults = 1
    DsWatchers = {"n1"}
    MaxDsTasks = 2
    MaxDsTxs = 3
    MaxSlots = 1
    MaxDsFaults = 1
    AdRefs = {1, 2}
    AdPieces = {"p"}
    MaxAdFaults = 1
    PickerCount = 2
    MaxProveFailures = 2
    MaxProveTasks = 1
    MaxProvingFaults = 1
SPECIFICATION ProgressSpec
PROPERTIES
    RequestIsServed
    EveryWaitResolves
    UnusedPieceGoes
    EveryBatchSeals
    DeletionEnds
    EveryAdAppears
    ProvingGoesOn
CHECK_DEADLOCK FALSE
