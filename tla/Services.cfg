CONSTANTS
    Offerers = {"n1", "n2"}
    TaskIds = {"t1", "t2"}
    MaxOfferCrashes = 1
    Watchers = {"n1", "n2"}
    Msgs = {0, 1}
    Cases <- MCCases
    MinConfidence = 2
    MinEthConfidence = 1
    MaxReorgs = 1
    MaxQueue = 1
    MaxWatchFaults = 1
    Miners = {"n1", "n2"}
    Others = {"o1"}
    MaxEpoch = 3
    MaxWinTasks = 2
    MaxMineFaults = 1
    Deals = {"d1", "d2"}
    MaxPieces = 2
    MaxParkFaults = 1
    Requests = {"q1", "q2", "q3"}
    MaxReaders = 2
    Batches = {1, 2, 3}
    BatchSize = 2
    SlotCount = 2
    FinalizeMax = 1
    MaxBatchFaults = 1
    DsWatchers = {"n1", "n2"}
    MaxDsTasks = 2
    MaxDsTxs = 2
    MaxSlots = 2
    MaxDsFaults = 1
    AdRefs = {1, 2}
    AdPieces = {"p", "q"}
    MaxAdFaults = 1
    PickerCount = 2
    MaxProveFailures = 2
    MaxProveTasks = 1
    MaxProvingFaults = 1
SPECIFICATION ServicesSpec
INVARIANTS
    ServicesTypeOK
    OneTask
    ReceiptStands
    NoConsensusFault
    RefsSurvive
    OpenWhileNeeded
    LayersIntact
    DeletionIsOrdered
    OneAdChain
    AdsMatchRefs
PROPERTIES
    RowKept
CHECK_DEADLOCK FALSE
