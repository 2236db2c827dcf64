CONSTANTS
    seal = seal
    post = post
    Hosts = {a, b}
    Tasks = {1}
    Types = {seal}
    TypeOf <- AllSeal
    Handlers <- OneType
    Machine <- Roomy
    Cost <- UnitCost
    Limiter <- OwnLimiter
    LimitN <- NoLimit
    MaxHeadroom = 100
    MaxFailures <- TwoFailures
    TimeSensitive = {}
    BoredTypes = {seal}
    StorageTypes = {}
    Overrides <- NoOverride
    Yielding = {}
    Cordonable = {}
    FalseSuspicion = TRUE
    DBErrors = TRUE
    MaxBoots = 3
    RetryCap = 2
SPECIFICATION Spec
INVARIANTS
    HistoryConsistent
PROPERTIES
    ImplementsLedger
CHECK_DEADLOCK FALSE
