CONSTANTS
    seal = seal
    post = post
    Hosts = {a, b}
    Tasks = {1}
    Types = {seal}
    TypeOf <- AllSeal
    Handlers <- OneType
    Machine <- Roomy
    Cost <- UnitCost
    Limiter <- OwnLimiter
    LimitN <- NoLimit
    MaxHeadroom = 100
    MaxFailures <- TwoFailures
    TimeSensitive = {}
    BoredTypes = {}
    StorageTypes = {}
    Overrides <- SelfOverride
    Yielding = {seal}
    Cordonable = {a}
    FalseSuspicion = FALSE
    DBErrors = FALSE
    MaxBoots = 3
    RetryCap = 2
SPECIFICATION FairSpec
PROPERTIES
    EventuallySettled
    RestartHonoured
    RestartIsIdle
