CONSTANTS
    seal = seal
    post = post
    Hosts = {a}
    Tasks = {1, 2}
    Types = {seal, post}
    TypeOf <- OddIsPost
    Handlers <- TwoTypes
    Machine <- Roomy
    Cost <- UnitCost
    Limiter <- OwnLimiter
    LimitN <- NoLimit
    MaxHeadroom = 100
    MaxFailures <- TwoFailures
    TimeSensitive = {post}
    BoredTypes = {}
    StorageTypes = {}
    Overrides <- NoOverride
    Yielding = {}
    Cordonable = {}
    FalseSuspicion = FALSE
    DBErrors = FALSE
    MaxBoots = 3
    RetryCap = 2
SPECIFICATION Spec
PROPERTIES
    TimeSensitiveRecorded
