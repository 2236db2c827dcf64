CONSTANTS
    seal = seal
    post = post
    Hosts = {a, b}
    Tasks = {1, 2}
    Types = {seal, post}
    TypeOf <- OddIsPost
    Handlers <- TwoTypes
    Machine <- Tight
    Cost <- MixedCost
    Limiter <- SharedLimiter
    LimitN <- LimitTwo
    MaxHeadroom = 4
    MaxFailures <- Forever
    TimeSensitive = {}
    BoredTypes = {}
    StorageTypes = {seal}
    Overrides <- NoOverride
    Yielding = {}
    Cordonable = {}
    FalseSuspicion = FALSE
    DBErrors = FALSE
    MaxBoots = 3
    RetryCap = 1
SPECIFICATION Spec
INVARIANTS
    TypeOK
    SingleWriter
    OwnershipInv
    NoStrandedTask
    NoOvercommit
PROPERTIES
    NoTheft
