\* Expected to fail: a settled effect is fed to the turn after its decision.
SPECIFICATION Spec
CONSTANTS
    Schemes = {"ws", "sec"}
    Segments = {"a", "b"}
    Labels = {"com", "x"}
    RequestIds = {1, 2}
    Principals = {"p", "o"}
    Devices = {"d"}
    Effect <- UnknownEffect
    Run = "r"
    MaxTime = 2
    Callers = {"c", "d"}
    Held <- HeldUri
    Values = {1}
    Text = {"k", "s"}
    Requests <- SomeRequests
    Metadata <- SomeMetadata
    MaxBrokered = 2
    MaxWrites = 3
    MaxSpawns = 2
    MaxCalls = 2
    MaxFrames = 1
    StoreFails = TRUE
    Ids = {1, 2}
    Contents = {"x", "y"}
    MaxTxns = 3
    Clients = {c1, c2}
    Bundles <- SomeBundles
    Queries <- SomeQueries
    Profiles <- SomeProfiles
    MaxOps = 3
    c1 = c1
    c2 = c2
INVARIANTS
    OutcomeDelivered
CHECK_DEADLOCK FALSE
