\* Three reservations, two leases on two workspaces, five messages on two
\* streams, three documents, three runs with two editors of their graph, two
\* keys for every table of the stores, two commands or requests at once for the
\* gateway: one of these per behaviour.
SPECIFICATION Spec

CONSTANTS
    None = None
    Ids = {i1, i2, i3}
    Units = {u1, u2}
    MaxAmount = 2
    MaxToken = 1
    Holders = {r1, r2}
    Workspaces = {w1, w2}
    Leases = {l1, l2}
    MaxEpoch = 3
    Messages = {m1, m2, m3, m4, m5}
    Stream <- StreamOf
    Capacity = 2
    TombstoneCap = 3
    MaxBatch = 2
    MaxDeliveries = 4
    Runs = {g1, g2, g3}
    Task <- TaskOf
    Editors = {e1, e2}
    EdgeConditions = {"CompletedOrCancelled"}
    DeviceIds <- MintedIds
    Given <- GivenIds
    Commands = {e1, e2}
    MaxCommands = 3
    Sessions = {1, 2}
    Specs = {1}
    RunIds = {1}
    Handlers = {e1, e2}
    MAX_INDEX_ENTRIES = 1
    MAX_PROPOSALS = 1
    MaxProposed = 3
    MaxKills = 1
    MaxClock = 1
    Docs = {d1, d2, d3}
    Services <- ServicesOf
    Needs <- NeedsOf
    NoServices = s1
    Adapters = {a1}
    Operators = {o1}
    MaxRevision = 3
    MaxBoots = 3
    m1 = m1
    m2 = m2
    m3 = m3
    m4 = m4
    m5 = m5
    d1 = d1
    d2 = d2
    d3 = d3
    s1 = s1
    s2 = s2
    a1 = a1
    g1 = g1
    g2 = g2
    g3 = g3
    e1 = e1
    e2 = e2

CHECK_DEADLOCK FALSE

SYMMETRY Interchangeable

INVARIANTS
    TypeOK
    BudgetHeld
    NoneLost
    StartedSatisfied
    
    DevicesHonoured
    GatewayFilesKept

PROPERTIES
    
    BootRecovers
    Acyclic
