\* A parent and a child, with approvals, under fairness.
SPECIFICATION FairSpec
CONSTANTS
    a = a
    b = b
    c = c
    Runs = {a, b}
    NoRun = NoRun
    Parent <- ChainParent
    SameTask = {}
    ClientRuns = {a}
    Decisions = {"Complete", "SpawnAgent", "RequestApproval"}
    Contract <- LookupContract
    MaxStep = 2
    MaxEpoch = 2
    MaxCancel = 1
    MaxFaults = 0
PROPERTIES CancelCompletes WaitsEnd RunningDriven
CHECK_DEADLOCK FALSE
