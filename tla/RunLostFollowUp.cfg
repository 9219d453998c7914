\* A crash between a decision and its child.
SPECIFICATION Spec
CONSTANTS
    a = a
    b = b
    c = c
    Runs = {a, b}
    NoRun = NoRun
    Parent <- ChainParent
    SameTask = {}
    ClientRuns = {a}
    Decisions = {"SpawnAgent"}
    Contract <- LookupContract
    MaxStep = 1
    MaxEpoch = 2
    MaxCancel = 0
    MaxFaults = 0
INVARIANT WaitingChildHasChild
CHECK_DEADLOCK FALSE
