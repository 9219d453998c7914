\* Grandchild spawned while the grandparent is cancelled.
SPECIFICATION Spec
CONSTANTS
    a = a
    b = b
    c = c
    Runs = {a, b, c}
    NoRun = NoRun
    Parent <- ChainParent
    SameTask = {}
    ClientRuns = {a}
    Decisions = {"Complete", "SpawnAgent"}
    Contract <- LookupContract
    MaxStep = 2
    MaxEpoch = 1
    MaxCancel = 1
    MaxFaults = 0
PROPERTY NoEscapedChild
CHECK_DEADLOCK FALSE
