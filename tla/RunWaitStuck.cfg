\* One run whose loop waits on a timer, and a restart, under fairness.
SPECIFICATION FairSpec
CONSTANTS
    a = a
    b = b
    c = c
    Runs = {a}
    NoRun = NoRun
    Parent <- ChainParent
    SameTask = {}
    ClientRuns = {a}
    Decisions = {"Complete", "Wait"}
    Contract <- LookupContract
    MaxStep = 2
    MaxEpoch = 2
    MaxCancel = 0
    MaxFaults = 0
PROPERTIES RunningDriven
CHECK_DEADLOCK FALSE
