\* One run, or a chain of three: b is spawned by the loop of a, c is created by
\* a client as a child of b, on a task of its own.
SPECIFICATION Spec
CONSTANTS
    a = a
    b = b
    c = c
    Runs = {a, b, c}
    NoRun = NoRun
    Parent <- ChainParent
    SameTask = {b}
    ClientRuns = {a, c}
    Decisions = {"Complete", "Fail", "Wait", "SpawnAgent", "InvokeEffect", "RequestApproval"}
    Contract <- UnsafeContract
    MaxStep = 3
    MaxEpoch = 2
    MaxCancel = 1
    MaxFaults = 2
CONSTRAINT OneOrTree
INVARIANTS TypeOK SpawnFenced
PROPERTIES RunStepsLegal DecisionsFenced
CHECK_DEADLOCK FALSE
