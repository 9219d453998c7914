SPECIFICATION Spec
CONSTANTS
    safe = safe
    once = once
    Effects = {safe, once}
    Contract <- MCContract
    RetryApproved = {}
    NoEffect = NoEffect
    MaxEpoch = 2
    MaxFaults = 2
INVARIANTS
    TypeOK
    AtMostOnce
    SettledTruthfully
    NoTransientDurable
    TimelyAnswerRecorded
    SnapshotFresh
PROPERTIES
    LifecycleSpec
CHECK_DEADLOCK FALSE
