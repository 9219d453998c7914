SPECIFICATION FairSpec
CONSTANTS
    safe = safe
    once = once
    Effects = {safe, once}
    Contract <- MCContract
    RetryApproved = {}
    NoEffect = NoEffect
    MaxEpoch = 2
    MaxFaults = 1
PROPERTY EffectsSettle
CHECK_DEADLOCK FALSE
