SPECIFICATION FairSpec
CONSTANTS
    x = x
    y = y
    z = z
    u1 = u1
    Commands = {x, y, z}
    Key <- MCKey
    Body <- MCBody
    Stream <- MCStream
    StreamCount = 2
    Readers = {u1}
    ReadStream <- MCReadStream
    BatchLimit = 2
    PageLimit = 1
    BusCapacity = 1
    MaxEpoch = 2
    MaxFaults = 2
INVARIANTS
    TypeOK
    JournalIsPrefix
    OncePerKey
PROPERTIES
    LogSpec
    Delivered
CHECK_DEADLOCK FALSE
