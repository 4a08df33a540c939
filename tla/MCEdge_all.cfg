SPECIFICATION FairSpec
CONSTANTS
    p1 = p1
    p2 = p2
    Processes = {p1}
    BufferSize = 3
    MaxBatch = 2
    MaxLag = 2
    RequestSizes = {1, 2}
    Faults = {"publish_error", "xlen_error", "stop", "redis_empty"}
    MaxEvents = 4
    MaxProbes = 2
CHECK_DEADLOCK FALSE
INVARIANTS
    TypeOK
    AcceptedAccounted
    StopDrainsOneBatch
PROPERTIES
    RefusalIsJustified
    OverloadFollowsTheStream
    EventuallyFlushed
