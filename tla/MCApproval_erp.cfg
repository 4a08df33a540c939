SPECIFICATION FairSpec
CONSTANTS
    Events <- MCApprovals
    Addresses = {"Joinville"}
    Txs = {"t1"}
    Numbers = {}
    MaxConcurrent = 2
    Workers = {"w1", "w2"}
    BatchSize = 2
    MaxAttempts = 2
    ReleaseEvery = 2
    Faults = {"crash", "transport"}
    MaxCrashes = 1
    MaxClaims = 4
    MaxRows = 2
INVARIANTS
    RegisteredWasApproved
    RegisteredOnceUnlessStale
PROPERTIES
    ApprovedReachesErp
    EventuallyDispatched
