SPECIFICATION Spec
CONSTANTS
    clientEvent = clientEvent
    orderEvent = orderEvent
    orderAgain = orderAgain
    Malformed = Malformed
    Workers = {w1, w2}
    w1 = w1
    w2 = w2
    Events = {clientEvent, orderEvent}
    FactOf <- MCFactOf
    DependsOn <- MCDependsOn
    BatchSize = 2
    MaxDelivery = 2
    ReclaimEvery = 1
    Faults = {"crash", "slow", "claim_error", "release_error", "commit_lost", "db_error"}
    MaxMessages = 2
    MaxTimesDelivered = 3
SYMMETRY WorkerSymmetry
INVARIANTS
    AppliedAtMostOnce
    NoEarlyDeadLetter
