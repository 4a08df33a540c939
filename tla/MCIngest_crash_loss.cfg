SPECIFICATION Spec
CONSTANTS
    clientEvent = clientEvent
    orderEvent = orderEvent
    orderAgain = orderAgain
    Malformed = Malformed
    Workers = {w1, w2}
    w1 = w1
    w2 = w2
    Events = {clientEvent, orderEvent, orderAgain}
    FactOf <- MCFactOf
    DependsOn <- MCDependsOn
    BatchSize = 2
    MaxDelivery = 2
    ReclaimEvery = 1
    Faults = {"crash"}
    MaxMessages = 2
    MaxTimesDelivered = 4
INVARIANTS
    NoSilentLoss
