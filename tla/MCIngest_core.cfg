SPECIFICATION Spec
CONSTANTS
    clientEvent = clientEvent
    orderEvent = orderEvent
    orderAgain = orderAgain
    Malformed = Malformed
    Workers = {w1, w2}
    w1 = w1
    w2 = w2
    Events = {clientEvent, orderEvent, orderAgain}
    FactOf <- MCFactOf
    DependsOn <- MCDependsOn
    BatchSize = 2
    MaxDelivery = 2
    ReclaimEvery = 1
    Faults = {"ttl"}
    MaxMessages = 3
    MaxTimesDelivered = 4
SYMMETRY WorkerSymmetry
INVARIANTS
    TypeOK
    NoSilentLoss
    ExclusiveDelivery
    DeadLetteredOnce
PROPERTIES
    ImplementsSink
