SPECIFICATION RedisFairSpec
CONSTANTS
    Workers = {"w1", "w2"}
    Events = {"client", "order"}
    Malformed = "malformed"
    FactOf <- MCFactOf
    DependsOn <- MCDependsOn
    BatchSize = 2
    MaxDelivery = 2
    ReclaimEvery = 1
    Faults = {"commit_lost"}
    MaxMessages = 2
    MaxTimesDelivered = 4
    MaxRestarts = 1
INVARIANTS
    ResendNeedsNoLostTwin
PROPERTIES
    SettledAfterRestart
