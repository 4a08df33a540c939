SPECIFICATION Spec
CONSTANTS
    w1 = w1
    w2 = w2
    r1 = r1
    r2 = r2
    Workers = {w1, w2}
    Rows = {r1, r2}
    BatchSize = 2
    MaxAttempts = 2
    ReleaseEvery = 2
    Faults = {"crash", "transport", "server_error", "client_error"}
    MaxCrashes = 1
    MaxClaims = 4
SYMMETRY Symmetry
INVARIANTS
    TypeOK
    SentWasRegistered
    ExclusiveClaim
    NoEarlyDeadLetter
    AttemptsBounded
PROPERTIES
    ImplementsLifecycle
