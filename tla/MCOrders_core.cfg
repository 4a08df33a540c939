SPECIFICATION Spec
CONSTANTS
    Events <- MCEvents
    Addresses = {"Joinville", "Curitiba"}
    Txs = {"t1", "t2"}
    Numbers = {"n1", "n2"}
    MaxConcurrent = 2
CHECK_DEADLOCK FALSE
INVARIANTS
    TypeOK
    StatusHasItsFacts
    RefusedKeyIsTaken
    ApprovalIsNotForgotten
PROPERTIES
    StatusAdvancesUnlessApprovedAgain
    OrderAddressIsFrozen
