SPECIFICATION Spec
CONSTANTS
    Events <- MCDuplicateApproval
    Addresses = {"Joinville"}
    Txs = {"t1"}
    Numbers = {}
    MaxConcurrent = 2
CHECK_DEADLOCK FALSE
INVARIANTS
    SingleDispatch
