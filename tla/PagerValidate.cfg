SPECIFICATION Spec
CONSTANTS
    CAPACITY = 1
    MaxPages = 6
    MaxTxn = 4
    MaxFresh = 2
    MaxOpen = 2
CHECK_DEADLOCK FALSE
INVARIANTS ValidateSeesCommittedState
