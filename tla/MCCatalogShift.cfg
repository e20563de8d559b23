SPECIFICATION Spec
CONSTANTS
    I64Max = 3
    Times = {0}
    Defs <- ChainDefs
    AddColumns <- NoOps
    NewIndexes <- NoOps
    Inserts <- ChainInserts
    Updates <- NoOps
    Policies <- ShiftPolicies
    Filters <- NoOps
    Batches <- NoOps
INVARIANT IndexesInSync
