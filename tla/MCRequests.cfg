SPECIFICATION Spec
CONSTANTS
    I64Max = 6
    Clients = {1, 2}
    Program <- MixedProgram
    Start <- TwoAccounts
    Defs <- MixedDefs
    AddColumns <- MixedColumns
    Now = 0
    MaxRows = 3
    MaxJoins = 0
    Quota = 2
INVARIANT AcknowledgedAddsUp
CHECK_DEADLOCK FALSE
