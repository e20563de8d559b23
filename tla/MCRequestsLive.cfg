SPECIFICATION FairSpec
CONSTANTS
    I64Max = 6
    Clients = {1, 2, 3}
    Program <- RetryProgram
    Start <- OneAccount
    Defs <- None
    AddColumns <- None
    Now = 0
    MaxRows = 3
    MaxJoins = 0
    Quota = 2
PROPERTY ClientsFinish
CHECK_DEADLOCK FALSE
