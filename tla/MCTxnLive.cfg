SPECIFICATION FairSpec
CONSTANTS
    Request = {q1, q2, q3}
    Reader = {r1}
    CAPACITY = 1
    MaxPages = 6
    MaxTxn = 4
    MaxCrash = 1
    JobPages = 1
    Seed = Seed
    Blank = Blank
    Trunk = Trunk
    Torn = Torn
PROPERTIES EverySubmitReturns
