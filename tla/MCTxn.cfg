SPECIFICATION Spec
CONSTANTS
    Request = {q1, q2, q3}
    Reader = {r1, r2}
    CAPACITY = 1
    MaxPages = 6
    MaxTxn = 4
    MaxCrash = 2
    JobPages = 2
    Seed = Seed
    Blank = Blank
    Trunk = Trunk
    Torn = Torn
SYMMETRY Symmetry
INVARIANTS TypeOK SnapshotStable DurableIntact NoDoubleUse OnlyAppliedWrites AnswersTrue  PageInv ServiceInv
PROPERTIES NothingLostWhileOpen 
