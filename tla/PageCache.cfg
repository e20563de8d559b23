SPECIFICATION Spec
CONSTANTS
    Page = {p1, p2, p3}
    Frame = {f1, f2}
    Budget = 2
    MaxTick = 6
INVARIANTS TypeOK ReadsLatest UnwrittenIsDirty
