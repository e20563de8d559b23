SPECIFICATION Spec
CONSTANTS
    NumKeys = 8
    KeyLen <- MixedKeys
    Value = {0}
    Bounds = {0, 3}
    MaxBehind = 1
VIEW ShapeView
CONSTRAINT LongWhenPinned
INVARIANTS TreesValid FreedExact
PROPERTY ImplementsKeyMap
