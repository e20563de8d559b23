SPECIFICATION Spec
CONSTANTS
    I64Max = 3
    Databases <- PlainDatabases
    Selects <- PlainSelects
    MaxRows = 3
    MaxJoins = 1
    Walks <- PlainWalks
    PageSize = 1
    Later <- LaterDatabases
    MaxCommits = 2
INVARIANTS PlannedEqualsReference PageEqualsReference OutputTyped OnlyDataErrors
           HeldWalkExact FreshWalkStable
CHECK_DEADLOCK FALSE
