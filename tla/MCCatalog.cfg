SPECIFICATION Spec
CONSTANTS
    I64Max = 3
    Times = {0}
    Defs <- AllDefs
    AddColumns <- ItemColumns
    NewIndexes <- AllIndexes
    Inserts <- AllInserts
    Updates <- AllUpdates
    Policies <- AllPolicies
    Filters <- AllFilters
    Batches <- AllBatches
CONSTRAINT Apart
INVARIANTS TypeOK IndexesInSync RowsSatisfySchema UniqueColumnsHold  ReferencesResolve ForeignKeysIndexed
 
