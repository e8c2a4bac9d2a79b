SPECIFICATION Spec
CONSTANTS
    HeadRevision = 1
    Oldest = 1
    Newest = 3
    FreshFrom = 2
    Name <- MCName
    Location <- MCLocation
    Tables <- MCTables
    MaxChanges = 1
INVARIANTS
    NeverRaises
CHECK_DEADLOCK FALSE
