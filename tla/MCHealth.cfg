SPECIFICATION Spec
CONSTANTS
    HeadRevision = 1
    Oldest = 1
    Newest = 3
    FreshFrom = 2
    Name <- MCName
    Location <- MCLocation
    Tables <- MCTables
    MaxChanges = 3
INVARIANTS
    TypeOK
    ReasonsWereTrue
    FailuresHaveACause
PROPERTIES
    NothingIsMissed
CHECK_DEADLOCK FALSE
