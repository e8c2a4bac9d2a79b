SPECIFICATION FairSpec
CONSTANTS
    a = a
    b = b
    c = c
    k = k
    l = l
    first = first
    last = last
    extra = extra
    Session <- Sessions
    Key <- Keys
    Column <- Columns
    Once <- SetOnce
    Programs <- SomePrograms
    NoRow = NoRow
    Default = Default
    Nobody = Nobody
INVARIANTS
    TypeOK
    OneKeyNeverDeadlocks
PROPERTIES
    OneAfterTheOther
    FirstSightingStays
    UnitsEnd
CHECK_DEADLOCK FALSE
