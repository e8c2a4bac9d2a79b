SPECIFICATION FairSpec
CONSTANTS
    s1 = s1
    s2 = s2
    s3 = s3
    c1 = c1
    c2 = c2
    Session <- MCThree
    Parent <- MCNested
    Connection <- MCConnection
    Nobody = Nobody
    MaxWrites = 1
INVARIANTS
    TypeOK
    WritersContendOnlyAtBegin
    ReadersOnlyRead
    PoolIsClean
    AllOrNothing
PROPERTIES
    SessionsEnd
    KeepsUnits
CHECK_DEADLOCK FALSE
