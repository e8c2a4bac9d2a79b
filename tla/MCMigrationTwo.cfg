SPECIFICATION FairSpec
CONSTANTS
    w1 = w1
    w2 = w2
    r1 = r1
    i1 = i1
    i2 = i2
    i3 = i3
    i4 = i4
    Runner <- MCTwo
    Row <- MCNoRow
    Inode <- MCInode
    Newest = 2
    First = {1}
    Direction <- MCBoth
    Keep = 1
    MaxBackups = 1
    Crashes = FALSE
INVARIANTS
    TypeOK
    SchemaMatchesRevision
PROPERTIES
    SuccessReachesTarget
    CallsReturn
CHECK_DEADLOCK FALSE
