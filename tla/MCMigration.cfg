SPECIFICATION Spec
CONSTANTS
    w1 = w1
    w2 = w2
    r1 = r1
    i1 = i1
    i2 = i2
    i3 = i3
    i4 = i4
    Runner <- MCTwo
    Row <- MCRow
    Inode <- MCInode
    Newest = 2
    First = {1, 3}
    Direction <- MCUp
    Keep = 1
    MaxBackups = 2
    Crashes = TRUE
INVARIANT BackupAwaitsFailure
PROPERTY FailureRestores
SYMMETRY MCSymmetry
CHECK_DEADLOCK FALSE
