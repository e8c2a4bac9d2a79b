SPECIFICATION Spec
CONSTANTS
    w1 = w1
    w2 = w2
    r1 = r1
    i1 = i1
    i2 = i2
    i3 = i3
    i4 = i4
    Runner <- MCTwo
    Row <- MCNoRow
    Inode <- MCInode
    Newest = 2
    First = {1}
    Direction <- MCUp
    Keep = 2
    MaxBackups = 2
    Crashes = FALSE
PROPERTY FailureUndoesOnlyItself
CHECK_DEADLOCK FALSE
