SPECIFICATION Spec
CONSTANTS
    r1 = r1
    r2 = r2
    Row <- MCRow
    NoFile = NoFile
    Torn = Torn
    Faults = {"checkpoint", "media"}
PROPERTY PutBackIsOriginal
CHECK_DEADLOCK FALSE
