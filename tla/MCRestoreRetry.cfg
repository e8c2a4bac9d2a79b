SPECIFICATION Spec
CONSTANTS
    r1 = r1
    r2 = r2
    Row <- MCRow
    NoFile = NoFile
    Torn = Torn
    Faults = {"crash"}
INVARIANT OriginalOutlivesRetry
CHECK_DEADLOCK FALSE
