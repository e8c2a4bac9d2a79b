SPECIFICATION Spec
CONSTANTS
    r1 = r1
    r2 = r2
    Row <- MCRow
    NoFile = NoFile
    Torn = Torn
    Faults = {"checkpoint", "copy", "media", "crash", "prune", "users"}
INVARIANTS
    TypeOK
    CallInv
    OriginalRecoverable
PROPERTIES
    RestoredIsBackup
    PutBackIsComplete
    AsideOutlivesSwap
    KeepsPromise
SYMMETRY Symmetric
CHECK_DEADLOCK FALSE
