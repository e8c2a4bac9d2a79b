SPECIFICATION Spec
CONSTANTS
    a = a
    b = b
    x = x
    Callers <- TwoCallers
    Operators <- OneOperator
    Retentions <- SomeRetentions
    MaxCalls = 2
    MaxCommits = 1
    MaxFaults = 1
SYMMETRY Permuted
INVARIANTS
    TypeOK
    ReportedIsFresh
    PartialsAreOwned
    
    OwnBackupSurvives
PROPERTY
    OperatorsFilesStay
CHECK_DEADLOCK FALSE
