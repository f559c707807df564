SPECIFICATION Spec
CONSTANTS
    t1 = t1
    t2 = t2
    t3 = t3
    Threads = {t1, t2, t3}
    Writes <- RacingWrites
    MaxCalls = 4
    MaxFileSize = 4
    MaxParts = 2
    MaxPartSize = 2
    PartSize <- MCPartSize
    None = None
SYMMETRY Symmetry
CHECK_DEADLOCK FALSE
INVARIANTS
    TypeOK
    PublishedObjectIsInput
    FinalizedObjectComplete
    AbortRequestIsLast
    RequestsSentOnce
    CompletedNotAborted
    NoLeakedUpload
    StableError
PROPERTIES
    ImplementsAtomicUpload
