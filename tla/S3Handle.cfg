SPECIFICATION HandleFairSpec
CONSTANTS
    t1 = t1
    t2 = t2
    t3 = t3
    Threads = {t1, t2, t3}
    Writes <- MCWrites
    MaxCalls = 3
    MaxFileSize = 3
    MaxParts = 2
    MaxPartSize = 2
    PartSize <- MCPartSize
    None = None
CHECK_DEADLOCK FALSE
INVARIANTS
    NoUseAfterDestroy
    AbortAgreesWithSession
PROPERTIES
    CallsReturn
    AbortUploadReturns
