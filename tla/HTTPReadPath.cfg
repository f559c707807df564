SPECIFICATION Spec
CONSTANTS
    t1 = t1
    t2 = t2
    t3 = t3
    Threads = {t1, t2}
    Lengths <- MCLengths
    Setups <- MCSetups
    Retries = 1
    MaxCalls = 4
    MaxStates = 2
    None = None
SYMMETRY Symmetry
CHECK_DEADLOCK FALSE
INVARIANTS
    ProbeHasOwner
    DownloadedOnce
    DownloadIsWhole
    ReadsOpenedVersion
    ReadsItsDownload
PROPERTIES
    SupportNeverRestored
