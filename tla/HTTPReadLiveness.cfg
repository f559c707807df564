SPECIFICATION FairSpec
CONSTANTS
    t1 = t1
    t2 = t2
    t3 = t3
    Threads = {t1, t2, t3}
    Lengths <- OneVersion
    Setups <- LivenessSetups
    Retries = 1
    MaxCalls = 3
    MaxStates = 2
    None = None
CHECK_DEADLOCK FALSE
PROPERTIES
    CallsEnd
