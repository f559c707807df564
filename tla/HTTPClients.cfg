SPECIFICATION MCSpec
CONSTANTS
    t1 = t1
    t2 = t2
    u1 = u1
    u2 = u2
    Threads = {t1, t2}
    Calls <- MCCalls
    Gets <- MCGets
    Scripts <- MCScripts
    POOL_COUNT = 2
    POOL_SIZE = 1
    Retries = 1
    MaxClients = 3
    MaxRequests = 3
    Configs <- MCConfigs
    Urls = {"a", "b"}
    MaxSnapshots = 3
    MaxGenerations = 2
    None = None
SYMMETRY Symmetry
CHECK_DEADLOCK FALSE
INVARIANTS
    NoStaleClientReused
    ClientOwnedOnce
    SentAsAsked
    ClientHeldOnce
    TransfersFaithful
