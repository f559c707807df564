SPECIFICATION ExecutorFairSpec
CONSTANTS
    t1 = t1
    t2 = t2
    u1 = u1
    Threads = {t1, t2}
    Configs <- MCConfigs
    Urls = {}
    MaxClients = 0
    MaxSnapshots = 0
    MaxGenerations = 0
    Methods <- RetriedMethods
    Regions = {"here", "there"}
    BucketRegion = "here"
    Retries = 1
    MaxRuns = 2
    MaxKeys = 1
    MaxExpired = 1
    MaxDenials = 0
    None = None
CHECK_DEADLOCK FALSE
PROPERTIES
    RunReturns
