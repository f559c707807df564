SPECIFICATION ExecutorSpec
CONSTANTS
    t1 = t1
    t2 = t2
    u1 = u1
    Threads = {t1, t2}
    Configs <- MCConfigs
    Urls = {}
    MaxClients = 0
    MaxSnapshots = 0
    MaxGenerations = 0
    Methods <- MCMethods
    Regions = {"here", "there"}
    BucketRegion = "here"
    Retries = 1
    MaxRuns = 2
    MaxKeys = 2
    MaxExpired = 1
    MaxDenials = 1
    None = None
SYMMETRY Symmetry
CHECK_DEADLOCK FALSE
INVARIANTS
    RedirectSurvivesRefresh
    RefreshedOncePerKey
    PostAppliedOnce
    OneRetryIsEnough
PROPERTIES
    CredentialsNeverGoBack
