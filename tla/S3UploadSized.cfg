SPECIFICATION SizedSpec
CONSTANTS
    t1 = t1
    Threads = {t1}
    Writes <- MCWrites
    MaxCalls = 7
    MaxFileSize = 12
    MaxParts = 4
    MaxPartSize = 20
    PartSize <- ConfiguredPartSize
    FileSizes <- MCFileSizes
    PartCounts <- MCPartCounts
    MAX_MULTIPART_PARTS = 7
    MIN_MULTIPART_PART_SIZE = 2
    MAX_MULTIPART_PART_SIZE = 20
    PART_SIZE_TIERS = 3
    BlockSize = 2
    NoConfig = NoConfig
    None = None
CHECK_DEADLOCK FALSE
INVARIANTS
    ScheduleIsTight
    PartsSuffice
