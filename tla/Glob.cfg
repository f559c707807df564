SPECIFICATION MCSpec
CONSTANTS
    Names <- MCNames
    Universe <- MCUniverse
    Encoded <- MCEncoded
    Decoded <- MCDecoded
    Globs <- MCGlobs
    Buckets <- MCBuckets
    PageSize = 2
    DenseRatio = 1
    MaxChanges = 2
    Tree <- MCTree
    HFPatterns <- MCHFPatterns
    Repositories <- MCRepositories
    HFPageSize = 2
    MaxCommits = 2
CHECK_DEADLOCK FALSE
INVARIANTS
    GlobIsExact
    HFGlobIsExact
PROPERTIES
    GlobEnds
