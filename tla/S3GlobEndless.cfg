SPECIFICATION FairSpec
CONSTANTS
    Names <- PlusNames
    Universe <- PlusUniverse
    Encoded <- MCEncoded
    Decoded <- MCDecoded
    Globs <- EndlessGlobs
    Buckets <- PlusBuckets
    PageSize = 2
    DenseRatio = 1
    MaxChanges = 0
CHECK_DEADLOCK FALSE
PROPERTIES
    GlobEnds
