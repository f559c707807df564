SPECIFICATION Spec
CONSTANTS
    Operations <- MCOperations
    Refreshable = {"s1"}
    MAX_KEYS_PER_REQUEST = 2
    DeleteNames <- MCDeleteNames
    AnswersAnything <- MCAnswersAnything
    Documents <- MCDocuments
    Tokens <- MCTokens
    MaxTokens = 4
    MaxRefreshes = 1
    MAX_NESTING_DEPTH = 3
    SupportedNamespaces <- MCNamespaces
CHECK_DEADLOCK FALSE
INVARIANTS
    RemovedExactly
    OwnCredentials
    ReaderIsExact
    NothingOverlooked
