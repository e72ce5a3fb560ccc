SPECIFICATION Spec
CONSTANTS
    r1 = r1
    r2 = r2
    Requests <- TwoRequests
    PromptLen <- TwoPrompts
    MaxTokens <- TwoMaxTokens
    MaxModelLen = 6
    MaxBatchTokens = 4
    NumSpecTokens = 2
    BatchQueueSize = 2
    Async = TRUE
    Structured = {r2}
    CacheHits = {0, 2}
    MaxPreemptions = 3
    MaxResets = 2
INVARIANTS PlaceholdersAreInFlight CacheableTokensAccepted NoNeedlessStep OutputsInOrder GrammarIsCurrent
PROPERTY EveryRequestFinishes
CONSTRAINT WellReset
