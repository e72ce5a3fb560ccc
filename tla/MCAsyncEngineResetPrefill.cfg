SPECIFICATION Spec
CONSTANTS
    r1 = r1
    r2 = r2
    Requests <- OneRequest
    PromptLen <- OnePrompt
    MaxTokens <- OneMaxTokens
    MaxModelLen = 8
    MaxBatchTokens = 2
    NumSpecTokens = 0
    BatchQueueSize = 2
    Async = TRUE
    Structured = {}
    CacheHits = {0}
    MaxPreemptions = 0
    MaxResets = 1
PROPERTY EveryRequestFinishes
