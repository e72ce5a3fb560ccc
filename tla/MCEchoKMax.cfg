SPECIFICATION Spec
CONSTANTS
    r1 = r1
    r2 = r2
    r3 = r3
    Requests <- ThreeRequests
    PromptLen <- ThreePrompts
    MaxTokens <- ThreeMaxTokens
    MaxModelLen = 6
    MaxBatchTokens = 5
    NumSpecTokens = 2
    KMax = 4
    SharedOutput = FALSE
INVARIANT DraftsWithinKMax
