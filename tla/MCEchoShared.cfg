SPECIFICATION Spec
CONSTANTS
    r1 = r1
    r2 = r2
    r3 = r3
    Requests <- TwoRequests
    PromptLen <- TwoPrompts
    MaxTokens <- TwoMaxTokens
    MaxModelLen = 6
    MaxBatchTokens = 6
    NumSpecTokens = 2
    KMax = 3
    SharedOutput = TRUE
INVARIANT ComputedAllButLast
