SPECIFICATION MCSpec
CONSTANTS
    r1 = r1
    r2 = r2
    r3 = r3
    Requests <- ThreeRequests
    Tokens <- ThreeTokens
    PromptLen <- ThreePrompts
    MaxTokens <- ThreeMaxTokens
    Rank <- ThreeRanks
    Policy = "fcfs"
    NumBlocks = 5
    BlockSize = 2
    MaxModelLen = 7
    UseEagle = FALSE
    MaxBatchTokens = 5
    MaxRunning = 2
    LongPrefill = 0
    ChunkedPrefill = TRUE
    ReserveFullIsl = FALSE
    NumSpecTokens = 1
    NumLookahead = 1
    MaxResets = 1
INVARIANTS RefCountsExact HashMapExact OneWriterPerSlot QueuesMatchStatus ComputedBehindKnown BatchFollowsRunning ComputedIsWrittenIfClean CachedIsComputedIfClean FcfsKeepsOrder
PROPERTIES ImplementsPool EveryRequestFinishes
