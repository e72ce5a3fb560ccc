SPECIFICATION MCSpec
CONSTANTS
    r1 = r1
    r2 = r2
    r3 = r3
    Requests <- ThreeRequests
    Tokens <- ThreeStreams
    NumBlocks = 5
    BlockSize = 2
    MaxModelLen = 6
    UseEagle = FALSE
    PromptLen <- ThreePrompts
    MaxTokens <- ThreeMaxTokens
    MaxBatchTokens = 4
    MaxRunning = 2
    Policies = {TRUE, FALSE}
    Mode <- AsyncAndSync
    Remote <- RemotePrefix
    Structured = {r3}
    Sends = {r1}
    MayFail = {r1, r2, r3}
    Undecided = {r1, r2, r3}
    MaxFailures = 1
    MaxUnsure = 1
    MaxAborts = 1
INVARIANTS TransferOwnsBlocks OutputsFromValidKVIfConfined
PROPERTIES EveryRequestFinishes
CHECK_DEADLOCK FALSE
