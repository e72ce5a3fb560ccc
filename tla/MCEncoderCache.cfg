SPECIFICATION Spec
CONSTANTS
    r1 = r1
    r2 = r2
    r3 = r3
    A = A
    B = B
    C = C
    Requests <- ThreeRequests
    PromptLen <- ThreePrompts
    Features <- ThreeFeatures
    NumEmbeds <- ThreeItems
    CacheSize = 3
    ComputeBudget = 3
    TokenBudget = 4
    Shift = 0
    Chunked = TRUE
    PrefixHits = {0, 2}
    MaxFailures = 2
INVARIANTS SlotsExact NoEncoderMiss
PROPERTIES EveryRequestFinishes
CHECK_DEADLOCK FALSE
