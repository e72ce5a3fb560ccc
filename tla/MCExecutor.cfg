SPECIFICATION Spec
CONSTANTS
    n_worker = 2
    max_chunks = 1
    MaxCalls = 3
    ResponseChunks = 1
    MaxFutures = 2
INVARIANTS AnswersMatchCalls AnswersNeverAhead
PROPERTIES EngineReturns
CHECK_DEADLOCK FALSE
