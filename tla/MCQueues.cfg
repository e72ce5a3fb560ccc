SPECIFICATION QueuesSpec
CONSTANTS
    NumBlocks = 4
    n_reader = 2
    max_chunks = 2
    MaxMessages = 4
INVARIANTS Linked NoOverlap InOrder DequeueInOrder NoLostWakeup
PROPERTIES Refinement RingRefinement AllDelivered
CHECK_DEADLOCK FALSE
