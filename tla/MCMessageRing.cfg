\* queue_put and queue_get, store by store, on a ring that wraps, and an observer.
CONSTANTS
    Blank <- MCBlank
    Message <- MCMessage
    HeaderSize = 2
    max_size_bytes = 13
    maxsize = 3
    Batch <- MCBatch
    Request <- MCRequest
SPECIFICATION ObservedSpec
INVARIANTS
    TypeOK
    WholeFrames
    NoOverrun
    NeverMisread
    SizesHonest
PROPERTIES
    MeetsRing
    IsFifoQueue
    FullHonest
