\* The whole of queue_put and queue_get: stores, mutex, waits and signals.
CONSTANTS
    Blank <- MCBlank
    Message <- MCMessage
    HeaderSize = 1
    max_size_bytes = 5
    maxsize = 2
    Batch <- MCBatch
    Request <- MCRequest
    Producer = {p1, p2}
    Consumer = {c1, c2}
    Nobody = Nobody
    NoCall = NoCall
SYMMETRY MCSymmetry
SPECIFICATION LockedSpec
INVARIANTS
    OneInside
    WholeFrames
PROPERTY ImplementsQueueSync
