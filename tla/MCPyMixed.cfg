\* Messages of two sizes, one of which cannot be read: buffers and retries,
\* and that every get_many returns.
CONSTANTS
    Producer = {p1}
    Consumer = {c1, c2}
    Nobody = Nobody
    NoCall = NoCall
    small = small
    big = big
    Message = {small, big}
    MsgSize <- MCMsgSize
    HeaderSize = 1
    max_size_bytes = 6
    maxsize = 9
    Batch <- MCTwoSizes
    Request <- MCRequest
    INITIAL_RECV_BUFFER_SIZE = 1
    MaxMessages = {9}
    Unreadable = {big}
SPECIFICATION PyFairSpec
INVARIANT PyTypeOK
PROPERTIES
    BufferGrows
    RetryServed
    EveryGetReturns
