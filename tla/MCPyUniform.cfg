\* Messages of one size: the retry passes the wakeups on.
CONSTANTS
    Producer = {p1, p2}
    Consumer = {c1, c2}
    Nobody = Nobody
    NoCall = NoCall
    small = small
    big = big
    Message = {small}
    MsgSize <- MCMsgSize
    HeaderSize = 1
    max_size_bytes = 4
    maxsize = 9
    Batch <- MCUniform
    Request <- MCRequest
    INITIAL_RECV_BUFFER_SIZE = 1
    MaxMessages = {1, 9}
    Unreadable = {}
SYMMETRY MCSymmetry
SPECIFICATION PySpec
INVARIANT NobodyLeftAsleep
