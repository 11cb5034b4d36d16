\* Batches of two sizes: a producer is left asleep beside room for its batch.
CONSTANTS
    Producer = {p1, p2}
    Consumer = {c1, c2}
    Nobody = Nobody
    NoCall = NoCall
    small = small
    big = big
    Message = {small, big}
    MsgSize <- MCMsgSize
    HeaderSize = 1
    max_size_bytes = 4
    maxsize = 9
    Batch <- MCTwoSizes
    Request <- MCOne
SYMMETRY MCSymmetry
SPECIFICATION Spec
INVARIANT NoProducerLeftAsleep
