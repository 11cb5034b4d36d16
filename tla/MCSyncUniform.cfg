\* Messages of one size, one per put: no thread is left asleep beside work.
CONSTANTS
    Producer = {p1, p2, p3}
    Consumer = {c1, c2, c3}
    Nobody = Nobody
    NoCall = NoCall
    small = small
    big = big
    Message = {small}
    MsgSize <- MCMsgSize
    HeaderSize = 1
    max_size_bytes = 4
    maxsize = 9
    Batch <- MCUniform
    Request <- MCAllOrOne
SYMMETRY MCSymmetry
SPECIFICATION Spec
INVARIANTS
    NoConsumerLeftAsleep
    NoProducerLeftAsleep
    SomebodyIsUp
