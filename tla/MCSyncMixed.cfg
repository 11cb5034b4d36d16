\* Batches and messages of any size, either capacity the tighter one; all wait, or one kind.
CONSTANTS
    Producer = {p1, p2}
    Consumer = {c1, c2}
    Nobody = Nobody
    NoCall = NoCall
    small = small
    big = big
    Message = {small, big}
    MsgSize <- MCMsgSize
    HeaderSize = 1
    max_size_bytes = 6
    maxsize = 2
    Batch <- MCAny
    Choices <- MCChoices
    Request <- MCTightBuffer
SYMMETRY MCSymmetry
SPECIFICATION UseSpec
INVARIANTS
    TypeOK
    CountsExact
    MutualExclusion
    WithinCapacity
    ConsumersServedAlone
    ProducersServedAlone
PROPERTY IsFifoQueue
