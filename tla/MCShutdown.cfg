\* Producers, consumers and a main program that closes the queue between them.
CONSTANTS
    Producer = {p1, p2}
    Consumer = {c1, c2, c3}
    num_messages = 3
    MsgSize <- MCMsgSize
    HeaderSize = 1
    max_size_bytes = 4
    maxsize = 9
    Request <- MCRequest
SPECIFICATION FairSpec
INVARIANTS
    TypeOK
    OnlyLateMessagesLeft
PROPERTY Terminates
CHECK_DEADLOCK FALSE
