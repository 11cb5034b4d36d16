\* Every call returns, also where wakeups get lost and where a process is killed.
CONSTANTS
    Producer = {p1, p2}
    Consumer = {c1, c2}
    Nobody = Nobody
    NoCall = NoCall
    small = small
    big = big
    Message = {small, big}
    MsgSize <- MCMsgSize
    HeaderSize = 1
    max_size_bytes = 4
    maxsize = 9
    Batch <- MCTwoSizes
    Request <- MCOne
    Mortal = {p1, c1}
    MaxCrashes = 1
SPECIFICATION FairCrashSpec
PROPERTIES
    EveryCallReturns
    NobodyPassesTheDead
CHECK_DEADLOCK FALSE
