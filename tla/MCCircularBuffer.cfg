\* The circular buffer under every legal sequence of writes, reads and peeks.
CONSTANTS
    Byte <- MCByte
    Blank = "blank"
    Block <- MCBlock
    max_size_bytes = 5
SPECIFICATION Spec
INVARIANTS
    TypeOK
    TailBehindContents
PROPERTY IsByteFifo
