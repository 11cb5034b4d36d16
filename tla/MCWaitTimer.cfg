\* The deadline of a call over any number of waits, with a clock that is set.
CONSTANTS
    million = 3
    Timeout <- MCTimeout
    MaxClock = 10
    MaxSkew = 4
SPECIFICATION Spec
INVARIANTS
    TypeOK
    TimeKept
PROPERTY GivesUpInTime
