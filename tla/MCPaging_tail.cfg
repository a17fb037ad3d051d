SPECIFICATION FairSpec

CONSTANTS
    Total = 3
    MaxBatch = 2
    PageSizes = {1, 2, 3, 4}
    Consumers = {"list", "handler", "lines"}
    Tailing = TRUE
    Bits = 4
    Wide = 8
    TimeBits = 8
    Mantissa = 5
    Base = 3
    Digits = 2
    SecBits = 4
    Year <- MCYear
    InYear <- MCInYear

PROPERTY Terminates

\* A loop that is over stays over.
CHECK_DEADLOCK FALSE
