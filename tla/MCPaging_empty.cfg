SPECIFICATION Spec

CONSTANTS
    Total = 3
    MaxBatch = 2
    PageSizes = {2, 4}
    Consumers = {"list", "iterator"}
    Tailing = TRUE
    Bits = 4
    Wide = 8
    TimeBits = 8
    Mantissa = 5
    Base = 3
    Digits = 2
    SecBits = 4
    Year <- MCYear
    InYear <- MCInYear

INVARIANT EndMeansAll

\* A loop that is over stays over.
CHECK_DEADLOCK FALSE
