SPECIFICATION Spec

CONSTANTS
    Total = 5
    MaxBatch = 3
    PageSizes = {2, 4, 6}
    Consumers = {"list", "handler", "lines", "iterator"}
    Tailing = FALSE
    Bits = 4
    Wide = 8
    TimeBits = 8
    Mantissa = 5
    Base = 3
    Digits = 2
    SecBits = 4
    Year <- MCYear
    InYear <- MCInYear

INVARIANT TypeOK
INVARIANT InOrder
INVARIANT NoSpuriousError
INVARIANT NumbersKept
INVARIANT ValuesDistinct
INVARIANT DatesSorted
PROPERTY ImplementsResult

\* A loop that is over stays over.
CHECK_DEADLOCK FALSE
