SPECIFICATION Spec

CONSTANTS
    MaxDocs = 3
    Kinds = {"ok", "cut"}
    Modes = {"restore"}
    PageSize = 3
    MaxBatch = 3
    Splits = {}
    Faults = {}

INVARIANT OkMeansStored

\* A call that is over stays over.
CHECK_DEADLOCK FALSE
