SPECIFICATION Spec

CONSTANTS
    MaxDocs = 3
    Kinds = {"ok", "dup"}
    Modes = {"frame", "strings"}
    PageSize = 3
    MaxBatch = 3
    Splits = {}
    Faults = {}

INVARIANT AcceptedAreStored

\* A call that is over stays over.
CHECK_DEADLOCK FALSE
