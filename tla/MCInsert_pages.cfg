SPECIFICATION FairSpec

CONSTANTS
    MaxDocs = 4
    Kinds = {"ok", "dup", "huge", "invalid", "nobson", "nojson", "blank", "corrupt"}
    Modes = {"frame", "strings", "bson", "import", "restore"}
    PageSize = 2
    MaxBatch = 2
    Splits = {"frame", "restore"}
    Faults = {"lost", "noserver", "concern"}

INVARIANT TypeOK
INVARIANT OkMeansStored
INVARIANT NeverOverReports
INVARIANT PrefixStored
PROPERTY Terminates

\* A call that is over stays over.
CHECK_DEADLOCK FALSE
