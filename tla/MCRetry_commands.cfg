SPECIFICATION FairSpec
CONSTANTS
    NumOps = 2
    Eligible = {"none", "overload", "read", "write"}
    MaxAdaptive = 2
    MaxFlight = 3
    Nil = Nil
INVARIANTS
    TypeOK
    AtMostOnce
    AnswersMatch
    OkMeansApplied
    NoWritesMeansNone
PROPERTIES
    Returns
    ImplementsCommand
\* The client stops after its last command.
CHECK_DEADLOCK FALSE
