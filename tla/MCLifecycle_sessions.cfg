SPECIFICATION FairSpec
CONSTANTS
    Mongos = {m1}
    Grids = {g1}
    Iters = {i1}
    Urls = {u1}
    Opts = {"tls"}
    MaxObj = 5
    MaxPem = 2
    None = None
CHECK_DEADLOCK FALSE
INVARIANTS
    TypeOK
    OneClientPerParams
    ParentOutlivesCollection
    FaultsNeedDisconnect
PROPERTIES
    DisconnectReleases
    UnusedClientsCollected
