SPECIFICATION Spec
CONSTANTS
    Mongos = {m1}
    Grids = {}
    Iters = {i1}
    Urls = {u1}
    Opts = {"plain"}
    MaxObj = 4
    MaxPem = 1
    None = None
CHECK_DEADLOCK FALSE
INVARIANT
    CursorsProtectParent
