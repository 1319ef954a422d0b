SPECIFICATION Spec
CONSTANTS
    root = root
    d = d
    e = e
    n = n
    Root = root
    Dirs = {root}
    Hidden = {}
    Names = {n}
    FileOps = {"watched", "dropped"}
    MoveOps = {}
    DirOps = {}
    Faults = {}
    MaxClock = 2
    MaxOps = 3
INVARIANTS RescanRecovers
CHECK_DEADLOCK FALSE
