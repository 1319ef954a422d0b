SPECIFICATION FairSpec
CONSTANTS
    root = root
    d = d
    e = e
    n = n
    Root = root
    Dirs = {root, d}
    Hidden = {}
    Names = {n}
    FileOps = {"watched", "dropped", "offline"}
    MoveOps = {}
    DirOps = {}
    Faults = {"crash", "watcher", "stat", "scan", "commit"}
    MaxClock = 3
    MaxOps = 4
INVARIANTS FreshWhenQuiet
PROPERTIES ScansDoNoHarm EventuallyFresh
CHECK_DEADLOCK FALSE
