SPECIFICATION Spec
CONSTANTS
    root = root
    d = d
    e = e
    n = n
    Root = root
    Dirs = {root, d, e}
    Hidden = {e}
    Names = {n}
    FileOps = {"watched", "offline"}
    MoveOps = {"watched"}
    DirOps = {"watched"}
    Faults = {"watcher"}
    MaxClock = 2
    MaxOps = 4
INVARIANTS TypeOK FreshWhenQuiet NoGhosts
CHECK_DEADLOCK FALSE
