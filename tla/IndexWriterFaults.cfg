SPECIFICATION Spec
CONSTANTS
    a = a
    d = d
    scan = scan
    loop = loop
    Paths = {a}
    Dirs = {d}
    Under <- MCUnderA
    Callers = {scan, loop}
    BatchSize = 2
    MaxRetryCount = 2
    Faults = {"load", "add", "deldir", "commit", "rollback", "panic", "crash"}
    MaxClock = 2
    MaxCalls = 3
SYMMETRY Symmetric
INVARIANTS TypeOK NoDuplicates TimeTellsText
