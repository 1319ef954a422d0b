SPECIFICATION FairSpec
CONSTANTS
    a = a
    b = b
    d = d
    loop = loop
    Paths = {a, b}
    Dirs = {d}
    Under <- MCUnder
    Callers = {loop}
    BatchSize = 2
    MaxRetryCount = 2
    Faults = {"load", "commit", "rollback", "crash"}
    MaxClock = 2
    MaxCalls = 3
PROPERTIES ImplementsStore MtimeMonotone TrueMeansCommitted ChangesSettle
