SPECIFICATION Spec
CONSTANTS
    r1 = r1
    r2 = r2
    Files = {f}
    Readers = {r1}
    Indexer = loop
    WritesOverlap = TRUE
    MaxClock = 3
INVARIANTS IndexFreshWhenQuiet
