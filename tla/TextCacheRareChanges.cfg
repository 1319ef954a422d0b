SPECIFICATION FairSpec
CONSTANTS
    r1 = r1
    r2 = r2
    Files = {f, g}
    Readers = {r1}
    Indexer = loop
    WritesOverlap = FALSE
    MaxClock = 3
INVARIANTS TypeOK IndexFreshWhenQuiet CacheFreshWhenQuiet StaleIsAnnounced
PROPERTIES EventuallyFresh
