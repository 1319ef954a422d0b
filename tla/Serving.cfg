SPECIFICATION Spec
CONSTANTS
    Requests = {client}
    Loaders = {library}
    OldHits <- Before
    NewHits <- After
    Asked = {0, 5}
    MaxLimit = 3
    Window = 2
    Stream = {"modified", "deleted", "skipped"}
    Capacity = 1
    BatchSize = 3
    Faults = {"reload", "task", "load"}
INVARIANTS AnswersAreFresh AnswersAreWhole
PROPERTIES ChangesGetSearchable SearchesEnd
