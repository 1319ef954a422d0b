SPECIFICATION FairSpec
CONSTANTS
    Transports = {"http", "stdio"}
    MaxRetries = 3
    Capacity = 2
    Faults = {"register", "notify", "bind"}
    MaxWaiting = 3
INVARIANTS TypeOK NothingLeftBehind NeverDeafToShutdown
PROPERTIES SignalExitsHttp WatcherEndExits ClientEndExits FailuresEnd
CHECK_DEADLOCK FALSE
