SPECIFICATION Spec
CONSTANTS
    Files = {f1, f2}
    Interval = 3
    TickInterval = 2
    MaxTime = 9
INVARIANTS LastEventIsKept DelayBounded
PROPERTIES BurstsMerge
CHECK_DEADLOCK FALSE
