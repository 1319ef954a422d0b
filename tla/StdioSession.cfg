SPECIFICATION Spec
CONSTANTS
    Lines <- AllLines
    MaxLines = 3
    PipeSize = 1
    Faults = {"read", "write", "panic"}
INVARIANTS AnswersMatchLines StatusTellsFailure
PROPERTIES RequestsAnswered
CHECK_DEADLOCK FALSE
