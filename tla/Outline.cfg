SPECIFICATION Spec
CONSTANTS
    PythonLines <- MCPythonLines
    RustLines <- MCRustLines
    RstLines <- MCRstLines
    MaxSource = 5
    MaxRst = 5
    MaxLines = 2
INVARIANTS PythonLevelsFollowNesting RustLevelsFollowNesting ConversionKeeps SlicesPartition
CHECK_DEADLOCK FALSE
