SPECIFICATION Spec

CONSTANTS
    Program <- MCPuts
    FirstId = 0
    IdMax = 5
    AckBatch = 32
    MaxStreams = 2
    Threshold = 2
    MaxOthers = 0

INVARIANT SessionSurvives

CHECK_DEADLOCK FALSE
