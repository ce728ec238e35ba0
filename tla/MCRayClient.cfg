SPECIFICATION FairSpec

CONSTANTS
    Program <- MCProgram
    FirstId = 4
    IdMax = 5
    AckBatch = 1
    MaxStreams = 2
    Threshold = 2
    MaxOthers = 1

INVARIANT RetryIsAnswered

PROPERTIES
    CallsRefined
    EveryRequestSettles
    SessionEnds

\* A closed session has nothing left to do.
CHECK_DEADLOCK FALSE
