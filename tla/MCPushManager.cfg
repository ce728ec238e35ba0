SPECIFICATION FairSpec
CONSTANTS
    n1 = n1
    n2 = n2
    small = small
    large = large
    Nodes <- MCNodes
    Objects <- MCObjects
    NumChunks <- MCNumChunks
    MaxChunksInFlight = 3
    MaxPushes = 3
CHECK_DEADLOCK FALSE
INVARIANTS
    CompletionFindsPush
    FlowControl
    EveryChunkIsSent
PROPERTY
    PushesFinish
