SPECIFICATION FairSpec
CONSTANTS
    Node = {n1, n2}
    InitialNodes = {n1}
    Group = {p, q}
    Waited = {}
    Index = {1}
    None = None
    MaxFaults = 1
INVARIANT NeverForgotten
PROPERTIES SchedulingEnds
CHECK_DEADLOCK FALSE
