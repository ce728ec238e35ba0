SPECIFICATION Spec
CONSTANTS
    Node = {n1, n2}
    InitialNodes = {n1}
    Group = {p}
    Waited = {p}
    Index = {1, 2}
    None = None
    MaxFaults = 2
INVARIANTS EveryBundleKnown CommittedOnce CreatedIsCommitted WaitersWillWake
PROPERTIES RemovedIsFinal
CHECK_DEADLOCK FALSE
