SPECIFICATION FairSpec

CONSTANTS
    None = None
    Tags = {1, 2, 3, 4}
    Infos <- MCInfos
    RetryCount = 2
    MaxEvents = 4

INVARIANTS
    AcceptedIsTarget
    RunningIsAnnounced

PROPERTIES
    RolloutKeepsServing
    Converges

\* A deployment that was removed has nothing left to do.
CHECK_DEADLOCK FALSE
