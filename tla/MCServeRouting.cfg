SPECIFICATION FairRoutingSpec

CONSTANTS
    Nothing = Nothing
    FirstIds = {0}
    Queries = {q1, q2}
    Replicas = {r1, r2}
    FailingArgs = {q2}
    MaxConcurrent = 1
    MaxCrashes = 1

INVARIANT BoundSinceAnnounced

PROPERTIES
    RouterCatchesUp
    EveryQueryAssigned

\* A killed controller and answered queries leave nothing to do.
CHECK_DEADLOCK FALSE
