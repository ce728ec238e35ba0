SPECIFICATION FairSpec
CONSTANTS
    MaxTasks = 2
    TaskRetries = {0, 1}
    MaxRestarts = 1
    MaxPendingCalls <- Unlimited
    MaxRpcsInFlight = 1
    PlasmaTasks <- FirstTask
    DepsMayFail = FALSE
    MaxFaults = 0
INVARIANT CompletedExactly
PROPERTIES EveryTaskSettles
CHECK_DEADLOCK FALSE
