SPECIFICATION Spec
CONSTANTS
    MaxTasks = 2
    TaskRetries = {1}
    MaxRestarts = 1
    MaxPendingCalls <- Unlimited
    MaxRpcsInFlight = 2
    PlasmaTasks <- FirstTask
    DepsMayFail = TRUE
    MaxFaults = 1
INVARIANTS PendingTaskInOnePlace PositionsAhead
PROPERTIES TasksStartInOrder NoOvertaking
CHECK_DEADLOCK FALSE
