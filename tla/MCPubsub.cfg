SPECIFICATION FairSpec
CONSTANTS
    Subscribers = {s1}
    Channels = {"c"}
    Keys = {"k"}
    All = All
    None = None
    CappedChannels = {}
    WholeChannels <- OnlyKeys
    BatchSize = 1
    MaxBuffered = 1
    MaxPublished = 2
    MaxCommandBatchSize = 1
    MaxOps = 3
    MaxFaults = 1
    MayDie = TRUE
INVARIANTS OnePoll SubscriptionsAgree NothingLost
PROPERTIES PublisherRefined Delivered KeySubscriptionsEnd DeadForgotten
CHECK_DEADLOCK FALSE
