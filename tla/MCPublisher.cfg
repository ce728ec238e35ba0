SPECIFICATION Spec
CONSTANTS
    s1 = s1
    s2 = s2
    Subscribers = {s1, s2}
    Channels = {"log", "object"}
    Keys = {"k"}
    All = All
    None = None
    CappedChannels = {"log"}
    WholeChannels <- MCWholeChannels
    BatchSize = 1
    MaxBuffered = 2
    MaxPublished = 3
INVARIANTS IndexConsistent NoMailWhilePolling
