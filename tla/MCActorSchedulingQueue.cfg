SPECIFICATION FairQueueSpec
CONSTANT Requests <- MCRequests
INVARIANT OneReplyPerRequest
PROPERTIES StartsInOrder EveryRequestAnswered
CHECK_DEADLOCK FALSE
