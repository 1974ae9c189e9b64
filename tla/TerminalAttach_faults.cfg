SPECIFICATION FairSpec

CONSTANTS
    Subscribers = {s1, s2}
    MaxQueued = 1
    NoOne = nobody
    Operations = {"delete"}
    Faults = {"timeout", "exit"}

INVARIANTS
    SubscriptionsAreLive

PROPERTIES
    DetachSparesSubscribers
    ConnectionSettles
    OperationEnds

CHECK_DEADLOCK FALSE
