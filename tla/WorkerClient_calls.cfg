SPECIFICATION FairSpec

CONSTANTS
    Requests = {r1, r2}
    NoRequest = none
    MaxChild = 2
    MaxPending = 2
    InitialBackoff = 1
    MaxBackoff = 2

INVARIANTS
    NoLeakedWorker

PROPERTIES
    RpcSpec
    EveryCallSettles
    DeadWorkerReplaced

CHECK_DEADLOCK FALSE
