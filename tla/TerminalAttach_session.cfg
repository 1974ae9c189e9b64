SPECIFICATION Spec

CONSTANTS
    Subscribers = {s1, s2, s3}
    MaxQueued = 1
    NoOne = nobody
    Operations = {"delete", "restart"}
    Faults = {"exit", "shellExit", "backpressure"}

SYMMETRY ConnectionSymmetry

INVARIANTS
    OneStream
    OrphanOnlyByEvent
    DeletedSessionIsQuiet

CHECK_DEADLOCK FALSE
