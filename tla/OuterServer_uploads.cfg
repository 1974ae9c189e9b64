SPECIFICATION FairSpec
CONSTANTS
    large = large
    Requests = {small, large}
    Size <- MCSize
    MaxActive = 2
    MaxBytes = 3
    MaxTries = 1
    Faults = {"disk", "body", "continue"}
    Sockets = {s1}
INVARIANTS
    LeasesExact
    NoStagedFileLeft
    NothingAfterShutdown
PROPERTIES
    AtomicUploads
    ShutdownEnds
    UploadsEnd
CHECK_DEADLOCK FALSE
