SPECIFICATION FairSpec

CONSTANTS
    NArtifacts = 2
    Existing = {2}
    NActions = 3
    MaxCrashes = 2
    MaxEdits = 0
    Faults = {}

INVARIANTS
    CrashNeedsNoHand

PROPERTIES
    RecoveryEnds
    DocumentsAreAtomic

CHECK_DEADLOCK FALSE
