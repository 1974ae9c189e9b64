SPECIFICATION Spec

CONSTANTS
    Tabs = {t1, t2}
    Callers = {c1, c2}
    Boot = boot
    NoTab = nobody
    MaxFailures = 1
    MaxCrashes = 2

SYMMETRY TabSymmetry

INVARIANTS
    PendingIsOwned
    NoLeakedSession
    ReadyHasSession

PROPERTIES
    StartReconciles

CHECK_DEADLOCK FALSE
