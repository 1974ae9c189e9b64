SPECIFICATION LockSpec

CONSTANTS
    Pids = {p1, p2, p3, p4}
    NoOne = NoOne
    Stranger = Stranger
    Events = {"crash", "terminate", "bootFails", "pidReuse", "slowHealth", "portTaken", "overlap"}

SYMMETRY PidSymmetry

INVARIANTS
    OneInstance
    LeftoverNeverFatal
    NoLeftoverLock
    SomeoneServes

CHECK_DEADLOCK FALSE
