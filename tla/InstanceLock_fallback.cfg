SPECIFICATION LockSpec

CONSTANTS
    Pids = {p1, p2, p3}
    NoOne = NoOne
    Stranger = Stranger
    Events = {"portTaken"}

INVARIANTS
    AtMostOne

CHECK_DEADLOCK FALSE
