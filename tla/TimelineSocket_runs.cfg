SPECIFICATION FairSpec
CONSTANTS
    Runs = {r1, r2}
    Paths = {p1, p2}
    Watch = Watch
    None = None
    MaxGen = 3
    MaxFaults = 1
INVARIANTS
    NewestIsHeld
PROPERTIES
    ClosedLeavesNothing
    NewestIsServed
CHECK_DEADLOCK FALSE
