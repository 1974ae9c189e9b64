SPECIFICATION FairSpec
CONSTANTS
    Conns = {c1, c2}
    MaxFrames = 1
INVARIANTS
    ShellHasSlot
    LeaseHonoured
PROPERTIES
    ShellEnds
CHECK_DEADLOCK FALSE
