SPECIFICATION Spec
CONSTANTS
    Subs = {s1, s2}
    NumLines = 3
    Silent = {1}
    Chunks = {3, 4}
    MaxWatchers = 2
    MaxRetries = 1
    MaxFaults = 1
SYMMETRY SubSymmetry
INVARIANTS
    SentOnceInOrder
    NoEntrySkipped
    UnusedWatchCloses
    NoNoticedLineLost
CHECK_DEADLOCK FALSE
