SPECIFICATION Spec
CONSTANTS
    o1 = o1
    o2 = o2
    o3 = o3
    t1 = t1
    t2 = t2
    Transfers <- MCTransfers
    Tabs <- MCTabs
    MaxEarned = 2
    HourlyCap = 1
    None = None
SYMMETRY MCSymmetry
INVARIANT HonestReport
INVARIANT NothingLost
CHECK_DEADLOCK FALSE
