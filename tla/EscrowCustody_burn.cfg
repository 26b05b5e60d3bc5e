SPECIFICATION CustodySpec
CONSTANTS
    w1 = w1
    w2 = w2
    d1 = d1
    d2 = d2
    Wagers = {w1, w2}
    Defenders = {d1, d2}
    Powers <- MCPowers
    Amount = 11
    Fee = 1
    Rent = 2
    DefenderBps = 2
    RecirculateBps = 4
    Base = 10
    MaxRetries = 2
    MaxRestarts = 1
    MaxSwaps = 0
    Payout = 2
    Idle = Idle
SYMMETRY MCSymmetry
INVARIANT OutstandingBacked
CHECK_DEADLOCK FALSE
