SPECIFICATION LedgerSpec
CONSTANTS
    w1 = w1
    w2 = w2
    Wallets <- MCWallets
    Splits <- MCSplits
    Yields = {3}
    Forfeits = {3}
    VaultPercent = 34
    FinderBonus = 0
    StealPercents = {50}
    SkimPercent = 50
    DeflectPercent = 50
    MinCost = 1
    Faults <- AllFaults
    MaxFaults = 1
    MaxIssued = 3
    MaxOffBook = 1
    MaxInFlight = 2
INVARIANT BookBalanced
INVARIANT Conserved
INVARIANT VaultMirrored
SYMMETRY MCSymmetry
CHECK_DEADLOCK FALSE
