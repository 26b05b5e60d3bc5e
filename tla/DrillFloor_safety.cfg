SPECIFICATION Spec
CONSTANTS
    Wallets = {w1, w2}
    Asteroids = {a1, a2}
    Raiders = {w1}
    MaxStake = 1
    FreeBase = 1
    PerStake = 1
    TierAt = 1
    TierFactor = 2
    None = None
SYMMETRY MCSymmetry
INVARIANT TotalsAddUp
INVARIANT PowerFromSessionStake
INVARIANT StakeBooksAgree
INVARIANT RalliesPaid
CHECK_DEADLOCK FALSE
