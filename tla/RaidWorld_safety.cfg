SPECIFICATION Spec
CONSTANTS
    Wallets = {w1, w2}
    Asteroids = {a1, a2}
    Raids = {r1, r2}
    Wagers = {x1, x2}
    Stakers = {w1, w2}
    Miners = {w1}
    Slow = {w1}
    Elapsing = {"expedition_start", "expedition_recovery"}
    MaxRestarts = 1
    None = None
SYMMETRY MCSymmetry
INVARIANT IndexAgreement
INVARIANT ImmuneMeansQuiet
INVARIANT RestedRaiders
INVARIANT WagerBacked
INVARIANT SettledOnce
CHECK_DEADLOCK FALSE
