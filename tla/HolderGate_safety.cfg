SPECIFICATION Spec
CONSTANTS
    Checks <- MCChecks
    c1 = c1
    c2 = c2
    Thresholds <- MCThresholds
    Wealth = 2
    MaxTransfers = 2
    CacheTtl = 1
    EstimateTtl = 2
    MinHold = 1
    MinObservations = 3
    MaxLookback = 2
    Oldest = 2
    None = None
PROPERTY VerdictFits
PROPERTY SeedsTrue
PROPERTY StaysEligible
SYMMETRY Interchangeable
