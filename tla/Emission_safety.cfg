SPECIFICATION EmissionSpec
CONSTANTS
    DailyCap = 2
    StaticBudget = 0
    BackingPercent = 80
    TaperPercent = 50
    VaultPercent = 20
    BonusPercent = 100
    GrossYields <- MCGrossYields
    Crews <- MCCrews
    Balances <- MCBalances
    Day = 1
    Amounts <- MCAmounts
    MaxFinds = 2
    MaxBoots = 1
    MaxBridges = 1
    MaxCredits = 8
INVARIANT DayCapped
INVARIANT ClaimsBounded
CHECK_DEADLOCK FALSE
