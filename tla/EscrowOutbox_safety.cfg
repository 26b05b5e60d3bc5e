SPECIFICATION FairSpec
CONSTANTS
    Wagers = {w1}
    d1 = d1
    Defenders <- MCDefenders
    Amount = 5
    LossPlans <- MCLossPlans
    MaxRetries = 2
    MaxCrashes = 2
    Faults <- AllFaults
    NoRecord = NoRecord
INVARIANT DoneMeansLanded
INVARIANT CrashRepeatsOneLeg
PROPERTY DurableUntilPaid
PROPERTY DurableProgress
CHECK_DEADLOCK FALSE
PROPERTY LegsInOrder
PROPERTY KeepsCustody
PROPERTY SettlesOrParks
