SPECIFICATION FairSpec
CONSTANTS
    c1 = c1
    c2 = c2
    c3 = c3
    a1 = a1
    a2 = a2
    Conns = {c1, c2, c3}
    Wallets = {a1, a2}
    WalletOf <- TwoWallets
    Wagers = {w1, w2}
    Faults <- AllFaults
    None = None
INVARIANT HandedOnce
INVARIANT OneRaid
INVARIANT StrandedOnlyByFault
PROPERTY DepositSettles
