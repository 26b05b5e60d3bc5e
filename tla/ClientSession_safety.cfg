SPECIFICATION FairSession
CONSTANTS
    Wallets = {a, b}
    l1 = l1
    l2 = l2
    l3 = l3
    Links <- MCLinks
    MaxClicks = 1
    NoLink = NoLink
INVARIANT ConnectedIsLive
INVARIANT OneLink
INVARIANT VerdictIsOwn
PROPERTY ConnectingEnds
