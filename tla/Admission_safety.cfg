SPECIFICATION AdmissionSpec
CONSTANTS
    Wallets = {a, b}
    Conns = {c1, c2, c3, c4}
    i1 = i1
    Ips = {i1}
    IpOf <- OneAddress
    MaxConnections = 2
    Anonymous = Anonymous
SYMMETRY Symmetry
INVARIANT CountTracks
INVARIANT SessionBacked
INVARIANT SignedInServed
CHECK_DEADLOCK FALSE
