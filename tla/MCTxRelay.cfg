SPECIFICATION FairRelay
CONSTANTS
    f = f
    a = a
    b = b
    c = c
    d = d
    Txs = {f, a, b, c, d}
    Vin <- MCVin
    Dubious = {d}
    Peers = {p, q}
    Honest = {p}
    Announces <- MCAnnounces
    p = p
    q = q
    Retry = 1
    MaxOrphans = 2
    MaxAlreadyAsked = 2
    MaxGetData = 2
INVARIANTS
    OrphansByPrev
    NoneLeftBehind
PROPERTY GoodArrives
CHECK_DEADLOCK FALSE
