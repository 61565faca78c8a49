SPECIFICATION AnonSpec
CONSTANTS
    g = g
    a1 = a1
    a2 = a2
    b3 = b3
    b4 = b4
    b5 = b5
    c3 = c3
    c4 = c4
    e3 = e3
    e4 = e4
    e5 = e5
    e6 = e6
    d1 = d1
    d2 = d2
    s1 = s1
    s2 = s2
    s3 = s3
    s4 = s4
    base = base
    o1 = o1
    o2 = o2
    o3 = o3
    o4 = o4
    None = None
    Blocks = {g, a1, a2, b3, b4, b5, c3, c4, e3, e4, e5, e6}
    Genesis = g
    Prev <- MCPrev
    Height <- MCHeight
    Trust <- MCTrust
    Txs = {base, d1, d2, s1, s2, s3, s4}
    Vtx <- MCVtx
    Vin <- MCVin
    NOut <- MCNOut
    Generated = {base}
    Maturity = 1
    Coins = {o1, o2, o3, o4}
    Spends <- MCSpends
    Ring <- MCRing
    Creates <- MCCreates
    MinDepth = 1
INVARIANTS
    RecordsMatchChain
    HonestBlockConnects
