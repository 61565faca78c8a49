SPECIFICATION FairSpec
CONSTANTS
    g = g
    p = p
    a1 = a1
    a2 = a2
    b1 = b1
    b2 = b2
    b3 = b3
    b4 = b4
    a3 = a3
    c0 = c0
    t1 = t1
    t2 = t2
    t3 = t3
    t4 = t4
    None = None
    Genesis = g
    Blocks <- MCBlocks
    Prev <- MCPrev
    Height <- MCHeight
    Trust <- MCTrust
    Txs <- MCTxs
    Vtx <- MCVtx
    Vin <- MCVin
    NOut <- MCNOut
    Generated <- MCGenerated
    Maturity = 1
INVARIANTS
    TypeOK
    IndexMatchesChain
    NoDoubleSpend
    NextPointersFollowChain
    IndexRooted
PROPERTIES
    BestTrustGrows
    ImplementsLedger
    CallReturns
