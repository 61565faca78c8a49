SPECIFICATION MinerSpec
CONSTANTS
    g = g
    p = p
    q = q
    a1 = a1
    a2 = a2
    b1 = b1
    b2 = b2
    c0 = c0
    t1 = t1
    t2 = t2
    t3 = t3
    t4 = t4
    t5 = t5
    None = None
    Genesis = g
    Blocks <- MCBlocks
    Prev <- MCPrev
    Height <- MCHeight
    Trust <- MCTrust
    Txs <- MCTxs
    Vtx <- MCVtx
    Vin <- MCVin
    NOut <- MCNOut
    Generated <- MCGenerated
    Maturity = 1
    Time <- MCTime
    TotalBlocksEstimate = 0
    StakeTimes = {1, 2}
INVARIANT
    PoolUnspentByChain
