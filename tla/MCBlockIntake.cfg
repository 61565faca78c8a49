SPECIFICATION FairIntake
CONSTANTS
    g = g
    a1 = a1
    a2 = a2
    a3 = a3
    b1 = b1
    b2 = b2
    s1 = s1
    s2 = s2
    None = None
    Genesis = g
    Blocks <- MCBlocks
    Prev <- MCPrev
    Height <- MCHeight
    Trust <- MCTrust
    Stake <- MCStake
    Txs <- MCTxs
    Vtx <- MCVtx
    Vin <- MCVin
    NOut <- MCNOut
    Generated <- MCTxs
    Maturity = 1
    MaxOrphans = 1
INVARIANTS
    IntakeTypeOK
    OrphansAreNotIndexed
    OrphansWait
    StakesAreSeen
    NoStakeLeak
PROPERTIES
    ProcessReturns
