SPECIFICATION NodesSpec
CONSTANTS
    opencon = opencon
    addcon = addcon
    peer = peer
    None = None
    MaxNodes = 2
    Addrs = {peer}
    Resolved = {None}
    Openers = {opencon, addcon}
    Ways <- MCWays
    MaxOutbound = 2
    MaxInbound = 1
INVARIANT
    OneShotsAreAlive
