SPECIFICATION FairNodes
CONSTANTS
    opencon = opencon
    addcon = addcon
    peer = peer
    None = None
    MaxNodes = 2
    Addrs = {peer}
    Resolved = {None}
    Openers = {opencon, addcon}
    Ways <- MCMoreWays
    MaxOutbound = 2
    MaxInbound = 1
INVARIANTS
    NoUseAfterDelete
    SlotsBelongToPeers
    GrantsAddUp
    NoTwins
PROPERTY
    DisconnectedAreDeleted
