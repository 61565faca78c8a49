SPECIFICATION FairSmsg
CONSTANTS
    n1 = n1
    n2 = n2
    m1 = m1
    m2 = m2
    time = time
    None = None
    Nodes = {n1, n2}
    Msgs = {m1, m2}
    Author <- MCSender
    Key <- MCKey
    Buckets = {time}
    BucketOf <- MCBucketOf
    LockTicks = 1
    BunchMax = 1
    Restless = {n1}
    Scanners = {n2}
    Ageing = {time}
    MaxEvents = 0
    MaxInFlight = 1
PROPERTY
    PeersGetTheRest
CHECK_DEADLOCK FALSE
