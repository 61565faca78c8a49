SPECIFICATION FairSmsg
CONSTANTS
    n1 = n1
    n2 = n2
    m1 = m1
    m2 = m2
    time = time
    None = None
    Nodes = {n1, n2}
    Msgs = {m1}
    Author <- MCAuthor
    Key <- MCKey
    Buckets = {time}
    BucketOf <- MCBucketOf
    LockTicks = 1
    BunchMax = 2
    Restless = {n1}
    Scanners = {}
    Ageing = {}
    MaxEvents = 1
    MaxInFlight = 1
PROPERTY
    DisableReturns
CHECK_DEADLOCK FALSE
