SPECIFICATION AddrManSpec

CONSTANTS
    s1 = s1
    s2 = s2
    s3 = s3
    s4 = s4
    s5 = s5
    peer1 = peer1
    peer2 = peer2
    Services <- MCServices
    Address <- MCAddress
    Sources <- MCSources
    NewBuckets = {1, 2}
    NewBucket <- MCNewBucket
    TriedBuckets = {1, 2}
    TriedBucket <- MCTriedBucket
    MaxNewBucket = 1
    MaxTriedBucket = 1
    MaxRefs = 2
    MaxPct = 75
    MaxGetAddr = 2

INVARIANT AddrManConsistent
PROPERTIES TriedStays ReloadKeepsTables

CHECK_DEADLOCK FALSE
