SPECIFICATION FairSpec
CONSTANTS
    k1 = k1
    k2 = k2
    k3 = k3
    Keys = {k1, k2}
    Ids = {i1, i2, i3}
    MaxEntries = 2
    Limit <- MCLimit
    Ttl = 2
    BlockDuration = 2
    Skew = 1
    MaxTime = 4
PROPERTIES
    ExpiredBucketsLeave
