SPECIFICATION Spec
CONSTANTS
    k1 = k1
    k2 = k2
    k3 = k3
    Keys = {k1, k2, k3}
    Ids = {i1, i2, i3}
    MaxEntries = 2
    Limit <- MCLimit
    Ttl = 2
    BlockDuration = 2
    Skew = 1
    MaxTime = 5
SYMMETRY Symmetry
INVARIANTS
    TypeOK
    MemoryIsBounded
    QuotaHolds
    TimeoutsCoverTheirBuckets
PROPERTIES
    BlocksLast
    OnlyTheIdleAreEvicted
