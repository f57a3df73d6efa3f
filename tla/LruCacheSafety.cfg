SPECIFICATION Spec
CONSTANTS
    t1 = t1
    t2 = t2
    k1 = k1
    k2 = k2
    k3 = k3
    o1 = o1
    o2 = o2
    o3 = o3
    o4 = o4
    Failed = Failed
    NoCall = NoCall
    Threads = {t1, t2}
    Keys = {k1, k2, k3}
    Objects = {o1, o2, o3, o4}
    MaxCapacity = 3
    Nested <- K1NestsK2
    Failing = {k1, k2, k3}
    CacheBlobs = FALSE
    KeyMerge = TRUE
    WithoutClearing = FALSE
SYMMETRY NestedSymmetry
CHECK_DEADLOCK FALSE
INVARIANTS
    TypeOK
    SizeWithinCapacity
    PendingHasCreator
    FailureNotCached
    KeyPointersInStoredObject
PROPERTY ImplementsMemoTable
