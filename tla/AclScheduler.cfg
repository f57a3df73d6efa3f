SPECIFICATION FairSpec
CONSTANTS
    now = now
    later = later
    inline = inline
    Callers = {c1, c2}
    Workers = {w1, w2}
    Pools = {now, later, inline}
    Async = {later}
    PoolThreads <- Sizes
    ActivePools <- AlwaysActive
    MaxWorkloads = 3
    Concurrency = 2
    waiter_mask_ = 4
    None = None
INVARIANTS
    TypeOK
    FrameOutlivesJobs
    WorkloadsRunOnce
    ActiveOnlyInJobs
PROPERTY EveryRunEnds
CHECK_DEADLOCK FALSE
