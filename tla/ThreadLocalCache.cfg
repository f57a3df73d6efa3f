SPECIFICATION Spec
CONSTANTS
    Threads = {t1, t2}
    Kernels = {k1, k2}
    Copies = {1, 2}
    MaxEpoch = 2
    NoKernel = NoKernel
SYMMETRY CacheSymmetry
CHECK_DEADLOCK FALSE
INVARIANTS
    TypeOK
    OwnFreshResource
    NoOrphan
    CacheOutlivesUsers
