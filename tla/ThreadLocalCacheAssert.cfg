SPECIFICATION Spec
CONSTANTS
    Threads = {t1, t2}
    Kernels = {k1}
    Copies = {1, 2}
    MaxEpoch = 1
    NoKernel = NoKernel
CHECK_DEADLOCK FALSE
INVARIANT ExpectedValueExists
