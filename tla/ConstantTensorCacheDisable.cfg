SPECIFICATION Spec
CONSTANTS
    small = small
    large = large
    Threads = {t1, t2}
    Keys = {small, large}
    SizeOf <- SmallLarge
    Copies = {1, 2, 3}
    Capacities = {0, 2}
    Failing = {}
    Broken = Broken
    NoThread = NoThread
    NoBuffer = NoBuffer
INVARIANT ConstantsReady
