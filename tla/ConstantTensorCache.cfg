SPECIFICATION FairSpec
CONSTANTS
    small = small
    large = large
    Threads = {t1, t2}
    Keys = {small, large}
    SizeOf <- SmallLarge
    Copies = {1, 2, 3}
    Capacities = {2, 3}
    Failing = {small}
    Broken = Broken
    NoThread = NoThread
    NoBuffer = NoBuffer
INVARIANTS
    TypeOK
    TotalWithinCapacity
    PendingIsFilled
    ConstantsReady
PROPERTY NoCallHangs
CHECK_DEADLOCK FALSE
