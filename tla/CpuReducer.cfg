SPECIFICATION FairReducerSpec
CONSTANTS
    Threads <- FourThreads
    MaxRounds = 3
    Reducers <- SmallReducers
    Reducers2d <- SmallReducers2d
    Line = 2
INVARIANTS
    TypeOK
    NoEarlyExit
    ReductionComplete
    PartialsApart
    SumsApart
    BalanceSound
PROPERTY EveryRoundEnds
