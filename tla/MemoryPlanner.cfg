SPECIFICATION Spec
CONSTANTS
    Inputs = 2
    Constant = {2}
    InputSize <- Sizes
    Bounds <- LongOrWide
    match_range_ = 2
    Alignment = 4
    Sharing = TRUE
    ConstantOutputs = FALSE
    MaxRuns = 2
INVARIANTS
    TypeOK
    InputsIntact
    OutputsApart
    OutputsDelivered
    PiecesFit
CHECK_DEADLOCK FALSE
