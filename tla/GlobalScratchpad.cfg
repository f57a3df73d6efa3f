SPECIFICATION PadSpec
CONSTANTS
    Threads = {t1, t2}
    Primitives = {p1, p2, p3, p4}
    Sizes <- SmallSizes
    Wrap = 5
    ExpandFails = TRUE
    RecreateFails = FALSE
    AnyThread = FALSE
    None = None
    default_alignment = 8
    PageSize = 16
    ProtectPages = 1
    MAX_KEY = 1024
    MAX_PREFIX = 128
    conv = conv
    reorder = reorder
    parent = parent
    Descs = {conv, reorder, parent}
    Bookings <- SmallBookings
    Bases <- SmallBases
    CacheLine = 4
SYMMETRY PadSymmetry
INVARIANTS
    ReferencesCounted
    FreedWhenUnreferenced
    PiecesApart
    BookingsKept
    PiecesInStorage
    GuardsApart
