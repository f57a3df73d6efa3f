SPECIFICATION Spec
CONSTANTS
    Threads = {t1, t2}
    Primitives = {p1, p2, p3, p4}
    Sizes = {1, 2, 3}
    Wrap = 5
    ExpandFails = FALSE
    RecreateFails = FALSE
    AnyThread = TRUE
    None = None
SYMMETRY PadSymmetry
INVARIANTS
    StorageCoversPrimitive
