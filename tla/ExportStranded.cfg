SPECIFICATION Spec

CONSTANTS
    Ops = {o1, o2}
    Agents = {p1, p2, p3}
    FileNames = {f1, f2}
    EarlyMoves = FALSE
    OneResolver = TRUE
    Foreign = Foreign
    None = None

SYMMETRY Symmetric
CHECK_DEADLOCK FALSE
INVARIANT FailedReleasesLock
