SPECIFICATION Spec

CONSTANTS
    move = move
    power = power
    zone = zone
    Old = Old
    None = None
    Ops = {move, zone, power}
    Agents = {p1, p2, p3}
    Edits = {e1}
    AtomicOps = {power}
    EditorRaces = FALSE
    OneResolver = TRUE
    StoreOf <- MCStores

SYMMETRY Symmetric
CHECK_DEADLOCK FALSE
INVARIANTS
    TypeOK
    BaselineRecoverable
    CleanupVisible
    RecordedOutcomeTrue
    ClosedLeavesNothing
    UnattributedIsDecided
PROPERTIES
    SavesUnderOwnLock
    EditsSurvive
