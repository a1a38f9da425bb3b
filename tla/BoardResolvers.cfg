SPECIFICATION Spec

CONSTANTS
    move = move
    power = power
    zone = zone
    Old = Old
    None = None
    Ops = {move, power}
    Agents = {p1, p2, p3, p4}
    Edits = {e1}
    AtomicOps = {power}
    EditorRaces = FALSE
    OneResolver = FALSE
    StoreOf <- MCStores

SYMMETRY Symmetric
CHECK_DEADLOCK FALSE
PROPERTIES
    CleansOnlyOwn
