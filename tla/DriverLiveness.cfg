SPECIFICATION FairSpec

CONSTANTS
    o1 = o1
    o2 = o2
    o3 = o3
    board = board
    sheet = sheet
    s1 = s1
    NoKey = NoKey
    NoOp = NoOp
    NoProc = NoProc
    Ops = {o1, o3}
    Procs = {p1, p2}
    Keys = {k1}
    Scopes = {s1}
    TargetOf <- MCTargetOf
    DigestOf <- MCDigestOf
    ScopeOf <- MCScopeOf
    Limit <- MCOneUnit

CHECK_DEADLOCK FALSE
INVARIANT BudgetExact
PROPERTIES
    AbandonedIsResolvable
    DispatchedSettles
