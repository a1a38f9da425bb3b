SPECIFICATION Spec

CONSTANTS
    edit = edit
    sub = sub
    root = root
    sheet = sheet
    new = new
    Old = Old
    Absent = Absent
    Edits = {}
    None = None
    Ops = {edit, sub}
    Docs = {root, sheet}
    Agents = {p1, p2, p3}
    OneResolver = TRUE
    FilesOf <- MCFilesOf
    PrimaryOf <- MCPrimaryOf
    NewDocs <- MCNewDocs

SYMMETRY Symmetric
CHECK_DEADLOCK FALSE
INVARIANTS
    TypeOK
    DisjointWriters
    WaitingUntouched
PROPERTIES
    CleansOnlyOwn
    ImplementsSetSaves
