SPECIFICATION Spec

CONSTANTS
    edit = edit
    sub = sub
    root = root
    sheet = sheet
    new = new
    Old = Old
    Absent = Absent
    Edits = {}
    None = None
    Ops = {edit}
    Docs = {root, sheet}
    Agents = {p1, p2}
    OneResolver = TRUE
    FilesOf <- MCFilesOf
    PrimaryOf <- MCPrimaryOf
    NewDocs <- MCNewDocs

SYMMETRY Symmetric
CHECK_DEADLOCK FALSE
INVARIANT RegisteredAdmits
