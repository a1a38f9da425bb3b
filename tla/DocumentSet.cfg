SPECIFICATION Spec

CONSTANTS
    edit = edit
    sub = sub
    root = root
    sheet = sheet
    new = new
    Old = Old
    Absent = Absent
    Edits = {e1}
    None = None
    Ops = {edit}
    Docs = {root, sheet, new}
    Agents = {p1, p2, p3}
    OneResolver = TRUE
    FilesOf <- MCFilesOf
    PrimaryOf <- MCPrimaryOf
    NewDocs <- MCNewDocs

SYMMETRY Symmetric
CHECK_DEADLOCK FALSE
INVARIANTS
    BaselineKept
    NoTornSet
    ClosedLeavesNothing
    CleanupResumes
PROPERTIES
    EditsSurvive
    ImplementsSetSaves
