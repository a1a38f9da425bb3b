----------------------- MODULE MCDocumentTransaction -----------------------
(***************************************************************************)
(* Constant values for TLC.  edit is a schematic edit of a root sheet, its *)
(* sub-sheet and a sheet it creates; sub is an edit of the sub-sheet alone.*)
(***************************************************************************)
EXTENDS DocumentTransaction, TLC

CONSTANTS edit, sub, root, sheet, new

MCFilesOf == [o \in Ops |->
    IF o = sub THEN <<sheet>>
    ELSE IF new \in Docs THEN <<sheet, new, root>> ELSE <<sheet, root>>]

MCPrimaryOf == [o \in Ops |-> IF o = sub THEN sheet ELSE root]

MCNewDocs == Docs \cap {new}

\* The processes are interchangeable.
Symmetric == Permutations(Agents)

=============================================================================
