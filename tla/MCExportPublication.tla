------------------------ MODULE MCExportPublication ------------------------
(***************************************************************************)
(* TLC: exports of two boards of one directory, whose default output is    *)
(* the same fab/gerber.                                                    *)
(***************************************************************************)
EXTENDS ExportPublication, TLC

\* Processes, operations and file names are interchangeable.
Symmetric == Permutations(Agents) \union Permutations(Ops)
                 \union Permutations(FileNames)

=============================================================================
