------------------------- MODULE MCBoardTransaction -------------------------
(***************************************************************************)
(* Constant values for TLC: a move and a zone operation in one state       *)
(* directory, and a power operation on the same board in another one.      *)
(***************************************************************************)
EXTENDS BoardTransaction, TLC

CONSTANTS move, zone, power

MCStores == [o \in Ops |-> IF o = power THEN 2 ELSE 1]

\* The processes are interchangeable, and so are the edits.
Symmetric == Permutations(Agents) \union Permutations(Edits)

=============================================================================
