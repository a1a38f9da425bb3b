------------------------- MODULE MCDriverOperations -------------------------
(***************************************************************************)
(* Constant values for TLC.  o1 and o2 are two plans of the same request   *)
(* on one board, o3 is a plan for another board; one scope covers all.     *)
(***************************************************************************)
EXTENDS DriverOperations, TLC

CONSTANTS o1, o2, o3, board, sheet, s1

MCTargetOf == [o \in Ops |-> IF o = o3 THEN sheet ELSE board]
MCDigestOf == [o \in Ops |-> IF o = o3 THEN "other" ELSE "same"]
MCScopeOf  == [o \in Ops |-> s1]
MCLimit    == [s \in Scopes |-> 2]
MCOneUnit  == [s \in Scopes |-> 1]

\* The processes are interchangeable.
Symmetric == Permutations(Procs)

=============================================================================
