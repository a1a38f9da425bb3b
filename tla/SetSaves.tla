------------------------------ MODULE SetSaves ------------------------------
(***************************************************************************)
(* What saving sets of documents promises, without sidecars, journals,     *)
(* guards or processes: an operation holds its whole set while it writes,  *)
(* gives every document its own bytes or the old ones, decides once on     *)
(* what is there, and reports a final outcome only of a whole set.         *)
(* DocumentTransaction implements this.                                    *)
(***************************************************************************)
CONSTANTS
    Ops, Docs, Bytes,
    Edits,          \* bytes that programs outside the tool save
    FilesIn,        \* FilesIn[o]: the documents o writes
    MembersOf       \* MembersOf[o]: the documents o needs for itself

VARIABLES
    doc,            \* doc[d]: bytes of the document
    phase,          \* phase[o]: "waiting", "holding" or "decided"
    base,           \* base[o]: the old bytes of the set, once it is held
    decision,       \* decision[o]: the bytes o was decided on
    final           \* final[o]: o was reported as done or as undone

vars == <<doc, phase, base, decision, final>>

\* What can have been read of the set a moment ago: an editor may have come in.
Readings(o) == {bytes \in [FilesIn[o] -> Bytes] :
                    \A d \in FilesIn[o] : doc[d] \in Edits \union {bytes[d]}}
Intended(o) == [d \in FilesIn[o] |-> o]

Init ==
    /\ phase = [o \in Ops |-> "waiting"]
    /\ base = [o \in Ops |-> <<>>] /\ decision = [o \in Ops |-> <<>>]
    /\ final = [o \in Ops |-> FALSE]
    /\ doc \in [Docs -> Bytes \ Ops]

\* The set is taken as a whole, and nobody else holds any part of it.
Hold(o) ==
    /\ phase[o] = "waiting"
    /\ \A p \in Ops \ {o} :
          phase[p] = "holding" => MembersOf[p] \cap MembersOf[o] = {}
    /\ phase' = [phase EXCEPT ![o] = "holding"]
    /\ \E old \in Readings(o) : base' = [base EXCEPT ![o] = old]
    /\ UNCHANGED <<doc, decision, final>>

\* Save one document, over nothing but its old bytes.
Save(o, d) ==
    /\ phase[o] = "holding" /\ d \in FilesIn[o]
    /\ doc[d] = base[o][d]
    /\ doc' = [doc EXCEPT ![d] = o]
    /\ UNCHANGED <<phase, base, decision, final>>

\* Restore one document.  An edit that came in after the operation looked at it
\* is lost.
Restore(o, d) ==
    /\ phase[o] = "holding" /\ d \in FilesIn[o]
    /\ doc' = [doc EXCEPT ![d] = base[o][d]]
    /\ UNCHANGED <<phase, base, decision, final>>

\* The outcome is fixed by the bytes that are there; the old ones are no longer
\* needed to restore it.
Decide(o) ==
    /\ phase[o] = "holding"
    /\ phase' = [phase EXCEPT ![o] = "decided"]
    /\ \E seen \in Readings(o) : decision' = [decision EXCEPT ![o] = seen]
    /\ UNCHANGED <<doc, base, final>>

Report(o) ==
    /\ phase[o] = "decided" /\ ~final[o]
    /\ decision[o] \in {Intended(o), base[o]}
    /\ final' = [final EXCEPT ![o] = TRUE]
    /\ UNCHANGED <<doc, phase, base, decision>>

\* Programs outside the tool hold nothing.
Edit(d) ==
    /\ \E e \in Edits : doc' = [doc EXCEPT ![d] = e]
    /\ UNCHANGED <<phase, base, decision, final>>

Next ==
    \/ \E d \in Docs : Edit(d)
    \/ \E o \in Ops :
        \/ Hold(o) \/ Decide(o) \/ Report(o)
        \/ \E d \in FilesIn[o] : Save(o, d) \/ Restore(o, d)

Spec == Init /\ [][Next]_vars

=============================================================================
