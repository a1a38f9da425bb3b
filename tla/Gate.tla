-------------------------------- MODULE Gate --------------------------------
(***************************************************************************)
(* What the dry-run / confirm gate promises, without rows, leases, keys,   *)
(* processes or transactions: a token lets one worker at a time onto its   *)
(* target; while the outcome is open the target is held; what is recorded  *)
(* in the end is what was done; and a token comes back only unspent.       *)
(* DriverOperations implements this.                                       *)
(***************************************************************************)
CONSTANTS
    Ops,
    TargetOf,       \* TargetOf[o]: what o changes
    Effects         \* what an operation can leave behind

VARIABLES
    free,           \* free[o]: the token of o has not been spent
    held,           \* held[o]: o is open and keeps others off its target
    working,        \* working[o]: a worker of o may change the target
    effect,         \* effect[o]: what o has left behind
    verdict         \* verdict[o]: what is recorded about that, or "none"

vars == <<free, held, working, effect, verdict>>

Init ==
    /\ free = [o \in Ops |-> TRUE]
    /\ held = [o \in Ops |-> FALSE] /\ working = [o \in Ops |-> FALSE]
    /\ effect = [o \in Ops |-> "not_applied"]
    /\ verdict = [o \in Ops |-> "none"]

\* A token is spent on a target that nobody else holds or works on.
Take(o) ==
    /\ free[o] /\ ~held[o] /\ ~working[o] /\ verdict[o] = "none"
    /\ \A p \in Ops \ {o} :
          TargetOf[p] = TargetOf[o] => ~held[p] /\ ~working[p]
    /\ free' = [free EXCEPT ![o] = FALSE]
    /\ held' = [held EXCEPT ![o] = TRUE]
    /\ working' = [working EXCEPT ![o] = TRUE]
    /\ UNCHANGED <<effect, verdict>>

\* The target is changed by the one worker of an operation that holds it.
Work(o) ==
    /\ working[o] /\ held[o]
    /\ \E e \in Effects : effect' = [effect EXCEPT ![o] = e]
    /\ UNCHANGED <<free, held, working, verdict>>

\* The worker dies or is interrupted; the operation stays open.
Stop(o) ==
    /\ working[o] /\ held[o]
    /\ working' = [working EXCEPT ![o] = FALSE]
    /\ UNCHANGED <<free, held, effect, verdict>>

\* The true outcome is recorded, by the worker or by a later readback.
Settle(o) ==
    /\ held[o]
    /\ held' = [held EXCEPT ![o] = FALSE]
    /\ working' = [working EXCEPT ![o] = FALSE]
    /\ verdict' = [verdict EXCEPT ![o] = effect[o]]
    /\ UNCHANGED <<free, effect>>

\* The worker refuses before it has touched anything: the token is good again.
Refuse(o) ==
    /\ working[o] /\ held[o] /\ effect[o] = "not_applied"
    /\ free' = [free EXCEPT ![o] = TRUE]
    /\ held' = [held EXCEPT ![o] = FALSE]
    /\ working' = [working EXCEPT ![o] = FALSE]
    /\ UNCHANGED <<effect, verdict>>

\* The request has run before under its key: its token is spent on nothing.
Supersede(o) ==
    /\ free[o] /\ ~held[o] /\ ~working[o] /\ effect[o] = "not_applied"
    /\ free' = [free EXCEPT ![o] = FALSE]
    /\ verdict' = [verdict EXCEPT ![o] = "not_applied"]
    /\ UNCHANGED <<held, working, effect>>

\* What was recorded is withdrawn and the operation is open again, but nobody
\* works on it.
Doubt(o) ==
    /\ ~held[o] /\ ~working[o]
    /\ held' = [held EXCEPT ![o] = TRUE]
    /\ verdict' = [verdict EXCEPT ![o] = "none"]
    /\ UNCHANGED <<free, working, effect>>

Next == \E o \in Ops :
    \/ Take(o) \/ Work(o) \/ Stop(o) \/ Settle(o)
    \/ Refuse(o) \/ Supersede(o) \/ Doubt(o)

Spec == Init /\ [][Next]_vars

=============================================================================
