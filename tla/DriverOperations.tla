-------------------------- MODULE DriverOperations --------------------------
(***************************************************************************)
(* The dry-run / confirm gate of the driver: the SQLite operation records  *)
(* of _driver_sdk/store.py, the CLI processes of _driver_sdk/runtime.py    *)
(* and driver_runtime.py that confirm, run, settle and resolve them, and   *)
(* the adapter those processes call, reduced to what it may do to the      *)
(* target.                                                                 *)
(*                                                                         *)
(* Every store method is one BEGIN IMMEDIATE transaction and is one        *)
(* action.  What a process reads before a transaction and uses in it is    *)
(* split into two actions.  A process is one CLI invocation: it confirms   *)
(* at most one plan, may die at any point and never runs again.  A failing *)
(* transaction (a locked database) rolls back and raises: the process then *)
(* goes on at SettleRead.                                                  *)
(*                                                                         *)
(* Time is abstracted: a lease is "live" until LeaseExpires turns it       *)
(* "expired", and a confirm that fails a check of _confirmable (token      *)
(* expiry, scope, drift) changes no state, so it is a stuttering step.     *)
(***************************************************************************)
EXTENDS Naturals, FiniteSets

CONSTANTS
    Ops,        \* operation ids; one plan and one confirm token each
    Procs,      \* CLI processes, each with its own pid
    Keys,       \* idempotency keys (--request-id / --idempotency-key)
    Scopes,     \* task scopes with limits.max_operations
    TargetOf,   \* TargetOf[o]: target_key of the plan
    DigestOf,   \* DigestOf[o]: request digest of the plan
    ScopeOf,    \* ScopeOf[o]: scope the plan was made under
    Limit,      \* Limit[s]: max_operations of the scope
    NoKey, NoOp, NoProc

ASSUME OperationConstants ==
    /\ ScopeOf \in [Ops -> Scopes]
    /\ Limit \in [Scopes -> Nat]
    /\ DOMAIN TargetOf = Ops /\ DOMAIN DigestOf = Ops
    /\ NoKey \notin Keys /\ NoOp \notin Ops /\ NoProc \notin Procs

VARIABLES
    record,     \* record[o]: the row of the operations table
    consumed,   \* operations whose token is in consumed_tokens
    used,       \* used[s]: the scope_usage counter
    proc,       \* proc[p]: the CLI process
    effect,     \* effect[o]: what o has done to its target (ground truth)
    starts      \* starts[o]: times an adapter began native work for o

storeVars  == <<record, consumed, used>>
nativeVars == <<effect, starts>>
vars       == <<record, consumed, used, proc, effect, starts>>

-----------------------------------------------------------------------------
(* Types.  "absent" is an operation without a row, "drafted" one whose dry   *)
(* run has passed its prechecks and not yet inserted it; "none" is NULL.    *)

Statuses  == {"absent", "drafted", "planned", "dispatched", "unknown",
              "succeeded", "partial", "failed"}
Effects   == {"not_applied", "applied", "partial"}
Results   == {"none", "refused", "completed", "failed", "partial",
              "unknown", "raised"}
PCs       == {"idle", "checked", "dispatched", "owned", "native", "returned",
              "settling", "replied", "exited"}

Record == [status     : Statuses,
           key        : Keys \union {NoKey},
           receipt    : BOOLEAN,
           lease      : {"none", "live", "expired"},
           resolution : Effects \union {"none"},
           writer     : Procs \union {NoProc},
           notStarted : BOOLEAN]

Process == [pc     : PCs,
            op     : Ops \union {NoOp},
            key    : Keys \union {NoKey},
            result : Results]

TypeOK ==
    /\ record \in [Ops -> Record]
    /\ consumed \subseteq Ops
    /\ used \in [Scopes -> Nat]
    /\ proc \in [Procs -> Process]
    /\ effect \in [Ops -> Effects]
    /\ starts \in [Ops -> Nat]

NoRecord == [status |-> "absent", key |-> NoKey, receipt |-> FALSE,
             lease |-> "none", resolution |-> "none", writer |-> NoProc,
             notStarted |-> FALSE]

Init ==
    /\ record = [o \in Ops |-> NoRecord]
    /\ consumed = {}
    /\ used = [s \in Scopes |-> 0]
    /\ proc = [p \in Procs |-> [pc |-> "idle", op |-> NoOp, key |-> NoKey,
                                result |-> "none"]]
    /\ effect = [o \in Ops |-> "not_applied"]
    /\ starts = [o \in Ops |-> 0]

-----------------------------------------------------------------------------
(* What the store derives from a row.                                       *)

\* ACTIVE, without the statuses only an asynchronous submit produces.
Active == {"dispatched", "unknown"}

\* A row that _blocking selects for its target.
Holds(o) == record[o].status \in Active /\ record[o].resolution = "none"

Blocking(o) == \E other \in Ops \ {o} :
                  TargetOf[other] = TargetOf[o] /\ Holds(other)

EffectiveStatus(o) ==
    IF record[o].status = "dispatched"
    THEN IF record[o].lease = "live" THEN "running" ELSE "unknown"
    ELSE record[o].status

\* Mutant of ProvablyNotStarted: any resolution without a receipt counts.
ProvablyNotStartedIfResolved(o) ==
    \/ record[o].status \in {"planned", "failed"} /\ ~record[o].receipt
    \/ record[o].resolution # "none" /\ ~record[o].receipt

\* No adapter of the repository returns a receipt that says "not_started", the
\* last clause of provably_not_started.
ProvablyNotStarted(o) ==
    \/ record[o].status = "planned"
    \/ /\ record[o].status = "failed"
       /\ ~record[o].receipt
       /\ record[o].notStarted
    \/ /\ record[o].resolution = "not_applied"
       /\ ~record[o].receipt

\* Mutant of KeyOwners: only operations that left a receipt own their key.
KeyOwnersByReceipt(o, k) ==
    {other \in Ops \ {o} : /\ k # NoKey /\ record[other].key = k
                           /\ record[other].receipt}

\* Earlier operations that own the idempotency key.
KeyOwners(o, k) ==
    {other \in Ops \ {o} : /\ k # NoKey
                           /\ record[other].key = k
                           /\ record[other].status \notin {"absent", "drafted", "planned"}
                           /\ ~ProvablyNotStarted(other)}

\* Mutant of WithinBudget: off by one.
WithinBudgetOffByOne(s) == used[s] <= Limit[s]

\* max_operations allows one more operation.
WithinBudget(s) == used[s] + 1 <= Limit[s]

\* Mutant of GiveBack: a refused operation keeps its unit.
GiveBackNothing(s) == used

\* _count: the counter never goes below zero.
GiveBack(s) == [used EXCEPT ![s] = IF @ = 0 THEN 0 ELSE @ - 1]

Exit(p)    == proc' = [proc EXCEPT ![p].pc = "exited"]
Goto(p, l) == proc' = [proc EXCEPT ![p].pc = l]
Alive(p)   == proc[p].pc # "exited"

-----------------------------------------------------------------------------
(* Dry run and confirm.                                                     *)

\* A dry run finds the scope's budget open and the target free.
DryRun(o) ==
    /\ record[o].status = "absent"
    /\ WithinBudget(ScopeOf[o])
    /\ ~Blocking(o)
    /\ record' = [record EXCEPT ![o].status = "drafted"]
    /\ UNCHANGED <<consumed, used, proc, nativeVars>>

\* store.add_plan inserts the row, and the confirm token is handed out.
AddPlan(o) ==
    /\ record[o].status = "drafted"
    /\ record' = [record EXCEPT ![o].status = "planned"]
    /\ UNCHANGED <<consumed, used, proc, nativeVars>>

\* _confirmable read the row as planned; _dispatch has set _in_flight.
Confirmable(p, o, k) ==
    /\ proc[p].pc = "idle"
    /\ record[o].status = "planned"
    /\ proc' = [proc EXCEPT ![p] = [pc |-> "checked", op |-> o, key |-> k,
                                    result |-> "none"]]
    /\ UNCHANGED <<storeVars, nativeVars>>

\* Mutants of Dispatchable: the target, or the plan, was checked before.
DispatchableUnblocked(o) == record[o].status = "planned" /\ o \notin consumed
DispatchableRecheckless(o) == ~Blocking(o)

\* store.dispatch finds the plan waiting, the target free and the token unused.
Dispatchable(o) ==
    /\ record[o].status = "planned"
    /\ ~Blocking(o)
    /\ o \notin consumed

\* store.dispatch commits: token consumed, unit counted, row dispatched.
Dispatch(p) ==
    LET o == proc[p].op
        s == ScopeOf[o]
    IN  /\ proc[p].pc = "checked"
        /\ Dispatchable(o)
        /\ KeyOwners(o, proc[p].key) = {}
        /\ WithinBudget(s)
        /\ record' = [record EXCEPT ![o] = [@ EXCEPT !.status = "dispatched",
                                                     !.key = proc[p].key,
                                                     !.lease = "live"]]
        /\ consumed' = consumed \union {o}
        /\ used' = [used EXCEPT ![s] = @ + 1]
        /\ Goto(p, "dispatched")
        /\ UNCHANGED nativeVars

\* The key already ran with the same arguments: consume the token, fail the
\* plan as superseded and replay the earlier receipt (KeyUsed).
Replay(p) ==
    LET o == proc[p].op IN
        /\ proc[p].pc = "checked"
        /\ Dispatchable(o)
        /\ KeyOwners(o, proc[p].key) # {}
        /\ \A other \in KeyOwners(o, proc[p].key) :
              DigestOf[other] = DigestOf[o]
        /\ record' = [record EXCEPT ![o] = [@ EXCEPT !.status = "failed",
                                                     !.notStarted = TRUE]]
        /\ consumed' = consumed \union {o}
        /\ Exit(p)
        /\ UNCHANGED <<used, nativeVars>>

\* TokenUsed, Blocked, KeyMismatch or BudgetSpent: the transaction rolls back.
Refused(p) ==
    LET o == proc[p].op
        owners == KeyOwners(o, proc[p].key)
    IN  /\ proc[p].pc = "checked"
        /\ \/ ~Dispatchable(o)
           \/ \E other \in owners : DigestOf[other] # DigestOf[o]
           \/ owners = {} /\ ~WithinBudget(ScopeOf[o])
        /\ Exit(p)
        /\ UNCHANGED <<storeVars, nativeVars>>

-----------------------------------------------------------------------------
(* The dispatched call.                                                     *)

\* MoveDriver._dispatched stores its pid, if the row is still dispatched.
RecordWriter(p) ==
    LET o == proc[p].op IN
        /\ proc[p].pc = "dispatched"
        /\ record' = IF record[o].status = "dispatched"
                     THEN [record EXCEPT ![o].writer = p]
                     ELSE record
        /\ Goto(p, "owned")
        /\ UNCHANGED <<consumed, used, nativeVars>>

\* Mutant of Heartbeat: the thread outlives the call.
HeartbeatDetached(p) ==
    LET o == proc[p].op IN
        /\ proc[p].pc # "idle"
        /\ record[o].status = "dispatched"
        /\ record' = [record EXCEPT ![o].lease = "live"]
        /\ UNCHANGED <<consumed, used, proc, nativeVars>>

\* The heartbeat thread renews the lease while the adapter runs.
Heartbeat(p) ==
    LET o == proc[p].op IN
        /\ proc[p].pc \in {"owned", "native"}
        /\ record[o].status = "dispatched"
        /\ record' = [record EXCEPT ![o].lease = "live"]
        /\ UNCHANGED <<consumed, used, proc, nativeVars>>

LeaseExpires(o) ==
    /\ record[o].lease = "live"
    /\ record' = [record EXCEPT ![o].lease = "expired"]
    /\ UNCHANGED <<consumed, used, proc, nativeVars>>

\* Mutant of AdapterRefuses: "not_started" is also said after the start.
AdapterRefusesLate(p) ==
    /\ proc[p].pc \in {"owned", "native"}
    /\ proc' = [proc EXCEPT ![p] = [@ EXCEPT !.pc = "returned",
                                             !.result = "refused"]]
    /\ UNCHANGED <<storeVars, nativeVars>>

\* The adapter refuses before its transaction is armed (explicit not_started).
AdapterRefuses(p) ==
    /\ proc[p].pc = "owned"
    /\ proc' = [proc EXCEPT ![p] = [@ EXCEPT !.pc = "returned",
                                             !.result = "refused"]]
    /\ UNCHANGED <<storeVars, nativeVars>>

NativeStart(p) ==
    /\ proc[p].pc = "owned"
    /\ Goto(p, "native")
    /\ starts' = [starts EXCEPT ![proc[p].op] = @ + 1]
    /\ UNCHANGED <<storeVars, effect>>

\* One save of the adapter: some or all of the target, or its restoration.
NativeWrite(p) ==
    /\ proc[p].pc = "native"
    /\ \E e \in Effects : effect' = [effect EXCEPT ![proc[p].op] = e]
    /\ UNCHANGED <<storeVars, proc, starts>>

\* What the adapter may report about the bytes it left behind.
Reportable(e) ==
    {"unknown", "raised"} \union
    (CASE e = "applied"     -> {"completed"}
       [] e = "not_applied" -> {"failed"}
       [] e = "partial"     -> {"partial"})

AdapterReturns(p) ==
    /\ proc[p].pc = "native"
    /\ \E r \in Reportable(effect[proc[p].op]) :
          proc' = [proc EXCEPT ![p] = [@ EXCEPT !.pc = "returned", !.result = r]]
    /\ UNCHANGED <<storeVars, nativeVars>>

-----------------------------------------------------------------------------
(* Recording the outcome.                                                   *)

\* Mutant of StatusFor: the receipt's word is stored.
StatusAsReported(r) == r

\* Mutant of StatusFor: an uncertain outcome is recorded as a failure.
StatusForDecided(r) ==
    IF r = "completed" THEN "succeeded" ELSE IF r = "unknown" THEN "failed" ELSE r

\* _status_for: the status a receipt is recorded under.
StatusFor(r) == IF r = "completed" THEN "succeeded" ELSE r

\* store.finish: a resolved or otherwise settled row keeps its status.
Finished(o, s, receipt) ==
    IF \/ record[o].resolution # "none"
       \/ record[o].status \in {"succeeded", "partial", "failed"} \ {s}
    THEN record
    ELSE [record EXCEPT ![o] = [@ EXCEPT !.status = s, !.receipt = receipt,
                                         !.lease = "none"]]

\* A receipt that satisfies the contract decides the status and is stored; one
\* that does not is dropped and the outcome is unknown.
Finish(p) ==
    LET o == proc[p].op
        r == proc[p].result
    IN  /\ proc[p].pc = "returned"
        /\ r \in {"completed", "failed", "partial", "unknown"}
        /\ \E receipt \in {b \in BOOLEAN : b \/ r = "unknown"} :
              record' = Finished(o, StatusFor(r), receipt)
        /\ Goto(p, "replied")
        /\ UNCHANGED <<consumed, used, nativeVars>>

\* store.undispatch: plan back to planned, token and unit released.
Undispatch(p) ==
    LET o == proc[p].op IN
        /\ proc[p].pc = "returned"
        /\ proc[p].result = "refused"
        /\ IF record[o].status = "dispatched"
           THEN /\ record' = [record EXCEPT ![o] =
                     [@ EXCEPT !.status = "planned", !.lease = "none",
                               !.key = NoKey, !.writer = NoProc]]
                /\ consumed' = consumed \ {o}
                /\ used' = GiveBack(ScopeOf[o])
           ELSE UNCHANGED storeVars
        /\ Goto(p, "replied")
        /\ UNCHANGED nativeVars

\* _settle_unknown, first half: read the row.  An exception (an interrupt, a
\* locked database, a failing adapter) escaped while the process had the
\* operation in flight, also when it was another process that dispatched it.
SettleRead(p) ==
    LET pc == proc[p].pc
        status == record[proc[p].op].status
    IN  /\ \/ pc \in {"checked", "dispatched", "owned", "returned"}
           \/ pc = "replied" /\ proc[p].result # "raised"
        /\ proc' = [proc EXCEPT ![p] = [@ EXCEPT
              !.pc = IF status = "dispatched" THEN "settling"
                     ELSE IF pc = "checked" /\ status = "planned"
                          THEN "exited" ELSE "replied",
              !.result = "raised"]]
        /\ UNCHANGED <<storeVars, nativeVars>>

\* _settle_unknown, second half: finish(unknown) in its own transaction.
SettleUnknown(p) ==
    /\ proc[p].pc = "settling"
    /\ record' = Finished(proc[p].op, "unknown", FALSE)
    /\ Goto(p, "replied")
    /\ UNCHANGED <<consumed, used, nativeVars>>

\* runtime._finish: a reply made of what the adapter said breaks the response
\* contract, so store.demote sets whatever row is there to unknown and drops
\* its receipt.
Demote(p) ==
    /\ proc[p].pc = "replied"
    /\ proc[p].result # "raised"
    /\ record' = [record EXCEPT ![proc[p].op] = [@ EXCEPT !.status = "unknown",
                                                          !.receipt = FALSE,
                                                          !.lease = "none"]]
    /\ Exit(p)
    /\ UNCHANGED <<consumed, used, nativeVars>>

Reply(p) ==
    /\ proc[p].pc = "replied"
    /\ Exit(p)
    /\ UNCHANGED <<storeVars, nativeVars>>

Crash(p) ==
    /\ proc[p].pc \notin {"idle", "exited"}
    /\ Exit(p)
    /\ UNCHANGED <<storeVars, nativeVars>>

-----------------------------------------------------------------------------
(* operation resolve, run by another invocation.                            *)

\* Mutants of Resolvable: a lapsed lease proves the writer stopped; or the
\* stored status is read without its lease.
ResolvableByLease(o) ==
    /\ EffectiveStatus(o) \in {"unknown", "partial"}
    /\ record[o].resolution = "none"

ResolvableStored(o) ==
    /\ record[o].status \in {"unknown", "partial"}
    /\ record[o].resolution = "none"
    /\ record[o].writer \in Procs /\ ~Alive(record[o].writer)

\* MoveDriver._operation_resolve and store.resolve accept the operation.
Resolvable(o) ==
    /\ EffectiveStatus(o) \in {"unknown", "partial"}
    /\ record[o].resolution = "none"
    /\ record[o].writer \in Procs
    /\ ~Alive(record[o].writer)

\* The outcome is what an independent readback of the target observes.  The
\* checks, the readback and the update are one step: a dead writer does not
\* come back, and only another resolve can make the accepted row unacceptable.
Resolve(o) ==
    /\ Resolvable(o)
    /\ record' = [record EXCEPT ![o] = [@ EXCEPT
          !.resolution = effect[o],
          !.status = IF record[o].status = "dispatched" THEN "unknown"
                     ELSE record[o].status,
          !.lease = "none"]]
    /\ UNCHANGED <<consumed, used, proc, nativeVars>>

-----------------------------------------------------------------------------
ProcNext(p) ==
    \/ \E o \in Ops, k \in Keys \union {NoKey} : Confirmable(p, o, k)
    \/ Dispatch(p) \/ Replay(p) \/ Refused(p)
    \/ RecordWriter(p) \/ Heartbeat(p)
    \/ AdapterRefuses(p) \/ NativeStart(p) \/ NativeWrite(p)
    \/ AdapterReturns(p)
    \/ Finish(p) \/ Undispatch(p)
    \/ SettleRead(p) \/ SettleUnknown(p)
    \/ Demote(p) \/ Reply(p) \/ Crash(p)

Next ==
    \/ \E p \in Procs : ProcNext(p)
    \/ \E o \in Ops : DryRun(o) \/ AddPlan(o) \/ LeaseExpires(o) \/ Resolve(o)

Spec == Init /\ [][Next]_vars

\* A process that runs goes on, and the clock passes every lease deadline;
\* nobody has to plan, to confirm or to resolve.
Proceed(p) ==
    \/ Dispatch(p) \/ Replay(p) \/ Refused(p)
    \/ RecordWriter(p) \/ AdapterRefuses(p) \/ NativeStart(p)
    \/ AdapterReturns(p) \/ Finish(p) \/ Undispatch(p)
    \/ SettleRead(p) \/ SettleUnknown(p) \/ Reply(p)

FairSpec ==
    /\ Spec
    /\ \A p \in Procs : WF_vars(Proceed(p))
    /\ \A o \in Ops : WF_vars(LeaseExpires(o))

-----------------------------------------------------------------------------
(* Properties.                                                              *)

\* From its dispatch until its outcome is recorded.
InApply(p) == proc[p].pc \in {"dispatched", "owned", "native", "returned"}

\* At most one process at a time is between the commit of its dispatch and
\* the record of its outcome on any target, whoever crashes, loses its lease,
\* is settled by a rival or has its operation resolved meanwhile
\* (store.dispatch's _blocking and _operation_resolve's writer check).
SingleWriter ==
    \A p, q \in Procs :
        /\ InApply(p) /\ InApply(q)
        /\ TargetOf[proc[p].op] = TargetOf[proc[q].op]
        => p = q

\* One confirm token starts native work at most once, also after the adapter
\* refused, the plan waited again and other processes confirmed it.
OneStartPerPlan == \A o \in Ops : starts[o] <= 1

\* An idempotency key changes the project at most once: of the operations run
\* under it, at most one has touched its target (store.dispatch, KeyUsed).
KeyAppliedOnce ==
    \A o1, o2 \in Ops :
        /\ record[o1].key # NoKey /\ record[o1].key = record[o2].key
        /\ effect[o1] # "not_applied" /\ effect[o2] # "not_applied"
        => o1 = o2

\* The scope's counter is the number of consumed tokens that were not
\* superseded by a replay, stays within max_operations and covers every
\* operation that reached the native side (_count, _consume, undispatch).
BudgetExact ==
    /\ \A s \in Scopes :
        /\ used[s] = Cardinality({o \in consumed : /\ ScopeOf[o] = s
                                                   /\ ~record[o].notStarted})
        /\ used[s] <= Limit[s]
    /\ \A o \in Ops : starts[o] > 0 => o \in consumed

\* What is on record about an outcome is what is on disk: a receipt's status
\* and a resolution agree with the target's bytes and stay in agreement.
RecordedOutcomeTrue ==
    \A o \in Ops :
        /\ record[o].status = "succeeded" => effect[o] = "applied"
        /\ record[o].status = "failed" => effect[o] = "not_applied"
        /\ record[o].status = "partial" => effect[o] = "partial"
        /\ record[o].resolution \in {"none", effect[o]}

\* An operation that left its mark is never taken for one that did not start,
\* so its key and its token are not given out again (provably_not_started).
EffectNeverForgotten ==
    \A o \in Ops : effect[o] # "not_applied" =>
        /\ ~ProvablyNotStarted(o)
        /\ o \in consumed

\* A step frees a token or a unit only for an operation nobody is working on
\* and that never reached the native side (store.undispatch).
ReleasedMeansUntouched ==
    [][\A o \in Ops : o \in consumed \ consumed' =>
          /\ starts[o] = 0
          /\ \A q \in Procs : proc'[q].op = o => ~InApply(q)']_vars

\* An operation whose recorded writer is gone does not hold its target for
\* ever: it is settled, or its lease runs out and it can be resolved.
AbandonedIsResolvable ==
    \A o \in Ops :
        (Holds(o) /\ record[o].writer \in Procs /\ ~Alive(record[o].writer))
            ~> (~Holds(o) \/ Resolvable(o))

\* No operation reads as running for ever, not even intermittently, whatever
\* became of its process: an outcome is recorded or its lease stays expired.
DispatchedSettles == \A o \in Ops : <>[](EffectiveStatus(o) # "running")

\* What runtime.py tells a caller whose outcome is unknown: "... then record
\* what you saw with operation resolve before any further write."  Once
\* nobody works on an unknown operation, resolve accepts it.
UnknownIsResolvable ==
    \A o \in Ops :
        /\ Holds(o) /\ EffectiveStatus(o) = "unknown"
        /\ \A p \in Procs : proc[p].op = o => ~Alive(p)
        => Resolvable(o)

-----------------------------------------------------------------------------
(* The abstract gate.                                                       *)

Working(o) == \E p \in Procs : InApply(p) /\ proc[p].op = o

\* What a row says of the outcome: a resolution, or else its status.
Verdict(o) ==
    IF record[o].resolution # "none" THEN record[o].resolution
    ELSE CASE record[o].status = "succeeded" -> "applied"
           [] record[o].status = "failed"    -> "not_applied"
           [] record[o].status = "partial"   -> "partial"
           [] OTHER                          -> "none"

TheGate == INSTANCE Gate WITH
    free    <- [o \in Ops |-> o \notin consumed],
    held    <- [o \in Ops |-> Holds(o)],
    working <- [o \in Ops |-> Working(o)],
    effect  <- effect,
    verdict <- [o \in Ops |-> Verdict(o)]

\* Transactions, leases, interrupts, late results, resolves and crashes of any
\* number of processes look like a gate that lets one worker at a time onto a
\* target, holds it while the outcome is open and records what was done
\* (StateStore, DriverCLI).
ImplementsGate == TheGate!Spec

=============================================================================
