------------------------- MODULE DriverRecordsProofs -------------------------
(***************************************************************************)
(* Proofs about what DriverOperations has on record: outcomes agree with   *)
(* the target, marks are not forgotten, an idempotency key is applied      *)
(* once, and the budget counter is exact, for every number of operations,  *)
(* processes, targets, keys and scopes.                                    *)
(***************************************************************************)
EXTENDS DriverOperationsProofs, FiniteSetTheorems

-----------------------------------------------------------------------------
(* What the steps that write several columns leave in the table.            *)

\* An UPDATE of row o leaves the other rows alone.
OnlyRow(o) == \A x \in Ops \ {o} : record'[x] = record[x]

\* The columns that no UPDATE but a dispatch, a release or a replay touches.
SameMark(o) ==
    /\ record'[o].notStarted = record[o].notStarted
    /\ record'[o].key = record[o].key
    /\ record'[o].writer = record[o].writer

\* store.finish: the row takes the status, or stays as it is.
LEMMA FinishedRow ==
    ASSUME record \in Rows, NEW o \in Ops, NEW s, NEW b, record' = Finished(o, s, b)
    PROVE  /\ OnlyRow(o) /\ SameMark(o)
           /\ record'[o].resolution = record[o].resolution
           /\ \/ record' = record
              \/ /\ record[o].resolution = "none" /\ record'[o].status = s
                 /\ record[o].status \notin {"succeeded", "partial", "failed"} \ {s}
           /\ record[o].resolution = "none" /\ record[o].status \in Active =>
                  record'[o].status = s
<1>1. record[o] \in Record
  BY DEF Rows
<1>2. CASE \/ record[o].resolution # "none"
           \/ record[o].status \in {"succeeded", "partial", "failed"} \ {s}
  BY <1>2 DEF Finished, OnlyRow, SameMark, Active
<1>3. CASE /\ record[o].resolution = "none"
           /\ record[o].status \notin {"succeeded", "partial", "failed"} \ {s}
  <2>1. record' = [record EXCEPT ![o] = [@ EXCEPT !.status = s, !.receipt = b,
                                                  !.lease = "none"]]
    BY <1>3 DEF Finished
  <2>2. OnlyRow(o)
    BY <2>1 DEF OnlyRow, Rows
  <2>3. record'[o] = [record[o] EXCEPT !.status = s, !.receipt = b, !.lease = "none"]
    BY <2>1 DEF Rows
  <2> QED BY <1>1, <1>3, <2>2, <2>3 DEF Record, SameMark
<1> QED BY <1>2, <1>3

\* store.demote: whatever the status was, it is unknown now.
LEMMA DemotedRow ==
    ASSUME record \in Rows, NEW o \in Ops, NEW p, Demote(p), o = proc[p].op
    PROVE  /\ OnlyRow(o) /\ SameMark(o)
           /\ record'[o].resolution = record[o].resolution
           /\ record'[o].status = "unknown"
<1>1. record[o] \in Record
  BY DEF Rows
<1>2. record'[o] = [record[o] EXCEPT !.status = "unknown", !.receipt = FALSE,
                                     !.lease = "none"]
  BY DEF Demote, Rows
<1>3. OnlyRow(o)
  BY DEF Demote, OnlyRow, Rows
<1> QED BY <1>1, <1>2, <1>3 DEF Record, SameMark

\* store.undispatch: a dispatched row goes back to planned, another one stays.
LEMMA UndispatchedRow ==
    ASSUME record \in Rows, NEW o \in Ops, NEW p, Undispatch(p), o = proc[p].op
    PROVE  /\ OnlyRow(o)
           /\ record[o].status # "dispatched" => UNCHANGED storeVars
           /\ record[o].status = "dispatched" =>
                 /\ record'[o].status = "planned"
                 /\ record'[o].key = NoKey /\ record'[o].writer = NoProc
                 /\ record'[o].resolution = record[o].resolution
                 /\ record'[o].notStarted = record[o].notStarted
                 /\ consumed' = consumed \ {o}
<1>1. record[o] \in Record
  BY DEF Rows
<1>2. CASE record[o].status # "dispatched"
  BY <1>2 DEF Undispatch, OnlyRow, storeVars
<1>3. CASE record[o].status = "dispatched"
  <2>1. /\ record' = [record EXCEPT ![o] =
                        [@ EXCEPT !.status = "planned", !.lease = "none",
                                  !.key = NoKey, !.writer = NoProc]]
        /\ consumed' = consumed \ {o}
    BY <1>3 DEF Undispatch
  <2>2. OnlyRow(o)
    BY <2>1 DEF OnlyRow, Rows
  <2>3. record'[o] = [record[o] EXCEPT !.status = "planned", !.lease = "none",
                                       !.key = NoKey, !.writer = NoProc]
    BY <2>1 DEF Rows
  <2>4. record'[o].notStarted = record[o].notStarted
    BY <1>1, <2>3, Zenon DEF Record
  <2>5. /\ record'[o].status = "planned"
        /\ record'[o].key = NoKey /\ record'[o].writer = NoProc
        /\ record'[o].resolution = record[o].resolution
    BY <1>1, <2>3 DEF Record
  <2> QED BY <1>3, <2>1, <2>2, <2>4, <2>5
<1> QED BY <1>2, <1>3

\* store.resolve: the row takes what the readback found.
LEMMA ResolvedRow ==
    ASSUME record \in Rows, NEW o \in Ops, Resolve(o)
    PROVE  /\ OnlyRow(o) /\ SameMark(o)
           /\ record[o].resolution = "none" /\ record'[o].resolution = effect[o]
           /\ record'[o].status = IF record[o].status = "dispatched" THEN "unknown"
                                  ELSE record[o].status
<1>1. record[o] \in Record
  BY DEF Rows
<1>2. record'[o] = [record[o] EXCEPT
                       !.resolution = effect[o],
                       !.status = IF record[o].status = "dispatched" THEN "unknown"
                                  ELSE record[o].status,
                       !.lease = "none"]
  BY DEF Resolve, Rows
<1>3. OnlyRow(o)
  BY DEF Resolve, OnlyRow, Rows
<1>4. record[o].resolution = "none"
  BY DEF Resolve, Resolvable
<1> QED BY <1>1, <1>2, <1>3, <1>4 DEF Record, SameMark

\* An adapter returns: only p moves, and takes the result.
LEMMA ReturnedProc ==
    ASSUME proc \in [Procs -> Process], NEW p \in Procs, NEW r,
           proc' = [proc EXCEPT ![p] = [@ EXCEPT !.pc = "returned", !.result = r]]
    PROVE  /\ proc'[p].pc = "returned" /\ proc'[p].result = r
           /\ proc'[p].op = proc[p].op
           /\ \A q \in Procs \ {p} : proc'[q] = proc[q]
<1>1. proc[p] \in Process
  OBVIOUS
<1>2. proc'[p] = [proc[p] EXCEPT !.pc = "returned", !.result = r]
  OBVIOUS
<1>3. \A q \in Procs \ {p} : proc'[q] = proc[q]
  OBVIOUS
<1> QED BY <1>1, <1>2, <1>3 DEF Process

-----------------------------------------------------------------------------
(* Outcomes.  RecordedOutcomeTrue is not inductive: a receipt on its way to  *)
(* the store must be true already, and a superseded plan is recorded as      *)
(* failed because its token was free and so it had touched nothing.         *)

Waiting(o) == record[o].status \in {"absent", "drafted", "planned"}

\* A plan that waits has its token.
WaitingFree == \A o \in Ops : Waiting(o) => o \notin consumed

\* With a free token, or before the native start, the target is untouched.
Untouched ==
    /\ \A o \in Ops : o \notin consumed => effect[o] = "not_applied"
    /\ \A p \in Procs : Unstarted(p) => effect[proc[p].op] = "not_applied"

\* What an adapter has returned is what it left behind.
Told ==
    \A p \in Procs : proc[p].pc = "returned" =>
        /\ proc[p].result = "completed" => effect[proc[p].op] = "applied"
        /\ proc[p].result = "failed" => effect[proc[p].op] = "not_applied"
        /\ proc[p].result = "partial" => effect[proc[p].op] = "partial"

Truth    == WaitingFree /\ Untouched /\ Told /\ RecordedOutcomeTrue
TruthInv == StartInv /\ Truth

LEMMA TruthInit == Init => TruthInv
  BY StartInit, SMT DEF TruthInv, Truth, Init, NoRecord, WaitingFree, Untouched,
                        Told, RecordedOutcomeTrue, Unstarted

\* What the four parts look at in the rows.
SameRows ==
    \A o \in Ops : /\ record'[o].status = record[o].status
                   /\ record'[o].resolution = record[o].resolution

\* Steps that only move a process.
LEMMA TruthQuiet ==
    ASSUME TruthInv, SameRows, UNCHANGED <<consumed, effect>>,
           \A q \in Procs :
              /\ Unstarted(q)' => Unstarted(q) /\ proc'[q].op = proc[q].op
              /\ proc'[q].pc = "returned" =>
                    \/ proc'[q].result = "refused"
                    \/ /\ proc[q].pc = "returned" /\ proc'[q].op = proc[q].op
                       /\ proc'[q].result = proc[q].result
    PROVE  Truth'
<1>1. WaitingFree'
  BY DEF TruthInv, Truth, WaitingFree, Waiting, SameRows
<1>2. Untouched'
  BY DEF TruthInv, Truth, Untouched
<1>3. Told'
  BY SMT DEF TruthInv, Truth, Told
<1>4. RecordedOutcomeTrue'
  BY DEF TruthInv, Truth, RecordedOutcomeTrue, SameRows
<1> QED BY <1>1, <1>2, <1>3, <1>4 DEF Truth

\* The facts about types that the steps below use.
LEMMA TruthTypes ==
    ASSUME TruthInv
    PROVE  /\ proc \in [Procs -> Process] /\ record \in Rows
           /\ effect \in [Ops -> Effects]
           /\ consumed \subseteq Ops /\ HasOp /\ SingleWriter /\ Claimed /\ Fresh
           /\ OwnWriter
  BY DEF TruthInv, StartInv, WriterInv, Typed, TypeOK, Rows

LEMMA TruthQuietSteps ==
    ASSUME TruthInv, NEW p \in Procs,
           \/ \E o \in Ops, k \in Keys \union {NoKey} : Confirmable(p, o, k)
           \/ Refused(p) \/ AdapterRefuses(p) \/ NativeStart(p) \/ SettleRead(p)
           \/ Reply(p) \/ Crash(p) \/ RecordWriter(p) \/ Heartbeat(p)
    PROVE  Truth'
<1>1. proc \in [Procs -> Process] /\ record \in Rows
  BY TruthTypes
<1>2. SameRows /\ UNCHANGED <<consumed, effect>>
  BY <1>1, SMT DEF Confirmable, Refused, AdapterRefuses, NativeStart, SettleRead,
     Reply, Crash, RecordWriter, Heartbeat, storeVars, nativeVars, SameRows, Rows,
     Record
<1>3. ASSUME NEW q \in Procs
      PROVE  /\ Unstarted(q)' => Unstarted(q) /\ proc'[q].op = proc[q].op
             /\ proc'[q].pc = "returned" =>
                    \/ proc'[q].result = "refused"
                    \/ /\ proc[q].pc = "returned" /\ proc'[q].op = proc[q].op
                       /\ proc'[q].result = proc[q].result
  <2>1. CASE \E o \in Ops, k \in Keys \union {NoKey} : Confirmable(p, o, k)
    BY <1>1, <2>1, SMT DEF Confirmable, Unstarted, Process
  <2>2. CASE Refused(p) \/ Reply(p) \/ Crash(p)
    BY <1>1, <2>2, SMT DEF Refused, Reply, Crash, Exit, Unstarted, Process
  <2>3. CASE AdapterRefuses(p)
    BY <1>1, <2>3, SMT DEF AdapterRefuses, Unstarted, Process
  <2>4. CASE NativeStart(p) \/ RecordWriter(p)
    BY <1>1, <2>4, SMT DEF NativeStart, RecordWriter, Goto, Unstarted, Process
  <2>5. CASE SettleRead(p)
    BY <1>1, <2>5, SMT DEF SettleRead, Unstarted, Process
  <2>6. CASE Heartbeat(p)
    BY <2>6 DEF Heartbeat, Unstarted
  <2> QED BY <2>1, <2>2, <2>3, <2>4, <2>5, <2>6
<1> QED BY <1>2, <1>3, TruthQuiet

\* store.dispatch spends the token of an untouched plan.
LEMMA TruthDispatch ==
    ASSUME TruthInv, NEW p \in Procs, Dispatch(p)
    PROVE  Truth'
<1> USE TruthTypes DEF Dispatch, Dispatchable, Goto, nativeVars, Rows
<1>1. WaitingFree'
  BY SMT DEF TruthInv, Truth, WaitingFree, Waiting, Record, HasOp
<1>2. Untouched'
  BY SMT DEF TruthInv, Truth, Untouched, Unstarted, HasOp, Process
<1>3. Told'
  BY SMT DEF TruthInv, Truth, Told, Process
<1>4. RecordedOutcomeTrue'
  BY SMT DEF TruthInv, Truth, RecordedOutcomeTrue, Record, HasOp
<1> QED BY <1>1, <1>2, <1>3, <1>4 DEF Truth

\* KeyUsed: the superseded plan had touched nothing, so "failed" is true of it.
LEMMA TruthReplay ==
    ASSUME TruthInv, NEW p \in Procs, Replay(p)
    PROVE  Truth'
<1> USE TruthTypes DEF Replay, Dispatchable, Exit, nativeVars, Rows
<1>1. WaitingFree'
  BY SMT DEF TruthInv, Truth, WaitingFree, Waiting, Record, HasOp
<1>2. Untouched'
  BY SMT DEF TruthInv, Truth, Untouched, Unstarted, HasOp, Process
<1>3. Told'
  BY SMT DEF TruthInv, Truth, Told, Process
<1>4. RecordedOutcomeTrue'
  BY SMT DEF TruthInv, Truth, Untouched, RecordedOutcomeTrue, Record, HasOp, Fresh
<1> QED BY <1>1, <1>2, <1>3, <1>4 DEF Truth

\* A save changes the target of a row that is still open, and no other process
\* has a receipt about it.
LEMMA TruthNativeWrite ==
    ASSUME TruthInv, NEW p \in Procs, NativeWrite(p)
    PROVE  Truth'
<1> USE TruthTypes DEF NativeWrite, storeVars
<1>1. /\ proc[p].op \in Ops /\ InApply(p) /\ Holds(proc[p].op)
      /\ proc[p].op \in consumed
  BY DEF HasOp, InApply, Claimed, TruthInv, StartInv, StartsCounted
<1>2. PICK e \in Effects : effect' = [effect EXCEPT ![proc[p].op] = e]
  OBVIOUS
<1>3. ASSUME NEW q \in Procs, InApply(q), proc[q].op = proc[p].op PROVE q = p
  BY <1>1, <1>3 DEF SingleWriter
<1>4. WaitingFree'
  BY DEF TruthInv, Truth, WaitingFree, Waiting
<1>5. Untouched'
  BY <1>1, <1>2, <1>3, SMT DEF TruthInv, Truth, Untouched, Unstarted, InApply, HasOp
<1>6. Told'
  BY <1>1, <1>2, <1>3, SMT DEF TruthInv, Truth, Told, InApply, HasOp
<1>7. RecordedOutcomeTrue'
  BY <1>1, <1>2, SMT DEF TruthInv, Truth, RecordedOutcomeTrue, Holds, Active
<1> QED BY <1>4, <1>5, <1>6, <1>7 DEF Truth

LEMMA TruthAdapterReturns ==
    ASSUME TruthInv, NEW p \in Procs, AdapterReturns(p)
    PROVE  Truth'
<1> USE TruthTypes DEF AdapterReturns, storeVars, nativeVars
<1>1. PICK r \in Reportable(effect[proc[p].op]) :
         proc' = [proc EXCEPT ![p] = [@ EXCEPT !.pc = "returned", !.result = r]]
  OBVIOUS
<1>2. proc[p].op \in Ops /\ effect[proc[p].op] \in Effects
  BY DEF HasOp
<1>3. /\ r # "refused"
      /\ r = "completed" => effect[proc[p].op] = "applied"
      /\ r = "failed" => effect[proc[p].op] = "not_applied"
      /\ r = "partial" => effect[proc[p].op] = "partial"
  BY <1>1, <1>2, SMT DEF Reportable, Effects
<1>4. WaitingFree' /\ RecordedOutcomeTrue'
  BY DEF TruthInv, Truth, WaitingFree, Waiting, RecordedOutcomeTrue
<1>5. /\ proc'[p].pc = "returned" /\ proc'[p].result = r
      /\ proc'[p].op = proc[p].op
      /\ \A q \in Procs \ {p} : proc'[q] = proc[q]
  BY <1>1, ReturnedProc
<1>6. Untouched'
  BY <1>3, <1>5 DEF TruthInv, Truth, Untouched, Unstarted
<1>7. Told'
  BY <1>3, <1>5 DEF TruthInv, Truth, Told
<1> QED BY <1>4, <1>6, <1>7 DEF Truth

\* store.finish, by the worker or by an interrupted confirm.
LEMMA TruthRecorded ==
    ASSUME TruthInv, NEW p \in Procs,
           Finish(p) \/ SettleUnknown(p) \/ Demote(p)
    PROVE  Truth'
<1> USE TruthTypes DEF nativeVars, Rows
<1>1. proc[p].op \in Ops /\ UNCHANGED <<consumed, effect>>
  BY DEF HasOp, Finish, SettleUnknown, Demote
<1>2. ASSUME NEW q \in Procs
      PROVE  /\ Unstarted(q)' => Unstarted(q) /\ proc'[q].op = proc[q].op
             /\ proc'[q].pc = "returned" =>
                    /\ proc[q].pc = "returned" /\ proc'[q].op = proc[q].op
                    /\ proc'[q].result = proc[q].result
  <2>1. PICK l \in {"replied", "exited"} : proc' = [proc EXCEPT ![p].pc = l]
    BY DEF Finish, SettleUnknown, Demote, Goto, Exit
  <2> QED BY <2>1, SMT DEF Unstarted, Process
<1>3. Untouched' /\ Told'
  <2>1. Untouched'
    BY <1>1, <1>2 DEF TruthInv, Truth, Untouched
  <2>2. Told'
    BY <1>1, <1>2 DEF TruthInv, Truth, Told
  <2> QED BY <2>1, <2>2
<1>4. CASE Finish(p)
  <2>1. PICK b \in BOOLEAN :
           record' = Finished(proc[p].op, StatusFor(proc[p].result), b)
    BY <1>4 DEF Finish
  <2>2. /\ proc[p].pc = "returned"
        /\ proc[p].result \in {"completed", "failed", "partial", "unknown"}
    BY <1>4 DEF Finish
  <2> DEFINE o == proc[p].op
             t == StatusFor(proc[p].result)
  <2>3. /\ OnlyRow(o) /\ record'[o].resolution = record[o].resolution
        /\ record'[o].status \in {record[o].status, t}
    BY <1>1, <2>1, FinishedRow
  <2>4. /\ t \in {"succeeded", "failed", "partial", "unknown"}
        /\ t = "succeeded" => effect[o] = "applied"
        /\ t = "failed" => effect[o] = "not_applied"
        /\ t = "partial" => effect[o] = "partial"
    BY <2>2 DEF TruthInv, Truth, Told, StatusFor
  <2>5. WaitingFree'
    BY <1>1, <2>3, <2>4 DEF TruthInv, Truth, WaitingFree, Waiting, OnlyRow
  <2>6. RecordedOutcomeTrue'
    BY <1>1, <2>3, <2>4 DEF TruthInv, Truth, RecordedOutcomeTrue, OnlyRow
  <2> QED BY <1>3, <2>5, <2>6 DEF Truth
<1>5. CASE SettleUnknown(p) \/ Demote(p)
  <2> DEFINE o == proc[p].op
  <2>1. /\ OnlyRow(o) /\ record'[o].resolution = record[o].resolution
        /\ record'[o].status \in {record[o].status, "unknown"}
    <3>1. CASE SettleUnknown(p)
      <4>1. record' = Finished(o, "unknown", FALSE)
        BY <3>1 DEF SettleUnknown
      <4> QED BY <1>1, <4>1, FinishedRow
    <3>2. CASE Demote(p)
      BY <1>1, <3>2, DemotedRow
    <3> QED BY <1>5, <3>1, <3>2
  <2>2. WaitingFree'
    BY <1>1, <2>1 DEF TruthInv, Truth, WaitingFree, Waiting, OnlyRow
  <2>3. RecordedOutcomeTrue'
    BY <1>1, <2>1 DEF TruthInv, Truth, RecordedOutcomeTrue, OnlyRow
  <2> QED BY <1>3, <2>2, <2>3 DEF Truth
<1> QED BY <1>4, <1>5

\* store.undispatch: what goes back to the caller is untouched.
LEMMA TruthUndispatch ==
    ASSUME TruthInv, NEW p \in Procs, Undispatch(p)
    PROVE  Truth'
<1> USE TruthTypes
<1> DEFINE o == proc[p].op
<1>1. o \in Ops /\ effect[o] = "not_applied" /\ UNCHANGED effect
  BY DEF HasOp, Undispatch, TruthInv, Truth, Untouched, Unstarted, nativeVars
<1>2. /\ OnlyRow(o) /\ consumed' \subseteq consumed
      /\ record'[o].resolution = record[o].resolution
      /\ \/ UNCHANGED <<record, consumed>>
         \/ record'[o].status = "planned" /\ consumed' = consumed \ {o}
  BY <1>1, UndispatchedRow DEF storeVars
<1>3. WaitingFree'
  BY <1>1, <1>2 DEF TruthInv, Truth, WaitingFree, Waiting, OnlyRow
<1>4. Untouched'
  <2>1. \A x \in Ops : x \notin consumed' => effect[x] = "not_applied"
    BY <1>1, <1>2 DEF TruthInv, Truth, Untouched
  <2>2. \A q \in Procs : Unstarted(q)' => Unstarted(q) /\ proc'[q].op = proc[q].op
    BY SMT DEF Undispatch, Goto, Unstarted, Process
  <2> QED BY <1>1, <2>1, <2>2 DEF TruthInv, Truth, Untouched
<1>5. Told'
  BY <1>1, SMT DEF Undispatch, Goto, TruthInv, Truth, Told, Process
<1>6. RecordedOutcomeTrue'
  BY <1>1, <1>2 DEF TruthInv, Truth, RecordedOutcomeTrue, OnlyRow
<1> QED BY <1>3, <1>4, <1>5, <1>6 DEF Truth

\* Dry run, plan, lease deadline and resolve; a resolve records what it reads.
LEMMA TruthOutside ==
    ASSUME TruthInv, NEW o \in Ops,
           DryRun(o) \/ AddPlan(o) \/ LeaseExpires(o) \/ Resolve(o)
    PROVE  Truth'
<1> USE TruthTypes DEF nativeVars, Rows
<1>1. UNCHANGED <<consumed, effect, proc>>
  BY DEF DryRun, AddPlan, LeaseExpires, Resolve
<1>2. Untouched' /\ Told'
  BY <1>1 DEF TruthInv, Truth, Untouched, Unstarted, Told
<1>3. CASE DryRun(o) \/ AddPlan(o) \/ LeaseExpires(o)
  <2>1. WaitingFree'
    BY <1>1, <1>3, SMT DEF DryRun, AddPlan, LeaseExpires, TruthInv, Truth,
                           WaitingFree, Waiting, Record
  <2>2. RecordedOutcomeTrue'
    BY <1>1, <1>3, SMT DEF DryRun, AddPlan, LeaseExpires, TruthInv, Truth,
                           RecordedOutcomeTrue, Record
  <2> QED BY <1>2, <2>1, <2>2 DEF Truth
<1>4. CASE Resolve(o)
  <2>1. /\ OnlyRow(o) /\ record'[o].resolution = effect[o]
        /\ record'[o].status \in {record[o].status, "unknown"}
    BY <1>4, ResolvedRow
  <2>2. WaitingFree'
    BY <1>1, <2>1 DEF TruthInv, Truth, WaitingFree, Waiting, OnlyRow
  <2>3. RecordedOutcomeTrue'
    BY <1>1, <2>1 DEF TruthInv, Truth, RecordedOutcomeTrue, OnlyRow
  <2> QED BY <1>2, <2>2, <2>3 DEF Truth
<1> QED BY <1>3, <1>4

LEMMA TruthStep == TruthInv /\ [Next]_vars => TruthInv'
<1> SUFFICES ASSUME TruthInv, [Next]_vars PROVE TruthInv'
  OBVIOUS
<1>1. StartInv'
  BY StartStep DEF TruthInv
<1>2. CASE UNCHANGED vars
  BY <1>2, <1>1, TruthQuiet DEF vars, SameRows, Unstarted, TruthInv
<1>3. ASSUME NEW p \in Procs, ProcNext(p) PROVE Truth'
  BY <1>3, TruthQuietSteps, TruthDispatch, TruthReplay, TruthNativeWrite,
     TruthAdapterReturns, TruthRecorded, TruthUndispatch, Zenon DEF ProcNext
<1>4. ASSUME NEW o \in Ops, DryRun(o) \/ AddPlan(o) \/ LeaseExpires(o) \/ Resolve(o)
      PROVE  Truth'
  BY <1>4, TruthOutside
<1>5. CASE Next
  BY <1>1, <1>3, <1>4, <1>5, Zenon DEF Next, TruthInv
<1> QED BY <1>2, <1>5

LEMMA TruthInvariant == Spec => []TruthInv
  BY TruthInit, TruthStep, PTL DEF Spec

\* A final status and a resolution say what was done to the target.
THEOREM OutcomesTrue == Spec => []RecordedOutcomeTrue
  BY TruthInvariant, PTL DEF TruthInv, Truth

\* An operation that left its mark is not taken for one that did not start.
THEOREM MarksKept == Spec => []EffectNeverForgotten
<1>1. TruthInv => EffectNeverForgotten
  BY TruthTypes DEF TruthInv, Truth, WaitingFree, Waiting, Untouched,
                    RecordedOutcomeTrue, EffectNeverForgotten, ProvablyNotStarted
<1> QED BY <1>1, TruthInvariant, PTL

-----------------------------------------------------------------------------
(* One application per idempotency key.                                     *)

\* A process works on o, or o has left its mark.
Marked(o) ==
    \/ \E p \in Procs : InApply(p) /\ proc[p].op = o
    \/ effect[o] # "not_applied"

KeyHeldOnce ==
    \A o1, o2 \in Ops :
        /\ record[o1].key # NoKey /\ record[o1].key = record[o2].key
        /\ Marked(o1) /\ Marked(o2)
        => o1 = o2

KeyInv == TruthInv /\ KeyHeldOnce

LEMMA KeyInit == Init => KeyInv
  BY TruthInit, SMT DEF KeyInv, KeyHeldOnce, Init, NoRecord

\* A marked operation is one that KeyOwners finds.
LEMMA MarkedOwns ==
    ASSUME TruthInv, NEW o \in Ops, Marked(o)
    PROVE  ~Waiting(o) /\ ~ProvablyNotStarted(o)
<1>1. CASE effect[o] # "not_applied"
  BY <1>1 DEF TruthInv, Truth, WaitingFree, Waiting, Untouched,
              RecordedOutcomeTrue, ProvablyNotStarted
<1>2. ASSUME NEW p \in Procs, InApply(p), proc[p].op = o
      PROVE  ~Waiting(o) /\ ~ProvablyNotStarted(o)
  <2>1. Holds(o)
    BY <1>2, TruthTypes DEF Claimed
  <2> QED BY <2>1 DEF Holds, Active, Waiting, ProvablyNotStarted
<1> QED BY <1>1, <1>2 DEF Marked

\* Steps that mark nothing new and give no key.
LEMMA KeyQuiet ==
    ASSUME KeyInv,
           \A o \in Ops : /\ record'[o].key \in {record[o].key, NoKey}
                          /\ Marked(o)' => Marked(o)
    PROVE  KeyHeldOnce'
<1> SUFFICES ASSUME NEW o1 \in Ops, NEW o2 \in Ops, record'[o1].key # NoKey,
                    record'[o1].key = record'[o2].key, Marked(o1)', Marked(o2)'
             PROVE  o1 = o2
  BY Zenon DEF KeyHeldOnce
<1> QED BY Zenon DEF KeyInv, KeyHeldOnce

\* store.dispatch: every other operation with the key has left no mark.
LEMMA KeyDispatch ==
    ASSUME KeyInv, NEW p \in Procs, Dispatch(p)
    PROVE  KeyHeldOnce'
<1> DEFINE o == proc[p].op
<1> USE DEF KeyInv
<1>1. o \in Ops /\ record \in Rows /\ proc \in [Procs -> Process]
  BY TruthTypes DEF Dispatch, HasOp
<1>2. /\ record'[o].key = proc[p].key
      /\ \A x \in Ops \ {o} : record'[x].key = record[x].key
  BY <1>1, SMT DEF Dispatch, Rows, Record
<1>3. ASSUME NEW x \in Ops \ {o}, Marked(x)' PROVE Marked(x)
  BY <1>1, <1>3, SMT DEF Dispatch, Goto, Marked, InApply, Process, nativeVars
<1>4. ASSUME NEW x \in Ops \ {o}, Marked(x), proc[p].key # NoKey
      PROVE  record[x].key # proc[p].key
  <2>1. x \notin KeyOwners(o, proc[p].key)
    BY DEF Dispatch
  <2> QED BY <1>4, <2>1, MarkedOwns DEF KeyOwners, Waiting
<1> SUFFICES ASSUME NEW o1 \in Ops, NEW o2 \in Ops, record'[o1].key # NoKey,
                    record'[o1].key = record'[o2].key, Marked(o1)', Marked(o2)',
                    o1 # o2
             PROVE  FALSE
  BY Zenon DEF KeyHeldOnce
<1>5. CASE o1 # o /\ o2 # o
  BY <1>2, <1>3, <1>5 DEF KeyHeldOnce
<1>6. CASE o1 = o
  BY <1>2, <1>3, <1>4, <1>6
<1>7. CASE o2 = o
  BY <1>2, <1>3, <1>4, <1>7
<1> QED BY <1>5, <1>6, <1>7

\* Only a dispatch brings a process into an apply.
LEMMA ApplyStays ==
    ASSUME TruthInv, NEW p \in Procs, ProcNext(p), ~Dispatch(p),
           NEW q \in Procs, InApply(q)'
    PROVE  InApply(q) /\ proc'[q].op = proc[q].op
<1>1. proc \in [Procs -> Process]
  BY TruthTypes
<1>2. CASE \E o \in Ops, k \in Keys \union {NoKey} : Confirmable(p, o, k)
  BY <1>1, <1>2, SMT DEF Confirmable, InApply, Process
<1>3. CASE Replay(p) \/ Refused(p) \/ Reply(p) \/ Crash(p) \/ Demote(p)
  <2>1. proc' = [proc EXCEPT ![p].pc = "exited"]
    BY <1>3 DEF Replay, Refused, Reply, Crash, Demote, Exit
  <2> QED BY <1>1, <2>1, SMT DEF InApply, Process
<1>4. CASE AdapterRefuses(p)
  BY <1>1, <1>4, SMT DEF AdapterRefuses, InApply, Process
<1>5. CASE NativeStart(p) \/ RecordWriter(p)
  BY <1>1, <1>5, SMT DEF NativeStart, RecordWriter, Goto, InApply, Process
<1>6. CASE AdapterReturns(p)
  <2>1. PICK r \in Reportable(effect[proc[p].op]) :
           proc' = [proc EXCEPT ![p] = [@ EXCEPT !.pc = "returned", !.result = r]]
    BY <1>6 DEF AdapterReturns
  <2>2. proc[p].pc = "native"
    BY <1>6 DEF AdapterReturns
  <2> QED BY <1>1, <2>1, <2>2, SMT DEF InApply, Process
<1>7. CASE Finish(p) \/ Undispatch(p) \/ SettleUnknown(p)
  <2>1. proc' = [proc EXCEPT ![p].pc = "replied"]
    BY <1>7 DEF Finish, Undispatch, SettleUnknown, Goto
  <2> QED BY <1>1, <2>1, SMT DEF InApply, Process
<1>8. CASE SettleRead(p)
  BY <1>1, <1>8, SMT DEF SettleRead, InApply, Process
<1>9. CASE Heartbeat(p) \/ NativeWrite(p)
  BY <1>9 DEF Heartbeat, NativeWrite, InApply
<1> QED BY <1>2, <1>3, <1>4, <1>5, <1>6, <1>7, <1>8, <1>9 DEF ProcNext

\* Only a dispatch gives a row its key.
LEMMA KeyStays ==
    ASSUME TruthInv, NEW p \in Procs, ProcNext(p), ~Dispatch(p), NEW o \in Ops
    PROVE  record'[o].key \in {record[o].key, NoKey}
<1>1. record \in Rows /\ HasOp
  BY TruthTypes
<1>2. CASE UNCHANGED record
  BY <1>2
<1>3. CASE RecordWriter(p) \/ Heartbeat(p)
  BY <1>1, <1>3, SMT DEF RecordWriter, Heartbeat, HasOp, Rows, Record
<1>6. CASE Replay(p)
  <2>1. proc[p].op \in Ops /\ record[o] \in Record
    BY <1>1, <1>6 DEF Replay, HasOp, Rows
  <2>2. record'[o] \in {record[o], [record[o] EXCEPT !.status = "failed",
                                                    !.notStarted = TRUE]}
    BY <1>1, <1>6, <2>1 DEF Replay, Rows
  <2> QED BY <2>1, <2>2 DEF Record
<1>4. CASE SettleUnknown(p) \/ Demote(p) \/ Undispatch(p)
  <2>1. proc[p].op \in Ops
    BY <1>1, <1>4 DEF SettleUnknown, Demote, Undispatch, HasOp
  <2>2. SettleUnknown(p) => record' = Finished(proc[p].op, "unknown", FALSE)
    BY DEF SettleUnknown
  <2> QED BY <1>1, <1>4, <2>1, <2>2, FinishedRow, DemotedRow, UndispatchedRow
          DEF OnlyRow, SameMark, storeVars
<1>5. CASE Finish(p)
  <2>1. PICK b \in BOOLEAN :
           record' = Finished(proc[p].op, StatusFor(proc[p].result), b)
    BY <1>5 DEF Finish
  <2>2. proc[p].op \in Ops
    BY <1>1, <1>5 DEF Finish, HasOp
  <2> QED BY <1>1, <2>1, <2>2, FinishedRow DEF OnlyRow, SameMark
<1> QED BY <1>2, <1>3, <1>4, <1>5, <1>6
       DEF ProcNext, Confirmable, Refused, AdapterRefuses, NativeStart, NativeWrite, AdapterReturns, SettleRead, Reply, Crash,
           storeVars

LEMMA KeyStep == KeyInv /\ [Next]_vars => KeyInv'
<1> SUFFICES ASSUME KeyInv, [Next]_vars PROVE KeyInv'
  OBVIOUS
<1>1. TruthInv'
  BY TruthStep DEF KeyInv
<1>2. /\ proc \in [Procs -> Process] /\ record \in Rows /\ HasOp
      /\ effect \in [Ops -> Effects]
  BY TruthTypes DEF KeyInv
<1>3. ASSUME UNCHANGED effect,
             \A q \in Procs : InApply(q)' => InApply(q) /\ proc'[q].op = proc[q].op
      PROVE  \A o \in Ops : Marked(o)' => Marked(o)
  BY <1>3, Zenon DEF Marked
<1>4. ASSUME NEW p \in Procs, ProcNext(p)
      PROVE  KeyHeldOnce'
  <2>1. CASE Dispatch(p)
    BY <2>1, KeyDispatch
  <2>2. CASE NativeWrite(p)
    <3>1. PICK e \in Effects : effect' = [effect EXCEPT ![proc[p].op] = e]
      BY <2>2 DEF NativeWrite
    <3>2. ASSUME NEW o \in Ops, Marked(o)' PROVE Marked(o)
      BY <1>2, <2>2, <3>1, <3>2, SMT DEF NativeWrite, Marked, InApply
    <3> QED BY <2>2, <3>2, KeyQuiet DEF NativeWrite, storeVars
  <2>3. CASE ~Dispatch(p) /\ ~NativeWrite(p)
    <3>1. UNCHANGED effect
      BY <1>4, <2>3, Zenon
      DEF ProcNext, Confirmable, Replay, Refused, RecordWriter, Heartbeat,
          AdapterRefuses, NativeStart, AdapterReturns, Finish, Undispatch,
          SettleRead, SettleUnknown, Demote, Reply, Crash, storeVars, nativeVars
    <3>2. ASSUME NEW q \in Procs, InApply(q)'
          PROVE  InApply(q) /\ proc'[q].op = proc[q].op
      BY <2>3, <1>4, <3>2, ApplyStays DEF KeyInv
    <3>3. ASSUME NEW o \in Ops PROVE record'[o].key \in {record[o].key, NoKey}
      BY <2>3, <1>4, <3>3, KeyStays DEF KeyInv
    <3> QED BY <1>3, <3>1, <3>2, <3>3, KeyQuiet
  <2> QED BY <2>1, <2>2, <2>3
<1>5. ASSUME NEW o \in Ops, DryRun(o) \/ AddPlan(o) \/ LeaseExpires(o) \/ Resolve(o)
      PROVE  KeyHeldOnce'
  <2>1. UNCHANGED <<effect, proc>>
    BY <1>5 DEF DryRun, AddPlan, LeaseExpires, Resolve, nativeVars
  <2>2. ASSUME NEW x \in Ops PROVE record'[x].key = record[x].key
    <3>1. CASE Resolve(o)
      BY <1>2, <3>1, ResolvedRow DEF OnlyRow, SameMark
    <3>2. CASE DryRun(o) \/ AddPlan(o) \/ LeaseExpires(o)
      BY <1>2, <3>2, SMT DEF DryRun, AddPlan, LeaseExpires, Rows, Record
    <3> QED BY <1>5, <3>1, <3>2
  <2> QED BY <1>3, <2>1, <2>2, KeyQuiet DEF InApply
<1>6. CASE UNCHANGED vars
  BY <1>3, <1>6, <1>1, KeyQuiet DEF vars, InApply, KeyInv
<1>7. CASE Next
  BY <1>1, <1>4, <1>5, <1>7, Zenon DEF Next, KeyInv
<1> QED BY <1>6, <1>7

LEMMA KeyInvariant == Spec => []KeyInv
  BY KeyInit, KeyStep, PTL DEF Spec

\* An idempotency key changes the project at most once.
THEOREM KeysAppliedOnce == Spec => []KeyAppliedOnce
<1>1. KeyInv => KeyAppliedOnce
  BY DEF KeyInv, KeyHeldOnce, Marked, KeyAppliedOnce
<1> QED BY <1>1, KeyInvariant, PTL

-----------------------------------------------------------------------------
(* The budget.  A superseded plan keeps its token spent and its unit open,   *)
(* so the count is of tokens whose row is not marked as never started.      *)

\* What a scope's counter stands for.
Units(s) == {o \in consumed : ScopeOf[o] = s /\ ~record[o].notStarted}

\* Only a superseded plan is marked, and it is never dispatched again.
Unmarked ==
    \A o \in Ops : Waiting(o) \/ record[o].status = "dispatched" =>
        record[o].notStarted = FALSE

Counted == /\ IsFiniteSet(consumed)
           /\ \A s \in Scopes : used[s] = Cardinality(Units(s)) /\ used[s] <= Limit[s]

BudgetInv == TruthInv /\ Unmarked /\ Counted

LEMMA BudgetInit == Init => BudgetInv
<1> SUFFICES ASSUME Init PROVE BudgetInv
  OBVIOUS
<1>1. TruthInv
  BY TruthInit
<1>2. Unmarked
  BY SMT DEF Init, Unmarked, NoRecord
<1>3. IsFiniteSet(consumed) /\ \A s \in Scopes : Units(s) = {}
  BY FS_EmptySet DEF Init, Units
<1>4. ASSUME NEW s \in Scopes
      PROVE  used[s] = Cardinality(Units(s)) /\ used[s] <= Limit[s]
  <2>1. used[s] = 0 /\ Limit[s] \in Nat
    BY OperationConstants DEF Init, OperationConstants
  <2>2. Cardinality(Units(s)) = 0
    BY <1>3, FS_EmptySet
  <2> QED BY <2>1, <2>2
<1>5. Counted
  BY <1>3, <1>4 DEF Counted
<1> QED BY <1>1, <1>2, <1>5 DEF BudgetInv

\* Steps that spend and free nothing and keep the marks.
LEMMA CountQuiet ==
    ASSUME BudgetInv, UNCHANGED <<consumed, used>>,
           \A o \in consumed : record'[o].notStarted = record[o].notStarted
    PROVE  Counted'
<1>1. ASSUME NEW s \in Scopes PROVE Units(s)' = Units(s)
  BY DEF Units
<1> QED BY <1>1 DEF BudgetInv, Counted

\* store.dispatch takes one unit of one scope.
LEMMA CountDispatch ==
    ASSUME BudgetInv, NEW p \in Procs, Dispatch(p)
    PROVE  Counted'
<1> DEFINE o == proc[p].op
<1>1. /\ o \in Ops /\ o \notin consumed /\ record \in Rows
      /\ record[o].notStarted = FALSE
  BY TruthTypes DEF Dispatch, Dispatchable, HasOp, BudgetInv, Unmarked, Waiting
<1>2. \A x \in Ops : record'[x].notStarted = record[x].notStarted
  BY <1>1, SMT DEF Dispatch, Rows, Record
<1>3. ASSUME NEW s \in Scopes
      PROVE  Units(s)' = IF s = ScopeOf[o] THEN Units(s) \union {o} ELSE Units(s)
  <2>1. consumed \subseteq Ops /\ consumed' = consumed \union {o}
    BY TruthTypes DEF Dispatch, BudgetInv
  <2> QED BY <1>1, <1>2, <2>1, Zenon DEF Units
<1>4. IsFiniteSet(consumed) /\ \A s \in Scopes : IsFiniteSet(Units(s)) /\ o \notin Units(s)
  BY <1>1, FS_Subset DEF BudgetInv, Counted, Units
<1>5. IsFiniteSet(consumed')
  BY <1>4, FS_AddElement DEF Dispatch
<1>6. ASSUME NEW s \in Scopes
      PROVE  used'[s] = Cardinality(Units(s)') /\ used'[s] <= Limit[s]
  <2>1. used \in [Scopes -> Nat] /\ used[s] = Cardinality(Units(s)) /\ used[s] <= Limit[s]
    BY DEF BudgetInv, Counted, TruthInv, StartInv, WriterInv, Typed, TypeOK
  <2>2. /\ used' = [used EXCEPT ![ScopeOf[o]] = used[ScopeOf[o]] + 1]
        /\ used[ScopeOf[o]] + 1 <= Limit[ScopeOf[o]]
    BY DEF Dispatch, WithinBudget
  <2>3. Cardinality(Units(s) \union {o}) = Cardinality(Units(s)) + 1
    BY <1>4, FS_AddElement
  <2>4. CASE s = ScopeOf[o]
    BY <1>3, <2>1, <2>2, <2>3, <2>4
  <2>5. CASE s # ScopeOf[o]
    BY <1>3, <2>1, <2>2, <2>5
  <2> QED BY <2>4, <2>5
<1> QED BY <1>5, <1>6 DEF Counted

\* KeyUsed marks its own row.
LEMMA ReplayMarks ==
    ASSUME record \in Rows, NEW p \in Procs, Replay(p), proc[p].op \in Ops
    PROVE  /\ record'[proc[p].op].notStarted = TRUE
           /\ record'[proc[p].op].status = "failed"
           /\ \A x \in Ops \ {proc[p].op} : record'[x] = record[x]
<1> DEFINE o == proc[p].op
           r == [record[o] EXCEPT !.status = "failed"]
<1>1. record[o] \in Record
  BY DEF Rows
<1>2. r \in Record /\ r.status = "failed"
  BY <1>1, SMT DEF Record, Statuses
<1>3. /\ [r EXCEPT !.notStarted = TRUE].notStarted = TRUE
      /\ [r EXCEPT !.notStarted = TRUE].status = "failed"
  BY <1>2, Zenon DEF Record
<1>4. record' = [record EXCEPT ![o] = [r EXCEPT !.notStarted = TRUE]]
  BY DEF Replay
<1> QED BY <1>3, <1>4, Zenon DEF Rows

\* KeyUsed spends the token but no unit.
LEMMA CountReplay ==
    ASSUME BudgetInv, NEW p \in Procs, Replay(p)
    PROVE  Counted'
<1> DEFINE o == proc[p].op
<1>1. o \in Ops /\ o \notin consumed /\ record \in Rows
  BY TruthTypes DEF Replay, Dispatchable, HasOp, BudgetInv
<1>2. /\ record'[o].notStarted = TRUE
      /\ \A x \in Ops \ {o} : record'[x].notStarted = record[x].notStarted
  BY <1>1, ReplayMarks
<1>3. ASSUME NEW s \in Scopes PROVE Units(s)' = Units(s)
  <2>1. consumed \subseteq Ops /\ consumed' = consumed \union {o}
    BY TruthTypes DEF Replay, BudgetInv
  <2> QED BY <1>1, <1>2, <2>1, Zenon DEF Units
<1>4. IsFiniteSet(consumed')
  BY FS_AddElement DEF Replay, BudgetInv, Counted
<1>5. used' = used
  BY DEF Replay
<1> QED BY <1>3, <1>4, <1>5 DEF BudgetInv, Counted

\* store.undispatch gives the unit of a dispatched row back.
LEMMA CountUndispatch ==
    ASSUME BudgetInv, NEW p \in Procs, Undispatch(p)
    PROVE  Counted'
<1> DEFINE o == proc[p].op
<1>1. CASE record[o].status # "dispatched"
  BY <1>1, CountQuiet DEF Undispatch, storeVars
<1>2. CASE record[o].status = "dispatched"
  <2>1. /\ o \in Ops /\ o \in consumed /\ record \in Rows
        /\ record[o].notStarted = FALSE
    BY <1>2, TruthTypes DEF Undispatch, HasOp, BudgetInv, Unmarked, TruthInv, StartInv,
                            StartsCounted, InApply
  <2>2. \A x \in Ops : record'[x].notStarted = record[x].notStarted
    BY <1>2, <2>1, UndispatchedRow DEF OnlyRow
  <2>3. consumed' = consumed \ {o} /\ consumed \subseteq Ops
    BY <1>2, TruthTypes DEF Undispatch, BudgetInv
  <2>4. ASSUME NEW s \in Scopes
        PROVE  Units(s)' = IF s = ScopeOf[o] THEN Units(s) \ {o} ELSE Units(s)
    BY <2>1, <2>2, <2>3, Zenon DEF Units
  <2>5. /\ IsFiniteSet(consumed) /\ \A s \in Scopes : IsFiniteSet(Units(s))
        /\ o \in Units(ScopeOf[o])
    BY <2>1, FS_Subset DEF BudgetInv, Counted, Units
  <2>6. IsFiniteSet(consumed')
    BY <2>3, <2>5, FS_RemoveElement
  <2>7. ASSUME NEW s \in Scopes
        PROVE  used'[s] = Cardinality(Units(s)') /\ used'[s] <= Limit[s]
    <3>1. /\ used \in [Scopes -> Nat] /\ Limit[s] \in Nat
          /\ used[s] = Cardinality(Units(s)) /\ used[s] <= Limit[s]
      BY OperationConstants
      DEF OperationConstants, BudgetInv, Counted, TruthInv, StartInv, WriterInv, Typed,
          TypeOK
    <3>2. CASE s = ScopeOf[o]
      <4>1. Cardinality(Units(s) \ {o}) = Cardinality(Units(s)) - 1
        BY <2>5, <3>2, FS_RemoveElement
      <4>2. Cardinality(Units(s) \ {o}) \in Nat
        BY <2>5, FS_CardinalityType, FS_RemoveElement
      <4>3. used'[s] = IF used[s] = 0 THEN 0 ELSE used[s] - 1
        BY <1>2, <3>1, <3>2 DEF Undispatch, GiveBack
      <4>4. Cardinality(Units(s)') = Cardinality(Units(s)) - 1
        BY <2>4, <3>2, <4>1
      <4>5. Cardinality(Units(s)) \in Nat \ {0}
        BY <3>1, <4>1, <4>2
      <4> QED BY <3>1, <4>3, <4>4, <4>5
    <3>3. CASE s # ScopeOf[o]
      <4>1. used'[s] = used[s]
        BY <1>2, <3>1, <3>3 DEF Undispatch, GiveBack
      <4> QED BY <2>4, <3>1, <3>3, <4>1
    <3> QED BY <3>2, <3>3
  <2> QED BY <2>6, <2>7 DEF Counted
<1> QED BY <1>1, <1>2

\* Rows that may be, or have been, worked on without a mark.
Unsettled(o) == Waiting(o) \/ record[o].status = "dispatched"

\* No step of a process but a replay marks a row, and none makes a settled row
\* wait again.
LEMMA MarksStay ==
    ASSUME BudgetInv, NEW p \in Procs, ProcNext(p), NEW o \in Ops
    PROVE  /\ Unsettled(o)' => Unsettled(o)
           /\ \/ record'[o].notStarted = record[o].notStarted
              \/ Replay(p) /\ ~Unsettled(o)'
<1>1. record \in Rows /\ HasOp
  BY TruthTypes DEF BudgetInv
<1>2. CASE UNCHANGED record
  BY <1>2 DEF Unsettled, Waiting
<1>3. CASE Replay(p)
  <2>1. proc[p].op \in Ops
    BY <1>1, <1>3 DEF Replay, HasOp
  <2>2. /\ record'[proc[p].op].status = "failed"
        /\ \A x \in Ops \ {proc[p].op} : record'[x] = record[x]
    BY <1>1, <1>3, <2>1, ReplayMarks
  <2> QED BY <1>3, <2>1, <2>2 DEF Unsettled, Waiting
<1>4. CASE Dispatch(p)
  BY <1>1, <1>4, SMT DEF Dispatch, Dispatchable, HasOp, Rows, Record, Unsettled, Waiting
<1>5. CASE RecordWriter(p) \/ Heartbeat(p)
  BY <1>1, <1>5, SMT DEF RecordWriter, Heartbeat, HasOp, Rows, Record, Unsettled,
                         Waiting
<1>6. CASE SettleUnknown(p) \/ Demote(p) \/ Undispatch(p)
  <2>1. PICK r \in Ops : r = proc[p].op
    BY <1>1, <1>6 DEF SettleUnknown, Demote, Undispatch, HasOp
  <2>2. CASE SettleUnknown(p)
    <3>1. record' = Finished(r, "unknown", FALSE)
      BY <2>1, <2>2 DEF SettleUnknown
    <3>2. /\ OnlyRow(r) /\ record'[r].notStarted = record[r].notStarted
          /\ record'[r].status \in {record[r].status, "unknown"}
      BY <1>1, <2>1, <3>1, FinishedRow DEF SameMark
    <3> QED BY <2>1, <3>2 DEF OnlyRow, Unsettled, Waiting
  <2>3. CASE Demote(p)
    BY <1>1, <2>1, <2>3, DemotedRow DEF OnlyRow, SameMark, Unsettled, Waiting
  <2>4. CASE Undispatch(p)
    <3>1. CASE record[r].status = "dispatched"
      BY <1>1, <2>1, <2>4, <3>1, UndispatchedRow DEF OnlyRow, Unsettled, Waiting
    <3>2. CASE record[r].status # "dispatched"
      BY <1>1, <2>1, <2>4, <3>2, UndispatchedRow DEF storeVars, Unsettled, Waiting
    <3> QED BY <3>1, <3>2
  <2> QED BY <1>6, <2>2, <2>3, <2>4
<1>7. CASE Finish(p)
  <2>1. PICK b \in BOOLEAN :
           record' = Finished(proc[p].op, StatusFor(proc[p].result), b)
    BY <1>7 DEF Finish
  <2>2. StatusFor(proc[p].result) \in {"succeeded", "failed", "partial", "unknown"}
    BY <1>7 DEF Finish, StatusFor
  <2>3. proc[p].op \in Ops
    BY <1>1, <1>7 DEF Finish, HasOp
  <2> QED BY <1>1, <2>1, <2>2, <2>3, FinishedRow
          DEF OnlyRow, SameMark, Unsettled, Waiting
<1> QED BY <1>2, <1>3, <1>4, <1>5, <1>6, <1>7
        DEF ProcNext, Confirmable, Refused, AdapterRefuses, NativeStart, NativeWrite,
            AdapterReturns, SettleRead, Reply, Crash, storeVars

LEMMA BudgetStep == BudgetInv /\ [Next]_vars => BudgetInv'
<1> SUFFICES ASSUME BudgetInv, [Next]_vars PROVE BudgetInv'
  OBVIOUS
<1>1. TruthInv'
  BY TruthStep DEF BudgetInv
<1>2. ASSUME NEW p \in Procs, ProcNext(p) PROVE Unmarked' /\ Counted'
  <2>1. Unmarked'
    BY <1>2, MarksStay DEF BudgetInv, Unmarked, Unsettled, Waiting
  <2>2. CASE Dispatch(p) \/ Replay(p) \/ Undispatch(p)
    BY <2>1, <2>2, CountDispatch, CountReplay, CountUndispatch
  <2>3. CASE ~Dispatch(p) /\ ~Replay(p) /\ ~Undispatch(p)
    <3>1. UNCHANGED <<consumed, used>>
      BY <1>2, <2>3, Zenon
      DEF ProcNext, Confirmable, Refused, RecordWriter, Heartbeat, AdapterRefuses,
          NativeStart, NativeWrite, AdapterReturns, Finish, SettleRead,
          SettleUnknown, Demote, Reply, Crash, storeVars, nativeVars
    <3>2. consumed \subseteq Ops
      BY TruthTypes DEF BudgetInv
    <3>3. \A o \in consumed : record'[o].notStarted = record[o].notStarted
      BY <1>2, <2>3, <3>2, MarksStay
    <3> QED BY <2>1, <3>1, <3>3, CountQuiet
  <2> QED BY <2>2, <2>3
<1>3. ASSUME NEW o \in Ops, DryRun(o) \/ AddPlan(o) \/ LeaseExpires(o) \/ Resolve(o)
      PROVE  Unmarked' /\ Counted'
  <2>1. record \in Rows /\ consumed \subseteq Ops /\ UNCHANGED <<consumed, used>>
    BY <1>3, TruthTypes DEF DryRun, AddPlan, LeaseExpires, Resolve, BudgetInv
  <2>2. ASSUME NEW x \in Ops
        PROVE  /\ Unsettled(x)' => Unsettled(x)
               /\ record'[x].notStarted = record[x].notStarted
    <3>1. CASE Resolve(o)
      BY <2>1, <3>1, ResolvedRow DEF OnlyRow, SameMark, Unsettled, Waiting
    <3>2. CASE DryRun(o) \/ AddPlan(o) \/ LeaseExpires(o)
      BY <2>1, <3>2, SMT DEF DryRun, AddPlan, LeaseExpires, Rows, Record, Unsettled,
                             Waiting
    <3> QED BY <1>3, <3>1, <3>2
  <2>3. Unmarked'
    BY <2>2 DEF BudgetInv, Unmarked, Unsettled, Waiting
  <2> QED BY <2>1, <2>2, <2>3, CountQuiet
<1>4. CASE UNCHANGED vars
  <2>1. Counted'
    BY <1>4, CountQuiet DEF vars
  <2>2. Unmarked'
    BY <1>4 DEF vars, BudgetInv, Unmarked, Waiting
  <2> QED BY <1>1, <2>1, <2>2 DEF BudgetInv
<1>5. CASE Next
  BY <1>1, <1>2, <1>3, <1>5, Zenon DEF Next, BudgetInv
<1> QED BY <1>4, <1>5

LEMMA BudgetInvariant == Spec => []BudgetInv
  BY BudgetInit, BudgetStep, PTL DEF Spec

\* The counter of a scope is exact, within its limit, and covers every operation
\* that reached the native side.
THEOREM BudgetIsExact == Spec => []BudgetExact
<1>1. BudgetInv => BudgetExact
  <2> SUFFICES ASSUME BudgetInv PROVE BudgetExact
    OBVIOUS
  <2>1. ASSUME NEW o \in Ops, starts[o] > 0 PROVE o \in consumed
    BY <2>1 DEF BudgetInv, TruthInv, StartInv, StartsCounted
  <2> QED BY <2>1 DEF BudgetInv, Counted, Units, BudgetExact
<1> QED BY <1>1, BudgetInvariant, PTL

=============================================================================
