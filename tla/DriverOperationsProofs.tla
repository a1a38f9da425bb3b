----------------------- MODULE DriverOperationsProofs -----------------------
(***************************************************************************)
(* Proofs about DriverOperations for every number of operations, processes,*)
(* targets, keys and scopes: type correctness, one writer per target, one  *)
(* native start per plan, and that only untouched operations are released. *)
(***************************************************************************)
EXTENDS DriverOperations, TLAPS

-----------------------------------------------------------------------------
(* Updates of a row or of a process keep the operations table and the       *)
(* processes well typed.                                                    *)

Rows == [Ops -> Record]

\* One column of one row is updated (any UPDATE of the operations table).
LEMMA RowTyped ==
    ASSUME NEW f \in Rows, NEW o \in Ops
    PROVE  /\ \A s \in Statuses : [f EXCEPT ![o].status = s] \in Rows
           /\ \A k \in Keys \union {NoKey} : [f EXCEPT ![o].key = k] \in Rows
           /\ \A l \in {"none", "live", "expired"} :
                 [f EXCEPT ![o].lease = l] \in Rows
           /\ \A e \in Effects \union {"none"} :
                 [f EXCEPT ![o].resolution = e] \in Rows
           /\ \A w \in Procs \union {NoProc} :
                 [f EXCEPT ![o].writer = w] \in Rows
<1>1. \A s \in Statuses : [f EXCEPT ![o].status = s] \in Rows
  BY SMT DEF Rows, Record
<1>2. \A k \in Keys \union {NoKey} : [f EXCEPT ![o].key = k] \in Rows
  BY SMT DEF Rows, Record
<1>3. \A l \in {"none", "live", "expired"} : [f EXCEPT ![o].lease = l] \in Rows
  BY SMT DEF Rows, Record
<1>4. \A e \in Effects \union {"none"} : [f EXCEPT ![o].resolution = e] \in Rows
  BY SMT DEF Rows, Record
<1>5. \A w \in Procs \union {NoProc} : [f EXCEPT ![o].writer = w] \in Rows
  BY SMT DEF Rows, Record
<1> QED BY <1>1, <1>2, <1>3, <1>4, <1>5

\* One row is replaced by another.
LEMMA RowReplaced ==
    ASSUME NEW f \in Rows, NEW o \in Ops, NEW r \in Record
    PROVE  [f EXCEPT ![o] = r] \in Rows
  BY DEF Rows

\* A process moves on, or takes a result, or both.
LEMMA ProcTyped ==
    ASSUME NEW f \in [Procs -> Process], NEW p \in Procs, NEW l \in PCs
    PROVE  /\ [f EXCEPT ![p].pc = l] \in [Procs -> Process]
           /\ \A r \in Results : [f EXCEPT ![p] = [@ EXCEPT !.pc = l, !.result = r]]
                                    \in [Procs -> Process]
<1>1. [f[p] EXCEPT !.pc = l] \in Process
  BY Zenon DEF Process
<1>2. \A r \in Results : [f[p] EXCEPT !.pc = l, !.result = r] \in Process
  BY Zenon DEF Process
<1> QED BY <1>1, <1>2

\* Recording an outcome (store.finish) leaves the table well typed.
LEMMA FinishedTyped ==
    ASSUME TypeOK, NEW o \in Ops, NEW s \in Statuses, NEW b \in BOOLEAN
    PROVE  Finished(o, s, b) \in Rows
<1>1. record \in Rows /\ record[o] \in Record
  BY DEF TypeOK, Rows
<1>2. [record[o] EXCEPT !.status = s, !.receipt = b, !.lease = "none"] \in Record
  BY <1>1, Zenon DEF Record
<1> QED BY <1>1, <1>2, RowReplaced DEF Finished

-----------------------------------------------------------------------------
(* Type correctness.                                                        *)

\* A process that has left its start has an operation (Confirmable).
HasOp == \A p \in Procs : proc[p].pc # "idle" => proc[p].op \in Ops

Typed == TypeOK /\ HasOp

LEMMA TypedInit == Init => Typed
  BY OperationConstants, SMT
  DEF Init, Typed, TypeOK, HasOp, NoRecord, Record, Process, Statuses, Effects,
      PCs, Results

\* The steps that leave the store alone.
LEMMA TypedQuiet ==
    ASSUME Typed, NEW p \in Procs,
           \/ \E o \in Ops, k \in Keys \union {NoKey} : Confirmable(p, o, k)
           \/ Refused(p) \/ AdapterRefuses(p) \/ NativeStart(p)
           \/ NativeWrite(p) \/ AdapterReturns(p) \/ SettleRead(p)
           \/ Reply(p) \/ Crash(p)
    PROVE  Typed'
<1> USE DEF Typed
<1>1. proc \in [Procs -> Process]
  BY DEF TypeOK
<1>2. ASSUME NEW o \in Ops, NEW k \in Keys \union {NoKey}, Confirmable(p, o, k)
      PROVE  Typed'
  BY <1>2, SMT DEF Confirmable, TypeOK, HasOp, Process, PCs, Results, storeVars,
                   nativeVars
<1>3. ASSUME NEW l \in PCs, Goto(p, l), proc[p].pc # "idle"
      PROVE  proc' \in [Procs -> Process] /\ HasOp'
  <2>1. proc' \in [Procs -> Process]
    BY <1>1, <1>3, ProcTyped DEF Goto
  <2> QED BY <1>1, <1>3, <2>1, SMT DEF Goto, HasOp, Process
<1>4. ASSUME NEW l \in PCs, NEW r \in Results, proc[p].pc # "idle",
             proc' = [proc EXCEPT ![p] = [@ EXCEPT !.pc = l, !.result = r]]
      PROVE  proc' \in [Procs -> Process] /\ HasOp'
  <2>1. proc' \in [Procs -> Process]
    BY <1>1, <1>4, ProcTyped
  <2> QED BY <1>1, <1>4, <2>1, SMT DEF HasOp, Process
<1>5. CASE Refused(p) \/ Reply(p) \/ Crash(p)
  BY <1>3, <1>5 DEF Refused, Reply, Crash, Exit, Goto, PCs, TypeOK, storeVars,
                    nativeVars
<1>6. CASE AdapterRefuses(p)
  BY <1>4, <1>6 DEF AdapterRefuses, PCs, Results, TypeOK, storeVars, nativeVars
<1>7. CASE NativeStart(p)
  <2>1. proc' \in [Procs -> Process] /\ HasOp'
    BY <1>3, <1>7 DEF NativeStart, PCs
  <2> QED BY <1>7, <2>1 DEF NativeStart, HasOp, TypeOK, storeVars
<1>8. CASE NativeWrite(p)
  BY <1>8 DEF NativeWrite, HasOp, TypeOK, storeVars
<1>9. CASE AdapterReturns(p)
  <2>1. PICK r \in Reportable(effect[proc[p].op]) :
           proc' = [proc EXCEPT ![p] = [@ EXCEPT !.pc = "returned", !.result = r]]
    BY <1>9 DEF AdapterReturns
  <2>2. effect[proc[p].op] \in Effects
    BY <1>9 DEF AdapterReturns, HasOp, TypeOK
  <2>3. r \in Results
    BY <2>1, <2>2, SMT DEF Reportable, Effects, Results
  <2> QED BY <1>4, <1>9, <2>1, <2>3 DEF AdapterReturns, PCs, TypeOK, storeVars,
                                         nativeVars
<1>10. CASE SettleRead(p)
  <2>1. PICK l \in PCs :
           proc' = [proc EXCEPT ![p] = [@ EXCEPT !.pc = l, !.result = "raised"]]
    BY <1>10 DEF SettleRead, PCs
  <2> QED BY <1>4, <1>10, <2>1 DEF SettleRead, Results, TypeOK, storeVars,
                                    nativeVars
<1> QED BY <1>2, <1>5, <1>6, <1>7, <1>8, <1>9, <1>10

\* A step that moves a process to l keeps its operation and its type.
LEMMA MovedTyped ==
    ASSUME Typed, NEW p \in Procs, NEW l \in PCs, proc[p].pc # "idle", Goto(p, l)
    PROVE  /\ proc' \in [Procs -> Process]
           /\ HasOp'
<1>1. proc \in [Procs -> Process]
  BY DEF Typed, TypeOK
<1>2. proc' \in [Procs -> Process]
  BY <1>1, ProcTyped DEF Goto
<1> QED BY <1>1, <1>2, SMT DEF Goto, HasOp, Typed, Process

\* The steps of a process that update the operations table.
LEMMA TypedStore ==
    ASSUME Typed, NEW p \in Procs,
           \/ Dispatch(p) \/ Replay(p) \/ RecordWriter(p) \/ Heartbeat(p)
           \/ Finish(p) \/ Undispatch(p) \/ SettleUnknown(p) \/ Demote(p)
    PROVE  Typed'
<1> DEFINE o == proc[p].op
<1>1. /\ proc[p].pc # "idle" => o \in Ops
      /\ record \in Rows
      /\ proc \in [Procs -> Process]
  BY DEF Typed, TypeOK, HasOp, Rows
<1>2. CASE Dispatch(p)
  <2> DEFINE r == [record[o] EXCEPT !.status = "dispatched", !.key = proc[p].key,
                                    !.lease = "live"]
  <2>1. o \in Ops /\ proc[p].key \in Keys \union {NoKey}
    BY <1>1, <1>2 DEF Dispatch, Process
  <2>2. record[o] \in Record
    BY <1>1, <2>1 DEF Rows
  <2>3. r \in Record
    BY <2>1, <2>2, Zenon DEF Record, Statuses
  <2>4. record' = [record EXCEPT ![o] = r]
    BY <1>2 DEF Dispatch
  <2>5. record' \in Rows
    BY <1>1, <2>1, <2>3, <2>4, RowReplaced
  <2>6. proc' \in [Procs -> Process] /\ HasOp'
    BY <1>2, MovedTyped DEF Dispatch, PCs
  <2>7. used' \in [Scopes -> Nat]
    <3>1. ScopeOf[o] \in Scopes
      BY <2>1, OperationConstants DEF OperationConstants
    <3>2. used \in [Scopes -> Nat]
      BY DEF Typed, TypeOK
    <3>3. used' = [used EXCEPT ![ScopeOf[o]] = used[ScopeOf[o]] + 1]
      BY <1>2 DEF Dispatch
    <3> QED BY <3>1, <3>2, <3>3
  <2>8. consumed' \subseteq Ops
    BY <1>2, <2>1 DEF Dispatch, Typed, TypeOK
  <2> QED BY <1>2, <2>5, <2>6, <2>7, <2>8 DEF Dispatch, Typed, TypeOK, Rows, nativeVars
<1>3. CASE Replay(p)
  <2> DEFINE r == [record[o] EXCEPT !.status = "failed", !.notStarted = TRUE]
  <2>1. o \in Ops /\ record[o] \in Record
    BY <1>1, <1>3 DEF Replay, Rows
  <2>2. r \in Record
    BY <2>1, Zenon DEF Record, Statuses
  <2>3. record' = [record EXCEPT ![o] = r]
    BY <1>3 DEF Replay
  <2>4. record' \in Rows
    BY <1>1, <2>1, <2>2, <2>3, RowReplaced
  <2>5. proc' \in [Procs -> Process] /\ HasOp'
    BY <1>3, MovedTyped DEF Replay, Exit, Goto, PCs
  <2> QED BY <1>3, <2>1, <2>4, <2>5 DEF Replay, Typed, TypeOK, Rows, nativeVars
<1>4. CASE RecordWriter(p)
  <2>1. o \in Ops
    BY <1>1, <1>4 DEF RecordWriter
  <2>2. record' \in Rows
    BY <1>1, <1>4, <2>1, RowTyped DEF RecordWriter
  <2>3. proc' \in [Procs -> Process] /\ HasOp'
    BY <1>4, MovedTyped DEF RecordWriter, PCs
  <2> QED BY <1>4, <2>2, <2>3 DEF RecordWriter, Typed, TypeOK, Rows, nativeVars
<1>5. CASE Heartbeat(p)
  <2>1. record' \in Rows
    BY <1>1, <1>5, RowTyped DEF Heartbeat
  <2> QED BY <1>5, <2>1 DEF Heartbeat, Typed, TypeOK, HasOp, Rows, nativeVars
<1>6. CASE Finish(p)
  <2>1. o \in Ops /\ StatusFor(proc[p].result) \in Statuses
    BY <1>1, <1>6 DEF Finish, StatusFor, Statuses
  <2>2. record' \in Rows
    <3>1. PICK b \in BOOLEAN :
             record' = Finished(proc[p].op, StatusFor(proc[p].result), b)
      BY <1>6 DEF Finish
    <3> QED BY <2>1, <3>1, FinishedTyped DEF Typed
  <2>3. proc' \in [Procs -> Process] /\ HasOp'
    BY <1>6, MovedTyped DEF Finish, PCs
  <2> QED BY <1>6, <2>2, <2>3 DEF Finish, Typed, TypeOK, Rows, nativeVars
<1>7. CASE Undispatch(p)
  <2> DEFINE r == [record[o] EXCEPT !.status = "planned", !.lease = "none",
                                    !.key = NoKey, !.writer = NoProc]
  <2>1. o \in Ops /\ record[o] \in Record
    BY <1>1, <1>7 DEF Undispatch, Rows
  <2>2. r \in Record
    BY <2>1, Zenon DEF Record, Statuses
  <2>3. record' \in {record, [record EXCEPT ![o] = r]}
    BY <1>7 DEF Undispatch, storeVars
  <2>4. record' \in Rows
    BY <1>1, <2>1, <2>2, <2>3, RowReplaced
  <2>7. proc' \in [Procs -> Process] /\ HasOp'
    BY <1>7, MovedTyped DEF Undispatch, PCs
  <2>8. used' \in [Scopes -> Nat] /\ consumed' \subseteq Ops
    BY <1>7, <2>1, OperationConstants, SMT
    DEF Undispatch, GiveBack, Typed, TypeOK, OperationConstants, storeVars
  <2> QED BY <1>1, <1>7, <2>4, <2>7, <2>8 DEF Undispatch, Typed, TypeOK, Rows,
                                                 nativeVars
<1>8. CASE SettleUnknown(p)
  <2>1. record' \in Rows
    BY <1>1, <1>8, FinishedTyped DEF SettleUnknown, Typed, Statuses
  <2>2. proc' \in [Procs -> Process] /\ HasOp'
    BY <1>8, MovedTyped DEF SettleUnknown, PCs
  <2> QED BY <1>8, <2>1, <2>2 DEF SettleUnknown, Typed, TypeOK, Rows, nativeVars
<1>9. CASE Demote(p)
  <2> DEFINE r == [record[o] EXCEPT !.status = "unknown", !.receipt = FALSE,
                                    !.lease = "none"]
  <2>1. o \in Ops /\ record[o] \in Record
    BY <1>1, <1>9 DEF Demote, Rows
  <2>2. r \in Record
    BY <2>1, Zenon DEF Record, Statuses
  <2>3. record' = [record EXCEPT ![o] = r]
    BY <1>9 DEF Demote
  <2>4. record' \in Rows
    BY <1>1, <2>1, <2>2, <2>3, RowReplaced
  <2>6. proc' \in [Procs -> Process] /\ HasOp'
    BY <1>9, MovedTyped DEF Demote, Exit, Goto, PCs
  <2> QED BY <1>9, <2>4, <2>6 DEF Demote, Typed, TypeOK, Rows, nativeVars
<1> QED BY <1>2, <1>3, <1>4, <1>5, <1>6, <1>7, <1>8, <1>9

\* The steps of no process: dry run, plan, lease deadline and resolve.
LEMMA TypedOutside ==
    ASSUME Typed, NEW o \in Ops,
           DryRun(o) \/ AddPlan(o) \/ LeaseExpires(o) \/ Resolve(o)
    PROVE  Typed'
<1>1. record \in Rows
  BY DEF Typed, TypeOK, Rows
<1>2. CASE DryRun(o) \/ AddPlan(o) \/ LeaseExpires(o)
  <2>1. record' \in Rows
    BY <1>1, <1>2, RowTyped DEF DryRun, AddPlan, LeaseExpires, Statuses
  <2> QED BY <1>2, <2>1 DEF DryRun, AddPlan, LeaseExpires, Typed, TypeOK, HasOp, Rows,
                            nativeVars
<1>3. CASE Resolve(o)
  <2> DEFINE s  == IF record[o].status = "dispatched" THEN "unknown"
                   ELSE record[o].status
             r == [record[o] EXCEPT !.resolution = effect[o], !.status = s,
                                    !.lease = "none"]
  <2>1. effect[o] \in Effects /\ s \in Statuses /\ record[o] \in Record
    BY <1>1, SMT DEF Typed, TypeOK, Rows, Record, Statuses
  <2>2. r \in Record
    BY <2>1, Zenon DEF Record
  <2>3. record' = [record EXCEPT ![o] = r]
    BY <1>3 DEF Resolve
  <2>4. record' \in Rows
    BY <1>1, <2>2, <2>3, RowReplaced
  <2> QED BY <1>3, <2>4 DEF Resolve, Typed, TypeOK, HasOp, Rows, nativeVars
<1> QED BY <1>2, <1>3

LEMMA TypedStep == Typed /\ [Next]_vars => Typed'
<1> SUFFICES ASSUME Typed, [Next]_vars PROVE Typed'
  OBVIOUS
<1>1. CASE UNCHANGED vars
  BY <1>1 DEF vars, Typed, TypeOK, HasOp
<1>2. ASSUME NEW p \in Procs, ProcNext(p) PROVE Typed'
  BY <1>2, TypedQuiet, TypedStore, Zenon DEF ProcNext
<1>3. ASSUME NEW o \in Ops, DryRun(o) \/ AddPlan(o) \/ LeaseExpires(o) \/ Resolve(o)
      PROVE  Typed'
  BY <1>3, TypedOutside, Zenon
<1> QED BY <1>1, <1>2, <1>3, Zenon DEF Next

\* Every reachable state is well typed, and a busy process has an operation.
THEOREM TypeCorrect == Spec => []TypeOK
<1>1. Spec => []Typed
  BY TypedInit, TypedStep, PTL DEF Spec
<1> QED BY <1>1, PTL DEF Typed

-----------------------------------------------------------------------------
(* One writer per target.  SingleWriter is not inductive: a dispatch looks   *)
(* at rows, so the rows must show every process that is in its apply, and    *)
(* nothing but that process may make its row let go of the target.          *)

\* The row of an operation in apply holds the target, also after a rival's
\* interruption or broken reply has settled it to unknown.
Claimed == \A p \in Procs : InApply(p) => Holds(proc[p].op)

\* Its writer column names that process or nobody, so resolve refuses it.
OwnWriter ==
    \A p \in Procs : InApply(p) => record[proc[p].op].writer \in {p, NoProc}

\* A plan that waits has no writer, and only a settled row is resolved.
Fresh ==
    \A o \in Ops :
        /\ record[o].status \in {"absent", "drafted", "planned"} =>
              record[o].writer = NoProc
        /\ record[o].status \in {"absent", "drafted", "planned", "dispatched"} =>
              record[o].resolution = "none"

WriterInv == Typed /\ Claimed /\ SingleWriter /\ OwnWriter /\ Fresh

LEMMA WriterInit == Init => WriterInv
  BY TypedInit, SMT DEF WriterInv, Init, NoRecord, Claimed, SingleWriter, OwnWriter,
                        Fresh, InApply

\* Steps that keep every row and bring no process into its apply.
LEMMA WriterQuiet ==
    ASSUME WriterInv, UNCHANGED record,
           \A q \in Procs : InApply(q)' => /\ InApply(q)
                                          /\ proc'[q].op = proc[q].op
    PROVE  (Claimed /\ SingleWriter /\ OwnWriter /\ Fresh)'
  BY SMT DEF WriterInv, Claimed, SingleWriter, OwnWriter, Fresh, Holds

\* The steps of a process that leave the store alone are of that kind.
LEMMA WriterQuietSteps ==
    ASSUME WriterInv, NEW p \in Procs,
           \/ \E o \in Ops, k \in Keys \union {NoKey} : Confirmable(p, o, k)
           \/ Refused(p) \/ AdapterRefuses(p) \/ NativeStart(p)
           \/ NativeWrite(p) \/ AdapterReturns(p) \/ SettleRead(p)
           \/ Reply(p) \/ Crash(p)
    PROVE  (Claimed /\ SingleWriter /\ OwnWriter /\ Fresh)'
<1>1. proc \in [Procs -> Process]
  BY DEF WriterInv, Typed, TypeOK
<1>2. UNCHANGED record
  BY DEF Confirmable, Refused, AdapterRefuses, NativeStart, NativeWrite,
         AdapterReturns, SettleRead, Reply, Crash, storeVars
<1>3. ASSUME NEW q \in Procs, InApply(q)'
      PROVE  InApply(q) /\ proc'[q].op = proc[q].op
  <2>1. CASE \E o \in Ops, k \in Keys \union {NoKey} : Confirmable(p, o, k)
    BY <1>1, <1>3, <2>1, SMT DEF Confirmable, InApply, Process
  <2>2. CASE Refused(p) \/ Reply(p) \/ Crash(p)
    BY <1>1, <1>3, <2>2, SMT DEF Refused, Reply, Crash, Exit, InApply, Process
  <2>3. CASE NativeStart(p) \/ NativeWrite(p)
    BY <1>1, <1>3, <2>3, SMT DEF NativeStart, NativeWrite, Goto, InApply, Process
  <2>4. CASE AdapterReturns(p)
    <3>1. PICK r \in Reportable(effect[proc[p].op]) :
             proc' = [proc EXCEPT ![p] = [@ EXCEPT !.pc = "returned", !.result = r]]
      BY <2>4 DEF AdapterReturns
    <3>2. proc[p].pc = "native"
      BY <2>4 DEF AdapterReturns
    <3> QED BY <1>1, <1>3, <3>1, <3>2, SMT DEF InApply, Process
  <2>5. CASE SettleRead(p)
    BY <1>1, <1>3, <2>5, SMT DEF SettleRead, InApply, Process
  <2>6. CASE AdapterRefuses(p)
    BY <1>1, <1>3, <2>6, SMT DEF AdapterRefuses, InApply, Process
  <2> QED BY <2>1, <2>2, <2>3, <2>4, <2>5, <2>6
<1> QED BY <1>2, <1>3, WriterQuiet

\* store.dispatch: the target is free, so nobody on it is in apply.
LEMMA WriterDispatch ==
    ASSUME WriterInv, NEW p \in Procs, Dispatch(p)
    PROVE  (Claimed /\ SingleWriter /\ OwnWriter /\ Fresh)'
<1> USE DEF WriterInv, Typed, TypeOK, HasOp, Dispatch, Dispatchable, Goto
<1>1. Claimed'
  BY SMT DEF Claimed, InApply, Holds, Active, Fresh
<1>2. SingleWriter'
  BY SMT DEF SingleWriter, Claimed, InApply, Holds, Active, Blocking
<1>3. OwnWriter'
  BY SMT DEF OwnWriter, SingleWriter, Fresh, InApply, Holds, Active, Record
<1>4. Fresh'
  BY SMT DEF Fresh, Record
<1> QED BY <1>1, <1>2, <1>3, <1>4

\* store.dispatch on a used key: a waiting plan has no process in apply.
LEMMA WriterReplay ==
    ASSUME WriterInv, NEW p \in Procs, Replay(p)
    PROVE  (Claimed /\ SingleWriter /\ OwnWriter /\ Fresh)'
  BY SMT DEF WriterInv, Typed, TypeOK, HasOp, Replay, Dispatchable, Exit, Claimed,
             SingleWriter, OwnWriter, Fresh, InApply, Holds, Active, Record, Process

\* The pid UPDATE of _dispatched: its process is the only one on the row.
LEMMA WriterRecordWriter ==
    ASSUME WriterInv, NEW p \in Procs, RecordWriter(p)
    PROVE  (Claimed /\ SingleWriter /\ OwnWriter /\ Fresh)'
  BY SMT DEF WriterInv, Typed, TypeOK, HasOp, RecordWriter, Goto, Claimed,
             SingleWriter, OwnWriter, Fresh, InApply, Holds, Active, Record, Process

\* The lease columns matter to none of the four.
LEMMA WriterLease ==
    ASSUME WriterInv,
           \/ \E p \in Procs : Heartbeat(p)
           \/ \E o \in Ops : LeaseExpires(o)
    PROVE  (Claimed /\ SingleWriter /\ OwnWriter /\ Fresh)'
<1>1. PICK o \in Ops, l \in {"live", "expired"} :
         record' = [record EXCEPT ![o].lease = l] /\ UNCHANGED proc
  BY DEF Heartbeat, LeaseExpires, WriterInv, Typed, HasOp
<1>2. \A x \in Ops : /\ record'[x].status = record[x].status
                     /\ record'[x].resolution = record[x].resolution
                     /\ record'[x].writer = record[x].writer
  BY <1>1, SMT DEF WriterInv, Typed, TypeOK, Record
<1>3. \A q \in Procs : InApply(q)' = InApply(q)
  BY <1>1 DEF InApply
<1>4. \A q \in Procs : InApply(q) => proc[q].op \in Ops
  BY SMT DEF InApply, WriterInv, Typed, HasOp
<1> QED BY <1>1, <1>2, <1>3, <1>4, SMT DEF WriterInv, Claimed, SingleWriter,
                                           OwnWriter, Fresh, Holds

\* store.finish and store.demote after the apply: whoever else is on the row
\* (a rival settled it meanwhile) still holds the target.
LEMMA WriterRecorded ==
    ASSUME WriterInv, NEW p \in Procs,
           Finish(p) \/ SettleUnknown(p) \/ Demote(p)
    PROVE  (Claimed /\ SingleWriter /\ OwnWriter /\ Fresh)'
<1> USE DEF WriterInv, Typed, TypeOK, HasOp
<1>1. CASE Finish(p)
  <2>1. PICK b \in BOOLEAN :
           record' = Finished(proc[p].op, StatusFor(proc[p].result), b)
    BY <1>1 DEF Finish
  <2>2. /\ proc[p].pc = "returned" /\ Goto(p, "replied")
        /\ UNCHANGED <<consumed, used, nativeVars>>
        /\ StatusFor(proc[p].result) \in {"succeeded", "failed", "partial", "unknown"}
    BY <1>1 DEF Finish, StatusFor
  <2> USE <2>1, <2>2 DEF Finished, Goto
  <2>3. Claimed'
    BY SMT DEF Claimed, SingleWriter, InApply, Holds, Active
  <2>4. SingleWriter'
    BY SMT DEF SingleWriter, InApply
  <2>5. OwnWriter'
    BY SMT DEF OwnWriter, InApply, Record
  <2>6. Fresh'
    BY SMT DEF Fresh, Record
  <2> QED BY <2>3, <2>4, <2>5, <2>6
<1>2. CASE SettleUnknown(p)
  <2> USE <1>2 DEF SettleUnknown, Finished, Goto
  <2>1. Claimed'
    BY SMT DEF Claimed, InApply, Holds, Active
  <2>2. SingleWriter'
    BY SMT DEF SingleWriter, InApply
  <2>3. OwnWriter'
    BY SMT DEF OwnWriter, InApply, Record
  <2>4. Fresh'
    BY SMT DEF Fresh, Record
  <2> QED BY <2>1, <2>2, <2>3, <2>4
<1>3. CASE Demote(p)
  <2> USE <1>3 DEF Demote, Exit
  <2>1. Claimed'
    BY SMT DEF Claimed, InApply, Holds, Active
  <2>2. SingleWriter'
    BY SMT DEF SingleWriter, InApply
  <2>3. OwnWriter'
    BY SMT DEF OwnWriter, InApply, Record
  <2>4. Fresh'
    BY SMT DEF Fresh, Record
  <2> QED BY <2>1, <2>2, <2>3, <2>4
<1> QED BY <1>1, <1>2, <1>3

\* store.undispatch: the row is the refusing process's own.
LEMMA WriterUndispatch ==
    ASSUME WriterInv, NEW p \in Procs, Undispatch(p)
    PROVE  (Claimed /\ SingleWriter /\ OwnWriter /\ Fresh)'
<1> DEFINE o == proc[p].op
<1>1. o \in Ops /\ InApply(p) /\ record \in [Ops -> Record]
  BY DEF WriterInv, Typed, TypeOK, HasOp, Undispatch, InApply
<1>2. \A q \in Procs : InApply(q)' => q # p /\ InApply(q) /\ proc'[q].op = proc[q].op
  BY SMT DEF WriterInv, Typed, TypeOK, Undispatch, Goto, InApply, Process
<1>3. \A x \in Ops \ {o} : record'[x] = record[x]
  BY <1>1, SMT DEF Undispatch, storeVars
<1>4. \/ record'[o] = record[o]
      \/ /\ record[o].status = "dispatched" /\ record'[o].status = "planned"
         /\ record'[o].writer = NoProc
         /\ record'[o].resolution = record[o].resolution
  <2>1. CASE record[o].status = "dispatched"
    <3>1. record' = [record EXCEPT ![o] =
                       [@ EXCEPT !.status = "planned", !.lease = "none",
                                 !.key = NoKey, !.writer = NoProc]]
      BY <2>1 DEF Undispatch
    <3>2. record'[o] = [record[o] EXCEPT !.status = "planned", !.lease = "none",
                                         !.key = NoKey, !.writer = NoProc]
      BY <1>1, <3>1
    <3>3. record[o] \in Record
      BY <1>1
    <3> QED BY <2>1, <3>2, <3>3 DEF Record
  <2>2. CASE record[o].status # "dispatched"
    BY <2>2 DEF Undispatch, storeVars
  <2> QED BY <2>1, <2>2
<1>5. \A q \in Procs : InApply(q)' => proc[q].op # o /\ proc[q].op \in Ops
  BY <1>1, <1>2, SMT DEF WriterInv, SingleWriter, Typed, HasOp, InApply
<1>6. Fresh'
  BY <1>1, <1>3, <1>4, SMT DEF WriterInv, Fresh
<1> QED BY <1>2, <1>3, <1>5, <1>6, SMT
        DEF WriterInv, Claimed, SingleWriter, OwnWriter, Holds

\* Dry run and resolve: a resolved operation's writer is dead, so nobody is in
\* its apply.
LEMMA WriterOutside ==
    ASSUME WriterInv, NEW o \in Ops, DryRun(o) \/ AddPlan(o) \/ Resolve(o)
    PROVE  (Claimed /\ SingleWriter /\ OwnWriter /\ Fresh)'
<1> USE DEF WriterInv, Typed, TypeOK, HasOp
<1>1. CASE DryRun(o) \/ AddPlan(o)
  <2> USE <1>1 DEF DryRun, AddPlan
  <2>1. Claimed'
    BY SMT DEF Claimed, InApply, Holds, Active
  <2>2. SingleWriter'
    BY SMT DEF SingleWriter, InApply
  <2>3. OwnWriter'
    BY SMT DEF OwnWriter, InApply, Record
  <2>4. Fresh'
    BY SMT DEF Fresh, Record
  <2> QED BY <2>1, <2>2, <2>3, <2>4
<1>2. CASE Resolve(o)
  <2> USE <1>2 DEF Resolve, Resolvable
  <2>1. ASSUME NEW q \in Procs, InApply(q) PROVE proc[q].op # o
    BY <2>1, OperationConstants, SMT
    DEF OwnWriter, Alive, InApply, OperationConstants
  <2>2. Claimed'
    BY <2>1, SMT DEF Claimed, InApply, Holds, Active
  <2>3. SingleWriter'
    BY SMT DEF SingleWriter, InApply
  <2>4. OwnWriter'
    BY SMT DEF OwnWriter, InApply, Record
  <2>5. \A x \in Ops \ {o} : record'[x] = record[x]
    BY SMT
  <2>6. record'[o].status \notin {"absent", "drafted", "planned", "dispatched"}
    BY SMT DEF EffectiveStatus, Record
  <2>7. Fresh'
    BY <2>5, <2>6, SMT DEF Fresh
  <2> QED BY <2>2, <2>3, <2>4, <2>7
<1> QED BY <1>1, <1>2

LEMMA WriterStep == WriterInv /\ [Next]_vars => WriterInv'
<1> SUFFICES ASSUME WriterInv, [Next]_vars PROVE WriterInv'
  OBVIOUS
<1>1. Typed'
  BY TypedStep DEF WriterInv
<1>2. CASE UNCHANGED vars
  BY <1>2, WriterQuiet, <1>1 DEF vars, WriterInv, InApply
<1>3. ASSUME NEW p \in Procs, ProcNext(p)
      PROVE  (Claimed /\ SingleWriter /\ OwnWriter /\ Fresh)'
  BY <1>3, WriterQuietSteps, WriterDispatch, WriterReplay, WriterRecordWriter,
     WriterLease, WriterRecorded, WriterUndispatch, Zenon DEF ProcNext
<1>4. ASSUME NEW o \in Ops, DryRun(o) \/ AddPlan(o) \/ LeaseExpires(o) \/ Resolve(o)
      PROVE  (Claimed /\ SingleWriter /\ OwnWriter /\ Fresh)'
  BY <1>4, WriterOutside, WriterLease, Zenon
<1>5. CASE Next
  BY <1>3, <1>4, <1>5, <1>1, Zenon DEF Next, WriterInv
<1> QED BY <1>2, <1>5

LEMMA WriterInvariant == Spec => []WriterInv
  BY WriterInit, WriterStep, PTL DEF Spec

\* At most one process at a time works on a target, whatever crashes, lapses,
\* is settled by a rival or resolved meanwhile.
THEOREM OneWriterPerTarget == Spec => []SingleWriter
  BY WriterInvariant, PTL DEF WriterInv

-----------------------------------------------------------------------------
(* One native start per plan.  Only a refused call gives its token back, so  *)
(* an operation whose token is free has never been started.                 *)

\* p may still reach NativeStart, or has been refused before it.
Unstarted(p) ==
    \/ proc[p].pc \in {"dispatched", "owned"}
    \/ proc[p].pc = "returned" /\ proc[p].result = "refused"

StartsCounted ==
    /\ \A o \in Ops : o \notin consumed => starts[o] = 0
    /\ \A p \in Procs : InApply(p) => proc[p].op \in consumed
    /\ \A p \in Procs : Unstarted(p) => starts[proc[p].op] = 0

StartInv == WriterInv /\ StartsCounted /\ OneStartPerPlan

LEMMA StartInit == Init => StartInv
  BY WriterInit, SMT DEF StartInv, Init, StartsCounted, OneStartPerPlan, Unstarted,
                         InApply

\* Steps that neither start nor free anything.
LEMMA StartQuiet ==
    ASSUME StartInv, UNCHANGED <<consumed, starts>>,
           \A q \in Procs : /\ InApply(q)' => InApply(q)
                            /\ Unstarted(q)' => Unstarted(q)
                            /\ InApply(q)' \/ Unstarted(q)' =>
                                  proc'[q].op = proc[q].op
    PROVE  StartsCounted' /\ OneStartPerPlan'
  BY SMT DEF StartInv, StartsCounted, OneStartPerPlan

LEMMA StartStep == StartInv /\ [Next]_vars => StartInv'
<1> SUFFICES ASSUME StartInv, [Next]_vars PROVE StartInv'
  OBVIOUS
<1>1. WriterInv'
  BY WriterStep DEF StartInv
<1>2. /\ proc \in [Procs -> Process]
      /\ HasOp /\ consumed \subseteq Ops /\ starts \in [Ops -> Nat]
  BY DEF StartInv, WriterInv, Typed, TypeOK
<1>3. ASSUME NEW p \in Procs, NEW l \in PCs \ {"dispatched", "returned"}, Goto(p, l),
             l = "owned" => proc[p].pc = "dispatched",
             l = "native" => proc[p].pc = "owned", UNCHANGED <<consumed, starts>>
      PROVE  StartsCounted' /\ OneStartPerPlan'
  BY <1>2, <1>3, StartQuiet, SMT DEF Goto, InApply, Unstarted, PCs, Process
<1>4. ASSUME NEW p \in Procs, ProcNext(p)
      PROVE  StartsCounted' /\ OneStartPerPlan'
  <2>1. CASE \E o \in Ops, k \in Keys \union {NoKey} : Confirmable(p, o, k)
    BY <1>2, <2>1, StartQuiet, SMT
    DEF Confirmable, InApply, Unstarted, Process, storeVars, nativeVars
  <2>2. CASE Dispatch(p)
    <3> USE <1>2, <2>2 DEF Dispatch, Dispatchable, Goto, StartInv, StartsCounted,
                           nativeVars
    <3>1. OneStartPerPlan'
      BY DEF OneStartPerPlan
    <3>2. \A o \in Ops : o \notin consumed' => starts'[o] = 0
      OBVIOUS
    <3>3. \A q \in Procs : InApply(q)' => proc'[q].op \in consumed'
      BY SMT DEF InApply, Process
    <3>4. \A q \in Procs : Unstarted(q)' => starts'[proc'[q].op] = 0
      BY SMT DEF Unstarted, HasOp, Process
    <3> QED BY <3>1, <3>2, <3>3, <3>4 DEF StartsCounted
  <2>3. CASE Replay(p)
    <3> USE <1>2, <2>3 DEF Replay, Exit, StartInv, StartsCounted, nativeVars
    <3>1. OneStartPerPlan'
      BY DEF OneStartPerPlan
    <3>2. \A q \in Procs : InApply(q)' => proc'[q].op \in consumed'
      BY SMT DEF InApply, Process
    <3>3. \A q \in Procs : Unstarted(q)' => starts'[proc'[q].op] = 0
      BY SMT DEF Unstarted, Process
    <3> QED BY <3>1, <3>2, <3>3 DEF StartsCounted
  <2>4. CASE Refused(p) \/ Reply(p) \/ Crash(p)
    BY <1>3, <2>4 DEF Refused, Reply, Crash, Exit, Goto, PCs, storeVars, nativeVars
  <2>5. CASE RecordWriter(p)
    BY <1>3, <2>5 DEF RecordWriter, PCs, nativeVars
  <2>6. CASE Heartbeat(p)
    BY <2>6, StartQuiet DEF Heartbeat, InApply, Unstarted, nativeVars
  <2>7. CASE AdapterRefuses(p)
    BY <1>2, <2>7, StartQuiet, SMT
    DEF AdapterRefuses, InApply, Unstarted, Process, storeVars, nativeVars
  <2>8. CASE NativeStart(p)
    <3> USE <1>2, <2>8 DEF NativeStart, Goto, StartInv, StartsCounted, storeVars
    <3>1. proc[p].op \in Ops /\ starts[proc[p].op] = 0
      BY SMT DEF HasOp, Unstarted
    <3>2. OneStartPerPlan'
      BY <3>1, SMT DEF OneStartPerPlan
    <3>3. \A o \in Ops : o \notin consumed' => starts'[o] = 0
      BY <3>1, SMT DEF InApply
    <3>4. \A q \in Procs : InApply(q)' => proc'[q].op \in consumed'
      BY SMT DEF InApply, Process
    <3>5. \A q \in Procs : Unstarted(q)' => starts'[proc'[q].op] = 0
      BY <3>1, SMT DEF Unstarted, InApply, SingleWriter, WriterInv, Process
    <3> QED BY <3>2, <3>3, <3>4, <3>5 DEF StartsCounted
  <2>9. CASE NativeWrite(p)
    BY <2>9, StartQuiet DEF NativeWrite, InApply, Unstarted, storeVars
  <2>10. CASE AdapterReturns(p)
    <3>1. PICK r \in Reportable(effect[proc[p].op]) :
             proc' = [proc EXCEPT ![p] = [@ EXCEPT !.pc = "returned", !.result = r]]
      BY <2>10 DEF AdapterReturns
    <3>2. effect[proc[p].op] \in Effects
      BY <2>10 DEF AdapterReturns, HasOp, StartInv, WriterInv, Typed, TypeOK
    <3>3. r # "refused"
      BY <3>1, <3>2, SMT DEF Reportable, Effects
    <3>4. /\ proc'[p].pc = "returned"
          /\ proc'[p].result = r /\ proc'[p].op = proc[p].op
      BY <1>2, <3>1, SMT DEF Process
    <3>5. \A q \in Procs \ {p} : proc'[q] = proc[q]
      BY <1>2, <3>1
    <3>6. \A q \in Procs : /\ InApply(q)' => InApply(q)
                           /\ Unstarted(q)' => Unstarted(q)
                           /\ proc'[q].op = proc[q].op
      BY <2>10, <3>3, <3>4, <3>5 DEF AdapterReturns, InApply, Unstarted
    <3> QED BY <2>10, <3>6, StartQuiet DEF AdapterReturns, storeVars, nativeVars
  <2>11. CASE Finish(p) \/ SettleUnknown(p)
    BY <1>3, <2>11 DEF Finish, SettleUnknown, PCs, nativeVars
  <2>12. CASE Undispatch(p)
    <3> USE <1>2, <2>12 DEF Undispatch, Goto, StartInv, StartsCounted, storeVars,
                            nativeVars
    <3>1. proc[p].op \in Ops /\ starts[proc[p].op] = 0
      BY SMT DEF HasOp, Unstarted
    <3>2. OneStartPerPlan'
      BY DEF OneStartPerPlan
    <3>3. \A o \in Ops : o \notin consumed' => starts'[o] = 0
      BY <3>1, SMT
    <3>4. \A q \in Procs : InApply(q)' => proc'[q].op \in consumed'
      BY SMT DEF InApply, SingleWriter, WriterInv, Process
    <3>5. \A q \in Procs : Unstarted(q)' => starts'[proc'[q].op] = 0
      BY SMT DEF Unstarted, Process
    <3> QED BY <3>2, <3>3, <3>4, <3>5 DEF StartsCounted
  <2>13. CASE SettleRead(p)
    BY <1>2, <2>13, StartQuiet, SMT
    DEF SettleRead, InApply, Unstarted, Process, storeVars, nativeVars
  <2>14. CASE Demote(p)
    BY <1>3, <2>14 DEF Demote, Exit, Goto, PCs, nativeVars
  <2> QED BY <1>4, <2>1, <2>2, <2>3, <2>4, <2>5, <2>6, <2>7, <2>8, <2>9, <2>10,
             <2>11, <2>12, <2>13, <2>14 DEF ProcNext
<1>5. ASSUME NEW o \in Ops, DryRun(o) \/ AddPlan(o) \/ LeaseExpires(o) \/ Resolve(o)
      PROVE  StartsCounted' /\ OneStartPerPlan'
  BY <1>5, StartQuiet
  DEF DryRun, AddPlan, LeaseExpires, Resolve, InApply, Unstarted, nativeVars
<1>6. ASSUME UNCHANGED vars
      PROVE  StartsCounted' /\ OneStartPerPlan'
  BY <1>6, StartQuiet DEF vars, InApply, Unstarted
<1>7. StartsCounted' /\ OneStartPerPlan'
  BY <1>4, <1>5, <1>6, Zenon DEF Next
<1> QED BY <1>1, <1>7 DEF StartInv

LEMMA StartInvariant == Spec => []StartInv
  BY StartInit, StartStep, PTL DEF Spec

\* A plan's native work begins at most once, however often its token is
\* confirmed and its adapter refuses.
THEOREM OneNativeStart == Spec => []OneStartPerPlan
  BY StartInvariant, PTL DEF StartInv

\* Only an operation that never reached the native side, and on which no other
\* process works, gets its token back.
THEOREM OnlyUntouchedReleased == Spec => ReleasedMeansUntouched
<1> DEFINE Released ==
      \A o \in Ops : o \in consumed \ consumed' =>
          /\ starts[o] = 0
          /\ \A q \in Procs : proc'[q].op = o => ~InApply(q)'
<1>1. ASSUME StartInv, [Next]_vars PROVE Released
  <2> SUFFICES ASSUME NEW o \in Ops, o \in consumed, o \notin consumed'
               PROVE  /\ starts[o] = 0
                      /\ \A q \in Procs : proc'[q].op = o => ~InApply(q)'
    OBVIOUS
  <2>1. ASSUME NEW p \in Procs, ProcNext(p) PROVE Undispatch(p)
    BY <2>1 DEF ProcNext, Confirmable, Dispatch, Replay, Refused, RecordWriter,
                Heartbeat, AdapterRefuses, NativeStart, NativeWrite, AdapterReturns,
                Finish, SettleRead, SettleUnknown, Demote, Reply, Crash, storeVars,
                nativeVars
  <2>2. \E p \in Procs : Undispatch(p)
    BY <1>1, <2>1 DEF Next, DryRun, AddPlan, LeaseExpires, Resolve, vars
  <2>3. PICK p \in Procs : Undispatch(p)
    BY <2>2
  <2>4. proc[p].op = o
    BY <2>3 DEF Undispatch, storeVars
  <2>5. starts[o] = 0
    BY <1>1, <2>3, <2>4 DEF Undispatch, StartInv, StartsCounted, Unstarted
  <2>6. ASSUME NEW q \in Procs, proc'[q].op = o, InApply(q)' PROVE FALSE
    BY <1>1, <2>3, <2>4, <2>6, SMT
    DEF Undispatch, Goto, InApply, StartInv, WriterInv, SingleWriter, Typed, TypeOK,
        Process
  <2> QED BY <2>5, <2>6
<1> QED BY <1>1, StartInvariant, PTL DEF Spec, ReleasedMeansUntouched

=============================================================================
