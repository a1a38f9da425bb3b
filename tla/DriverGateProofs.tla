--------------------------- MODULE DriverGateProofs ---------------------------
(***************************************************************************)
(* DriverOperations implements Gate: its initial states are initial states *)
(* of the gate, and every step of a process, of the clock or of a resolve  *)
(* is a step of the gate or changes nothing there.                         *)
(***************************************************************************)
EXTENDS DriverRecordsProofs

-----------------------------------------------------------------------------
(* From one operation to the gate's functions.                              *)

\* The gate sees no change of x.
Same(x) ==
    /\ (x \notin consumed)' = (x \notin consumed)
    /\ Holds(x)' = Holds(x)
    /\ Working(x)' = Working(x)
    /\ effect'[x] = effect[x]
    /\ Verdict(x)' = Verdict(x)

LEMMA GateStutter ==
    ASSUME TruthInv, TruthInv', \A x \in Ops : Same(x)
    PROVE  UNCHANGED TheGate!vars
<1>1. effect \in [Ops -> Effects] /\ effect' \in [Ops -> Effects]
  BY TruthTypes DEF TruthInv, StartInv, WriterInv, Typed, TypeOK
<1>2. effect' = effect
  BY <1>1 DEF Same
<1>3. [o \in Ops |-> o \notin consumed]' = [o \in Ops |-> o \notin consumed]
  BY Zenon DEF Same
<1>4. [o \in Ops |-> Holds(o)]' = [o \in Ops |-> Holds(o)]
  BY Zenon DEF Same
<1>5. [o \in Ops |-> Working(o)]' = [o \in Ops |-> Working(o)]
  BY Zenon DEF Same
<1>6. [o \in Ops |-> Verdict(o)]' = [o \in Ops |-> Verdict(o)]
  BY Zenon DEF Same
<1> QED BY <1>2, <1>3, <1>4, <1>5, <1>6, Zenon DEF TheGate!vars

\* A change of one operation is an update of the gate's functions there.
LEMMA GateUpdate ==
    ASSUME NEW o \in Ops, \A x \in Ops \ {o} : Same(x)
    PROVE  /\ \A b : (o \notin consumed)' = b =>
                 [x \in Ops |-> x \notin consumed]' =
                     [[x \in Ops |-> x \notin consumed] EXCEPT ![o] = b]
           /\ \A b : Holds(o)' = b =>
                 [x \in Ops |-> Holds(x)]' = [[x \in Ops |-> Holds(x)] EXCEPT ![o] = b]
           /\ \A b : Working(o)' = b =>
                 [x \in Ops |-> Working(x)]' =
                     [[x \in Ops |-> Working(x)] EXCEPT ![o] = b]
           /\ \A v : Verdict(o)' = v =>
                 [x \in Ops |-> Verdict(x)]' =
                     [[x \in Ops |-> Verdict(x)] EXCEPT ![o] = v]
<1>1. \A b : (o \notin consumed)' = b =>
         [x \in Ops |-> x \notin consumed]' =
             [[x \in Ops |-> x \notin consumed] EXCEPT ![o] = b]
  BY Zenon DEF Same
<1>2. \A b : Holds(o)' = b =>
         [x \in Ops |-> Holds(x)]' = [[x \in Ops |-> Holds(x)] EXCEPT ![o] = b]
  BY Zenon DEF Same
<1>3. \A b : Working(o)' = b =>
         [x \in Ops |-> Working(x)]' = [[x \in Ops |-> Working(x)] EXCEPT ![o] = b]
  BY Zenon DEF Same
<1>4. \A v : Verdict(o)' = v =>
         [x \in Ops |-> Verdict(x)]' = [[x \in Ops |-> Verdict(x)] EXCEPT ![o] = v]
  BY Zenon DEF Same
<1> QED BY <1>1, <1>2, <1>3, <1>4

-----------------------------------------------------------------------------
(* Who works on what after a step of process p.                             *)

\* Only p has moved, and it keeps its operation.
OnlyMoves(p) ==
    /\ \A q \in Procs \ {p} : proc'[q] = proc[q]
    /\ proc'[p].op = proc[p].op

LEMMA WorkingKept ==
    ASSUME NEW p \in Procs, OnlyMoves(p), NEW x \in Ops,
           (InApply(p) <=> InApply(p)') \/ x # proc[p].op
    PROVE  Working(x)' = Working(x)
<1>1. \A q \in Procs \ {p} : InApply(q)' = InApply(q)
  BY DEF OnlyMoves, InApply
<1> QED BY <1>1, Zenon DEF OnlyMoves, Working

LEMMA WorkingEnds ==
    ASSUME NEW p \in Procs, NEW o, o = proc[p].op, SingleWriter, OnlyMoves(p),
           InApply(p), ~InApply(p)'
    PROVE  Working(o) /\ ~Working(o)'
<1>1. Working(o)
  BY DEF Working
<1>2. ASSUME NEW q \in Procs, InApply(q)', proc'[q].op = o PROVE FALSE
  <2>1. q # p
    BY <1>2
  <2>2. InApply(q) /\ proc[q].op = o
    BY <1>2, <2>1 DEF OnlyMoves, InApply
  <2> QED BY <2>1, <2>2 DEF SingleWriter
<1>3. ~Working(o)'
  BY <1>2, Zenon DEF Working
<1> QED BY <1>1, <1>3

\* An operation in apply holds its target.
LEMMA WorkingHolds ==
    ASSUME TruthInv, NEW o \in Ops, Working(o)
    PROVE  Holds(o)
  BY TruthTypes DEF Working, Claimed

\* What the gate sees of a row.
LEMMA SameRow ==
    ASSUME NEW o \in Ops, record'[o].status = record[o].status,
           record'[o].resolution = record[o].resolution
    PROVE  Holds(o)' = Holds(o) /\ Verdict(o)' = Verdict(o)
  BY DEF Holds, Verdict

-----------------------------------------------------------------------------
(* The steps.                                                               *)

LEMMA GateInit == Init => TheGate!Init
<1> SUFFICES ASSUME Init PROVE TheGate!Init
  OBVIOUS
<1>1. \A o \in Ops : record[o] = NoRecord
  BY DEF Init
<1>2. \A o \in Ops : ~Holds(o) /\ Verdict(o) = "none" /\ o \notin consumed
  BY <1>1 DEF Holds, Active, Verdict, NoRecord, Init
<1>3. \A p \in Procs : ~InApply(p)
  BY DEF Init, InApply
<1>4. \A o \in Ops : ~Working(o)
  BY <1>3 DEF Working
<1>5. \A o \in Ops : /\ (o \notin consumed) = TRUE /\ Holds(o) = FALSE
                     /\ Working(o) = FALSE
  BY <1>2, <1>4
<1> QED BY <1>2, <1>5, Zenon DEF TheGate!Init, Init

\* Steps that leave rows, tokens and targets alone, and nobody leaves an apply.
LEMMA GateQuiet ==
    ASSUME TruthInv, TruthInv', NEW p \in Procs,
           \/ \E o \in Ops, k \in Keys \union {NoKey} : Confirmable(p, o, k)
           \/ Refused(p) \/ RecordWriter(p) \/ Heartbeat(p) \/ AdapterRefuses(p)
           \/ NativeStart(p) \/ AdapterReturns(p) \/ Reply(p)
    PROVE  UNCHANGED TheGate!vars
<1>1. proc \in [Procs -> Process] /\ record \in Rows
  BY TruthTypes
<1>2. UNCHANGED <<consumed, effect>>
  BY DEF Confirmable, Refused, RecordWriter, Heartbeat, AdapterRefuses, NativeStart,
         AdapterReturns, Reply, storeVars, nativeVars
<1>3. SameRows
  <2>1. CASE RecordWriter(p) \/ Heartbeat(p)
    BY <1>1, <2>1, SMT DEF RecordWriter, Heartbeat, SameRows, Rows, Record
  <2>2. CASE UNCHANGED record
    BY <2>2 DEF SameRows
  <2> QED BY <2>1, <2>2 DEF Confirmable, Refused, AdapterRefuses, NativeStart,
                            AdapterReturns, Reply, storeVars
<1>4. \A x \in Ops : Working(x)' = Working(x)
  <2>1. CASE \E o \in Ops, k \in Keys \union {NoKey} : Confirmable(p, o, k)
    <3>1. ~InApply(p) /\ ~InApply(p)'
      BY <1>1, <2>1, SMT DEF Confirmable, InApply, Process
    <3>2. \A q \in Procs \ {p} : proc'[q] = proc[q]
      BY <1>1, <2>1, SMT DEF Confirmable
    <3>3. ASSUME NEW q \in Procs
          PROVE  /\ InApply(q)' = InApply(q)
                 /\ InApply(q) => proc'[q].op = proc[q].op
      BY <3>1, <3>2 DEF InApply
    <3> QED BY <3>3, Zenon DEF Working
  <2>2. CASE Refused(p) \/ Reply(p)
    <3>1. OnlyMoves(p) /\ ~InApply(p) /\ ~InApply(p)'
      BY <1>1, <2>2, SMT DEF Refused, Reply, Exit, OnlyMoves, InApply, Process
    <3> QED BY <3>1, WorkingKept
  <2>3. CASE RecordWriter(p) \/ NativeStart(p)
    <3>1. OnlyMoves(p) /\ InApply(p) /\ InApply(p)'
      BY <1>1, <2>3, SMT DEF RecordWriter, NativeStart, Goto, OnlyMoves, InApply,
                             Process
    <3> QED BY <3>1, WorkingKept
  <2>4. CASE AdapterRefuses(p) \/ AdapterReturns(p)
    <3>1. PICK r : proc' = [proc EXCEPT ![p] = [@ EXCEPT !.pc = "returned", !.result = r]]
      BY <2>4 DEF AdapterRefuses, AdapterReturns
    <3>2. proc[p].pc \in {"owned", "native"}
      BY <2>4 DEF AdapterRefuses, AdapterReturns
    <3>3. OnlyMoves(p) /\ InApply(p) /\ InApply(p)'
      BY <1>1, <3>1, <3>2, SMT DEF OnlyMoves, InApply, Process
    <3> QED BY <3>3, WorkingKept
  <2>5. CASE Heartbeat(p)
    <3>1. OnlyMoves(p) /\ InApply(p) = InApply(p)'
      BY <2>5 DEF Heartbeat, OnlyMoves, InApply
    <3> QED BY <3>1, WorkingKept
  <2> QED BY <2>1, <2>2, <2>3, <2>4, <2>5
<1>5. \A x \in Ops : Same(x)
  BY <1>2, <1>3, <1>4, SameRow, Zenon DEF Same, SameRows
<1> QED BY <1>5, GateStutter

\* store.dispatch is the gate's Take.
LEMMA GateDispatch ==
    ASSUME TruthInv, NEW p \in Procs, NEW o \in Ops, o = proc[p].op, Dispatch(p)
    PROVE  TheGate!Take(o)
<1>1. proc \in [Procs -> Process] /\ record \in Rows /\ Fresh
  BY TruthTypes
<1>2. /\ o \notin consumed /\ record[o].status = "planned" /\ ~Blocking(o)
      /\ record[o].resolution = "none"
  BY <1>1 DEF Dispatch, Dispatchable, Fresh
<1>3. ~Holds(o) /\ ~Working(o) /\ Verdict(o) = "none"
  BY <1>1, <1>2, WorkingHolds DEF Holds, Active, Verdict
<1>4. \A x \in Ops \ {o} : TargetOf[x] = TargetOf[o] => ~Holds(x) /\ ~Working(x)
  BY <1>2, WorkingHolds DEF Blocking
<1>5. /\ record'[o].status = "dispatched" /\ record'[o].resolution = "none"
      /\ \A x \in Ops \ {o} : record'[x] = record[x]
  BY <1>1, <1>2, SMT DEF Dispatch, Rows, Record
<1>6. OnlyMoves(p) /\ ~InApply(p) /\ InApply(p)'
  BY <1>1, SMT DEF Dispatch, Goto, OnlyMoves, InApply, Process
<1>7. ASSUME NEW x \in Ops \ {o} PROVE Same(x)
  BY <1>5, <1>6, SameRow, WorkingKept DEF Same, Dispatch, nativeVars
<1>8. /\ (o \notin consumed)' = FALSE /\ Holds(o)' = TRUE /\ Working(o)' = TRUE
      /\ Verdict(o)' = Verdict(o)
  BY <1>3, <1>5, <1>6 DEF Holds, Active, Working, Verdict, OnlyMoves, Dispatch
<1>9. /\ [x \in Ops |-> x \notin consumed]' =
             [[x \in Ops |-> x \notin consumed] EXCEPT ![o] = FALSE]
      /\ [x \in Ops |-> Holds(x)]' = [[x \in Ops |-> Holds(x)] EXCEPT ![o] = TRUE]
      /\ [x \in Ops |-> Working(x)]' = [[x \in Ops |-> Working(x)] EXCEPT ![o] = TRUE]
  BY <1>7, <1>8, GateUpdate, Zenon
<1>10. [x \in Ops |-> Verdict(x)]' = [x \in Ops |-> Verdict(x)]
  BY <1>7, <1>8, Zenon DEF Same
<1> QED BY <1>2, <1>3, <1>4, <1>9, <1>10, Zenon DEF TheGate!Take, Dispatch, nativeVars

\* KeyUsed is Supersede.
LEMMA GateReplay ==
    ASSUME TruthInv, NEW p \in Procs, NEW o \in Ops, o = proc[p].op, Replay(p)
    PROVE  TheGate!Supersede(o)
<1>1. proc \in [Procs -> Process] /\ record \in Rows /\ Fresh
  BY TruthTypes
<1>2. /\ o \notin consumed /\ record[o].status = "planned"
      /\ record[o].resolution = "none" /\ effect[o] = "not_applied"
  BY <1>1 DEF Replay, Dispatchable, Fresh, TruthInv, Truth, Untouched
<1>3. ~Holds(o) /\ ~Working(o)
  BY <1>2, WorkingHolds DEF Holds, Active
<1>4. /\ record'[o].status = "failed" /\ record'[o].resolution = "none"
      /\ \A x \in Ops \ {o} : record'[x] = record[x]
  <2>1. \A x \in Ops \ {o} : record'[x] = record[x]
    BY <1>1, ReplayMarks
  <2>2. record'[o].status = "failed"
    BY <1>1, ReplayMarks
  <2>3. record'[o].resolution = "none"
    BY <1>1, <1>2, SMT DEF Replay, Rows, Record
  <2> QED BY <2>1, <2>2, <2>3
<1>5. OnlyMoves(p) /\ ~InApply(p) /\ ~InApply(p)'
  BY <1>1, SMT DEF Replay, Exit, OnlyMoves, InApply, Process
<1>6. ASSUME NEW x \in Ops \ {o} PROVE Same(x)
  BY <1>4, <1>5, SameRow, WorkingKept DEF Same, Replay, nativeVars
<1>7. /\ (o \notin consumed)' = FALSE /\ Holds(o)' = Holds(o)
      /\ Working(o)' = Working(o) /\ Verdict(o)' = "not_applied"
  BY <1>3, <1>4, <1>5, WorkingKept DEF Holds, Active, Verdict, Replay
<1>8. /\ [x \in Ops |-> x \notin consumed]' =
             [[x \in Ops |-> x \notin consumed] EXCEPT ![o] = FALSE]
      /\ [x \in Ops |-> Verdict(x)]' =
             [[x \in Ops |-> Verdict(x)] EXCEPT ![o] = "not_applied"]
  BY <1>6, <1>7, GateUpdate, Zenon
<1>9. [x \in Ops |-> Holds(x)]' = [x \in Ops |-> Holds(x)]
  BY <1>6, <1>7, Zenon DEF Same
<1>10. [x \in Ops |-> Working(x)]' = [x \in Ops |-> Working(x)]
  BY <1>6, <1>7, Zenon DEF Same
<1> QED BY <1>2, <1>3, <1>8, <1>9, <1>10, Zenon
        DEF TheGate!Supersede, Replay, nativeVars

\* One save is Work.
LEMMA GateNativeWrite ==
    ASSUME TruthInv, NEW p \in Procs, NEW o \in Ops, o = proc[p].op, NativeWrite(p)
    PROVE  TheGate!Work(o)
<1>1. Working(o) /\ Holds(o)
  BY WorkingHolds DEF NativeWrite, InApply, Working
<1>2. PICK e \in Effects : effect' = [effect EXCEPT ![o] = e]
  BY DEF NativeWrite
<1>3. \A x \in Ops : Holds(x)' = Holds(x) /\ Verdict(x)' = Verdict(x)
  BY DEF NativeWrite, storeVars, Holds, Verdict
<1>4. \A x \in Ops : Working(x)' = Working(x)
  BY DEF NativeWrite, Working, InApply
<1>5. [x \in Ops |-> Holds(x)]' = [x \in Ops |-> Holds(x)]
  BY <1>3, Zenon
<1>6. [x \in Ops |-> Working(x)]' = [x \in Ops |-> Working(x)]
  BY <1>4, Zenon
<1>7. [x \in Ops |-> Verdict(x)]' = [x \in Ops |-> Verdict(x)]
  BY <1>3, Zenon
<1>8. [x \in Ops |-> x \notin consumed]' = [x \in Ops |-> x \notin consumed]
  BY DEF NativeWrite, storeVars
<1> QED BY <1>1, <1>2, <1>5, <1>6, <1>7, <1>8, Zenon DEF TheGate!Work

\* A process leaves its apply without a settled row: Stop.
LEMMA GateStop ==
    ASSUME TruthInv, NEW p \in Procs, NEW o \in Ops, o = proc[p].op,
           OnlyMoves(p), InApply(p), ~InApply(p)', UNCHANGED <<consumed, effect>>,
           \A x \in Ops : Holds(x)' = Holds(x) /\ Verdict(x)' = Verdict(x)
    PROVE  TheGate!Stop(o)
<1>1. Working(o) /\ ~Working(o)' /\ Holds(o)
  BY WorkingEnds, WorkingHolds, TruthTypes
<1>2. ASSUME NEW x \in Ops \ {o} PROVE Same(x)
  BY <1>2, WorkingKept DEF Same
<1>3. Working(o)' = FALSE
  BY <1>1
<1>4. [x \in Ops |-> Working(x)]' = [[x \in Ops |-> Working(x)] EXCEPT ![o] = FALSE]
  BY <1>2, <1>3, GateUpdate, Zenon
<1>5. [x \in Ops |-> Holds(x)]' = [x \in Ops |-> Holds(x)]
  BY Zenon
<1>6. [x \in Ops |-> Verdict(x)]' = [x \in Ops |-> Verdict(x)]
  BY Zenon
<1> QED BY <1>1, <1>4, <1>5, <1>6, Zenon DEF TheGate!Stop

\* The row of o gets its final word: Settle.
LEMMA GateSettle ==
    ASSUME TruthInv, NEW o \in Ops, Holds(o), UNCHANGED <<consumed, effect>>,
           ~Holds(o)', ~Working(o)', Verdict(o)' = effect[o],
           \A x \in Ops \ {o} : Same(x)
    PROVE  TheGate!Settle(o)
<1>1. Holds(o)' = FALSE /\ Working(o)' = FALSE
  OBVIOUS
<1>2. /\ [x \in Ops |-> Holds(x)]' = [[x \in Ops |-> Holds(x)] EXCEPT ![o] = FALSE]
      /\ [x \in Ops |-> Working(x)]' =
             [[x \in Ops |-> Working(x)] EXCEPT ![o] = FALSE]
      /\ [x \in Ops |-> Verdict(x)]' =
             [[x \in Ops |-> Verdict(x)] EXCEPT ![o] = effect[o]]
  BY <1>1, GateUpdate, Zenon
<1> QED BY <1>2, Zenon DEF TheGate!Settle

\* What was recorded of o is withdrawn: Doubt.
LEMMA GateDoubt ==
    ASSUME TruthInv, NEW o \in Ops, ~Holds(o), UNCHANGED <<consumed, effect>>,
           Holds(o)', Working(o)' = Working(o), Verdict(o)' = "none",
           \A x \in Ops \ {o} : Same(x)
    PROVE  TheGate!Doubt(o)
<1>1. ~Working(o) /\ Holds(o)' = TRUE
  BY WorkingHolds
<1>2. /\ [x \in Ops |-> Holds(x)]' = [[x \in Ops |-> Holds(x)] EXCEPT ![o] = TRUE]
      /\ [x \in Ops |-> Verdict(x)]' =
             [[x \in Ops |-> Verdict(x)] EXCEPT ![o] = "none"]
  BY <1>1, GateUpdate, Zenon
<1>3. [x \in Ops |-> Working(x)]' = [x \in Ops |-> Working(x)]
  BY Zenon DEF Same
<1> QED BY <1>1, <1>2, <1>3, Zenon DEF TheGate!Doubt

\* An outcome recorded by the worker.
LEMMA GateFinish ==
    ASSUME TruthInv, NEW p \in Procs, NEW o \in Ops, o = proc[p].op, Finish(p)
    PROVE  TheGate!Stop(o) \/ TheGate!Settle(o)
<1>1. /\ proc \in [Procs -> Process] /\ record \in Rows /\ SingleWriter
      /\ UNCHANGED <<consumed, effect>>
  BY TruthTypes DEF Finish, nativeVars
<1>2. OnlyMoves(p) /\ InApply(p) /\ ~InApply(p)'
  BY <1>1, SMT DEF Finish, Goto, OnlyMoves, InApply, Process
<1>3. Holds(o) /\ ~Working(o)'
  BY <1>1, <1>2, WorkingEnds, WorkingHolds
<1>4. PICK b \in BOOLEAN : record' = Finished(o, StatusFor(proc[p].result), b)
  BY DEF Finish
<1>5. /\ proc[p].pc = "returned"
      /\ proc[p].result \in {"completed", "failed", "partial", "unknown"}
  BY DEF Finish
<1>6. /\ record'[o].status = StatusFor(proc[p].result)
      /\ record'[o].resolution = "none"
      /\ \A x \in Ops \ {o} : record'[x] = record[x]
  BY <1>1, <1>3, <1>4, SMT DEF Finished, Holds, Active, Rows, Record
<1>7. ASSUME NEW x \in Ops \ {o} PROVE Same(x)
  BY <1>1, <1>2, <1>6, SameRow, WorkingKept DEF Same
<1>8. CASE proc[p].result = "unknown"
  <2>1. Holds(o)' = Holds(o) /\ Verdict(o)' = Verdict(o)
    BY <1>3, <1>6, <1>8 DEF StatusFor, Holds, Active, Verdict
  <2>2. \A x \in Ops : Holds(x)' = Holds(x) /\ Verdict(x)' = Verdict(x)
    BY <1>7, <2>1 DEF Same
  <2> QED BY <1>1, <1>2, <2>2, GateStop
<1>9. CASE proc[p].result # "unknown"
  <2>1. ~Holds(o)'
    BY <1>5, <1>6, <1>9 DEF StatusFor, Holds, Active
  <2>2. Verdict(o)' = effect[o]
    BY <1>5, <1>6, <1>9 DEF StatusFor, Verdict, TruthInv, Truth, Told
  <2> QED BY <1>1, <1>3, <1>7, <2>1, <2>2, GateSettle
<1> QED BY <1>8, <1>9

\* A refusal: Refuse, or Stop when a rival has settled the row meanwhile.
LEMMA GateUndispatch ==
    ASSUME TruthInv, NEW p \in Procs, NEW o \in Ops, o = proc[p].op, Undispatch(p)
    PROVE  TheGate!Stop(o) \/ TheGate!Refuse(o)
<1>1. /\ proc \in [Procs -> Process] /\ record \in Rows /\ SingleWriter
      /\ UNCHANGED effect
  BY TruthTypes DEF Undispatch, nativeVars
<1>2. OnlyMoves(p) /\ InApply(p) /\ ~InApply(p)'
  BY <1>1, SMT DEF Undispatch, Goto, OnlyMoves, InApply, Process
<1>3. Holds(o) /\ Working(o) /\ ~Working(o)'
  BY <1>1, <1>2, WorkingEnds, WorkingHolds
<1>4. CASE record[o].status # "dispatched"
  <2>1. UNCHANGED <<record, consumed>>
    BY <1>4 DEF Undispatch, storeVars
  <2>2. \A x \in Ops : Holds(x)' = Holds(x) /\ Verdict(x)' = Verdict(x)
    BY <2>1 DEF Holds, Verdict
  <2> QED BY <1>1, <1>2, <2>1, <2>2, GateStop
<1>5. CASE record[o].status = "dispatched"
  <2>1. /\ record'[o].status = "planned" /\ record'[o].resolution = "none"
        /\ \A x \in Ops \ {o} : record'[x] = record[x]
    BY <1>1, <1>3, <1>5, UndispatchedRow DEF Holds, OnlyRow
  <2>2. consumed' = consumed \ {o}
    BY <1>5 DEF Undispatch
  <2>3. ASSUME NEW x \in Ops \ {o} PROVE Same(x)
    BY <1>1, <1>2, <2>1, <2>2, SameRow, WorkingKept DEF Same
  <2>4. /\ (o \notin consumed)' = TRUE /\ Holds(o)' = FALSE /\ Working(o)' = FALSE
        /\ Verdict(o)' = Verdict(o)
    BY <1>3, <1>5, <2>1, <2>2 DEF Holds, Active, Verdict
  <2>5. /\ [x \in Ops |-> x \notin consumed]' =
               [[x \in Ops |-> x \notin consumed] EXCEPT ![o] = TRUE]
        /\ [x \in Ops |-> Holds(x)]' = [[x \in Ops |-> Holds(x)] EXCEPT ![o] = FALSE]
        /\ [x \in Ops |-> Working(x)]' =
               [[x \in Ops |-> Working(x)] EXCEPT ![o] = FALSE]
    BY <2>3, <2>4, GateUpdate, Zenon
  <2>6. [x \in Ops |-> Verdict(x)]' = [x \in Ops |-> Verdict(x)]
    BY <2>3, <2>4, Zenon DEF Same
  <2>7. effect[o] = "not_applied"
    BY DEF Undispatch, TruthInv, Truth, Untouched, Unstarted
  <2> QED BY <1>1, <1>3, <2>5, <2>6, <2>7, Zenon DEF TheGate!Refuse
<1> QED BY <1>4, <1>5

\* A crash, or an exception that escapes: Stop, or nothing outside an apply.
LEMMA GateEscape ==
    ASSUME TruthInv, TruthInv', NEW p \in Procs, NEW o \in Ops, o = proc[p].op,
           SettleRead(p) \/ Crash(p)
    PROVE  TheGate!Stop(o) \/ UNCHANGED TheGate!vars
<1>1. proc \in [Procs -> Process] /\ UNCHANGED <<record, consumed, effect>>
  BY TruthTypes DEF SettleRead, Crash, storeVars, nativeVars
<1>2. OnlyMoves(p) /\ ~InApply(p)'
  <2>1. CASE Crash(p)
    BY <1>1, <2>1, SMT DEF Crash, Exit, OnlyMoves, InApply, Process
  <2>2. CASE SettleRead(p)
    <3>1. PICK l \in {"settling", "exited", "replied"} :
             proc' = [proc EXCEPT ![p] = [@ EXCEPT !.pc = l, !.result = "raised"]]
      BY <2>2 DEF SettleRead
    <3> QED BY <1>1, <3>1, SMT DEF OnlyMoves, InApply, Process
  <2> QED BY <2>1, <2>2
<1>3. \A x \in Ops : Holds(x)' = Holds(x) /\ Verdict(x)' = Verdict(x)
  BY <1>1 DEF Holds, Verdict
<1>4. CASE InApply(p)
  BY <1>1, <1>2, <1>3, <1>4, GateStop
<1>5. CASE ~InApply(p)
  <2>1. \A x \in Ops : Same(x)
    BY <1>1, <1>2, <1>3, <1>5, WorkingKept DEF Same
  <2> QED BY <2>1, GateStutter
<1> QED BY <1>4, <1>5

\* A row that is set to unknown behind the back of the others: Doubt, or nothing
\* when it held its target anyway or is resolved.
LEMMA GateUnknown ==
    ASSUME TruthInv, TruthInv', NEW p \in Procs, NEW o \in Ops, o = proc[p].op,
           SettleUnknown(p) \/ Demote(p)
    PROVE  TheGate!Doubt(o) \/ UNCHANGED TheGate!vars
<1>1. /\ proc \in [Procs -> Process] /\ record \in Rows
      /\ UNCHANGED <<consumed, effect>>
  BY TruthTypes DEF SettleUnknown, Demote, nativeVars
<1>2. OnlyMoves(p) /\ ~InApply(p) /\ ~InApply(p)'
  <2>1. PICK l \in {"replied", "exited"} : proc' = [proc EXCEPT ![p].pc = l]
    BY DEF SettleUnknown, Demote, Goto, Exit
  <2>2. proc[p].pc \in {"settling", "replied"}
    BY DEF SettleUnknown, Demote
  <2> QED BY <1>1, <2>1, <2>2, SMT DEF OnlyMoves, InApply, Process
<1>3. /\ record'[o].resolution = record[o].resolution
      /\ record'[o].status \in {record[o].status, "unknown"}
      /\ \A x \in Ops \ {o} : record'[x] = record[x]
  <2>1. CASE SettleUnknown(p)
    <3>1. record' = Finished(o, "unknown", FALSE)
      BY <2>1 DEF SettleUnknown
    <3> QED BY <1>1, <3>1, FinishedRow DEF OnlyRow
  <2>2. CASE Demote(p)
    BY <1>1, <2>2, DemotedRow DEF OnlyRow
  <2> QED BY <2>1, <2>2
<1>4. ASSUME NEW x \in Ops \ {o} PROVE Same(x)
  BY <1>1, <1>2, <1>3, SameRow, WorkingKept DEF Same
<1>5. Working(o)' = Working(o)
  BY <1>2, WorkingKept
<1>6. CASE /\ ~Holds(o) /\ record[o].resolution = "none"
           /\ record'[o].status = "unknown" /\ record[o].status # "unknown"
  <2>1. Holds(o)' /\ Verdict(o)' = "none"
    BY <1>3, <1>6 DEF Holds, Active, Verdict
  <2> QED BY <1>1, <1>4, <1>5, <1>6, <2>1, GateDoubt
<1>7. CASE \/ Holds(o) \/ record[o].resolution # "none"
           \/ record'[o].status = record[o].status
  <2>1. Holds(o)' = Holds(o) /\ Verdict(o)' = Verdict(o)
    BY <1>3, <1>7 DEF Holds, Active, Verdict
  <2>2. \A x \in Ops : Same(x)
    BY <1>1, <1>4, <1>5, <2>1 DEF Same
  <2> QED BY <2>2, GateStutter
<1> QED BY <1>3, <1>6, <1>7

\* Dry runs, plans and the clock are not seen; a resolve is Settle, or, when it
\* confirms a partial receipt, not seen either.
LEMMA GateOutside ==
    ASSUME TruthInv, TruthInv', NEW o \in Ops,
           DryRun(o) \/ AddPlan(o) \/ LeaseExpires(o) \/ Resolve(o)
    PROVE  TheGate!Settle(o) \/ UNCHANGED TheGate!vars
<1>1. /\ record \in Rows /\ Fresh /\ OwnWriter
      /\ UNCHANGED <<consumed, effect, proc>>
  BY TruthTypes DEF DryRun, AddPlan, LeaseExpires, Resolve, nativeVars
<1>2. \A x \in Ops : Working(x)' = Working(x)
  BY <1>1 DEF Working, InApply
<1>3. \A x \in Ops \ {o} : record'[x] = record[x]
  BY <1>1, SMT DEF DryRun, AddPlan, LeaseExpires, Resolve, Rows
<1>4. ASSUME NEW x \in Ops \ {o} PROVE Same(x)
  BY <1>1, <1>2, <1>3, SameRow DEF Same
<1>5. CASE DryRun(o) \/ AddPlan(o) \/ LeaseExpires(o)
  <2>1. Holds(o)' = Holds(o) /\ Verdict(o)' = Verdict(o)
    BY <1>1, <1>5, SMT DEF DryRun, AddPlan, LeaseExpires, Holds, Active, Verdict, Rows,
                           Record
  <2>2. \A x \in Ops : Same(x)
    BY <1>1, <1>2, <1>4, <2>1 DEF Same
  <2> QED BY <2>2, GateStutter
<1>6. CASE Resolve(o)
  <2>1. /\ record'[o].resolution = effect[o] /\ effect[o] \in Effects
        /\ record[o].status = "dispatched" => record'[o].status = "unknown"
        /\ record[o].status # "dispatched" => record'[o].status = record[o].status
    <3>1. effect[o] \in Effects
      BY TruthTypes
    <3> QED BY <1>1, <1>6, <3>1, SMT DEF Resolve, Rows, Record
  <2>2. /\ record[o].status \in {"dispatched", "unknown", "partial"}
        /\ record[o].resolution = "none"
    BY <1>6, SMT DEF Resolve, Resolvable, EffectiveStatus
  <2>3. effect[o] # "none"
    BY <2>1 DEF Effects
  <2>4. ~Working(o)
    BY <1>1, <1>6, OperationConstants
    DEF Resolve, Resolvable, Working, OwnWriter, Alive, InApply, OperationConstants
  <2>5. ~Holds(o)' /\ Verdict(o)' = effect[o]
    BY <2>1, <2>3 DEF Holds, Verdict
  <2>6. CASE record[o].status = "partial"
    <3>1. Holds(o)' = Holds(o) /\ Verdict(o)' = Verdict(o)
      BY <2>2, <2>5, <2>6 DEF Holds, Active, Verdict, TruthInv, Truth,
                              RecordedOutcomeTrue
    <3>2. \A x \in Ops : Same(x)
      BY <1>1, <1>2, <1>4, <3>1 DEF Same
    <3> QED BY <3>2, GateStutter
  <2>7. CASE record[o].status # "partial"
    <3>1. Holds(o)
      BY <2>2, <2>7 DEF Holds, Active
    <3>2. ~Working(o)'
      BY <1>2, <2>4
    <3> QED BY <1>1, <1>4, <2>5, <3>1, <3>2, GateSettle
  <2> QED BY <2>6, <2>7
<1> QED BY <1>5, <1>6

LEMMA GateStep ==
    ASSUME TruthInv, TruthInv', [Next]_vars
    PROVE  [TheGate!Next]_(TheGate!vars)
<1>1. CASE UNCHANGED vars
  <2>1. \A x \in Ops : Same(x)
    BY <1>1 DEF vars, Same, Holds, Working, InApply, Verdict
  <2> QED BY <2>1, GateStutter
<1>2. ASSUME NEW o \in Ops, DryRun(o) \/ AddPlan(o) \/ LeaseExpires(o) \/ Resolve(o)
      PROVE  TheGate!Next \/ UNCHANGED TheGate!vars
  BY <1>2, GateOutside, Zenon DEF TheGate!Next
<1>3. ASSUME NEW p \in Procs, ProcNext(p)
      PROVE  TheGate!Next \/ UNCHANGED TheGate!vars
  <2>1. CASE \/ \E o \in Ops, k \in Keys \union {NoKey} : Confirmable(p, o, k)
             \/ Refused(p) \/ RecordWriter(p) \/ Heartbeat(p) \/ AdapterRefuses(p)
             \/ NativeStart(p) \/ AdapterReturns(p) \/ Reply(p)
    BY <2>1, GateQuiet, Zenon
  <2>2. CASE \/ Dispatch(p) \/ Replay(p) \/ NativeWrite(p) \/ Finish(p)
             \/ Undispatch(p) \/ SettleRead(p) \/ SettleUnknown(p) \/ Demote(p)
             \/ Crash(p)
    <3>1. proc[p].pc # "idle"
      BY <2>2 DEF Dispatch, Replay, NativeWrite, Finish, Undispatch, SettleRead,
                  SettleUnknown, Demote, Crash
    <3>2. PICK o \in Ops : o = proc[p].op
      BY <3>1, TruthTypes DEF HasOp
    <3>3. CASE Dispatch(p) \/ Replay(p) \/ NativeWrite(p)
      BY <3>2, <3>3, GateDispatch, GateReplay, GateNativeWrite, Zenon DEF TheGate!Next
    <3>4. CASE Finish(p) \/ Undispatch(p)
      BY <3>2, <3>4, GateFinish, GateUndispatch, Zenon DEF TheGate!Next
    <3>5. CASE SettleRead(p) \/ Crash(p) \/ SettleUnknown(p) \/ Demote(p)
      BY <3>2, <3>5, GateEscape, GateUnknown, Zenon DEF TheGate!Next
    <3> QED BY <2>2, <3>3, <3>4, <3>5
  <2> QED BY <1>3, <2>1, <2>2, Zenon DEF ProcNext
<1> QED BY <1>1, <1>2, <1>3, Zenon DEF Next

\* Every behaviour of the store, its processes and their adapters is one of the
\* abstract gate.
THEOREM GateImplemented == Spec => ImplementsGate
<1>1. TruthInv /\ TruthInv' /\ [Next]_vars => [TheGate!Next]_(TheGate!vars)
  BY GateStep
<1> QED BY <1>1, GateInit, TruthInvariant, PTL DEF Spec, ImplementsGate, TheGate!Spec

=============================================================================
