------------------------- MODULE ExportPublication -------------------------
(***************************************************************************)
(* The export adapter (export_driver_adapter.py, export_native.py): a      *)
(* native child generates files into an operation's stage, the operation   *)
(* publishes them as a new output directory, and a lock file that holds    *)
(* the operation's journal excludes everybody else from that output.       *)
(*                                                                         *)
(* All operations of the model want the same output and have different     *)
(* boards (the store serializes those of one board).  Their dry runs are   *)
(* done.  An agent is one CLI process: it applies one operation or runs    *)
(* one operation resolve, and may die between any two file accesses; its   *)
(* native child outlives it.                                               *)
(***************************************************************************)
EXTENDS Naturals, FiniteSets

CONSTANTS
    Ops,            \* operation ids
    Agents,         \* CLI processes
    FileNames,      \* the files an export consists of
    EarlyMoves,     \* TRUE: an output may be moved before its export is recorded
    OneResolver,    \* TRUE: no two "operation resolve" run at the same time
    Foreign,        \* whoever else makes a directory there
    None

Phases == {"prepared", "spawning", "generating", "generated", "publishing",
           "completed", "failed-no-artifacts"}

Journals == [op : Ops, phase : Phases, native : BOOLEAN, stopped : BOOLEAN]

\* A directory, by who made it, and the names in it with who wrote them.
Files   == (FileNames \union {None}) \X (Ops \union {Foreign})
Outputs == [maker : Ops \union {Foreign}, files : SUBSET Files]

Outcomes  == {"applied", "not_applied", "partial"}
Readbacks == [outcome : Outcomes, artifacts : SUBSET Files,
              journal : Journals \union {None}]

ASSUME ExportConstants ==
    /\ IsFiniteSet(FileNames)
    /\ EarlyMoves \in BOOLEAN /\ OneResolver \in BOOLEAN
    /\ {Foreign, None} \cap Ops = {} /\ Foreign # None
    /\ None \notin Agents \union FileNames \union Outcomes
    /\ None \notin Journals /\ None \notin Outputs /\ None \notin Readbacks

VARIABLES
    output,     \* the output directory: who made it, <<name, writer>> in it
    lock,       \* <output>.kicad-export-lock: the journal it holds
    next,       \* <lock>.next exists
    stage,      \* stage[o]: the operation's own directory
    archive,    \* operations whose journal a resolve has archived
    child,      \* child[o]: the native process of o
    row,        \* row[o]: the operation's row in the store
    agent,      \* agent[a]: the process
    ghost       \* history: took[o] its lock, and published names

disk == <<output, lock, next, stage, archive>>
vars == <<disk, child, row, agent, ghost>>

PCs == {"idle", "confirmed", "locking", "staging", "copying", "drafting",
        "replacing", "starting", "spawned", "waiting", "generated", "checking", "making",
        "publishing", "filing", "terminating", "unlocking", "succeeded",
        "failing", "releasing", "dropping", "partial", "failed", "uncertain",
        "refused", "archiving", "unlinking", "registering", "exited"}

Stage == [made : BOOLEAN, files : SUBSET FileNames, manifest : BOOLEAN,
          terminal : Journals \union {None}]

Row == [status : {"planned", "dispatched", "unknown", "partial", "failed", "succeeded"},
        writer : Agents \union {None}, resolution : Outcomes \union {None}]

Process == [pc : PCs, then : PCs, op : Ops \union {None},
            journal : Journals \union {None}, published : BOOLEAN,
            done : SUBSET FileNames, seen : Readbacks \union {None}]

TypeOK ==
    /\ output \in Outputs \union {None} /\ lock \in Journals \union {None}
    /\ next \in BOOLEAN /\ archive \subseteq Ops
    /\ stage \in [Ops -> Stage] /\ row \in [Ops -> Row]
    /\ child \in [Ops -> {"none", "running", "stopped"}]
    /\ agent \in [Agents -> Process]
    /\ ghost \in [Ops -> [took : BOOLEAN, published : SUBSET FileNames]]

Init ==
    /\ output = None /\ lock = None /\ next = FALSE /\ archive = {}
    /\ stage = [o \in Ops |-> [made |-> FALSE, files |-> {}, manifest |-> FALSE,
                               terminal |-> None]]
    /\ child = [o \in Ops |-> "none"]
    /\ row = [o \in Ops |-> [status |-> "planned", writer |-> None,
                             resolution |-> None]]
    /\ agent = [a \in Agents |->
                   [pc |-> "idle", then |-> "idle", op |-> None, journal |-> None,
                    published |-> FALSE, done |-> {}, seen |-> None]]
    /\ ghost = [o \in Ops |-> [took |-> FALSE, published |-> {}]]

-----------------------------------------------------------------------------
(* What the code reads.                                                     *)

Alive(a) == agent[a].pc # "exited"

\* Open for operation resolve.
Unresolved(o) == /\ row[o].status \in {"dispatched", "unknown", "partial"}
                 /\ row[o].resolution = None

\* absent(output) and absent(lock); the stage carries the operation's id.
Vacant == output = None /\ lock = None

\* _journal reads the lock, and the terminal journal when there is no lock.
JournalOf(o) == IF lock # None THEN lock ELSE stage[o].terminal

\* Mutant of Registrable: the child-start window is not told apart.
RegistrableInWindow(o) ==
    /\ JournalOf(o) # None /\ JournalOf(o).op = o
    /\ ~(JournalOf(o).native /\ child[o] = "running")

\* _journal accepts it: it is the operation's, outside the window between the
\* spawn and the journal with the child's pid, and that child is dead.
Registrable(o) ==
    /\ JournalOf(o) # None /\ JournalOf(o).op = o
    /\ ~(JournalOf(o).phase = "spawning" /\ ~JournalOf(o).native)
    /\ ~(JournalOf(o).native /\ child[o] = "running")

Complete(o) == output # None /\ output.files = FileNames \X {o}

\* recovery: the artifacts are those of the output if there is one.
Artifacts(o) == IF output # None THEN output.files ELSE stage[o].files \X {o}

Observed(o) ==
    IF Artifacts(o) = {} THEN "not_applied"
    ELSE IF Complete(o) /\ stage[o].manifest THEN "applied" ELSE "partial"

Readback(o) == [outcome |-> Observed(o), artifacts |-> Artifacts(o),
                journal |-> JournalOf(o)]

Goto(a, pc) == agent' = [agent EXCEPT ![a].pc = pc]

\* The journal in memory changes, then update_journal; pc afterwards.
Update(a, journal, then) ==
    agent' = [agent EXCEPT ![a] = [@ EXCEPT !.pc = "drafting", !.then = then,
                                            !.journal = journal]]

-----------------------------------------------------------------------------
(* Confirm, lock, stage.                                                    *)

\* The store dispatches o; validate_plan has found its destinations absent.
Confirm(a, o) ==
    /\ agent[a].pc = "idle" /\ row[o].status = "planned" /\ Vacant
    /\ row' = [row EXCEPT ![o] = [@ EXCEPT !.status = "dispatched",
                                           !.writer = a]]
    /\ agent' = [agent EXCEPT ![a] = [@ EXCEPT !.pc = "confirmed", !.op = o]]
    /\ UNCHANGED <<disk, child, ghost>>

\* apply validates once more.
Check(a) ==
    /\ agent[a].pc = "confirmed"
    /\ Goto(a, IF Vacant THEN "locking" ELSE "refused")
    /\ UNCHANGED <<disk, child, row, ghost>>

\* Mutant of Acquire: an existing lock is taken over.
AcquireForced(a) ==
    LET journal == [op |-> agent[a].op, phase |-> "prepared", native |-> FALSE,
                    stopped |-> FALSE]
    IN
    /\ agent[a].pc = "locking"
    /\ lock' = journal
    /\ ghost' = [ghost EXCEPT ![agent[a].op].took = TRUE]
    /\ agent' = [agent EXCEPT ![a] = [@ EXCEPT !.pc = "staging",
                                               !.journal = journal]]
    /\ UNCHANGED <<output, next, stage, archive, child, row>>

\* The lock is created exclusively, with the journal in it.
Acquire(a) ==
    LET journal == [op |-> agent[a].op, phase |-> "prepared", native |-> FALSE,
                    stopped |-> FALSE]
    IN
    /\ agent[a].pc = "locking"
    /\ IF lock # None
       THEN Goto(a, "refused") /\ UNCHANGED <<lock, ghost>>
       ELSE /\ lock' = journal
            /\ ghost' = [ghost EXCEPT ![agent[a].op].took = TRUE]
            /\ agent' = [agent EXCEPT ![a] = [@ EXCEPT !.pc = "staging",
                                                       !.journal = journal]]
    /\ UNCHANGED <<output, next, stage, archive, child, row>>

\* mkdir makes the stage ...
MakeStage(a) ==
    /\ agent[a].pc = "staging" /\ ~stage[agent[a].op].made
    /\ stage' = [stage EXCEPT ![agent[a].op].made = TRUE]
    /\ Goto(a, "copying")
    /\ UNCHANGED <<output, lock, next, archive, child, row, ghost>>

\* ... the inputs are copied into it and still are the planned ones; the journal
\* is to say that a child may start.
StageInputs(a) ==
    /\ agent[a].pc = "copying"
    /\ Update(a, [agent[a].journal EXCEPT !.phase = "spawning"], "starting")
    /\ UNCHANGED <<disk, child, row, ghost>>

\* update_journal: <lock>.next is created exclusively ...
Draft(a) ==
    /\ agent[a].pc = "drafting"
    /\ ~next /\ next' = TRUE
    /\ Goto(a, "replacing")
    /\ UNCHANGED <<output, lock, stage, archive, child, row, ghost>>

\* ... and replaces the lock.
Replace(a) ==
    /\ agent[a].pc = "replacing"
    /\ lock' = agent[a].journal /\ next' = FALSE
    /\ Goto(a, agent[a].then)
    /\ UNCHANGED <<output, stage, archive, child, row, ghost>>

-----------------------------------------------------------------------------
(* The native child.                                                        *)

Start(a) ==
    /\ agent[a].pc = "starting"
    /\ child' = [child EXCEPT ![agent[a].op] = "running"]
    /\ Goto(a, "spawned")
    /\ UNCHANGED <<disk, row, ghost>>

\* child(pid), called before the process is waited for.
RecordChild(a) ==
    /\ agent[a].pc = "spawned"
    /\ Update(a, [agent[a].journal EXCEPT !.phase = "generating", !.native = TRUE],
              "waiting")
    /\ UNCHANGED <<disk, child, row, ghost>>

ChildWrites(o) ==
    /\ child[o] = "running"
    /\ \E n \in FileNames \ stage[o].files :
          stage' = [stage EXCEPT ![o].files = @ \union {n}]
    /\ UNCHANGED <<output, lock, next, archive, child, row, agent, ghost>>

ChildExits(o) ==
    /\ child[o] = "running"
    /\ child' = [child EXCEPT ![o] = "stopped"]
    /\ UNCHANGED <<disk, row, agent, ghost>>

\* communicate returns with a report.
Wait(a) ==
    /\ agent[a].pc = "waiting" /\ child[agent[a].op] = "stopped"
    /\ Update(a, [agent[a].journal EXCEPT !.phase = "generated", !.stopped = TRUE],
              "generated")
    /\ UNCHANGED <<disk, child, row, ghost>>

-----------------------------------------------------------------------------
(* Consume and publish.                                                     *)

\* The staged files are consumed and the manifest is written.
Consume(a) ==
    LET o == agent[a].op IN
    /\ agent[a].pc = "generated" /\ stage[o].files = FileNames
    /\ stage' = [stage EXCEPT ![o].manifest = TRUE]
    /\ Goto(a, "checking")
    /\ UNCHANGED <<output, lock, next, archive, child, row, ghost>>

PublishCheck(a) ==
    /\ agent[a].pc = "checking" /\ output = None
    /\ Update(a, [agent[a].journal EXCEPT !.phase = "publishing"], "making")
    /\ UNCHANGED <<disk, child, row, ghost>>

\* Mutant of Make: a directory that is there is used.
MakeReuse(a) ==
    LET o == agent[a].op IN
    /\ agent[a].pc = "making"
    /\ output' = [maker |-> o, files |-> IF output = None THEN {} ELSE output.files]
    /\ agent' = [agent EXCEPT ![a] = [@ EXCEPT !.pc = "publishing",
                                               !.published = TRUE]]
    /\ UNCHANGED <<lock, next, stage, archive, child, row, ghost>>

\* mkdir never adopts an existing directory.
Make(a) ==
    /\ agent[a].pc = "making" /\ output = None
    /\ output' = [maker |-> agent[a].op, files |-> {}]
    /\ agent' = [agent EXCEPT ![a] = [@ EXCEPT !.pc = "publishing",
                                               !.published = TRUE]]
    /\ UNCHANGED <<lock, next, stage, archive, child, row, ghost>>

\* The directory still is the one that was made.
FileCheck(a) ==
    /\ agent[a].pc = "publishing" /\ agent[a].done # FileNames
    /\ output # None /\ output.maker = agent[a].op
    /\ Goto(a, "filing")
    /\ UNCHANGED <<disk, child, row, ghost>>

\* One file is created exclusively.
PublishFile(a) ==
    LET o == agent[a].op IN
    /\ agent[a].pc = "filing" /\ output # None
    /\ \E n \in FileNames \ agent[a].done :
        /\ \A w \in Ops \union {Foreign} : <<n, w>> \notin output.files
        /\ output' = [output EXCEPT !.files = @ \union {<<n, o>>}]
        /\ ghost' = [ghost EXCEPT ![o].published = @ \union {n}]
        /\ agent' = [agent EXCEPT ![a] =
                        [@ EXCEPT !.pc = "publishing",
                                  !.done = agent[a].done \union {n}]]
    /\ UNCHANGED <<lock, next, stage, archive, child, row>>

VerifyOutput(a) ==
    /\ agent[a].pc = "publishing" /\ agent[a].done = FileNames
    /\ Complete(agent[a].op)
    /\ Update(a, [agent[a].journal EXCEPT !.phase = "completed"], "terminating")
    /\ UNCHANGED <<disk, child, row, ghost>>

\* Mutant of WriteTerminal: the journal of the lock is not kept.
WriteTerminalNot(a) ==
    /\ agent[a].pc = "terminating"
    /\ Goto(a, "unlocking")
    /\ UNCHANGED <<disk, child, row, ghost>>

\* The journal is kept in the stage before the lock goes.
WriteTerminal(a) ==
    /\ agent[a].pc = "terminating"
    /\ stage' = [stage EXCEPT ![agent[a].op].terminal = agent[a].journal]
    /\ Goto(a, "unlocking")
    /\ UNCHANGED <<output, lock, next, archive, child, row, ghost>>

Unlock(a) ==
    /\ agent[a].pc = "unlocking"
    /\ lock' = None /\ Goto(a, "succeeded")
    /\ UNCHANGED <<output, next, stage, archive, child, row, ghost>>

-----------------------------------------------------------------------------
(* Failure.                                                                 *)

\* Something in the try block raises: an unexpected inventory or report, a
\* changed input, an occupied name, an interrupt.  run kills the child it waits
\* for, or whose pid it failed to record.
Fails(a) ==
    LET o == agent[a].op
        kills == \/ agent[a].pc = "waiting"
                 \/ /\ agent[a].pc \in {"drafting", "replacing"}
                    /\ agent[a].then = "waiting"
    IN
    /\ agent[a].pc \in {"staging", "copying", "drafting", "replacing", "starting",
                        "spawned", "waiting", "generated", "checking", "making",
                        "publishing", "filing", "terminating", "unlocking",
                        "succeeded"}
    /\ child' = IF kills THEN [child EXCEPT ![o] = "stopped"] ELSE child
    /\ Goto(a, "failing")
    /\ UNCHANGED <<disk, row, ghost>>

\* "no native process can still write"
Releasable(journal) == journal.phase = "prepared" \/ journal.stopped

\* What there is to see decides the receipt; a lock is given up only if it
\* still holds the journal in memory.
Inspect(a) ==
    LET o == agent[a].op
        found == IF agent[a].published THEN output.files ELSE stage[o].files
    IN
    /\ agent[a].pc = "failing"
    /\ \/ Goto(a, "uncertain")      \* the inventory cannot be read
       \/ /\ ~(agent[a].published /\ output = None)
          /\ Goto(a, IF found # {} THEN "partial"
                     ELSE IF ~Releasable(agent[a].journal) THEN "failed"
                     ELSE IF lock # agent[a].journal THEN "uncertain"
                     ELSE "releasing")
    /\ UNCHANGED <<disk, child, row, ghost>>

Release(a) ==
    LET o == agent[a].op IN
    /\ agent[a].pc = "releasing"
    /\ stage[o].made /\ stage[o].terminal = None
    /\ stage' = [stage EXCEPT ![o].terminal =
                    [agent[a].journal EXCEPT !.phase = "failed-no-artifacts"]]
    /\ Goto(a, "dropping")
    /\ UNCHANGED <<output, lock, next, archive, child, row, ghost>>

Drop(a) ==
    /\ agent[a].pc = "dropping"
    /\ lock' = None /\ Goto(a, "failed")
    /\ UNCHANGED <<output, next, stage, archive, child, row, ghost>>

\* An exception that nothing catches: the driver settles the row as unknown.
Escapes(a) ==
    /\ agent[a].pc \in {"releasing", "dropping"}
    /\ Goto(a, "uncertain")
    /\ UNCHANGED <<disk, child, row, ghost>>

-----------------------------------------------------------------------------
(* The end of a process, other programs.                                    *)

\* Mutant of Finish: the adapter's error is stored as it is.
FinishAsReported(a) ==
    /\ agent[a].pc \in {"succeeded", "partial", "failed", "uncertain"}
    /\ row' = [row EXCEPT ![agent[a].op].status = agent[a].pc]
    /\ Goto(a, "exited")
    /\ UNCHANGED <<disk, child, ghost>>

\* store.finish with the status of the receipt.
Finish(a) ==
    /\ agent[a].pc \in {"succeeded", "partial", "failed", "uncertain"}
    /\ row' = [row EXCEPT ![agent[a].op].status =
                  IF agent[a].pc = "uncertain" THEN "unknown" ELSE agent[a].pc]
    /\ Goto(a, "exited")
    /\ UNCHANGED <<disk, child, ghost>>

Undispatch(a) ==
    /\ agent[a].pc = "refused" /\ row[agent[a].op].writer = a
    /\ row' = [row EXCEPT ![agent[a].op] = [@ EXCEPT !.status = "planned",
                                                     !.writer = None]]
    /\ Goto(a, "exited")
    /\ UNCHANGED <<disk, child, ghost>>

Crash(a) ==
    /\ agent[a].pc \notin {"idle", "exited"}
    /\ Goto(a, "exited")
    /\ UNCHANGED <<disk, child, row, ghost>>

\* Somebody else makes a directory with a file of his own under the name.
MakeForeign ==
    /\ output = None
    /\ output' = [maker |-> Foreign, files |-> {<<None, Foreign>>}]
    /\ UNCHANGED <<lock, next, stage, archive, child, row, agent, ghost>>

\* A user moves the output away.
TakeAway ==
    /\ output # None
    /\ ~EarlyMoves =>
          /\ \A o \in Ops : Unresolved(o) => output.files \cap (FileNames \X {o}) = {}
          /\ \A a \in Agents : agent[a].pc # "filing"
    /\ output' = None
    /\ UNCHANGED <<lock, next, stage, archive, child, row, agent, ghost>>

-----------------------------------------------------------------------------
(* operation resolve.                                                       *)

\* The writer is dead, the journal is accepted, and the readback is signed.
ResolveBegin(a, o) ==
    /\ agent[a].pc = "idle"
    /\ OneResolver => \A b \in Agents : agent[b].seen # None => ~Alive(b)
    /\ Unresolved(o) /\ ~Alive(row[o].writer) /\ Registrable(o)
    /\ agent' = [agent EXCEPT ![a] = [@ EXCEPT !.pc = "archiving", !.op = o,
                                               !.seen = Readback(o)]]
    /\ UNCHANGED <<disk, child, row, ghost>>

\* Mutant of Archive: the lock stays, the archive has its journal.
ArchiveOnly(a) ==
    LET o == agent[a].op IN
    /\ agent[a].pc = "archiving"
    /\ Registrable(o) /\ Readback(o) = agent[a].seen
    /\ archive' = archive \union {o}
    /\ Goto(a, "registering")
    /\ UNCHANGED <<output, lock, next, stage, child, row, ghost>>

\* resolve_recovery: nothing has changed, and the journal is archived.
Archive(a) ==
    LET o == agent[a].op IN
    /\ agent[a].pc = "archiving"
    /\ IF Registrable(o) /\ Readback(o) = agent[a].seen
       THEN /\ archive' = archive \union {o}
            /\ Goto(a, IF lock # None THEN "unlinking" ELSE "registering")
       ELSE Goto(a, "exited") /\ UNCHANGED archive
    /\ UNCHANGED <<output, lock, next, stage, child, row, ghost>>

UnlinkLock(a) ==
    /\ agent[a].pc = "unlinking"
    /\ lock' = None
    /\ Goto(a, IF lock # None THEN "registering" ELSE "exited")
    /\ UNCHANGED <<output, next, stage, archive, child, row, ghost>>

\* Mutant of Register: every readback with artifacts counts as done.
RegisterAny(a) ==
    LET o == agent[a].op IN
    /\ agent[a].pc = "registering"
    /\ row' = [row EXCEPT ![o].resolution =
                  IF agent[a].seen.artifacts = {} THEN "not_applied" ELSE "applied"]
    /\ Goto(a, "exited")
    /\ UNCHANGED <<disk, child, ghost>>

\* store.resolve records the outcome of the readback.
Register(a) ==
    LET o == agent[a].op IN
    /\ agent[a].pc = "registering"
    /\ row' = IF Unresolved(o)
              THEN [row EXCEPT ![o].resolution = agent[a].seen.outcome]
              ELSE row
    /\ Goto(a, "exited")
    /\ UNCHANGED <<disk, child, ghost>>

-----------------------------------------------------------------------------
Step(a) ==
    \/ Check(a) \/ Acquire(a) \/ MakeStage(a) \/ StageInputs(a)
    \/ Draft(a) \/ Replace(a) \/ Start(a) \/ RecordChild(a) \/ Wait(a)
    \/ Consume(a) \/ PublishCheck(a) \/ Make(a) \/ FileCheck(a) \/ PublishFile(a)
    \/ VerifyOutput(a) \/ WriteTerminal(a) \/ Unlock(a)
    \/ Fails(a) \/ Inspect(a) \/ Release(a) \/ Drop(a) \/ Escapes(a)
    \/ Finish(a) \/ Undispatch(a)
    \/ Archive(a) \/ UnlinkLock(a) \/ Register(a)

Next ==
    \/ \E a \in Agents : Step(a) \/ Crash(a)
    \/ \E a \in Agents, o \in Ops : Confirm(a, o) \/ ResolveBegin(a, o)
    \/ \E o \in Ops : ChildWrites(o) \/ ChildExits(o)
    \/ MakeForeign \/ TakeAway

Spec == Init /\ [][Next]_vars

-----------------------------------------------------------------------------
(* Properties.                                                              *)

\* "New destination only; no existing directory or file is overwritten": the
\* output never holds files of two writers, whatever other operations, foreign
\* directories, crashes and resolves come between the checks and the mkdir.
NoMixedOutput ==
    output # None =>
        \A f, g \in output.files : f[2] = g[2]

\* "no native process can still write": as long as a child of o runs, the
\* output is locked by o, also when the process that started it is dead, has
\* replied or was resolved.
NativeUnderLock ==
    \A o \in Ops : child[o] = "running" => lock # None /\ lock.op = o

\* Files are published only under the operation's own lock, which then says so
\* on disk, and after its child has stopped.
PublishesUnderOwnLock ==
    [][\A o \in Ops :
           ghost'[o].published # ghost[o].published =>
               /\ lock # None /\ lock.op = o /\ lock.phase = "publishing"
               /\ child[o] = "stopped"]_vars

\* A record agrees with what was published: success means all files, failure
\* and not_applied mean none (apply's receipt, recovery).
OutcomeTrue ==
    \A o \in Ops :
        /\ row[o].status = "succeeded" \/ row[o].resolution = "applied" =>
               ghost[o].published = FileNames
        /\ row[o].status = "failed" \/ row[o].resolution = "not_applied" =>
               ghost[o].published = {}

\* An interrupted export can be registered: from the lock on there is always a
\* journal of the operation, outside the child-start window, once its processes
\* are dead and nobody else uses the output; or a resolve has archived it (lock
\* before stage, terminal journal before unlink, journal replaced as a whole).
InterruptedIsRegistrable ==
    \A o \in Ops :
        /\ Unresolved(o) /\ ghost[o].took /\ child[o] # "running"
        /\ \A a \in Agents : agent[a].op = o => ~Alive(a)
        /\ lock # None => lock.op = o /\ lock.phase # "spawning"
        => Registrable(o) \/ o \in archive

\* Success and a resolution have given the output back.
ClosedLeavesNoLock ==
    \A o \in Ops :
        row[o].status = "succeeded" \/ row[o].resolution # None =>
            lock = None \/ lock.op # o

\* "No requested files were created and no native process can still write.  Keep
\* input copies/diagnostics but do not strand a known failed lock."
FailedReleasesLock ==
    \A o \in Ops :
        row[o].status = "failed" /\ child[o] # "running" =>
            lock = None \/ lock.op # o

=============================================================================
