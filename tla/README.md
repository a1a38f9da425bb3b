# TLA+ models of kicad-cli

kicad-cli changes KiCad projects on behalf of agents. Every change goes through
a gate: a *dry run* prepares a plan and hands out a confirm token, a *confirm*
dispatches the plan exactly once, an *adapter* changes files, and the outcome is
recorded, or left *unknown* until somebody reads the files back and resolves it.
Several invocations run at once, any of them may die or be interrupted, and the
files they change are guarded by sidecars. This directory models that gate and
the three kinds of file transaction behind it (sets of documents, one board, one
exported directory), states what the gate and the set saves promise as abstract
specifications, checks all of it with TLC, and proves the safety guarantees of all
four, both refinements included, with TLAPS.

## 1. Inventory

Paths are below `src/kicad_cli/`.

| part | state | operations | what is hard | modelled in |
|---|---|---|---|---|
| operation store, `_driver_sdk/store.py` | rows of `operations`, `consumed_tokens`, `scope_usage` (SQLite) | `add_plan`, `dispatch`, `undispatch`, `heartbeat`, `finish`, `demote`, `resolve`, `prune`, batch methods | transactions of several processes in any order; late results; budget at its limit | `DriverOperations` (not: batches) |
| driver CLI, `_driver_sdk/runtime.py` | `_in_flight`, the heartbeat thread | `_dry_run`, `_confirm`, `_dispatched`, `_after_dispatch_error`, `_settle_unknown`, `_finish` | what is read before a transaction and used in it; exceptions at every point | `DriverOperations` |
| KiCad driver runtime, `driver_runtime.py` | `writer_pid` in the row | token binding, `_dispatched`, `operation show`, `operation resolve` | a writer that cannot be proven dead; resolve that itself changes files | all four |
| document set transaction, `document_transaction.py` | locks, backups, journal, archives, archive preparation, cleanup checkpoint | `arm`, `cleanup`, `rollback`, `owned`, `resolve` | a crash between any two file operations; overlapping sets; two resolvers | `DocumentTransaction` |
| engineering adapter, `engineering_driver_adapter.py` | the documents | `_guard_documents`, `apply`, `recovery`, `resolve_recovery` | partial saves; the guard reads many files one by one; editors | `DocumentTransaction` |
| move transaction, `move_transaction.py` | one file, its lock, backup and journal | `arm`, `cleanup`, `rollback`, `owned_journal` | interrupted cleanup without a checkpoint | `BoardTransaction` |
| move, zone and power adapters, `move_driver_adapter.py`, `zone_driver_adapter.py`, `power_driver_adapter.py` | the file | `plan`, `apply`, `recovery`, `resolve_recovery` | a write that truncates; editors; several state directories | `BoardTransaction` |
| export adapter, `export_driver_adapter.py`, `export_native.py` | output directory, its lock with the journal, a stage, a child process | `apply`, `update_journal`, `run`, `recovery`, `resolve_recovery` | a child that outlives its parent; an occupied name; a lock that is stranded | `ExportPublication` |
| sync adapter, `sync_driver_adapter.py` | as a document set or a board, plus a reviewed candidate | `plan`, `apply`, `recovery` | as above | its apply is that of `DocumentTransaction` or `BoardTransaction` |
| board adapter, `board_driver_adapter.py`; read adapter | none | a dispatch table; queries | none | |
| payload write transaction and confirm store, `payload/` | lock, journal, backup, token files | `begin`, `commit`, `rollback`, `issue`, `redeem` | stale lock takeover; two redeemers | not (section 5) |
| tokens, scope, validation, verification | none | pure checks | none: a refusal changes nothing | |
| front end, formats, algorithms | none | parsing, geometry | data, not control | |

Interaction: the driver runtime subclasses the driver CLI and calls the store and
one adapter; an adapter calls a transaction; the engineering guard reads the
store and the checkpoints of *other* operations; `operation resolve` calls the
cleanup of the transaction before it calls the store. Everything shared between
processes is either an SQLite transaction or a file that is created exclusively.
Every file transaction sees the store as one row per operation (planned,
dispatched, unknown, finished; writer; resolution); `DriverOperations` models
those rows in full and an adapter by its contract.

What makes each part correct:

- gate: one writer per target, one native start per token, one application per
  idempotency key, an exact budget, records that agree with the files, and no
  operation that blocks its target for ever;
- document sets: overlapping sets exclude each other, old bytes are always kept
  somewhere, a final record never hides a half-saved set, closed operations leave
  no sidecar, and an interrupted cleanup can always be resumed;
- boards: the same for one file whose cleanup has no checkpoint, with a write that
  is not atomic, for users who do not share a state directory;
- exports: an existing output is never touched, a running child is always under
  its lock, and an interrupted export can be registered.

## 2. Modules

| module | what it is | extends |
|---|---|---|
| `DriverOperations` | store, confirm path, settle and resolve, the adapter's contract | |
| `Gate` | what the gate promises, abstractly | |
| `DocumentTransaction` | documents, sidecars, archives, checkpoint, guard, resolve | |
| `SetSaves` | what saving sets of documents promises, abstractly | |
| `BoardTransaction` | one file, its sidecars, the adapters around it, resolve | |
| `ExportPublication` | one output directory, lock, stages, native children, resolve | |
| `MC...` | constants of the TLC runs | the module they are named after |
| `DriverOperationsProofs` | types, one writer, one start | `DriverOperations` |
| `DriverRecordsProofs` | truthful records, keys, budget | `DriverOperationsProofs` |
| `DriverGateProofs` | `DriverOperations` implements `Gate` | `DriverRecordsProofs` |
| `DocumentProofs` | types and safety of document sets | `DocumentTransaction` |
| `DocumentSavesProofs` | `DocumentTransaction` implements `SetSaves` | `DocumentProofs` |
| `DocumentCleanupProofs` | what a cleanup of a document set deletes, and that it can resume | `DocumentSavesProofs` |
| `BoardProofs` | types and safety of one file and its sidecars | `BoardTransaction` |
| `ExportProofs` | types and safety of exports: rows, lock, files | `ExportPublication` |

### DriverOperations

`record[o]` is the row of `operations` (`writer` is `extra.writer_pid`,
`notStarted` is `extra.dispatch_state`), `consumed` the token fingerprints, `used`
the counters per scope. `proc[p]` is one CLI invocation with its position in the
confirm path. `effect[o]` (what `o` did to its target) and `starts[o]` (how often
an adapter began native work for it) are the ground truth the records are
compared with.

| action | code |
|---|---|
| `DryRun`, `AddPlan` | `_dry_run`: checks, then `store.add_plan` |
| `Confirmable` | `_confirmable` read the row as planned; `_in_flight` is set |
| `Dispatch`, `Replay`, `Refused` | the outcomes of `store.dispatch` |
| `RecordWriter` | the pid UPDATE of `MoveDriver._dispatched` |
| `Heartbeat`, `LeaseExpires` | the heartbeat thread, the clock |
| `AdapterRefuses`, `NativeStart`, `NativeWrite`, `AdapterReturns` | the adapter: refusal before it is armed, arm, one save or restore, its receipt or exception |
| `Finish`, `Undispatch` | `_dispatched`, `_after_dispatch_error` |
| `SettleRead`, `SettleUnknown` | an escaped exception: `_stopped`, `_settle_unknown` |
| `Demote`, `Reply` | `runtime._finish` |
| `Resolve` | `_operation_resolve` and `store.resolve` |
| `Crash` | the process is killed |

One store method is one `BEGIN IMMEDIATE` transaction and one action. A read that
is used in a later transaction is a step of its own. `finish` and `resolve` are
guarded updates, so a late result meets the row as it is then.
An `undispatch` is guarded as well (`store.py:498`): when an interrupted rival with the same
token has settled the row meanwhile, a refusal leaves it unknown, although the reply says that
the plan waits again (`runtime.py:1446`).

Abstractions. Time: a lease is live until it expires, at any moment; token expiry,
scope and drift refusals change no state and are stuttering steps. `effect` is
"applied" when the target has the planned bytes, so a plan without changes counts
as applied. Statuses of an asynchronous submit do not exist: no adapter of the
repository has `submit` or `status`. Batches are not modelled: no shipped command
declares a batch profile. Retention is left to `DocumentTransaction`.

### Gate

The gate without rows, leases, keys, processes or transactions. A token is *taken*
when nobody else holds or works on the target; its one worker *works* and *stops*;
the true outcome is *settled*; an untouched plan is *refused* and its token comes
back; a plan whose key has been answered is *superseded*; a verdict may be
*doubted*, which reopens the operation but starts nobody. In `DriverOperations`,
`free` is a token that is not consumed, `held` a row that reads as dispatched or
unknown, `working` a process between dispatch and record, `verdict` the recorded
outcome or resolution. Doubt is what `demote` and a rival's `_settle_unknown` do to
a row that is already settled; because of it the gate does not promise that a
target has one open operation, only that a token is never taken while another one
is open or worked on.

### DocumentTransaction

`doc[d]` is whose bytes a document holds: those of an operation, of an outside
editor, the old ones, or no file. `lock` and `journal` name the operation written in
the sidecar, `backup` and `archive` are sets of copies, `observed[o]` is the set
bound by the archive preparation, `ckpt[o]` the signed checkpoint with its cursor
and pending deletion. `row[o]` keeps what the guard and the resolution read of the
store. `agent[a]` is a process that applies an operation or resolves one, with its
in-memory copy of the cleanup progress.

| action | code |
|---|---|
| `Confirm` | `store.dispatch` with the drift check (the plans are made) |
| `GuardCheckpoints`, `GuardLocks` | `_guard_documents`, which reads checkpoints first and locks afterwards |
| `ArmPrimary`, `ArmLock`, `ArmBackup`, `ArmJournal`, `ArmFails` | `DocumentTransaction.arm`: lock and drift check, then backup, document by document, the journal last |
| `ArmUndo`, `UndoFails` | its except branch: one unlink after the other, any of which may raise |
| `Save`, `SaveFails`, `Verify` | `_apply_documents`: one document at a time, readback |
| `Rollback`, `Restore`, `Restored`, `RestoreFails` | `rollback` |
| `CleanupBegin`, `PublishArchive`, `Checkpoint`, `Intend`, `Unlink`, `Acknowledge`, `Cleaned`, `CleanupFails` | `cleanup`, one action per file operation |
| `Finish`, `Undispatch`, `Prune` | the store methods |
| `ResolveBegin`, `Resolve`, `ResolveRefused` | `resolve_recovery`, `operation resolve` |
| `Edit` | a program outside the tool saves a document |
| `Crash` | the process is killed between any two of these |

`Owned` is `owned()` with `required=True`. Sidecars are compared as the code compares
them: without a checkpoint by the operation they name, with one by what `cleanup` found at
each path when it began (`held`, the recorded hashes), whoever made that. `held` tells lock
files apart by operation; a lock file also has a pid in it, but an operation that reaches its
journal has kept one lock file throughout.

An editor may save a document between any two steps, also between the drift check of `arm`
and its second read of the document (`ArmBackup`): such a backup is not the baseline
(`spoilt`), attribution refuses it, and the document is never written. Two
things are simplified: the check of one document and its replacement in a `Save` are one step
(`BoardTransaction` has that window as a parameter, `EditorRaces`), and an editor never writes
exactly the bytes that a plan has read as its baseline. `rollback` compares all documents once
(`document_transaction.py:556-560`) and restores them afterwards one by one, over whatever is
there by then, and so does `Restore`. An editor that saves in that window loses its bytes:
"preserve external edit" does not hold there, and comparing each document again just before it
is replaced, as the save loop does, would close almost all of the window. `EditsSurvive` says
exactly which edits are safe: those that a save, or the one look of the rollback, could see.

The undo of `arm` may fail at any of its unlinks. The adapter still reports `not_started`, so
the plan waits again while locks or backups of it stay; they block its documents until they
are removed by hand. What can be relied on is that such a plan has no journal, no checkpoint
and no bytes in a document (`WaitingUntouched`), and that the undo deletes only what it has
made (`CleansOnlyOwn`).

Left out: sidecars that a failed write or a crash left half written
(`document_transaction.py:439`, `:447`: such a journal blocks its document until it is
removed by hand), the `.pending` and `.restore-pending` staging files, the staging
attempts of one archive, the legacy unsigned journals, and incremental hierarchies
(they publish new files with one rename each and never roll back). `OneResolver` is
an assumption about the environment: with TRUE nobody starts a second `operation
resolve` while one is running. The code has no such lock, and
`document_resolvers` shows what it costs. A second resolver can also record, and later
delete, a lock that a third process has just made (`document_transaction.py:505-508`,
`:531`), so all that rests on locks needs the assumption: exclusion, baselines, ownership of
deletions, leftovers, and the refinement of `SetSaves` (section 4).

`CleanupResumes` has a second limit, which the proof attempt showed: on the instance of
`document_overlap`, with one resolver, TLC refutes it. An operation whose guard looked
before another one's cleanup began takes a lock that this cleanup has just removed. If the
cleanup is then interrupted, `owned` finds a foreign lock where the cursor says there is none,
and refuses until the newcomer has given the lock back. So it is checked on
`document_set`, and proved for sets that do not overlap (`Apart`).

### SetSaves

An operation *holds* its whole set, excluding every overlapping one; *saves* each
document over nothing but its old bytes, or *restores* the old ones, whatever came in
since it looked; *decides*
once on what is there; and *reports* a final outcome only of a decision that is
the whole intended set or the whole old one. `DocumentTransaction` maps the journal of
`arm` to Hold, the first signed checkpoint to Decide and a completed or restored
`Finish` to Report; guard, locks, backups, archives, the cursor, crashes and resolve
are stuttering. What the abstract set is decided on may have been read a moment
before, so a document that an editor came in on may differ (`Readings`).

### BoardTransaction

One file with its three sidecars; `row[o]` carries the base bytes bound by the plan.
`left[o]` (untouched, torn, saved, verified, restored) is the ground truth.

| action | code |
|---|---|
| `Plan`, `Confirm` | the dry run binds the bytes; `store.dispatch`, drift check |
| `ArmCheck`, `ArmLock`, `ArmBackup`, `ArmJournal`, `ArmFails`, `UndoBackup`, `UndoLock`, `UndoFails` | `MoveTransaction.arm`, one action per file operation, each unlink of its undo may raise |
| `Recheck`, `Write`, `Fill`, `Verify`, `Fails` | `apply`: revision check, `Document.save`, independent readback, its except branch |
| `Rollback`, `Restore`, `Restored` | `MoveTransaction.rollback` |
| `Cleanup` | `MoveTransaction.cleanup`: backup, lock, journal in that order |
| `Finish`, `Undispatch` | receipt and store |
| `ResolveBegin`, `Archive`, `Drop`, `DropFails`, `Register`, `Rejected` | `operation resolve`: `owned_journal`, archive of the baseline, the unlink loop, `store.resolve` |
| `Edit`, `Crash` | other programs, a killed process |

`Document.save` opens the file for writing, which truncates it, so move and zone have
a torn state between `Write` and `Fill`; power replaces the file in one step
(`AtomicOps`). All three adapters record under one engine name, so one store
serializes them per file; a user with another `KICAD_CLI_STATE_DIR` has another store
(`StoreOf`) and meets the operation only at the sidecars.

`EditorRaces` and `OneResolver` are assumptions about the environment. With
`EditorRaces = TRUE` an editor may save between the last check and the write, and TLC
refutes `EditsSurvive`; no code could prevent that without a lock the editor honours.
With `OneResolver = FALSE` TLC refutes `CleansOnlyOwn` (run `board_resolvers`): two
resolves of one operation are both past `owned_journal`, one has deleted backup and lock, an
operation of another state directory takes the lock, and the other resolve deletes that one's
sidecars, contrary to the words "cleaning only this operation's sidecars"
(`driver_runtime.py:727-728`). What follows from it TLC refutes as well:
`SavesUnderOwnLock`, `BaselineRecoverable` and `UnattributedIsDecided`. The other
properties hold on that instance of two operations.

A backup of a board names no operation, so `ClosedLeavesNothing` speaks of locks and
journals. An undo of `arm` that fails leaves the lock, or both, of a plan that waits again;
its journal is absent and the file untouched, which is what the property says of it.

### ExportPublication

Operations with different boards and one output. `lock` is the journal that the lock
file holds, `next` the file `update_journal` writes before it replaces the lock;
`stage[o]` the operation's own directory with the generated files, the manifest and
the terminal journal; `child[o]` the native process, which outlives its parent.
`ghost[o]` remembers whether `o` ever had the lock and what it published.

| action | code |
|---|---|
| `Confirm`, `Check`, `Acquire`, `MakeStage`, `StageInputs` | dispatch, `validate_plan`, the exclusive lock, the stage, copies of the inputs |
| `Draft`, `Replace` | `update_journal`: `<lock>.next`, `os.replace` |
| `Start`, `RecordChild`, `ChildWrites`, `ChildExits`, `Wait` | `export_native.run` |
| `Consume`, `PublishCheck`, `Make`, `FileCheck`, `PublishFile`, `VerifyOutput` | consumption of the stage, `publish`: mkdir, one exclusive file after the other, readback |
| `WriteTerminal`, `Unlock` | the terminal journal is kept in the stage, the lock goes |
| `Fails`, `Inspect`, `Release`, `Drop`, `Escapes` | the except branch of `apply` and its receipt |
| `Finish`, `Undispatch`, `Crash` | as above |
| `MakeForeign`, `TakeAway` | somebody else makes, or moves away, the directory |
| `ResolveBegin`, `Archive`, `UnlinkLock`, `Register` | `recovery`, `resolve_recovery`, `store.resolve` |

Formats, reports and the inventory of files are reduced to their verdict: the stage is
complete or not. `EarlyMoves = FALSE` assumes that nobody moves an output away before
its export is recorded: recovery attributes the files of an output by their names
(`export_driver_adapter.py:636`), and with TRUE TLC refutes `OutcomeTrue`. `OneResolver`
is the same assumption as above: with FALSE and four processes TLC refutes
`NativeUnderLock`, `PublishesUnderOwnLock` and `InterruptedIsRegistrable`, because a second
resolve unlinks the lock of an operation that has begun meanwhile. Types, `NoMixedOutput`, `OutcomeTrue` and
`ClosedLeavesNoLock` do not depend on it (section 4). Two
weaknesses are visible in the model without a claim they contradict: an interrupted
`update_journal` leaves `<lock>.next`, with which every later export to that output
fails, and a crash between the unlink of the lock and `store.resolve` leaves no journal
to register (the archive then proves what happened: the second disjunct of
`InterruptedIsRegistrable`).

## 3. Runs

| run | constants | states | question |
|---|---|---|---|
| `driver_gate` | 2 plans of one request on one board, 3 processes, 1 key, budget 2 | 1.55 million | all safety properties of the gate, and that it implements `Gate` |
| `driver_liveness` | 2 plans for different boards, 2 processes, budget 1 | 80 thousand | liveness, and the budget at its limit |
| `document_set` | 1 edit of a sheet, a new sheet and the root; 3 processes; an editor; one resolver at a time | 3.15 million | crash recovery of one set, and that it implements `SetSaves` |
| `document_overlap` | 2 edits with different targets and a common member, 3 processes | 1.82 million | exclusion of overlapping sets, what an undo may delete and leave, and `SetSaves` for both |
| `board_write` | a move, a zone edit of state directory 1 and a power edit of state directory 2 on one file; 3 processes; an editor | 1.05 million | one file: crash, rollback, cleanup, resolve |
| `export_publish` | 2 exports to one output, 3 processes, 2 files, a foreign directory | 321 thousand | publication, children, resolve |
| `driver_unresolvable` | as `driver_gate` | | finding 1 |
| `document_members` | as `document_overlap` | | finding 2 |
| `document_resolvers` | 1 edit, concurrent resolvers | | finding 3 |
| `document_retention` | 1 edit | | finding 4 |
| `board_resolvers` | a move and a power edit of two state directories, 4 processes, concurrent resolvers | | finding 5 |
| `export_stranded` | as `export_publish` | | finding 6 |

Bounds. Two plans and three processes are what the hazards need: a writer, a
rival with the same token and a process on the other plan of the target. One key
suffices, because keys interact only when they are equal. A budget of 2 lets both
plans run and one makes them compete. For document sets three documents give a
first, a middle and a last save; a document that does not exist yet has no backup;
and a target outside its own file rows gives the deduplicated lock list its extra
entry. Three processes are a writer that dies, a resolver that dies and a second
resolver or writer. A board needs a third operation, so that two stores and both
ways to write are met with a rival inside one of them. Two files of an export give a
partial publication. Nothing else is bounded: processes run once, so the state
spaces are finite. Deadlock is not checked because the system really stops when
every process has run.

Fairness (`FairSpec`). A process that has started goes on (`WF_vars(Proceed(p))`):
its steps are local code, bounded SQLite transactions and native calls under a
timeout. The clock passes every lease deadline (`WF_vars(LeaseExpires(o))`).
No fairness is assumed of people: not of dry runs, confirms or resolves. A process
may crash at any time, and heartbeats may come as often as they like while the
adapter runs; weak fairness of `Proceed` ends the adapter call. The file
transactions have no liveness property: what must eventually happen there waits for a
user who resolves, so it is stated as possibility instead (`CleanupResumes`,
`UnattributedIsDecided`, `InterruptedIsRegistrable`: the next resolve will be
accepted).

### What the runs show

The passing runs hold for every interleaving, crash, expired lease, interrupted
rival, late result, outside edit and dead child of those instances. Some of what they
show is not obvious from the code:

- the writer check of `operation resolve` is needed: reading the outcome while a writer
  whose lease lapsed is alive would let the record disagree with the file
  (`RecordedOutcomeTrue`, mutant `ResolvableByLease`);
- a set is decided by its first checkpoint: from then on backups may go, before it they
  may not (`BaselineKept`), and the checkpoint names exactly one deletion that may or may
  not have happened (`CleanupResumes`);
- the check of `arm` before its lock is only a courtesy; the exclusive lock and the recheck
  of the bytes under it are what makes a save safe for users of different state
  directories (`SavesUnderOwnLock`, `EditsSurvive`);
- a board cleanup that dies after it has deleted the backup cannot be attributed any more,
  but then its outcome is decided (`UnattributedIsDecided`), and the order of the
  deletions is what keeps it visible (`CleanupVisible`);
- a child is never without its lock, even when the parent died, replied, or was resolved
  (`NativeUnderLock`); the window between spawn and pid is the reason why a journal
  in phase "spawning" cannot be registered (mutant `RegistrableInWindow`).

The violations are disagreements between the code and its own words:

1. `UnknownIsResolvable`: the reply to an unknown outcome says to read back and
   resolve. If the process died before its pid was stored, resolve refuses for ever.
2. `UnresolvedBlocksMembers`: the member guard reads checkpoints before locks; a
   cleanup that passes from locks to checkpoint in between is seen in neither.
3. `CleanupResumes` with two resolvers: both persist their own cursor.
4. `RegisteredAdmits`: after retention removed the row, the kept checkpoint reads
   as an unregistered cleanup and blocks its documents.
5. `CleansOnlyOwn` of a board with two resolvers: the loop that deletes "only this
   operation's sidecars" unlinks by name, and the names are by then those of a newcomer.
6. `FailedReleasesLock`: a comment in `export_driver_adapter.py` says that a known
   failure without artifacts does not strand its lock. A failure between "spawning" in
   memory and a parsed report does: it is recorded as failed, which `operation resolve`
   does not accept, and the output name stays locked.

## 4. Proofs

All proofs hold for any sets of operations, processes, keys, scopes, documents and
edits, finite or infinite, under the named assumptions of the modules
(`OperationConstants`, `DocumentConstants`, `BoardConstants`, `ExportConstants`: constants
are functions of the right domains, null values are not elements, and an export has finitely
many files) and the hypotheses in the table.

| module | theorem | statement |
|---|---|---|
| `DriverOperationsProofs` | `TypeCorrect` | `Spec => []TypeOK` |
| | `OneWriterPerTarget` | `Spec => []SingleWriter` |
| | `OneNativeStart` | `Spec => []OneStartPerPlan` |
| | `OnlyUntouchedReleased` | `Spec => ReleasedMeansUntouched` |
| `DriverRecordsProofs` | `OutcomesTrue` | `Spec => []RecordedOutcomeTrue` |
| | `MarksKept` | `Spec => EffectNeverForgotten` |
| | `KeysAppliedOnce` | `Spec => []KeyAppliedOnce` |
| | `BudgetIsExact` | `Spec => []BudgetExact` |
| `DriverGateProofs` | `GateImplemented` | `Spec => ImplementsGate` |
| `DocumentProofs` | `DocumentTypes` | `Spec => []TypeOK` |
| | `SetsWhole` | `Spec => []NoTornSet` |
| | `EditsKept` | `Spec => EditsSurvive` |
| | `WaitingClean` | `Spec => []WaitingUntouched` |
| | `WritersDisjoint` | `OneResolver`: `Spec => []DisjointWriters` |
| | `BaselinesKept` | `OneResolver`: `Spec => []BaselineKept` |
| | `OwnFilesDeleted` | `OneResolver`: `Spec => CleansOnlyOwn` |
| `DocumentSavesProofs` | `SetSavesImplemented` | `OneResolver`: `Spec => ImplementsSetSaves` |
| `DocumentCleanupProofs` | `NothingLeft` | `OneResolver`: `Spec => []ClosedLeavesNothing` |
| | `CleanupsResume` | `OneResolver`, `Apart`, `DistinctRows`: `Spec => []CleanupResumes` |
| `BoardProofs` | `BoardTypes` | `OneResolver`: `Spec => []TypeOK` |
| | `BaselinesRecoverable` | `OneResolver`: `Spec => []BaselineRecoverable` |
| | `CleanupsVisible` | `OneResolver`: `Spec => []CleanupVisible` |
| | `RecordedTrue` | `OneResolver`: `Spec => []RecordedOutcomeTrue` |
| | `ClosedAreClean` | `OneResolver`: `Spec => []ClosedLeavesNothing` |
| | `RefusedAreDecided` | `OneResolver`: `Spec => []UnattributedIsDecided` |
| | `SavesLocked` | `OneResolver`: `Spec => SavesUnderOwnLock` |
| | `EditsKept` | `OneResolver`, `~EditorRaces`: `Spec => EditsSurvive` |
| `ExportProofs` | `ExportTypes` | `Spec => []TypeOK` |
| | `ClosedAreUnlocked` | `Spec => []ClosedLeavesNoLock` |
| | `ChildrenLocked` | `OneResolver`: `Spec => []NativeUnderLock` |
| | `InterruptedRegistrable` | `OneResolver`: `Spec => []InterruptedIsRegistrable` |
| | `PublishesLocked` | `OneResolver`: `Spec => PublishesUnderOwnLock` |
| | `OutputsUnmixed` | `~EarlyMoves`: `Spec => []NoMixedOutput` |
| | `OutcomesTrue` | `~EarlyMoves`: `Spec => []OutcomeTrue` |

**The gate.** `TypeCorrect` goes through `Typed`, type correctness plus "a busy process
has an operation". Updates of several columns are proved as chains of one-column updates
(`RowTyped`, `FlagTyped`, `ProcTyped`).

`SingleWriter` is not inductive. A dispatch looks at rows, so the invariant
`WriterInv` adds that rows tell the truth about processes: the row of every
process in its apply still holds the target (`Claimed`), its writer is that process
or nobody (`OwnWriter`), and waiting rows have no writer while unsettled rows have
no resolution (`Fresh`). `Claimed` survives a rival's interruption and a broken
reply, because both set the row to unknown, which still blocks. It survives
`Resolve` only because of `OwnWriter`: resolve needs a recorded writer that is dead.
It survives `Undispatch` and `Finish` because of `SingleWriter` itself: their row is
their own.

`OneStartPerPlan` adds `StartsCounted`: a free token has never been started, a
process in its apply has its token consumed, and one that may still start or was
refused has not started (`StartInv`). `OnlyUntouchedReleased` follows: the only step that
frees a token is `Undispatch`.

Records (`TruthInv`) add to `StartInv` that a waiting plan has its token, that the target of
an operation nobody started is untouched, and `Told`: what a process knows or a row says
equals the effect, and the effect cannot change once it is said, because the only process
that could change it is the one that says it. Keys (`KeyInv`) add that of the operations
marked as having taken a key in a scope there is one, and that what acted is marked. The
budget (`BudgetInv`) is an equation between a counter and the cardinality of the set of
operations holding a unit; each action moves both sides together.

The refinement `GateImplemented` uses the same invariants: every action of
`DriverOperations` is one of the abstract actions or leaves the mapped variables alone.
Dispatch is `Take` because of `Claimed` (nobody works on a target whose rows are all
closed), finish and resolve are `Settle` because of `Told`, a replay is `Supersede`, and
an interruption or a demotion is `Stop` or `Doubt`.

**Document sets.** The invariants come in two layers, because they need different hypotheses.
For any number of resolves at a time: `Typed` is type correctness plus what a process always
has. `Attended` says that a row tells the truth about the process that works on its
operation, by its position: which mode it is in (`ModeAt`), that the row is open and
names it (`OpenRow`), and that a writer is alone on its operation. `WholeInv` adds what was
read and decided: a decision agrees with what was read (`DecidedOn`), a rollback has read only
bytes of its own and old ones (`ReadOwn`), a checkpoint means archived, and a finished row was
decided on the intended bytes or the baseline. `NoTornSet` and `EditsSurvive` follow from it.
`TraceInv` adds that an operation whose plan waits, or whose writer may still be refused, has
put its bytes nowhere, not even into what another operation read as its baseline
(`NoTrace`); hence `WaitingUntouched`.

`SetInv` is what the disk holds while one resolve runs at a time: a process that holds its set
has every lock, its journal, no checkpoint and every backup (`Holding`, from `ArmedUpTo` and
`Checked` while it arms), what arm has listed for its undo is its own (`OwnMade`), and no
checkpoint has recorded another operation's sidecar for deletion (`OwnHeld`). The last one is
what a second resolver breaks: it begins when the first has removed some locks, and may find,
record and delete those of a newcomer. `DisjointWriters` follows because a common member has
one lock, hence one operation, hence one writer; `CleansOnlyOwn` from `OwnMade` and `OwnHeld`;
and `BaselineKept` from `Kept`, which allows a backup that is not the baseline only where
an editor has replaced the document.

`SetSavesImplemented` adds to `SetInv` that the documents an archive preparation is bound to
still have the bytes that were read, except where an editor came in (`Prepared`). Then
`ArmJournal` is `Hold`, `Save` and `Restore` are those of one document, the first checkpoint is
`Decide`, a known finish is `Report`, an edit is `Edit`, and everything else is a stuttering
step of the abstract specification.

**Cleanup of document sets.** `HadBytes`, the documents that have a backup, is defined by rank
(the k-th row is the one with k such rows up to it), so that "every sidecar has a place in
`CleanupPaths`" (`SidecarPaths`) follows from facts about finite sets of naturals (`Ranks`)
instead of an induction over lists. `CleanInv` is `SetInv` with, for every operation, that its
sidecars lie where it puts them, that a closed one has none, and that the first `cursor`
paths of a checkpoint are gone (`LeftOf`), and the same for the cursor in memory of
each process that deletes (`LeftAt`). Leftovers of a failed undo need a clause of their own: a
waiting plan with a backup still has its target's lock (`Waits`), because the undo deletes
backups first; that lock stops the next `arm` before it makes anything, so every backup that is
there when a journal is written is one that this attempt has made, and of a document that existed
(`Backed`). `NothingLeft` needs `OneResolver`: a second resolver may take the lock of a waiting
plan away, and with it that argument. `CleanupsResume` needs the converse of `LeftOf` too: what
the checkpoint does not claim is still there and was recorded as the operation's own
(`UnsweptOf`), its documents are those the archive preparation bound,
up to editors (`BoundOf`), and bytes of an operation come with its journal or
checkpoint (`WrittenOf`). With two resolvers `UnsweptOf` is false, because one writes its
lower cursor over the other's; with overlapping sets a newcomer may hold a lock that the
cursor says is gone, which `Apart` excludes; and with
`DistinctRows` (a plan has one row per document, as `engineering_prepare.py:247-256`
builds it) no path is listed twice (`OneToOne`), which the converse needs.

**Boards.** `BoardInv` ties three views of one file together. `AgentInv` says, for each
position of a writer (`WriterAt`) and of a resolve (`ResolverAt`), which sidecars there are,
what the operation has done to the file and what its row says; `RowInv` says what a row
implies of its sidecars and its effect; `FileInv` what the bytes of the file imply: they are
those of `o` only if `o` saved them, a touched file never shows its baseline again before a
restore, and torn or unverified bytes have their baseline in an owned backup or in the
archive. The delicate part is `BasePast`: a rollback of `o` puts back bytes that another
operation may have saved or planned on, and no such operation may have gone on from there. The
check of `ArmBackup` under the lock establishes it, not the check of `ArmCheck` before.
`Alone` (one process per operation) needs `OneResolver`: without it `CleansOnlyOwn` is refuted
(run `board_resolvers`), and with it the ground of the others. A step is proved in two halves:
`OwnStep`, the process and its operation, action by action, and `Others`, the rest, once for
all actions from what a step may change at most (`Frame`). Only `EditsSurvive` needs
`~EditorRaces`.

**Exports.** There are three invariants, because they need different hypotheses. `RowInv` says
what a row says of the lock, for any number of resolves at a time: a writer holds the row of its
operation (`HoldsRow`: the row is open and names it), a resolve has read the row of a
dead writer (`ReadsRow`), and a closed or waiting operation does not own the lock
(`OpRow`). A writer is alone without an assumption, because the row names it. `LockInv` adds
under `OneResolver` one process per operation (`Alone`), the phase of the journal in memory and
on disk at each position (`WriterAt`, `ResolverAt`), and what a journal says of the native
child (`Says`: "prepared" means none was started, "stopped" that it has stopped); `OpInv` keeps
a running child under its lock.
`FilesInv` rests on `RowInv` alone and says that the files in the output belong to the
operation that made it (`OneMaker`), that a writer knows what it has published
(`WriterFiles`), and that what a resolve has read stays true (`ResolverFiles`, from
`ObservedTrue`: the readback tells what was published as long as nobody moved the output,
`~EarlyMoves`).

Every invariant above was evaluated by TLC on the instances of section 3 before it was
proved. Actions that change several fields of a row are written as one nested update of that
row, so that each row is updated once.

Only model-checked: liveness (fairness and ENABLED are outside the prover's reach), and the
findings, which are counterexamples. Every safety invariant, action property and refinement of
a passing run is stated by a theorem.

## 5. Not modelled, and the plan

Done: the gate, document sets, boards and exports; both abstract specifications; the
proofs of section 4. Left, in this order:

1. Proofs with weaker hypotheses: which of the board theorems hold for several
   resolves when no new operation arms between them.
2. The composition of `BoardTransaction` and `DocumentTransaction`: a power operation
   looks at document guards once and writes later (`power_driver_adapter.py:867`).
3. Torn sidecars: a journal or lock whose writing failed or was interrupted.
4. Archive staging (`prepare_archives`, `publish_archive`) with its attempts and link
   pairs, as a refinement of `PublishArchive`.
5. The candidate review of sync, which keeps a prepared candidate between plan and apply.
6. Batches of the driver SDK: `start_item`, `release`, `settle_batches`.

Why the rest has no model:

- `payload/write_txn.py` and `payload/confirm_store.py`: every public write goes through the
  driver, which calls them on private scratch copies only (`engineering_prepare.py:230`,
  `power_geometry.py:116`), so no two processes share their files any more.
- `board_driver_adapter.py`: a table from command to adapter. `sync_driver_adapter.py`: its
  apply is that of a document set or, for older plans, of a board.
- `candidate_output` and hierarchy publication: publishing a new file is one rename without
  replacement (one `Save`); the handle-bound implementation is a matter of NTFS sharing rules.
- Read commands, argument parsing, JSON envelopes, file formats, geometry, routing and
  checks of designs: most of the source by lines, but data without shared state.
- Native KiCad processes: external; their effect on an export is modelled (`ChildWrites`).
- The asynchronous path of adapters outside this repository.
