--------------------------- MODULE BoardTransaction ---------------------------
(***************************************************************************)
(* Saving one file of a project in place: MoveTransaction                  *)
(* (move_transaction.py) inside the apply of the move, zone and power      *)
(* adapters, and the operation resolve of driver_runtime.py that cleans up *)
(* after a writer that died.                                               *)
(*                                                                         *)
(* One file is modelled, with its three sidecars.  Its bytes are named by  *)
(* who wrote them: an operation, a program outside the tool (Edited), or   *)
(* an operation that was stopped inside its write (Torn(o)).  An agent is  *)
(* one CLI process: it applies one operation or runs one operation         *)
(* resolve, and may die between any two file accesses.                     *)
(***************************************************************************)
EXTENDS Naturals, FiniteSets

CONSTANTS
    Ops,            \* operation ids
    Agents,         \* CLI processes
    StoreOf,        \* StoreOf[o]: the state directory that o is recorded in
    AtomicOps,      \* operations that save by os.replace (power), not in place
    EditorRaces,    \* TRUE: an editor may save between a check and its write
    OneResolver,    \* TRUE: no two "operation resolve" run at the same time
    Old,            \* bytes before any operation
    Edits,          \* bytes that programs outside the tool save
    None

ASSUME BoardConstants ==
    /\ AtomicOps \subseteq Ops
    /\ Ops \subseteq DOMAIN StoreOf
    /\ EditorRaces \in BOOLEAN /\ OneResolver \in BOOLEAN
    /\ Old # None /\ {Old, None} \cap (Ops \union Edits) = {}
    /\ Ops \cap Edits = {} /\ None \notin Agents
    /\ None \notin {"applied", "not_applied", "rolled_back", "partial"}
    /\ \A o \in Ops : <<"torn", o>> \notin Ops \union Edits \union {Old, None}

VARIABLES
    board,      \* bytes of the file
    lock,       \* operation named in <file>.kicad-cli.lock
    backup,     \* bytes of <file>.kicad-cli.backup
    journal,    \* operation named in <file>.kicad-cli.journal
    archive,    \* <<o, bytes>>: baseline kept under recovery/ by a resolve
    row,        \* row[o]: the plan and the operation's row in the store
    agent,      \* agent[a]: the process
    left        \* history: what o last did to the file

sidecars == <<lock, backup, journal>>
vars == <<board, sidecars, archive, row, agent, left>>

Torn(o) == <<"torn", o>>
Bytes   == Ops \union Edits \union {Old} \union {Torn(o) : o \in Ops}

PCs == {"idle", "confirmed", "locking", "copying", "journaling", "undoing",
        "unlocking", "saving", "writing", "filling", "verifying", "failing",
        "restoring", "restored", "cleaning", "cleaned", "uncertain", "refused",
        "archiving", "dropping", "registering", "rejected", "exited"}

Outcomes == {"applied", "not_applied", "rolled_back", "partial"}

Row == [status : {"new", "planned", "dispatched", "unknown", "finished"},
        base : Bytes \union {None}, writer : Agents \union {None},
        outcome : Outcomes \union {None}, resolution : Outcomes \union {None}]

Process == [pc : PCs, op : Ops \union {None}, mode : {"commit", "rollback", "resolve"},
            i : 0..2, noChange : BOOLEAN, seen : Bytes \union {None}]

TypeOK ==
    /\ board \in Bytes /\ backup \in Bytes \union {None}
    /\ lock \in Ops \union {None} /\ journal \in Ops \union {None}
    /\ archive \subseteq Ops \X Bytes
    /\ row \in [Ops -> Row] /\ agent \in [Agents -> Process]
    /\ left \in [Ops -> {"untouched", "torn", "saved", "verified", "restored"}]

Init ==
    /\ board = Old
    /\ lock = None /\ backup = None /\ journal = None /\ archive = {}
    /\ row = [o \in Ops |-> [status |-> "new", base |-> None, writer |-> None,
                             outcome |-> None, resolution |-> None]]
    /\ agent = [a \in Agents |-> [pc |-> "idle", op |-> None, mode |-> "commit",
                                  i |-> 0, noChange |-> FALSE, seen |-> None]]
    /\ left = [o \in Ops |-> "untouched"]

-----------------------------------------------------------------------------
(* What the code reads.                                                     *)

Alive(a)      == agent[a].pc # "exited"
Unresolved(o) == /\ row[o].status \in {"dispatched", "unknown"}
                 /\ row[o].resolution = None
Readable      == \A o \in Ops : board # Torn(o)

\* owned_journal: no sidecar at all, or three that agree on o and its baseline.
OwnedJournal(o) ==
    \/ lock = None /\ backup = None /\ journal = None
    \/ lock = o /\ journal = o /\ backup = row[o].base

\* recovery: the outcome that the bytes of the readback show.
Observed(o, bytes) ==
    CASE bytes = row[o].base -> "not_applied"
      [] bytes = o           -> "applied"
      [] OTHER               -> "partial"

Goto(a, pc) == agent' = [agent EXCEPT ![a].pc = pc]
GotoAt(a, pc, i) == agent' = [agent EXCEPT ![a] = [@ EXCEPT !.pc = pc,
                                                            !.i = i]]
Leave(o, what) == left' = [left EXCEPT ![o] = what]

-----------------------------------------------------------------------------
(* Plan, confirm, arm.                                                      *)

\* A store serializes the operations on one target that are its own; a user with
\* another KICAD_CLI_STATE_DIR is met only at the sidecars.
Unblocked(o) == \A p \in Ops \ {o} : StoreOf[p] = StoreOf[o] => ~Unresolved(p)

\* A dry run binds the bytes it has read.
Plan(o) ==
    /\ row[o].status = "new" /\ Readable /\ Unblocked(o)
    /\ row' = [row EXCEPT ![o] = [@ EXCEPT !.status = "planned",
                                           !.base = board]]
    /\ UNCHANGED <<board, sidecars, archive, agent, left>>

\* The store dispatches o; a plan that has drifted is refused before that.
Confirm(a, o) ==
    /\ agent[a].pc = "idle"
    /\ row[o].status = "planned" /\ Unblocked(o) /\ board = row[o].base
    /\ row' = [row EXCEPT ![o] = [@ EXCEPT !.status = "dispatched",
                                           !.writer = a]]
    /\ agent' = [agent EXCEPT ![a] = [@ EXCEPT !.pc = "confirmed", !.op = o]]
    /\ UNCHANGED <<board, sidecars, archive, left>>

\* arm looks for an unfinished transaction before it takes the lock.
ArmCheck(a) ==
    /\ agent[a].pc = "confirmed"
    /\ Goto(a, IF journal # None \/ backup # None THEN "refused" ELSE "locking")
    /\ UNCHANGED <<board, sidecars, archive, row, left>>

\* Mutant of ArmLock: an existing lock is taken over.
ArmLockForced(a) ==
    /\ agent[a].pc = "locking"
    /\ lock' = agent[a].op /\ Goto(a, "copying")
    /\ UNCHANGED <<board, backup, journal, archive, row, left>>

\* The lock file is created exclusively.
ArmLock(a) ==
    /\ agent[a].pc = "locking"
    /\ IF lock # None
       THEN Goto(a, "refused") /\ UNCHANGED lock
       ELSE Goto(a, "copying") /\ lock' = agent[a].op
    /\ UNCHANGED <<board, backup, journal, archive, row, left>>

\* The file still has the planned bytes and they are copied to the backup.
ArmBackup(a) ==
    /\ agent[a].pc = "copying"
    /\ IF board # row[agent[a].op].base \/ backup # None
       THEN Goto(a, "unlocking") /\ UNCHANGED backup
       ELSE Goto(a, "journaling") /\ backup' = board
    /\ UNCHANGED <<board, lock, journal, archive, row, left>>

ArmJournal(a) ==
    /\ agent[a].pc = "journaling"
    /\ IF journal # None
       THEN Goto(a, "undoing") /\ UNCHANGED journal
       ELSE Goto(a, "saving") /\ journal' = agent[a].op
    /\ UNCHANGED <<board, lock, backup, archive, row, left>>

ArmFails(a) ==
    /\ \/ agent[a].pc = "copying" /\ Goto(a, "unlocking")
       \/ agent[a].pc = "journaling" /\ Goto(a, "undoing")
    /\ UNCHANGED <<board, sidecars, archive, row, left>>

\* What this arm created is deleted again, by name.
UndoBackup(a) ==
    /\ agent[a].pc = "undoing"
    /\ backup' = None /\ Goto(a, "unlocking")
    /\ UNCHANGED <<board, lock, journal, archive, row, left>>

UndoLock(a) ==
    /\ agent[a].pc = "unlocking"
    /\ lock' = None /\ Goto(a, "refused")
    /\ UNCHANGED <<board, backup, journal, archive, row, left>>

\* One of them cannot be deleted: that error is reported, and the plan waits
\* again with what is left of its sidecars.
UndoFails(a) ==
    /\ agent[a].pc \in {"undoing", "unlocking"}
    /\ Goto(a, "refused")
    /\ UNCHANGED <<board, sidecars, archive, row, left>>

-----------------------------------------------------------------------------
(* Save, verify, restore.                                                   *)

\* Under the lock the bytes are compared with the plan once more.
Recheck(a) ==
    /\ agent[a].pc = "saving"
    /\ Goto(a, IF board = row[agent[a].op].base THEN "writing" ELSE "failing")
    /\ UNCHANGED <<board, sidecars, archive, row, left>>

\* Document.save opens the file for writing, which truncates it; power's
\* os.replace changes it in one step.
Write(a) ==
    LET o == agent[a].op IN
    /\ agent[a].pc = "writing"
    /\ IF o \in AtomicOps
       THEN board' = o /\ Leave(o, "saved") /\ Goto(a, "verifying")
       ELSE board' = Torn(o) /\ Leave(o, "torn") /\ Goto(a, "filling")
    /\ UNCHANGED <<sidecars, archive, row>>

Fill(a) ==
    LET o == agent[a].op IN
    /\ agent[a].pc = "filling"
    /\ board' = o /\ Leave(o, "saved") /\ Goto(a, "verifying")
    /\ UNCHANGED <<sidecars, archive, row>>

\* The independent readback is of the intended bytes and passes the profile.
Verify(a) ==
    LET o == agent[a].op IN
    /\ agent[a].pc = "verifying" /\ board = o
    /\ Leave(o, "verified") /\ GotoAt(a, "cleaning", 0)
    /\ UNCHANGED <<board, sidecars, archive, row>>

\* Anything between arm and the end of cleanup raises.  A rollback that raises
\* is given up.
Fails(a) ==
    /\ agent[a].pc \in {"saving", "writing", "filling", "verifying", "cleaning",
                        "restoring", "restored", "cleaned"}
    /\ agent[a].mode # "resolve"
    /\ agent[a].pc = "cleaned" => agent[a].mode = "rollback"
    /\ Goto(a, IF agent[a].mode = "commit" THEN "failing" ELSE "uncertain")
    /\ UNCHANGED <<board, sidecars, archive, row, left>>

\* Mutant of Rollback: the current bytes are not looked at.
RollbackBlind(a) ==
    /\ agent[a].pc = "failing"
    /\ IF backup = row[agent[a].op].base
       THEN agent' = [agent EXCEPT ![a] = [@ EXCEPT !.pc = "restoring",
                                                    !.mode = "rollback",
                                                    !.seen = board,
                                                    !.noChange = FALSE]]
       ELSE Goto(a, "uncertain")
    /\ UNCHANGED <<board, sidecars, archive, row, left>>

\* rollback: only bytes of this operation or its baseline may be replaced, and
\* only by the bound baseline.
Rollback(a) ==
    LET o == agent[a].op IN
    /\ agent[a].pc = "failing"
    /\ IF board \in {row[o].base, o} /\ backup = row[o].base
       THEN agent' = [agent EXCEPT ![a] =
                        [@ EXCEPT !.pc = "restoring", !.mode = "rollback",
                                  !.seen = board,
                                  !.noChange = (board = row[o].base)]]
       ELSE Goto(a, "uncertain")
    /\ UNCHANGED <<board, sidecars, archive, row, left>>

\* os.replace moves the backup over the file.
Restore(a) ==
    LET o == agent[a].op IN
    /\ agent[a].pc = "restoring"
    /\ IF agent[a].seen = row[o].base
       THEN Goto(a, "restored") /\ UNCHANGED <<board, backup, left>>
       ELSE /\ backup # None
            /\ board' = backup /\ backup' = None
            /\ Leave(o, "restored") /\ Goto(a, "restored")
    /\ UNCHANGED <<lock, journal, archive, row>>

Restored(a) ==
    /\ agent[a].pc = "restored"
    /\ IF board = row[agent[a].op].base
       THEN GotoAt(a, "cleaning", 0) ELSE Goto(a, "uncertain")
    /\ UNCHANGED <<board, sidecars, archive, row, left>>

\* Mutant of UnlinkOrder: the journal goes first.
UnlinkOrderJournalFirst == <<"journal", "backup", "lock">>

\* "Journal last: an interrupted cleanup remains visible and fails closed."
UnlinkOrder == <<"backup", "lock", "journal">>

\* Mutant of UnlinkNext: the loop runs once too often.
UnlinkNextTooFar(a, done) ==
    LET name == UnlinkOrder[agent[a].i + 1] IN
    /\ lock' = IF name = "lock" THEN None ELSE lock
    /\ backup' = IF name = "backup" THEN None ELSE backup
    /\ journal' = IF name = "journal" THEN None ELSE journal
    /\ IF agent[a].i = 3 THEN GotoAt(a, done, 0)
       ELSE GotoAt(a, agent[a].pc, agent[a].i + 1)

\* Deletes the next sidecar; pc afterwards when it was the last one.
UnlinkNext(a, done) ==
    LET name == UnlinkOrder[agent[a].i + 1] IN
    /\ lock' = IF name = "lock" THEN None ELSE lock
    /\ backup' = IF name = "backup" THEN None ELSE backup
    /\ journal' = IF name = "journal" THEN None ELSE journal
    /\ IF agent[a].i = 2 THEN GotoAt(a, done, 0)
       ELSE GotoAt(a, agent[a].pc, agent[a].i + 1)

\* cleanup does not mind a sidecar that is missing.
Cleanup(a) ==
    /\ agent[a].pc = "cleaning"
    /\ UnlinkNext(a, "cleaned")
    /\ UNCHANGED <<board, archive, row, left>>

-----------------------------------------------------------------------------
(* The receipt, the end of a process, other programs.                       *)

\* Mutant of Receipt: a failure is told by what the rollback saw only.
ReceiptByMode(a) == IF agent[a].noChange THEN "not_applied" ELSE "applied"

Receipt(a) ==
    IF agent[a].mode = "commit" THEN "applied"
    ELSE IF agent[a].noChange THEN "not_applied" ELSE "rolled_back"

\* store.finish: a known outcome is final, the rest is unknown.
Finish(a) ==
    LET o == agent[a].op IN
    /\ agent[a].pc \in {"cleaned", "uncertain"}
    /\ row' = IF agent[a].pc = "cleaned"
              THEN [row EXCEPT ![o] = [@ EXCEPT !.status = "finished",
                                                !.outcome = Receipt(a)]]
              ELSE [row EXCEPT ![o].status = "unknown"]
    /\ Goto(a, "exited")
    /\ UNCHANGED <<board, sidecars, archive, left>>

\* not_started: the plan waits again.
Undispatch(a) ==
    /\ agent[a].pc = "refused"
    /\ row' = [row EXCEPT ![agent[a].op] = [@ EXCEPT !.status = "planned",
                                                     !.writer = None]]
    /\ Goto(a, "exited")
    /\ UNCHANGED <<board, sidecars, archive, left>>

Crash(a) ==
    /\ agent[a].pc \notin {"idle", "exited"}
    /\ Goto(a, "exited")
    /\ UNCHANGED <<board, sidecars, archive, row, left>>

\* An editor outside the tool saves the file, with bytes no plan has seen.
Edit(e) ==
    /\ e # board /\ \A o \in Ops : row[o].base # e
    /\ ~EditorRaces => \A a \in Agents :
            agent[a].pc \notin {"writing", "filling", "restoring"}
    /\ board' = e
    /\ UNCHANGED <<sidecars, archive, row, agent, left>>

-----------------------------------------------------------------------------
(* operation resolve.                                                       *)

\* The writer is dead, the sidecars are attributable, and the file reads back
\* as the signed evidence and the requested outcome say.
ResolveBegin(a, o) ==
    /\ agent[a].pc = "idle"
    /\ OneResolver => \A b \in Agents : Alive(b) => agent[b].mode # "resolve"
    /\ Unresolved(o) /\ ~Alive(row[o].writer)
    /\ OwnedJournal(o) /\ Readable
    /\ agent' = [agent EXCEPT ![a] = [@ EXCEPT
          !.pc = IF journal = o THEN "archiving" ELSE "registering",
          !.op = o, !.mode = "resolve", !.i = 0, !.seen = board]]
    /\ UNCHANGED <<board, sidecars, archive, row, left>>

\* Mutant of Archive: the backup is deleted without a copy.
ArchiveSkipped(a) ==
    /\ agent[a].pc = "archiving"
    /\ Goto(a, IF board = agent[a].seen THEN "dropping" ELSE "rejected")
    /\ UNCHANGED <<board, sidecars, archive, row, left>>

\* Mutant of Archive: the resolution is recorded before the sidecars are gone.
ArchiveThenRegister(a) ==
    /\ agent[a].pc = "archiving" /\ backup # None
    /\ archive' = archive \union {<<agent[a].op, backup>>}
    /\ Goto(a, IF board = agent[a].seen THEN "registering" ELSE "rejected")
    /\ UNCHANGED <<board, sidecars, row, left>>

\* The baseline is archived before its backup is deleted.
Archive(a) ==
    LET o == agent[a].op IN
    /\ agent[a].pc = "archiving"
    /\ \/ /\ backup # None
          /\ archive' = archive \union {<<o, backup>>}
          /\ Goto(a, IF backup = row[o].base /\ board = agent[a].seen
                     THEN "dropping" ELSE "rejected")
       \/ backup = None /\ Goto(a, "rejected") /\ UNCHANGED archive
    /\ UNCHANGED <<board, sidecars, row, left>>

\* The loop over (backup, lock, journal); a missing one raises.
Drop(a) ==
    LET present == <<backup # None, lock # None, journal # None>> IN
    /\ agent[a].pc = "dropping"
    /\ \/ present[agent[a].i + 1] /\ UnlinkNext(a, "registering")
       \/ /\ ~present[agent[a].i + 1]
          /\ Goto(a, "rejected") /\ UNCHANGED sidecars
    /\ UNCHANGED <<board, archive, row, left>>

DropFails(a) ==
    /\ agent[a].pc = "dropping"
    /\ Goto(a, "rejected")
    /\ UNCHANGED <<board, sidecars, archive, row, left>>

\* store.resolve records what the readback saw.
Register(a) ==
    LET o == agent[a].op IN
    /\ agent[a].pc = "registering"
    /\ row' = IF Unresolved(o)
              THEN [row EXCEPT ![o].resolution = Observed(o, agent[a].seen)]
              ELSE row
    /\ Goto(a, "exited")
    /\ UNCHANGED <<board, sidecars, archive, left>>

Rejected(a) ==
    /\ agent[a].pc = "rejected"
    /\ Goto(a, "exited")
    /\ UNCHANGED <<board, sidecars, archive, row, left>>

-----------------------------------------------------------------------------
Step(a) ==
    \/ ArmCheck(a) \/ ArmLock(a) \/ ArmBackup(a) \/ ArmJournal(a) \/ ArmFails(a)
    \/ UndoBackup(a) \/ UndoLock(a) \/ UndoFails(a)
    \/ Recheck(a) \/ Write(a) \/ Fill(a) \/ Verify(a) \/ Fails(a)
    \/ Rollback(a) \/ Restore(a) \/ Restored(a) \/ Cleanup(a)
    \/ Finish(a) \/ Undispatch(a)
    \/ Archive(a) \/ Drop(a) \/ DropFails(a) \/ Register(a) \/ Rejected(a)

Next ==
    \/ \E a \in Agents : Step(a) \/ Crash(a)
    \/ \E a \in Agents, o \in Ops : Confirm(a, o) \/ ResolveBegin(a, o)
    \/ \E o \in Ops : Plan(o)
    \/ \E e \in Edits : Edit(e)

Spec == Init /\ [][Next]_vars

-----------------------------------------------------------------------------
(* Properties.                                                              *)

\* While the file holds bytes of o that were torn or never verified, the
\* baseline o replaced is in the backup next to an owned lock and journal, or
\* was archived by a resolve: at every step of a save, a restore, a cleanup, a
\* crash and a resolve (MoveTransaction.arm, cleanup, rollback).
BaselineRecoverable ==
    \A o \in Ops :
        board = Torn(o) \/ (board = o /\ left[o] # "verified") =>
            \/ backup = row[o].base /\ lock = o /\ journal = o
            \/ <<o, row[o].base>> \in archive

\* "Journal last: an interrupted cleanup remains visible and fails closed": an
\* operation that touched the file never leaves its lock without its journal.
CleanupVisible ==
    \A o \in Ops : lock = o /\ left[o] # "untouched" => journal = o

\* The file is written, and restored, only by the operation that owns lock and
\* journal at that moment, whatever the check of arm before the lock has read
\* and whatever a resolve or another process does to the sidecars.
SavesUnderOwnLock ==
    [][\A o \in Ops :
           left'[o] # left[o] /\ left'[o] \in {"torn", "saved", "restored"} =>
               lock = o /\ journal = o]_vars

\* "never overwrite an unrecognised edit": bytes of an outside editor are
\* replaced only by an operation that was planned on them, or by a restore of
\* such a plan's own write.
EditsSurvive ==
    [][board' # board /\ board \in Edits /\ board' \notin Edits =>
           \E o \in Ops : row[o].base = board /\ board' \in {o, Torn(o)}]_vars

\* A receipt or a resolution that names an outcome agrees with what the
\* operation did to the file (the except branch of apply, recovery).
RecordedOutcomeTrue ==
    \A o \in Ops :
        /\ "applied" \in {row[o].outcome, row[o].resolution} =>
               left[o] \in {"saved", "verified"}
        /\ "not_applied" \in {row[o].outcome, row[o].resolution} =>
               left[o] \in {"untouched", "restored"}
        /\ row[o].outcome = "rolled_back" => left[o] = "restored"

\* A finished and a resolved operation own no lock and no journal; a plan that
\* waits may own a lock that could not be deleted, but has written no journal
\* and has not touched the file (arm, cleanup, operation resolve).
ClosedLeavesNothing ==
    \A o \in Ops :
        /\ row[o].status = "finished" \/ row[o].resolution # None =>
               lock # o /\ journal # o
        /\ row[o].status = "planned" => journal # o /\ left[o] = "untouched"

\* What operation resolve will refuse for ever is at least decided: a stopped
\* operation whose sidecars owned_journal cannot attribute has not touched the
\* file, or finished with it, or had its baseline archived.
UnattributedIsDecided ==
    \A o \in Ops :
        /\ Unresolved(o) /\ o \in {lock, journal} /\ ~OwnedJournal(o)
        /\ \A a \in Agents : agent[a].op = o => ~Alive(a)
        => \/ left[o] \in {"untouched", "verified", "restored"}
           \/ <<o, row[o].base>> \in archive

\* "before cleaning only this operation's sidecars": a lock or a journal is
\* deleted only by a process that works on the operation it names.
CleansOnlyOwn ==
    [][\A o \in Ops :
           (lock = o /\ lock' # o) \/ (journal = o /\ journal' # o) =>
               \E a \in Agents : agent[a].op = o /\ agent'[a] # agent[a]]_vars

=============================================================================
