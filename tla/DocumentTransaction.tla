------------------------- MODULE DocumentTransaction -------------------------
(***************************************************************************)
(* Saving a set of documents: document_transaction.py (arm, cleanup,       *)
(* rollback, resolve), the engineering adapter that drives it and guards   *)
(* the members of unresolved sets, and the operation row it is told apart  *)
(* by.                                                                     *)
(*                                                                         *)
(* A file is what the code compares: a document is the bytes some          *)
(* operation gave it, a sidecar is the operation it names.  An agent is    *)
(* one CLI process; it applies one operation or runs one operation         *)
(* resolve, and may die between any two of its file accesses.  An editor   *)
(* outside the tool may save a document at any time, except between the    *)
(* check and the write of one Save.  Staged ".pending" files, the staging  *)
(* of a single archive and torn writes of a sidecar are left out.          *)
(***************************************************************************)
EXTENDS Naturals, Sequences, FiniteSets

CONSTANTS
    Ops,            \* operation ids
    Docs,           \* document paths; each has a lock and a journal name
    Agents,         \* CLI processes
    FilesOf,        \* FilesOf[o]: the plan's document rows, in saving order
    PrimaryOf,      \* PrimaryOf[o]: the target, whose journal o uses
    NewDocs,        \* documents that do not exist at first
    OneResolver,    \* TRUE: no two "operation resolve" run at the same time
    Old, Absent,    \* bytes before any operation, and no file
    Edits,          \* bytes that programs outside the tool save
    None

ASSUME DocumentConstants ==
    /\ FilesOf \in [Ops -> Seq(Docs)]
    /\ PrimaryOf \in [Ops -> Docs]
    /\ NewDocs \subseteq Docs
    /\ OneResolver \in BOOLEAN
    /\ {Old, Absent, None} \cap (Ops \union Edits) = {} /\ None \notin Agents
    /\ Ops \cap Edits = {}

VARIABLES
    doc,        \* doc[d]: bytes of the document
    lock,       \* lock[d]: operation named in <d>.kicad-cli.lock
    journal,    \* journal[d]: operation of <d>.kicad-cli.journal
    backup,     \* <<o, d>>: <d>.<o>.backup exists
    spoilt,     \* <<o, d>>: what that backup holds is not the baseline of d
    archive,    \* <<o, d>>: the baseline of d is published under recovery/<o>
    observed,   \* observed[o]: bytes bound by the archive preparation of o
    ckpt,       \* ckpt[o]: the signed cleanup checkpoint
    row,        \* row[o]: the operation's row in the store
    agent       \* agent[a]: the process

sidecarVars == <<lock, journal, backup, spoilt>>
proofVars   == <<archive, observed, ckpt>>
vars        == <<doc, sidecarVars, proofVars, row, agent>>

Bytes == Ops \union Edits \union {Old, Absent}

PCs == {"idle", "confirmed", "guarded", "unlocked", "arming", "checked",
        "undoing", "saving", "failing", "restoring", "closing", "archiving", "deleting",
        "unlinking", "unlinked", "restored", "completed", "uncertain",
        "refused", "resolved", "exited"}

Files(o) == {FilesOf[o][i] : i \in DOMAIN FilesOf[o]}

\* What can be read of the documents of an operation, or nothing yet.
Readings == {<<>>} \union UNION {[Files(o) -> Bytes] : o \in Ops}

Row ==
    [status : {"planned", "dispatched", "unknown", "finished", "pruned"},
     receipt : BOOLEAN, resolution : BOOLEAN, writer : Agents \union {None},
     baseline : Readings]

\* A sidecar file is named by its kind and its document.
Paths == {"backup", "lock", "journal"} \X Docs

\* held: whose sidecar each path of the cleanup list was when it was recorded.
Progress == [phase : {"none", "cleaning", "cleaned"}, cursor : Nat,
             pending : BOOLEAN, held : Seq(Ops \union {None})]

\* made: the sidecars arm has created; seen: what resolve or rollback read.
Process ==
    [pc : PCs, op : Ops \union {None}, i : Nat, pending : BOOLEAN,
     mode : {"none", "commit", "rollback", "resolve"}, seen : Readings,
     made : SUBSET Paths, held : Seq(Ops \union {None})]

TypeOK ==
    /\ doc \in [Docs -> Bytes]
    /\ lock \in [Docs -> Ops \union {None}]
    /\ journal \in [Docs -> Ops \union {None}]
    /\ backup \subseteq Ops \X Docs /\ archive \subseteq Ops \X Docs
    /\ spoilt \subseteq Ops \X Docs
    /\ observed \in [Ops -> Readings]
    /\ ckpt \in [Ops -> Progress]
    /\ row \in [Ops -> Row]
    /\ agent \in [Agents -> Process]
    /\ \A o \in Ops :
          {observed[o], row[o].baseline} \subseteq {<<>>} \union [Files(o) -> Bytes]

Init ==
    /\ doc = [d \in Docs |-> IF d \in NewDocs THEN Absent ELSE Old]
    /\ lock = [d \in Docs |-> None] /\ journal = [d \in Docs |-> None]
    /\ backup = {} /\ spoilt = {} /\ archive = {}
    /\ observed = [o \in Ops |-> <<>>]
    /\ ckpt = [o \in Ops |-> [phase |-> "none", cursor |-> 0, pending |-> FALSE,
                              held |-> <<>>]]
    /\ row = [o \in Ops |-> [status |-> "planned", receipt |-> FALSE,
                             resolution |-> FALSE, writer |-> None,
                             baseline |-> <<>>]]
    /\ agent = [a \in Agents |-> [pc |-> "idle", op |-> None, mode |-> "none",
                                  i |-> 0, pending |-> FALSE, seen |-> <<>>,
                                  made |-> {}, held |-> <<>>]]

-----------------------------------------------------------------------------
(* What the code reads.                                                     *)

CurrentProject(o) == doc    \* mutant of Current: not only the plan's files

Current(o)  == [d \in Files(o) |-> doc[d]]
Intended(o) == [d \in Files(o) |-> o]
Baseline(o) == row[o].baseline

Alive(a)      == agent[a].pc # "exited"
Unresolved(o) == row[o].status \in {"dispatched", "unknown"} /\ ~row[o].resolution
Members(o)    == Files(o) \union {PrimaryOf[o]}

\* The rows whose document existed, in the order of the plan.
HadBytes(o) ==
    LET had == {i \in DOMAIN FilesOf[o] : Baseline(o)[FilesOf[o][i]] # Absent}
        Rank(i) == Cardinality({j \in had : j <= i})
    IN  [k \in 1..Cardinality(had) |->
            FilesOf[o][CHOOSE i \in had : Rank(i) = k]]

Tagged(kind, ds) == [i \in DOMAIN ds |-> <<kind, ds[i]>>]

\* Mutant of CleanupPaths: the journal is left behind.
CleanupPathsNoJournal(o) ==
    Tagged("backup", HadBytes(o)) \o Tagged("lock", FilesOf[o])

\* cleanup_paths: backups, locks, the primary's lock once, its journal last.
CleanupPaths(o) ==
    Tagged("backup", HadBytes(o)) \o Tagged("lock", FilesOf[o])
    \o (IF PrimaryOf[o] \in Files(o) THEN <<>> ELSE <<<<"lock", PrimaryOf[o]>>>>)
    \o <<<<"journal", PrimaryOf[o]>>>>

\* The operation that the sidecar at this path of o names, None without a file.
Holder(o, path) ==
    CASE path[1] = "backup"  -> IF <<o, path[2]>> \in backup THEN o ELSE None
      [] path[1] = "lock"    -> lock[path[2]]
      [] path[1] = "journal" -> journal[path[2]]

BackedUp(o) ==
    \A d \in Files(o) : Baseline(o)[d] # Absent => <<o, d>> \in backup \ spoilt
ArchivedSome(o) == \E d \in Files(o) : <<o, d>> \in archive   \* mutant of Archived
Archived(o) == \A d \in Files(o) : Baseline(o)[d] # Absent => <<o, d>> \in archive

\* owned, with required=True: every file is attributable to o.
Owned(o) ==
    IF ckpt[o].phase # "none"
    THEN /\ Current(o) = observed[o]
         /\ Archived(o)
         /\ \A i \in DOMAIN CleanupPaths(o) :
                LET now == Holder(o, CleanupPaths(o)[i]) IN
                IF i <= ckpt[o].cursor THEN now = None
                ELSE \/ now = ckpt[o].held[i]
                     \/ i = ckpt[o].cursor + 1 /\ ckpt[o].pending /\ now = None
    ELSE /\ journal[PrimaryOf[o]] = o
         /\ \A d \in Members(o) : lock[d] = o
         /\ BackedUp(o)
         /\ observed[o] # <<>> => observed[o] = Current(o)

\* Mutant of Taken: the exclusive creation of the lock file is not relied on.
TakenByJournal(d) == journal[d] # None

\* An unfinished document write of any operation is on this path.
Taken(d) == lock[d] # None \/ journal[d] # None

Goto(a, pc) == agent' = [agent EXCEPT ![a].pc = pc]
GotoAt(a, pc, i) == agent' = [agent EXCEPT ![a] = [@ EXCEPT !.pc = pc, !.i = i]]

\* Where an exception takes the process: a writer replies with a receipt that
\* says unknown, a resolver refuses.
Raise(a) == Goto(a, IF agent[a].mode = "resolve" THEN "refused" ELSE "uncertain")

-----------------------------------------------------------------------------
(* Confirm, guard, arm.                                                     *)

\* The store dispatches o, whose plan still validates against the documents.
Confirm(a, o) ==
    /\ agent[a].pc = "idle"
    /\ row[o].status = "planned"
    /\ \A other \in Ops \ {o} :
          PrimaryOf[other] = PrimaryOf[o] => ~Unresolved(other)
    /\ row' = [row EXCEPT ![o] = [@ EXCEPT !.status = "dispatched",
                                           !.writer = a,
                                           !.baseline = Current(o)]]
    /\ agent' = [agent EXCEPT ![a] = [@ EXCEPT !.pc = "confirmed", !.op = o,
                                               !.mode = "commit"]]
    /\ UNCHANGED <<doc, sidecarVars, proofVars>>

\* A checkpoint that makes _guard_documents refuse its members.
Guards(other) ==
    /\ ckpt[other].phase # "none"
    /\ \/ ckpt[other].phase = "cleaning"
       \/ row[other].status = "pruned"
       \/ ~row[other].receipt /\ ~row[other].resolution

\* _guard_documents, first loop: the checkpoints of all operations.
GuardCheckpoints(a) ==
    /\ agent[a].pc = "confirmed"
    /\ LET o == agent[a].op IN
       Goto(a, IF \E other \in Ops : /\ Guards(other)
                                     /\ Members(other) \cap Members(o) # {}
               THEN "refused" ELSE "guarded")
    /\ UNCHANGED <<doc, sidecarVars, proofVars, row>>

\* _guard_documents, second loop: the members' locks and journals.
GuardLocks(a) ==
    /\ agent[a].pc = "guarded"
    /\ Goto(a, IF \E d \in Members(agent[a].op) : Taken(d)
               THEN "refused" ELSE "unlocked")
    /\ UNCHANGED <<doc, sidecarVars, proofVars, row>>

\* arm goes on with what it has made so far.
GotoMade(a, pc, i, made) ==
    agent' = [agent EXCEPT ![a] = [@ EXCEPT !.pc = pc, !.i = i, !.made = made]]

\* arm: the journal is absent and the primary's lock is created exclusively.
ArmPrimary(a) ==
    LET d == PrimaryOf[agent[a].op] IN
    /\ agent[a].pc = "unlocked"
    /\ IF Taken(d)
       THEN Goto(a, "refused") /\ UNCHANGED lock
       ELSE /\ lock' = [lock EXCEPT ![d] = agent[a].op]
            /\ GotoMade(a, "arming", 1, {<<"lock", d>>})
    /\ UNCHANGED <<doc, journal, backup, spoilt, proofVars, row>>

\* Mutant of ArmLock: a lock is listed as made before it has been created.
ArmLockListed(a) ==
    LET o == agent[a].op
        i == agent[a].i
        d == FilesOf[o][i]
        made == agent[a].made \union {<<"lock", d>>}
    IN
    /\ agent[a].pc = "arming" /\ i <= Len(FilesOf[o])
    /\ IF d # PrimaryOf[o] /\ Taken(d)
       THEN GotoMade(a, "undoing", i, made) /\ UNCHANGED lock
       ELSE /\ lock' = IF d = PrimaryOf[o] THEN lock ELSE [lock EXCEPT ![d] = o]
            /\ GotoMade(a, IF doc[d] = Baseline(o)[d] THEN "checked" ELSE "undoing",
                        i, made)
    /\ UNCHANGED <<doc, journal, backup, spoilt, proofVars, row>>

\* arm, one row: lock the document, unless it is the primary, and compare it
\* with the plan.
ArmLock(a) ==
    LET o == agent[a].op
        i == agent[a].i
        d == FilesOf[o][i]
    IN
    /\ agent[a].pc = "arming" /\ i <= Len(FilesOf[o])
    /\ IF d # PrimaryOf[o] /\ Taken(d)
       THEN Goto(a, "undoing") /\ UNCHANGED lock
       ELSE /\ lock' = IF d = PrimaryOf[o] THEN lock ELSE [lock EXCEPT ![d] = o]
            /\ GotoMade(a, IF doc[d] = Baseline(o)[d] THEN "checked" ELSE "undoing",
                        i, agent[a].made \union {<<"lock", d>>})
    /\ UNCHANGED <<doc, journal, backup, spoilt, proofVars, row>>

\* arm, the same row: a second read of the document is its backup.
ArmBackup(a) ==
    LET o == agent[a].op
        i == agent[a].i
        d == FilesOf[o][i]
    IN
    /\ agent[a].pc = "checked"
    /\ \/ /\ Baseline(o)[d] = Absent
          /\ GotoAt(a, "arming", i + 1) /\ UNCHANGED <<backup, spoilt>>
       \/ /\ Baseline(o)[d] # Absent /\ <<o, d>> \in backup
          /\ Goto(a, "undoing") /\ UNCHANGED <<backup, spoilt>>
       \/ /\ Baseline(o)[d] # Absent /\ <<o, d>> \notin backup
          /\ backup' = backup \union {<<o, d>>}
          /\ spoilt' = IF doc[d] = Baseline(o)[d] THEN spoilt
                       ELSE spoilt \union {<<o, d>>}
          /\ GotoMade(a, "arming", i + 1, agent[a].made \union {<<"backup", d>>})
    /\ UNCHANGED <<doc, lock, journal, proofVars, row>>

\* arm ends with the signed journal.
ArmJournal(a) ==
    LET o == agent[a].op IN
    /\ agent[a].pc = "arming" /\ agent[a].i > Len(FilesOf[o])
    /\ IF journal[PrimaryOf[o]] # None
       THEN Goto(a, "undoing") /\ UNCHANGED journal
       ELSE /\ journal' = [journal EXCEPT ![PrimaryOf[o]] = o]
            /\ GotoAt(a, "saving", 1)
    /\ UNCHANGED <<doc, lock, backup, spoilt, proofVars, row>>

\* A file of arm cannot be read or written.
ArmFails(a) ==
    /\ agent[a].pc \in {"arming", "checked"}
    /\ Goto(a, "undoing")
    /\ UNCHANGED <<doc, sidecarVars, proofVars, row>>

Remove(o, path) ==
    /\ lock' = IF path[1] = "lock" THEN [lock EXCEPT ![path[2]] = None] ELSE lock
    /\ journal' = IF path[1] = "journal"
                  THEN [journal EXCEPT ![path[2]] = None] ELSE journal
    /\ backup' = IF path[1] = "backup" THEN backup \ {<<o, path[2]>>} ELSE backup
    /\ spoilt' = IF path[1] = "backup" THEN spoilt \ {<<o, path[2]>>} ELSE spoilt

\* The backups, then the locks, the primary's first.
UndoOrder(o) ==
    Tagged("backup", FilesOf[o]) \o Tagged("lock", <<PrimaryOf[o]>> \o FilesOf[o])

\* The next sidecar that arm has made is deleted again, whoever it names.
ArmUndo(a) ==
    LET o == agent[a].op
        made == agent[a].made
    IN
    /\ agent[a].pc = "undoing"
    /\ \E n \in DOMAIN UndoOrder(o) :
          LET path == UndoOrder(o)[n]
              left == made \ {path}
          IN  /\ path \in made /\ \A m \in 1..(n - 1) : UndoOrder(o)[m] \notin made
              /\ Holder(o, path) # None
              /\ Remove(o, path)
              /\ GotoMade(a, IF left = {} THEN "refused" ELSE "undoing",
                          agent[a].i, left)
    /\ UNCHANGED <<doc, proofVars, row>>

\* It cannot be deleted: that error is reported instead, the rest stays.
UndoFails(a) ==
    /\ agent[a].pc = "undoing"
    /\ Goto(a, "refused")
    /\ UNCHANGED <<doc, sidecarVars, proofVars, row>>

-----------------------------------------------------------------------------
(* Save, verify, restore.                                                   *)

\* Mutant of Save: the document is not compared again before it is replaced.
SaveBlind(a) ==
    LET o == agent[a].op IN
    /\ agent[a].pc = "saving" /\ agent[a].i <= Len(FilesOf[o])
    /\ doc' = [doc EXCEPT ![FilesOf[o][agent[a].i]] = o]
    /\ GotoAt(a, "saving", agent[a].i + 1)
    /\ UNCHANGED <<sidecarVars, proofVars, row>>

\* Replace the next document, unless it no longer is the planned one.
Save(a) ==
    LET o == agent[a].op
        d == FilesOf[o][agent[a].i]
    IN
    /\ agent[a].pc = "saving" /\ agent[a].i <= Len(FilesOf[o])
    /\ IF doc[d] # Baseline(o)[d]
       THEN Goto(a, "failing") /\ UNCHANGED doc
       ELSE /\ doc' = [doc EXCEPT ![d] = o]
            /\ GotoAt(a, "saving", agent[a].i + 1)
    /\ UNCHANGED <<sidecarVars, proofVars, row>>

\* The readback of the whole set matches the plan.
Verify(a) ==
    LET o == agent[a].op IN
    /\ agent[a].pc = "saving" /\ agent[a].i > Len(FilesOf[o])
    /\ Goto(a, IF Current(o) = Intended(o) THEN "closing" ELSE "failing")
    /\ UNCHANGED <<doc, sidecarVars, proofVars, row>>

\* A write or a check between arm and cleanup raises.
SaveFails(a) ==
    /\ agent[a].pc = "saving"
    /\ Goto(a, "failing")
    /\ UNCHANGED <<doc, sidecarVars, proofVars, row>>

\* Mutant of Rollback: the bytes of the documents are not looked at.
RollbackBlind(a) ==
    /\ agent[a].pc = "failing"
    /\ IF ckpt[agent[a].op].phase = "none" /\ Owned(agent[a].op)
       THEN agent' = [agent EXCEPT ![a] =
                        [@ EXCEPT !.pc = "restoring", !.mode = "rollback",
                                  !.i = Len(FilesOf[agent[a].op]),
                                  !.seen = Current(agent[a].op)]]
       ELSE Raise(a)
    /\ UNCHANGED <<doc, sidecarVars, proofVars, row>>

\* rollback: every target is attributable before any is restored.  This is the
\* only look at the bytes that are restored over.
Rollback(a) ==
    LET o == agent[a].op IN
    /\ agent[a].pc = "failing"
    /\ IF /\ ckpt[o].phase = "none" /\ observed[o] = <<>>
          /\ Owned(o)
          /\ \A d \in Files(o) : doc[d] \in {Baseline(o)[d], o}
       THEN agent' = [agent EXCEPT ![a] =
                        [@ EXCEPT !.pc = "restoring", !.mode = "rollback",
                                  !.i = Len(FilesOf[o]), !.seen = Current(o)]]
       ELSE Raise(a)
    /\ UNCHANGED <<doc, sidecarVars, proofVars, row>>

\* rollback, one row from the last to the first, over what is there by now.
Restore(a) ==
    LET o == agent[a].op
        d == FilesOf[o][agent[a].i]
    IN
    /\ agent[a].pc = "restoring" /\ agent[a].i > 0
    /\ doc' = [doc EXCEPT ![d] = Baseline(o)[d]]
    /\ GotoAt(a, "restoring", agent[a].i - 1)
    /\ UNCHANGED <<sidecarVars, proofVars, row>>

Restored(a) ==
    LET o == agent[a].op IN
    /\ agent[a].pc = "restoring" /\ agent[a].i = 0
    /\ IF Current(o) = Baseline(o) THEN Goto(a, "closing") ELSE Raise(a)
    /\ UNCHANGED <<doc, sidecarVars, proofVars, row>>

RestoreFails(a) ==
    /\ agent[a].pc = "restoring"
    /\ Raise(a)
    /\ UNCHANGED <<doc, sidecarVars, proofVars, row>>

-----------------------------------------------------------------------------
(* cleanup(mode), for a commit, a rollback and an operation resolve.        *)

\* A new decision is about the planned bytes, the baseline, or what the
\* resolution's readback saw; a resumed one is only compared with the latter.
Decidable(a) ==
    LET o == agent[a].op
        mode == agent[a].mode
        fresh == ckpt[o].phase = "none"
    IN  /\ Owned(o)
        /\ mode = "resolve" => Current(o) = agent[a].seen
        /\ fresh /\ mode = "commit" => Current(o) = Intended(o)
        /\ fresh /\ mode = "rollback" => Current(o) = Baseline(o)

\* Entry: bind a new archive preparation, or load the checkpoint.
CleanupBegin(a) ==
    LET o == agent[a].op IN
    /\ agent[a].pc = "closing"
    /\ \/ ~Decidable(a) /\ Raise(a) /\ UNCHANGED observed
       \/ /\ Decidable(a) /\ ckpt[o].phase = "none"
          /\ observed' = [observed EXCEPT ![o] = Current(o)]
          /\ Goto(a, "archiving")
       \/ /\ Decidable(a) /\ ckpt[o].phase # "none"
          /\ agent' = [agent EXCEPT ![a] =
                [@ EXCEPT !.pc = "deleting", !.i = ckpt[o].cursor,
                          !.pending = ckpt[o].pending, !.held = ckpt[o].held]]
          /\ UNCHANGED observed
    /\ UNCHANGED <<doc, sidecarVars, archive, ckpt, row>>

\* prepare_archives publishes the next baseline from its backup.
PublishArchive(a) ==
    LET o == agent[a].op IN
    /\ agent[a].pc = "archiving"
    /\ \E d \in Files(o) :
          /\ <<o, d>> \in backup \ (spoilt \union archive)
          /\ \A i, j \in DOMAIN FilesOf[o] :
                FilesOf[o][j] = d /\ i < j /\ Baseline(o)[FilesOf[o][i]] # Absent
                    => <<o, FilesOf[o][i]>> \in archive
          /\ archive' = archive \union {<<o, d>>}
    /\ UNCHANGED <<doc, sidecarVars, observed, ckpt, row, agent>>

\* persist: a process writes its own copy of the progress over the checkpoint.
Persist(a, phase, cursor, pending, held) ==
    ckpt' = [ckpt EXCEPT ![agent[a].op] =
                [phase |-> phase, cursor |-> cursor, pending |-> pending,
                 held |-> held]]

\* All baselines are archived: the signed checkpoint starts the deletions.  It
\* records what is at each path now, whoever made it.
Checkpoint(a) ==
    LET o == agent[a].op
        now == [i \in DOMAIN CleanupPaths(o) |-> Holder(o, CleanupPaths(o)[i])]
    IN
    /\ agent[a].pc = "archiving"
    /\ Archived(o)
    /\ Persist(a, "cleaning", 0, FALSE, now)
    /\ agent' = [agent EXCEPT ![a] = [@ EXCEPT !.pc = "deleting", !.i = 0,
                                               !.pending = FALSE, !.held = now]]
    /\ UNCHANGED <<doc, sidecarVars, archive, observed, row>>

\* Mutant of Intend: the deletion is not announced in the checkpoint.
IntendUnrecorded(a) ==
    /\ agent[a].pc = "deleting" /\ agent[a].i < Len(CleanupPaths(agent[a].op))
    /\ Owned(agent[a].op)
    /\ Goto(a, "unlinking")
    /\ UNCHANGED <<doc, sidecarVars, proofVars, row>>

\* The loop attributes everything again and persists the next deletion.  The
\* process keeps its own copy of the progress and writes that back.
Intend(a) ==
    LET o == agent[a].op IN
    /\ agent[a].pc = "deleting" /\ agent[a].i < Len(CleanupPaths(o))
    /\ IF ~Owned(o)
       THEN Raise(a) /\ UNCHANGED ckpt
       ELSE /\ IF agent[a].pending THEN UNCHANGED ckpt
               ELSE Persist(a, "cleaning", agent[a].i, TRUE, agent[a].held)
            /\ agent' = [agent EXCEPT ![a] = [@ EXCEPT !.pc = "unlinking",
                                                       !.pending = TRUE]]
    /\ UNCHANGED <<doc, sidecarVars, archive, observed, row>>

\* Delete the pending sidecar if it is there and still is the recorded one; a
\* changed one leaves only CleanupFails.
Unlink(a) ==
    LET o == agent[a].op
        path == CleanupPaths(o)[agent[a].i + 1]
    IN
    /\ agent[a].pc = "unlinking"
    /\ Goto(a, "unlinked")
    /\ \/ Holder(o, path) = None /\ UNCHANGED sidecarVars
       \/ /\ Holder(o, path) # None
          /\ Holder(o, path) = agent[a].held[agent[a].i + 1]
          /\ Remove(o, path)
    /\ UNCHANGED <<doc, proofVars, row>>

Acknowledge(a) ==
    /\ agent[a].pc = "unlinked"
    /\ Persist(a, "cleaning", agent[a].i + 1, FALSE, agent[a].held)
    /\ agent' = [agent EXCEPT ![a] = [@ EXCEPT !.pc = "deleting",
                                               !.i = agent[a].i + 1,
                                               !.pending = FALSE]]
    /\ UNCHANGED <<doc, sidecarVars, archive, observed, row>>

\* Every deletion is acknowledged: the phase becomes cleaned.
Cleaned(a) ==
    /\ agent[a].pc = "deleting" /\ agent[a].i = Len(CleanupPaths(agent[a].op))
    /\ Persist(a, "cleaned", agent[a].i, FALSE, agent[a].held)
    /\ Goto(a, CASE agent[a].mode = "commit"   -> "completed"
                 [] agent[a].mode = "rollback" -> "restored"
                 [] agent[a].mode = "resolve"  -> "resolved")
    /\ UNCHANGED <<doc, sidecarVars, archive, observed, row>>

\* A read, a write or an unlink of the cleanup fails, or the readback or the
\* receipt after it: a saved set is not restored any more.
CleanupFails(a) ==
    /\ agent[a].pc \in {"closing", "archiving", "deleting", "unlinking",
                        "unlinked", "completed", "restored"}
    /\ Raise(a)
    /\ UNCHANGED <<doc, sidecarVars, proofVars, row>>

-----------------------------------------------------------------------------
(* The end of a process, and operation resolve.                             *)

\* Mutant of Undispatch: any reported failure counts as not started.
UndispatchAny(a) ==
    /\ agent[a].pc \in {"refused", "uncertain"} /\ agent[a].mode # "resolve"
    /\ row' = [row EXCEPT ![agent[a].op] = [@ EXCEPT !.status = "planned",
                                                     !.writer = None]]
    /\ Goto(a, "exited")
    /\ UNCHANGED <<doc, sidecarVars, proofVars>>

\* A refusal before the journal: not_started, and store.undispatch.
Undispatch(a) ==
    LET o == agent[a].op IN
    /\ agent[a].pc = "refused" /\ agent[a].mode = "commit"
    /\ row' = [row EXCEPT ![o] = [@ EXCEPT !.status = "planned",
                                           !.writer = None]]
    /\ Goto(a, "exited")
    /\ UNCHANGED <<doc, sidecarVars, proofVars>>

\* Mutant of Finish: an uncertain outcome is recorded as final.
FinishAnyway(a) ==
    LET o == agent[a].op IN
    /\ agent[a].pc \in {"completed", "restored", "uncertain"}
    /\ row' = [row EXCEPT ![o] = [@ EXCEPT !.status = "finished",
                                           !.receipt = TRUE]]
    /\ Goto(a, "exited")
    /\ UNCHANGED <<doc, sidecarVars, proofVars>>

\* store.finish: completed and restored are final, the rest is unknown with a
\* receipt that says so.
Finish(a) ==
    LET o == agent[a].op IN
    /\ agent[a].pc \in {"completed", "restored", "uncertain"}
    /\ row' = [row EXCEPT ![o] = [@ EXCEPT
          !.status = IF agent[a].pc = "uncertain" THEN "unknown" ELSE "finished",
          !.receipt = TRUE]]
    /\ Goto(a, "exited")
    /\ UNCHANGED <<doc, sidecarVars, proofVars>>

\* Died, or was interrupted, before it could record anything.
Crash(a) ==
    /\ agent[a].pc \notin {"idle", "exited"}
    /\ Goto(a, "exited")
    /\ UNCHANGED <<doc, sidecarVars, proofVars, row>>

\* An editor saves a document, with bytes no plan has seen.
Edit(d, e) ==
    /\ doc[d] # e
    /\ \A o \in Ops : d \in DOMAIN Baseline(o) => Baseline(o)[d] # e
    /\ doc' = [doc EXCEPT ![d] = e]
    /\ UNCHANGED <<sidecarVars, proofVars, row, agent>>

\* The writer is gone and the readback of the set is the asserted outcome.
ResolveBegin(a, o) ==
    /\ agent[a].pc = "idle"
    /\ OneResolver => \A b \in Agents : Alive(b) => agent[b].mode # "resolve"
    /\ Unresolved(o)
    /\ row[o].writer # None /\ ~Alive(row[o].writer)
    /\ \A d \in Files(o) : doc[d] \in {Baseline(o)[d], o}
    /\ agent' = [agent EXCEPT ![a] = [@ EXCEPT !.pc = "closing", !.op = o,
                                               !.mode = "resolve",
                                               !.seen = Current(o)]]
    /\ UNCHANGED <<doc, sidecarVars, proofVars, row>>

\* store.resolve, after the sidecars are gone.
Resolve(a) ==
    LET o == agent[a].op IN
    /\ agent[a].pc = "resolved"
    /\ row' = IF Unresolved(o)
              THEN [row EXCEPT ![o] = [@ EXCEPT !.status = "unknown",
                                                !.resolution = TRUE]]
              ELSE row
    /\ Goto(a, "exited")
    /\ UNCHANGED <<doc, sidecarVars, proofVars>>

ResolveRefused(a) ==
    /\ agent[a].pc = "refused" /\ agent[a].mode = "resolve"
    /\ Goto(a, "exited")
    /\ UNCHANGED <<doc, sidecarVars, proofVars, row>>

\* store.prune deletes a settled row after retain_days; checkpoints stay.
Prune(o) ==
    /\ row[o].status = "finished" \/ row[o].resolution
    /\ row[o].status # "pruned"
    /\ row' = [row EXCEPT ![o].status = "pruned"]
    /\ UNCHANGED <<doc, sidecarVars, proofVars, agent>>

-----------------------------------------------------------------------------
Step(a) ==
    \/ GuardCheckpoints(a) \/ GuardLocks(a)
    \/ ArmPrimary(a) \/ ArmLock(a) \/ ArmBackup(a) \/ ArmJournal(a)
    \/ ArmFails(a) \/ ArmUndo(a) \/ UndoFails(a)
    \/ Save(a) \/ Verify(a) \/ SaveFails(a)
    \/ Rollback(a) \/ Restore(a) \/ Restored(a) \/ RestoreFails(a)
    \/ CleanupBegin(a) \/ PublishArchive(a) \/ Checkpoint(a)
    \/ Intend(a) \/ Unlink(a) \/ Acknowledge(a) \/ Cleaned(a) \/ CleanupFails(a)
    \/ Undispatch(a) \/ Finish(a) \/ Resolve(a) \/ ResolveRefused(a)

Next ==
    \/ \E a \in Agents : Step(a) \/ Crash(a)
    \/ \E a \in Agents, o \in Ops : Confirm(a, o) \/ ResolveBegin(a, o)
    \/ \E o \in Ops : Prune(o)
    \/ \E d \in Docs, e \in Edits : Edit(d, e)

Spec == Init /\ [][Next]_vars

-----------------------------------------------------------------------------
(* Properties.                                                              *)

\* Between arm and the first deletion of its sidecars.
HoldsSet(a) ==
    /\ agent[a].mode \in {"commit", "rollback"}
    /\ agent[a].pc \in {"saving", "failing", "restoring", "closing", "archiving"}

\* Two processes never both hold a document, however their document sets
\* overlap and whatever the guards read before arm (exclusive lock files).
DisjointWriters ==
    \A a, b \in Agents :
        /\ HoldsSet(a) /\ HoldsSet(b)
        /\ Members(agent[a].op) \cap Members(agent[b].op) # {}
        => a = b

\* From the journal on, the old bytes of every document of the set are in a
\* backup or in the archive, at every step of a save, a restore, a cleanup, a
\* crash and a resolve (backup before save, archive before unlink).  The one
\* exception: an editor replaced them between arm's check and its backup, and
\* then the operation never writes that document.
BaselineKept ==
    \A o \in Ops :
        journal[PrimaryOf[o]] = o \/ ckpt[o].phase # "none" =>
            \A d \in Files(o) :
                \/ Baseline(o)[d] = Absent
                \/ <<o, d>> \in (backup \ spoilt) \union archive
                \/ <<o, d>> \in spoilt /\ doc[d] \in Edits

\* An operation recorded as finished was decided on the whole set saved or the
\* whole set restored, never on some of its documents, and never on bytes of an
\* editor (engineering _apply_documents).
NoTornSet ==
    \A o \in Ops : row[o].status = "finished" =>
        observed[o] \in {Intended(o), Baseline(o)}

\* "preserve external edit": bytes of an outside editor are replaced only by an
\* operation that was planned on them, or by a rollback that read this document
\* before the editor saved it; an edit that a rollback could see stops it, also
\* in a set of which only some documents were edited (_apply_documents, rollback).
EditsSurvive ==
    [][\A d \in Docs :
           doc[d] \in Edits /\ doc'[d] # doc[d] /\ agent' # agent =>
               \/ \E o \in Ops : /\ d \in DOMAIN Baseline(o)
                                 /\ Baseline(o)[d] = doc[d] /\ doc'[d] = o
               \/ \E a \in Agents : /\ agent[a].pc = "restoring"
                                    /\ d \in DOMAIN agent[a].seen
                                    /\ agent[a].seen[d] # doc[d]]_vars

\* A finished and a resolved operation have no sidecar.
ClosedLeavesNothing ==
    \A o \in Ops :
        row[o].status = "finished" \/ row[o].resolution =>
            /\ \A d \in Docs : lock[d] # o /\ journal[d] # o
            /\ \A d \in Docs : <<o, d>> \notin backup

\* "not_started" is true: a plan that waits, refused by arm or not yet tried, has
\* no journal, no decision and none of its bytes in a document, also when the
\* undo of arm failed and left locks and backups behind.
WaitingUntouched ==
    \A o \in Ops : row[o].status = "planned" =>
        /\ journal[PrimaryOf[o]] # o /\ ckpt[o].phase = "none"
        /\ \A d \in Docs : doc[d] # o

\* A lock or a journal is deleted only by a process that works on the operation
\* it names: the undo of arm and the cleanups of overlapping sets do not take
\* each other's locks away.
CleansOnlyOwn ==
    [][\A d \in Docs :
          \A old \in ({lock[d]} \ {lock'[d]}) \union ({journal[d]} \ {journal'[d]}) :
              old # None => \E a \in Agents : /\ agent'[a] # agent[a]
                                              /\ agent[a].op = old]_vars

\* "A process interruption can therefore resume at any backup, lock or journal
\* deletion, including during resolve itself": once nobody works on it, what
\* is on disk of an operation that is armed, or has written a document, still
\* passes attribution, unless an editor has changed the set.
CleanupResumes ==
    \A o \in Ops :
        /\ \/ journal[PrimaryOf[o]] = o \/ ckpt[o].phase # "none"
           \/ Unresolved(o) /\ \E d \in Docs : doc[d] = o
        /\ \A d \in DOMAIN Baseline(o) : doc[d] \in Edits => doc[d] = Baseline(o)[d]
        /\ \A a \in Agents : agent[a].op = o => ~Alive(a)
        => Owned(o)

\* "An unresolved operation blocks later writes to all members of the document
\* set, including a secondary member whose sidecar lock was already removed."
UnresolvedBlocksMembers ==
    [][\A d \in Docs : doc'[d] \in Ops \ {doc[d]} =>
          \A o \in Ops \ {doc'[d]} :
              d \in Members(o) =>
                 ~(Unresolved(o) /\ (\/ journal[PrimaryOf[o]] = o
                                    \/ ckpt[o].phase # "none"))]_vars

\* An operation whose cleanup is complete and whose outcome was recorded does
\* not block its documents any more.
RegisteredAdmits ==
    \A o \in Ops :
        ckpt[o].phase = "cleaned" /\ (row[o].receipt \/ row[o].resolution)
            => ~Guards(o)

-----------------------------------------------------------------------------
(* The abstract set save.                                                   *)

Decided(o) == ckpt[o].phase # "none"

\* A set is held from the journal of arm to the checkpoint of cleanup.
SavePhase(o) == IF Decided(o) THEN "decided"
                ELSE IF journal[PrimaryOf[o]] = o THEN "holding" ELSE "waiting"

HeldBase(o) == IF SavePhase(o) = "waiting" THEN <<>> ELSE Baseline(o)
Decision(o) == IF Decided(o) THEN observed[o] ELSE <<>>
Final(o)    == row[o].status \in {"finished", "pruned"} /\ ~row[o].resolution

Saves == INSTANCE SetSaves WITH
    FilesIn   <- [o \in Ops |-> Files(o)],
    MembersOf <- [o \in Ops |-> Members(o)],
    phase     <- [o \in Ops |-> SavePhase(o)],
    base      <- [o \in Ops |-> HeldBase(o)],
    decision  <- [o \in Ops |-> Decision(o)],
    final     <- [o \in Ops |-> Final(o)]

\* Locks, journal, checkpoint and guards make the many file accesses of arm,
\* save, rollback and cleanup look like one exclusive set save with one decision
\* (DocumentTransaction, _apply_documents).
ImplementsSetSaves == Saves!Spec

=============================================================================
