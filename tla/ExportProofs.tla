---------------------------- MODULE ExportProofs ----------------------------
(***************************************************************************)
(* Proofs about ExportPublication for every number of operations,          *)
(* processes and files: types, what the rows say of the lock, what the     *)
(* lock and the journals say of the native children, and what the rows say *)
(* of the published files.                                                 *)
(***************************************************************************)
EXTENDS ExportPublication, TLAPS

-----------------------------------------------------------------------------
(* The inductive invariant: rows.                                           *)

Live(a)     == agent[a].pc \notin {"idle", "exited"}
OwnsLock(o) == lock # None /\ lock.op = o

Early    == {"confirmed", "locking", "refused"}
Resolver == {"archiving", "unlinking", "registering"}
Writing  == {"drafting", "replacing"}

\* Where a writer goes on to once its next journal is written.
Thens == {"starting", "waiting", "generated", "making", "terminating"}

\* A writer holds the row of its operation, from the lock on with its journal.
HoldsRow(a) ==
    LET o  == agent[a].op
        pc == agent[a].pc
    IN
    /\ row[o].status = "dispatched" /\ row[o].writer = a /\ row[o].resolution = None
    /\ pc \in Early => ~ghost[o].took
    /\ pc \notin Early =>
          ghost[o].took /\ agent[a].journal # None /\ agent[a].journal.op = o
    /\ pc \in Writing => agent[a].then \in Thens
    /\ pc = "succeeded" => ~OwnsLock(o)

\* Any number of resolves may have read the row of a dead writer.
ReadsRow(a) ==
    LET o == agent[a].op IN
    /\ agent[a].seen # None
    /\ row[o].status # "planned" /\ row[o].writer \in Agents /\ ~Alive(row[o].writer)
    /\ agent[a].pc = "registering" => ~OwnsLock(o)

AgentRow(a) ==
    Live(a) => /\ agent[a].op \in Ops
               /\ IF agent[a].pc \in Resolver THEN ReadsRow(a) ELSE HoldsRow(a)

\* What a row says of the lock of its operation.
OpRow(o) ==
    /\ row[o].status = "planned" => ~ghost[o].took /\ row[o].resolution = None
    /\ row[o].status # "planned" => row[o].writer \in Agents
    /\ ~ghost[o].took => ~OwnsLock(o)
    /\ row[o].status = "succeeded" \/ row[o].resolution # None => ~OwnsLock(o)

RowInv ==
    /\ TypeOK
    /\ \A a \in Agents : AgentRow(a)
    /\ \A o \in Ops : OpRow(o)

-----------------------------------------------------------------------------
(* The inductive invariant: lock, journals and children.                    *)

\* The process has not given up: its journal in memory is that of the lock,
\* except while it writes the next one.
Settled  == {"staging", "copying", "starting", "spawned", "waiting", "generated",
             "checking", "making", "publishing", "filing", "terminating", "unlocking",
             "releasing", "dropping"}

\* Where the process is, or will be once its journal is written.
At(a) == IF agent[a].pc \in Writing THEN agent[a].then ELSE agent[a].pc

\* What a journal of o says of the child of o.
Says(j, o) ==
    /\ j # None /\ j.op = o /\ j.phase # "failed-no-artifacts"
    /\ j.phase = "prepared" => child[o] = "none"
    /\ j.phase = "spawning" => ~j.stopped
    /\ j.phase = "generating" => j.native
    /\ j.phase \in {"generated", "publishing", "completed"} => j.stopped
    /\ j.stopped => child[o] = "stopped"

\* Row, lock and journal at each position of a writer.
WriterAt(a) ==
    LET o  == agent[a].op
        pc == agent[a].pc
        j  == agent[a].journal
    IN
    /\ row[o].status = "dispatched" /\ row[o].writer = a /\ row[o].resolution = None
    /\ pc \in Early => ~ghost[o].took
    /\ pc \notin Early => ghost[o].took /\ Says(j, o)
    /\ pc \in Settled => lock = j
    /\ pc \in Writing =>
          /\ OwnsLock(o)
          /\ agent[a].then \in Thens
          /\ agent[a].then # "starting" => lock.phase # "prepared"
    /\ At(a) \in {"staging", "copying"} => j.phase = "prepared"
    /\ At(a) \in {"starting", "spawned"} => j.phase = "spawning"
    /\ At(a) = "waiting" => j.phase = "generating"
    /\ At(a) \in {"generated", "checking"} => j.phase = "generated"
    /\ At(a) \in {"making", "publishing", "filing"} => j.phase = "publishing"
    /\ At(a) \in {"terminating", "unlocking"} => j.phase = "completed"
    /\ pc \in {"unlocking", "succeeded", "dropping"} => stage[o].terminal # None
    /\ pc \in {"releasing", "dropping"} => Releasable(j)
    /\ pc = "succeeded" => ~OwnsLock(o)

\* The same for operation resolve: its operation has a dead writer.
ResolverAt(a) ==
    LET o == agent[a].op IN
    /\ agent[a].seen # None
    /\ Unresolved(o) /\ ~Alive(row[o].writer)
    /\ agent[a].pc = "unlinking" => OwnsLock(o) /\ child[o] # "running" /\ o \in archive
    /\ agent[a].pc = "registering" => ~OwnsLock(o)

AgentInv(a) ==
    Live(a) => /\ agent[a].op \in Ops
               /\ IF agent[a].pc \in Resolver THEN ResolverAt(a) ELSE WriterAt(a)

\* One process works on an operation at a time.
Alone == \A a, b \in Agents :
    Live(a) /\ Live(b) /\ agent[a].op = agent[b].op => a = b

\* What holds of an operation whoever is alive.
OpInv(o) ==
    /\ row[o].status = "planned" => ~ghost[o].took /\ row[o].resolution = None
    /\ row[o].status # "planned" => row[o].writer \in Agents
    /\ ~ghost[o].took => ~OwnsLock(o) /\ child[o] = "none"
    /\ ghost[o].took => OwnsLock(o) \/ stage[o].terminal # None \/ o \in archive
    /\ stage[o].terminal # None =>
          /\ stage[o].terminal.op = o
          /\ stage[o].terminal.phase \in {"completed", "failed-no-artifacts"}
    /\ child[o] = "running" => OwnsLock(o)
    /\ OwnsLock(o) => Says(lock, o)
    /\ row[o].status = "succeeded" \/ row[o].resolution # None => ~OwnsLock(o)

LockInv ==
    /\ TypeOK /\ Alone
    /\ \A a \in Agents : AgentInv(a)
    /\ \A o \in Ops : OpInv(o)

-----------------------------------------------------------------------------
(* The inductive invariant: the published files.                            *)

\* What the process and the output say of the files it has published.
WriterFiles(a) ==
    LET o == agent[a].op IN
    /\ ghost[o].published = agent[a].done
    /\ ~agent[a].published => agent[a].done = {}
    /\ agent[a].pc \in {"publishing", "filing"} => agent[a].published
    /\ agent[a].pc = "filing" => output # None /\ output.maker = o
    /\ At(a) \in {"terminating", "unlocking", "succeeded"} =>
          agent[a].done = FileNames
    /\ agent[a].pc \in {"releasing", "dropping", "failed"} => agent[a].done = {}

\* The readback is still true of its operation.
ResolverFiles(a) ==
    LET o == agent[a].op IN
    /\ agent[a].seen.outcome = "applied" => ghost[o].published = FileNames
    /\ agent[a].seen.outcome = "not_applied" => ghost[o].published = {}

AgentFiles(a) ==
    /\ agent[a].pc = "idle" => ~agent[a].published /\ agent[a].done = {}
    /\ Live(a) => IF agent[a].pc \in Resolver THEN ResolverFiles(a) ELSE WriterFiles(a)

\* The files of o are in the output as long as o is open; the output has no
\* others of o; the records agree with them.
OpFiles(o) ==
    /\ ~ghost[o].took => ghost[o].published = {}
    /\ Unresolved(o) => \A n \in ghost[o].published :
                            output # None /\ <<n, o>> \in output.files
    /\ output # None => \A n \in FileNames :
                            <<n, o>> \in output.files => n \in ghost[o].published
    /\ row[o].status = "succeeded" \/ row[o].resolution = "applied" =>
           ghost[o].published = FileNames
    /\ row[o].status = "failed" \/ row[o].resolution = "not_applied" =>
           ghost[o].published = {}

OneMaker == output # None => \A f \in output.files : f[2] = output.maker

FilesInv ==
    /\ OneMaker
    /\ \A a \in Agents : AgentFiles(a)
    /\ \A o \in Ops : OpFiles(o)

-----------------------------------------------------------------------------
(* What the assignments of the actions do.                                  *)

\* A process goes to x, with what it goes on to and its journal; all else is
\* unchanged.
Put(a, x, then, journal) ==
    /\ agent' \in [Agents -> Process]
    /\ agent'[a].pc = x /\ agent'[a].then = then /\ agent'[a].journal = journal
    /\ agent'[a].op = agent[a].op /\ agent'[a].published = agent[a].published
    /\ agent'[a].done = agent[a].done /\ agent'[a].seen = agent[a].seen
    /\ \A b \in Agents \ {a} : agent'[b] = agent[b]
Move(a, x) == Put(a, x, agent[a].then, agent[a].journal)

\* Goto, Update and the step that takes the lock do just that.
LEMMA Moves ==
    ASSUME TypeOK, NEW a \in Agents, NEW x \in PCs, NEW then \in PCs,
           NEW journal \in Journals \union {None}
    PROVE  /\ Goto(a, x) => Move(a, x)
           /\ Update(a, journal, then) => Put(a, "drafting", then, journal)
           /\ agent' = [agent EXCEPT ![a] = [@ EXCEPT !.pc = x, !.journal = journal]]
                 => Put(a, x, agent[a].then, journal)
<1> DEFINE q == [agent[a] EXCEPT !.pc = x]
           u == [agent[a] EXCEPT !.pc = "drafting", !.then = then, !.journal = journal]
           r == [agent[a] EXCEPT !.pc = x, !.journal = journal]
<1>1. /\ agent \in [Agents -> Process] /\ agent[a] \in Process /\ "drafting" \in PCs
  BY DEF TypeOK, PCs
<1>2. q \in Process /\ u \in Process /\ r \in Process
  BY <1>1, Zenon DEF Process
<1>3. /\ q.pc = x /\ q.then = agent[a].then /\ q.journal = agent[a].journal
      /\ q.op = agent[a].op /\ q.done = agent[a].done /\ q.seen = agent[a].seen
      /\ u.pc = "drafting" /\ u.then = then /\ u.journal = journal
      /\ u.op = agent[a].op /\ u.done = agent[a].done /\ u.seen = agent[a].seen
      /\ r.pc = x /\ r.then = agent[a].then /\ r.journal = journal
      /\ r.op = agent[a].op /\ r.done = agent[a].done /\ r.seen = agent[a].seen
  BY <1>1, SMT DEF Process
<1>4. /\ q.published = agent[a].published /\ u.published = agent[a].published
      /\ r.published = agent[a].published
  BY <1>1, Zenon DEF Process
<1>5. /\ Goto(a, x) => agent' = [agent EXCEPT ![a] = q]
      /\ Update(a, journal, then) => agent' = [agent EXCEPT ![a] = u]
      /\ agent' = [agent EXCEPT ![a] = [@ EXCEPT !.pc = x, !.journal = journal]]
            => agent' = [agent EXCEPT ![a] = r]
  BY Zenon DEF Goto, Update
<1> HIDE DEF q, u, r
<1>6. ASSUME NEW m \in Process, agent' = [agent EXCEPT ![a] = m]
      PROVE  /\ agent'[a] = m /\ agent' \in [Agents -> Process]
             /\ \A b \in Agents \ {a} : agent'[b] = agent[b]
  BY <1>1, <1>6
<1>7. Goto(a, x) => Move(a, x)
  <2> SUFFICES ASSUME Goto(a, x) PROVE Move(a, x)
    OBVIOUS
  <2>1. /\ agent'[a] = q /\ agent' \in [Agents -> Process]
        /\ \A b \in Agents \ {a} : agent'[b] = agent[b]
    BY <1>2, <1>5, <1>6
  <2> QED BY <1>3, <1>4, <2>1, Zenon DEF Move, Put
<1>8. Update(a, journal, then) => Put(a, "drafting", then, journal)
  <2> SUFFICES ASSUME Update(a, journal, then) PROVE Put(a, "drafting", then, journal)
    OBVIOUS
  <2>1. /\ agent'[a] = u /\ agent' \in [Agents -> Process]
        /\ \A b \in Agents \ {a} : agent'[b] = agent[b]
    BY <1>2, <1>5, <1>6
  <2> QED BY <1>3, <1>4, <2>1, Zenon DEF Put
<1>9. agent' = [agent EXCEPT ![a] = [@ EXCEPT !.pc = x, !.journal = journal]]
          => Put(a, x, agent[a].then, journal)
  <2> SUFFICES ASSUME agent' = [agent EXCEPT ![a] = [@ EXCEPT !.pc = x,
                                                              !.journal = journal]]
               PROVE  Put(a, x, agent[a].then, journal)
    OBVIOUS
  <2>1. /\ agent'[a] = r /\ agent' \in [Agents -> Process]
        /\ \A b \in Agents \ {a} : agent'[b] = agent[b]
    BY <1>2, <1>5, <1>6
  <2> QED BY <1>3, <1>4, <2>1, Zenon DEF Put
<1> QED BY <1>7, <1>8, <1>9

\* The output directory is made, and a file is published in it.
LEMMA PublishMoves ==
    ASSUME TypeOK, NEW a \in Agents
    PROVE  LET o == agent[a].op IN
           /\ Make(a) =>
                 /\ agent' \in [Agents -> Process]
                 /\ agent'[a].pc = "publishing" /\ agent'[a].published = TRUE
                 /\ agent'[a].then = agent[a].then
                 /\ agent'[a].journal = agent[a].journal
                 /\ agent'[a].op = o /\ agent'[a].done = agent[a].done
                 /\ \A b \in Agents \ {a} : agent'[b] = agent[b]
           /\ PublishFile(a) => \E n \in FileNames \ agent[a].done :
                 /\ output' = [output EXCEPT !.files = output.files \union {<<n, o>>}]
                 /\ ghost' = [ghost EXCEPT ![o] = [ghost[o] EXCEPT
                                  !.published = ghost[o].published \union {n}]]
                 /\ agent' \in [Agents -> Process]
                 /\ agent'[a].pc = "publishing"
                 /\ agent'[a].published = agent[a].published
                 /\ agent'[a].then = agent[a].then
                 /\ agent'[a].journal = agent[a].journal
                 /\ agent'[a].op = o /\ agent'[a].done = agent[a].done \union {n}
                 /\ \A b \in Agents \ {a} : agent'[b] = agent[b]
<1> DEFINE o == agent[a].op
           q == [agent[a] EXCEPT !.pc = "publishing", !.published = TRUE]
<1>1. /\ agent \in [Agents -> Process] /\ agent[a] \in Process /\ "publishing" \in PCs
  BY DEF TypeOK, PCs
<1>2. ASSUME Make(a)
      PROVE  /\ agent' \in [Agents -> Process]
             /\ agent'[a].pc = "publishing" /\ agent'[a].published = TRUE
             /\ agent'[a].then = agent[a].then
             /\ agent'[a].journal = agent[a].journal
             /\ agent'[a].op = o /\ agent'[a].done = agent[a].done
             /\ \A b \in Agents \ {a} : agent'[b] = agent[b]
  <2>1. q \in Process
    BY <1>1, Zenon DEF Process
  <2>2. /\ q.pc = "publishing" /\ q.then = agent[a].then
        /\ q.journal = agent[a].journal /\ q.op = o /\ q.done = agent[a].done
    BY <1>1, SMT DEF Process
  <2>3. q.published = TRUE
    BY <1>1, Zenon DEF Process
  <2>4. agent' = [agent EXCEPT ![a] = q]
    BY <1>2, Zenon DEF Make
  <2> HIDE DEF q
  <2>5. /\ agent'[a] = q /\ agent' \in [Agents -> Process]
        /\ \A b \in Agents \ {a} : agent'[b] = agent[b]
    BY <1>1, <2>1, <2>4
  <2> QED BY <2>2, <2>3, <2>5, Zenon
<1>3. ASSUME PublishFile(a)
      PROVE  \E n \in FileNames \ agent[a].done :
                 /\ output' = [output EXCEPT !.files = output.files \union {<<n, o>>}]
                 /\ ghost' = [ghost EXCEPT ![o] = [ghost[o] EXCEPT
                                  !.published = ghost[o].published \union {n}]]
                 /\ agent' \in [Agents -> Process]
                 /\ agent'[a].pc = "publishing"
                 /\ agent'[a].published = agent[a].published
                 /\ agent'[a].then = agent[a].then
                 /\ agent'[a].journal = agent[a].journal
                 /\ agent'[a].op = o /\ agent'[a].done = agent[a].done \union {n}
                 /\ \A b \in Agents \ {a} : agent'[b] = agent[b]
  <2>1. PICK n \in FileNames \ agent[a].done :
          /\ output' = [output EXCEPT !.files = output.files \union {<<n, o>>}]
          /\ ghost' = [ghost EXCEPT ![o] = [ghost[o] EXCEPT
                           !.published = ghost[o].published \union {n}]]
          /\ agent' = [agent EXCEPT ![a] =
                         [agent[a] EXCEPT !.pc = "publishing",
                                          !.done = agent[a].done \union {n}]]
    BY <1>3, Zenon DEF PublishFile
  <2> DEFINE d == agent[a].done \union {n}
             r == [agent[a] EXCEPT !.pc = "publishing", !.done = d]
  <2>2. d \in SUBSET FileNames
    BY <1>1 DEF Process
  <2>3. agent' = [agent EXCEPT ![a] = r] /\ d = agent[a].done \union {n}
    BY <2>1
  <2> HIDE DEF d
  <2>4. r \in Process
    BY <1>1, <2>2, Zenon DEF Process
  <2>5. /\ r.pc = "publishing" /\ r.then = agent[a].then
        /\ r.journal = agent[a].journal /\ r.op = o /\ r.done = d
    BY <1>1, SMT DEF Process
  <2>6. r.published = agent[a].published
    BY <1>1, Zenon DEF Process
  <2> HIDE DEF r
  <2>7. /\ agent'[a] = r /\ agent' \in [Agents -> Process]
        /\ \A b \in Agents \ {a} : agent'[b] = agent[b]
    BY <1>1, <2>3, <2>4
  <2>8. /\ agent'[a].pc = "publishing" /\ agent'[a].published = agent[a].published
        /\ agent'[a].then = agent[a].then /\ agent'[a].journal = agent[a].journal
        /\ agent'[a].op = o /\ agent'[a].done = agent[a].done \union {n}
    BY <2>3, <2>5, <2>6, <2>7, Zenon
  <2> QED BY <2>1, <2>7, <2>8
<1> QED BY <1>2, <1>3

\* The stages of the other operations stay, and so does the terminal journal.
OthersStages(o) == \A p \in Ops \ {o} : stage'[p] = stage[p]

\* What is done to a stage keeps its terminal journal, ...
LEMMA StageMoves ==
    ASSUME TypeOK, NEW o \in Ops, NEW g \in SUBSET FileNames,
           \/ stage' = [stage EXCEPT ![o].made = TRUE]
           \/ stage' = [stage EXCEPT ![o].manifest = TRUE]
           \/ stage' = [stage EXCEPT ![o].files = g]
    PROVE  /\ stage' \in [Ops -> Stage] /\ OthersStages(o)
           /\ stage'[o].terminal = stage[o].terminal
<1> DEFINE m == [stage[o] EXCEPT !.made = TRUE]
           x == [stage[o] EXCEPT !.manifest = TRUE]
           f == [stage[o] EXCEPT !.files = g]
<1>1. stage \in [Ops -> Stage] /\ stage[o] \in Stage
  BY DEF TypeOK
<1>2. \/ stage' = [stage EXCEPT ![o] = m]
      \/ stage' = [stage EXCEPT ![o] = x]
      \/ stage' = [stage EXCEPT ![o] = f]
  BY Zenon
<1>3. m \in Stage /\ x \in Stage /\ f \in Stage
  BY <1>1, Zenon DEF Stage
<1>4. /\ m.terminal = stage[o].terminal /\ x.terminal = stage[o].terminal
      /\ f.terminal = stage[o].terminal
  BY <1>1, SMT DEF Stage
<1> HIDE DEF m, x, f
<1>5. ASSUME NEW s \in Stage, stage' = [stage EXCEPT ![o] = s]
      PROVE  stage' \in [Ops -> Stage] /\ OthersStages(o) /\ stage'[o] = s
  BY <1>1, <1>5 DEF OthersStages
<1> QED BY <1>2, <1>3, <1>4, <1>5

\* ... or sets it.
LEMMA TerminalMoves ==
    ASSUME TypeOK, NEW o \in Ops, NEW journal \in Journals,
           stage' = [stage EXCEPT ![o].terminal = journal]
    PROVE  /\ stage' \in [Ops -> Stage] /\ OthersStages(o)
           /\ stage'[o].terminal = journal
<1> DEFINE t == [stage[o] EXCEPT !.terminal = journal]
<1>1. stage \in [Ops -> Stage] /\ stage[o] \in Stage
  BY DEF TypeOK
<1>2. stage' = [stage EXCEPT ![o] = t]
  BY Zenon
<1>3. t \in Stage
  BY <1>1, Zenon DEF Stage
<1>4. t.terminal = journal
  BY <1>1, SMT DEF Stage
<1> HIDE DEF t
<1> QED BY <1>1, <1>2, <1>3, <1>4 DEF OthersStages

\* What the store steps do to the row of their process.
OthersRows(o) == \A p \in Ops \ {o} : row'[p] = row[p]

\* They change the named fields and no other row.
LEMMA StoreRows ==
    ASSUME TypeOK, NEW a \in Agents, agent[a].op \in Ops,
           Register(a) => agent[a].seen # None
    PROVE  LET o == agent[a].op IN
           /\ Finish(a) \/ Undispatch(a) \/ Register(a) =>
                 OthersRows(o) /\ row' \in [Ops -> Row]
           /\ Finish(a) => /\ row'[o].resolution = row[o].resolution
                           /\ row'[o].writer = row[o].writer
                           /\ row'[o].status = IF agent[a].pc = "uncertain" THEN "unknown"
                                               ELSE agent[a].pc
           /\ Undispatch(a) => /\ row'[o].status = "planned" /\ row'[o].writer = None
                               /\ row'[o].resolution = row[o].resolution
           /\ Register(a) /\ Unresolved(o) =>
                 /\ row'[o].resolution = agent[a].seen.outcome
                 /\ row'[o].status = row[o].status
                 /\ row'[o].writer = row[o].writer
           /\ Register(a) /\ ~Unresolved(o) => row' = row
<1> DEFINE o == agent[a].op
           s == IF agent[a].pc = "uncertain" THEN "unknown" ELSE agent[a].pc
           y == agent[a].seen.outcome
           f == [row[o] EXCEPT !.status = s]
           u == [row[o] EXCEPT !.status = "planned", !.writer = None]
           g == [row[o] EXCEPT !.resolution = y]
<1>1. /\ row \in [Ops -> Row] /\ row[o] \in Row
      /\ Finish(a) => s \in {"planned", "dispatched", "unknown", "partial", "failed",
                             "succeeded"}
  BY DEF TypeOK, Finish
<1>2. Register(a) => y \in Outcomes \union {None}
  <2>1. agent[a] \in Process
    BY DEF TypeOK
  <2> QED BY <2>1 DEF Process, Readbacks
<1>3. /\ Finish(a) => row' = [row EXCEPT ![o] = f]
      /\ Undispatch(a) => row' = [row EXCEPT ![o] = u]
      /\ Register(a) /\ Unresolved(o) => row' = [row EXCEPT ![o] = g]
      /\ Register(a) /\ ~Unresolved(o) => row' = row
  <2>1. Finish(a) => row' = [row EXCEPT ![o] = f]
    BY Zenon DEF Finish
  <2>2. Undispatch(a) => row' = [row EXCEPT ![o] = u]
    BY Zenon DEF Undispatch
  <2>3. Register(a) /\ Unresolved(o) => row' = [row EXCEPT ![o] = g]
    BY Zenon DEF Register
  <2>4. Register(a) /\ ~Unresolved(o) => row' = row
    BY Zenon DEF Register
  <2> QED BY <2>1, <2>2, <2>3, <2>4
<1>40. s = IF agent[a].pc = "uncertain" THEN "unknown" ELSE agent[a].pc
  OBVIOUS
<1> HIDE DEF s, y
<1>4. /\ Finish(a) => f \in Row
      /\ u \in Row
      /\ Register(a) => g \in Row
  <2>1. Finish(a) => f \in Row
    BY <1>1, Zenon DEF Row
  <2>2. u \in Row
    BY <1>1, Zenon DEF Row
  <2>3. Register(a) => g \in Row
    BY <1>1, <1>2, Zenon DEF Row
  <2> QED BY <2>1, <2>2, <2>3
<1>5. /\ f.status = s /\ f.resolution = row[o].resolution /\ f.writer = row[o].writer
      /\ u.status = "planned" /\ u.writer = None /\ u.resolution = row[o].resolution
      /\ g.status = row[o].status /\ g.resolution = y /\ g.writer = row[o].writer
  <2> HIDE DEF o
  <2> QED BY <1>1, SMT DEF Row
<1> HIDE DEF f, u, g
<1>6. ASSUME NEW r \in Row, row' = [row EXCEPT ![o] = r]
      PROVE  row' \in [Ops -> Row] /\ OthersRows(o) /\ row'[o] = r
  BY <1>1, <1>6 DEF OthersRows
<1>7. /\ Finish(a) => row' \in [Ops -> Row] /\ OthersRows(o) /\ row'[o] = f
      /\ Undispatch(a) => row' \in [Ops -> Row] /\ OthersRows(o) /\ row'[o] = u
      /\ Register(a) /\ Unresolved(o) =>
            row' \in [Ops -> Row] /\ OthersRows(o) /\ row'[o] = g
      /\ Register(a) /\ ~Unresolved(o) => row' \in [Ops -> Row] /\ OthersRows(o)
  <2>1. Finish(a) => row' \in [Ops -> Row] /\ OthersRows(o) /\ row'[o] = f
    BY <1>3, <1>4, <1>6
  <2>2. Undispatch(a) => row' \in [Ops -> Row] /\ OthersRows(o) /\ row'[o] = u
    BY <1>3, <1>4, <1>6
  <2>3. Register(a) /\ Unresolved(o) =>
            row' \in [Ops -> Row] /\ OthersRows(o) /\ row'[o] = g
    BY <1>3, <1>4, <1>6
  <2>4. Register(a) /\ ~Unresolved(o) => row' \in [Ops -> Row] /\ OthersRows(o)
    BY <1>1, <1>3 DEF OthersRows
  <2> QED BY <2>1, <2>2, <2>3, <2>4
<1>8. /\ Finish(a) => /\ row'[o].resolution = row[o].resolution
                      /\ row'[o].writer = row[o].writer /\ row'[o].status = s
      /\ Undispatch(a) => /\ row'[o].status = "planned" /\ row'[o].writer = None
                          /\ row'[o].resolution = row[o].resolution
      /\ Register(a) /\ Unresolved(o) =>
            /\ row'[o].resolution = y
            /\ row'[o].status = row[o].status /\ row'[o].writer = row[o].writer
  BY <1>5, <1>7
<1> QED BY <1>3, <1>40, <1>7, <1>8, Zenon DEF y

\* What a ghost keeps when an operation takes the lock, ...
LEMMA TookMoves ==
    ASSUME TypeOK, NEW o \in Ops, ghost' = [ghost EXCEPT ![o].took = TRUE]
    PROVE  /\ ghost' \in [Ops -> [took : BOOLEAN, published : SUBSET FileNames]]
           /\ ghost'[o].took /\ ghost'[o].published = ghost[o].published
           /\ \A p \in Ops \ {o} : ghost'[p] = ghost[p]
<1> DEFINE G == [took : BOOLEAN, published : SUBSET FileNames]
           t == [ghost[o] EXCEPT !.took = TRUE]
<1>1. ghost \in [Ops -> G] /\ ghost[o] \in G
  BY DEF TypeOK
<1>2. ghost' = [ghost EXCEPT ![o] = t] /\ t \in G /\ t.took
  BY <1>1, Zenon
<1>3. t.published = ghost[o].published
  BY <1>1, SMT
<1> HIDE DEF t
<1> QED BY <1>1, <1>2, <1>3

\* ... and when it publishes a file.
LEMMA PublishedMoves ==
    ASSUME TypeOK, NEW o \in Ops, NEW n \in FileNames,
           ghost' = [ghost EXCEPT ![o] = [ghost[o] EXCEPT
                         !.published = ghost[o].published \union {n}]]
    PROVE  /\ ghost' \in [Ops -> [took : BOOLEAN, published : SUBSET FileNames]]
           /\ ghost'[o].took = ghost[o].took
           /\ ghost'[o].published = ghost[o].published \union {n}
           /\ \A p \in Ops \ {o} : ghost'[p] = ghost[p]
<1> DEFINE G == [took : BOOLEAN, published : SUBSET FileNames]
           d == ghost[o].published \union {n}
           u == [ghost[o] EXCEPT !.published = d]
<1>1. ghost \in [Ops -> G] /\ ghost[o] \in G
  BY DEF TypeOK
<1>2. d \in SUBSET FileNames
  BY <1>1
<1>3. ghost' = [ghost EXCEPT ![o] = u]
  BY Zenon
<1> HIDE DEF d
<1>4. u \in G /\ u.took = ghost[o].took
  BY <1>1, <1>2, Zenon
<1>5. u.published = d
  BY <1>1, SMT
<1> HIDE DEF u
<1>6. /\ ghost' \in [Ops -> G] /\ ghost'[o] = u
      /\ \A p \in Ops \ {o} : ghost'[p] = ghost[p]
  BY <1>1, <1>3, <1>4
<1> QED BY <1>4, <1>5, <1>6, Zenon DEF d

\* The first journal of an operation.
LEMMA FirstJournal ==
    ASSUME NEW o \in Ops
    PROVE  LET j == [op |-> o, phase |-> "prepared", native |-> FALSE, stopped |-> FALSE]
           IN  j \in Journals /\ j.op = o /\ j.phase = "prepared" /\ ~j.stopped
  BY DEF Journals, Phases

\* None is no operation, journal, readback or outcome.
LEMMA NoneFacts ==
    /\ None \notin Ops /\ None \notin Agents /\ None \notin Journals
    /\ None \notin Outputs /\ None \notin Readbacks /\ None \notin Outcomes
    /\ Foreign \notin Ops /\ Foreign # None /\ None \notin FileNames
BY ExportConstants DEF ExportConstants

\* A readback is one.
LEMMA ReadbackType ==
    ASSUME TypeOK, NEW o \in Ops
    PROVE  /\ Readback(o) \in Readbacks
           /\ Readback(o).outcome = Observed(o)
<1>1. Observed(o) \in Outcomes
  BY DEF Observed, Outcomes
<1>2. Artifacts(o) \in SUBSET Files
  <2>1. stage[o] \in Stage /\ output \in Outputs \union {None}
    BY DEF TypeOK
  <2>2. CASE output # None
    BY <2>1, <2>2 DEF Artifacts, Outputs
  <2>3. CASE output = None
    <3>1. stage[o].files \subseteq FileNames
      BY <2>1 DEF Stage
    <3> QED BY <2>3, <3>1 DEF Artifacts, Files
  <2> QED BY <2>2, <2>3
<1>3. JournalOf(o) \in Journals \union {None}
  <2>1. stage[o] \in Stage /\ lock \in Journals \union {None}
    BY DEF TypeOK
  <2> QED BY <2>1 DEF JournalOf, Stage
<1> QED BY <1>1, <1>2, <1>3, Zenon DEF Readback, Readbacks

\* A waiting plan gets its writer.
LEMMA ConfirmMoves ==
    ASSUME TypeOK, NEW a \in Agents, NEW o \in Ops, Confirm(a, o)
    PROVE  /\ TypeOK' /\ UNCHANGED <<output, lock, next, stage, archive, child, ghost>>
           /\ row' \in [Ops -> Row] /\ OthersRows(o)
           /\ row'[o].status = "dispatched" /\ row'[o].writer = a
           /\ row'[o].resolution = row[o].resolution
           /\ agent'[a].pc = "confirmed" /\ agent'[a].op = o
           /\ agent'[a].done = agent[a].done
           /\ agent'[a].published = agent[a].published
           /\ \A b \in Agents \ {a} : agent'[b] = agent[b]
<1> DEFINE r == [row[o] EXCEPT !.status = "dispatched", !.writer = a]
           m == [agent[a] EXCEPT !.pc = "confirmed", !.op = o]
<1>1. /\ row \in [Ops -> Row] /\ row[o] \in Row
      /\ agent \in [Agents -> Process] /\ agent[a] \in Process
  BY DEF TypeOK
<1>2. UNCHANGED <<output, lock, next, stage, archive, child, ghost>>
  BY DEF Confirm, disk
<1>3. row' = [row EXCEPT ![o] = r] /\ agent' = [agent EXCEPT ![a] = m]
  BY Zenon DEF Confirm
<1>4. r \in Row /\ m \in Process
  BY <1>1, Zenon DEF Row, Process, PCs
<1>5. /\ r.status = "dispatched" /\ r.writer = a /\ r.resolution = row[o].resolution
      /\ m.pc = "confirmed" /\ m.op = o /\ m.done = agent[a].done
  BY <1>1, SMT DEF Row, Process
<1>6. m.published = agent[a].published
  BY <1>1, Zenon DEF Process
<1> HIDE DEF r, m
<1>7. /\ row' \in [Ops -> Row] /\ OthersRows(o) /\ row'[o] = r
      /\ agent' \in [Agents -> Process] /\ agent'[a] = m
      /\ \A b \in Agents \ {a} : agent'[b] = agent[b]
  BY <1>1, <1>3, <1>4 DEF OthersRows
<1>8. agent'[a].published = agent[a].published
  BY <1>6, <1>7, Zenon
<1>9. TypeOK'
  BY <1>2, <1>7 DEF TypeOK
<1> QED BY <1>2, <1>5, <1>7, <1>8, <1>9

\* operation resolve starts with its readback.
LEMMA ResolveMoves ==
    ASSUME TypeOK, NEW a \in Agents, NEW o \in Ops, ResolveBegin(a, o)
    PROVE  /\ TypeOK'
           /\ UNCHANGED <<output, lock, next, stage, archive, child, row, ghost>>
           /\ agent'[a].pc = "archiving" /\ agent'[a].op = o /\ agent'[a].seen # None
           /\ agent'[a].seen.outcome = Observed(o)
           /\ \A b \in Agents \ {a} : agent'[b] = agent[b]
<1> DEFINE x == Readback(o)
           m == [agent[a] EXCEPT !.pc = "archiving", !.op = o, !.seen = x]
<1>1. /\ agent \in [Agents -> Process] /\ agent[a] \in Process
      /\ x \in Readbacks /\ x # None /\ x.outcome = Observed(o)
  BY ReadbackType, NoneFacts DEF TypeOK
<1>2. UNCHANGED <<output, lock, next, stage, archive, child, row, ghost>>
  BY DEF ResolveBegin, disk
<1>3. agent' = [agent EXCEPT ![a] = m]
  BY Zenon DEF ResolveBegin
<1> HIDE DEF x
<1>4. m \in Process
  BY <1>1, Zenon DEF Process, PCs
<1>5. m.pc = "archiving" /\ m.op = o /\ m.seen = x
  BY <1>1, SMT DEF Process
<1> HIDE DEF m
<1>6. /\ agent' \in [Agents -> Process] /\ \A b \in Agents \ {a} : agent'[b] = agent[b]
      /\ agent'[a].pc = "archiving" /\ agent'[a].op = o /\ agent'[a].seen = x
  BY <1>1, <1>3, <1>4, <1>5
<1>7. TypeOK'
  BY <1>2, <1>6 DEF TypeOK
<1> QED BY <1>1, <1>2, <1>6, <1>7

\* A native child writes a file or exits; somebody makes or takes the output.
LEMMA OutsideMoves ==
    ASSUME TypeOK,
           (\E o \in Ops : ChildWrites(o) \/ ChildExits(o)) \/ MakeForeign \/ TakeAway
    PROVE  /\ TypeOK' /\ UNCHANGED <<lock, next, archive, row, agent, ghost>>
           /\ \A o \in Ops :
                 /\ stage'[o].terminal = stage[o].terminal
                 /\ \/ child'[o] = child[o]
                    \/ child[o] = "running" /\ child'[o] = "stopped"
<1>1. UNCHANGED <<lock, next, archive, row, agent, ghost>>
  BY DEF ChildWrites, ChildExits, MakeForeign, TakeAway, disk
<1>2. /\ TypeOK /\ stage \in [Ops -> Stage]
      /\ child \in [Ops -> {"none", "running", "stopped"}]
  BY DEF TypeOK
<1>3. /\ output' \in Outputs \union {None}
      /\ child' \in [Ops -> {"none", "running", "stopped"}]
      /\ stage' \in [Ops -> Stage]
      /\ \A o \in Ops :
            /\ stage'[o].terminal = stage[o].terminal
            /\ child'[o] = child[o] \/ (child[o] = "running" /\ child'[o] = "stopped")
  <2>1. ASSUME NEW o \in Ops, ChildWrites(o)
        PROVE  /\ stage' \in [Ops -> Stage] /\ UNCHANGED <<output, child>>
               /\ \A p \in Ops : stage'[p].terminal = stage[p].terminal
    <3>1. PICK n \in FileNames :
              stage' = [stage EXCEPT ![o].files = stage[o].files \union {n}]
      BY <2>1, Zenon DEF ChildWrites
    <3>2. stage[o].files \union {n} \in SUBSET FileNames
      BY <1>2 DEF Stage
    <3>3. /\ stage' \in [Ops -> Stage] /\ OthersStages(o)
          /\ stage'[o].terminal = stage[o].terminal
      BY <1>2, <3>1, <3>2, StageMoves
    <3> QED BY <2>1, <3>3 DEF ChildWrites, OthersStages
  <2>2. ASSUME NEW o \in Ops, ChildExits(o)
        PROVE  /\ child' \in [Ops -> {"none", "running", "stopped"}]
               /\ UNCHANGED <<output, stage>>
               /\ child[o] = "running" /\ child'[o] = "stopped"
               /\ \A p \in Ops \ {o} : child'[p] = child[p]
    BY <1>2, <2>2 DEF ChildExits, disk
  <2>3. CASE MakeForeign
    <3>1. UNCHANGED <<stage, child>>
          /\ output' = [maker |-> Foreign, files |-> {<<None, Foreign>>}]
      BY <2>3 DEF MakeForeign
    <3>2. <<None, Foreign>> \in Files
      BY DEF Files
    <3> QED BY <1>2, <3>1, <3>2 DEF Outputs
  <2>4. CASE TakeAway
    BY <1>2, <2>4 DEF TakeAway
  <2>5. output \in Outputs \union {None}
    BY <1>2 DEF TypeOK
  <2> QED BY <1>2, <2>1, <2>2, <2>3, <2>4, <2>5
<1>4. TypeOK'
  BY <1>1, <1>2, <1>3 DEF TypeOK
<1> QED BY <1>1, <1>3, <1>4

-----------------------------------------------------------------------------
(* The rows, step by step.                                                  *)

\* What the invariant says of a process that takes a step.
LEMMA AtRow ==
    ASSUME RowInv, NEW a \in Agents, Live(a)
    PROVE  LET o == agent[a].op IN
           /\ o \in Ops /\ TypeOK /\ OpRow(o)
           /\ agent[a].pc \in Resolver => ReadsRow(a)
           /\ agent[a].pc \notin Resolver =>
                 /\ HoldsRow(a)
                 /\ agent[a].pc \notin Early => agent[a].journal \in Journals
           /\ agent[a] \in Process /\ agent[a].then \in PCs /\ agent[a].pc \in PCs
           /\ agent[a].journal \in Journals \union {None}
<1>1. TypeOK /\ AgentRow(a) /\ agent[a].op \in Ops
  BY DEF RowInv, AgentRow
<1>2. agent[a] \in Process
  BY <1>1 DEF TypeOK
<1>3. /\ agent[a].then \in PCs /\ agent[a].pc \in PCs
      /\ agent[a].journal \in Journals \union {None}
  BY <1>2 DEF Process
<1>4. /\ agent[a].pc \in Resolver => ReadsRow(a)
      /\ agent[a].pc \notin Resolver => HoldsRow(a)
  BY <1>1 DEF AgentRow
<1>5. agent[a].pc \notin Resolver /\ agent[a].pc \notin Early =>
          agent[a].journal \in Journals
  BY <1>3, <1>4 DEF HoldsRow
<1> QED BY <1>1, <1>2, <1>3, <1>4, <1>5 DEF RowInv

\* What a step changes of the rows, the locks and the other processes.
RowFrame(a) ==
    LET o == agent[a].op IN
    /\ Live(a) /\ agent'[a].op = o
    /\ \A b \in Agents \ {a} : agent'[b] = agent[b]
    /\ \A p \in Ops \ {o} : row'[p] = row[p] /\ ghost'[p].took = ghost[p].took
    /\ \/ lock' = lock \/ lock' = None
       \/ agent[a].pc \notin Resolver /\ lock'.op = o
    /\ agent[a].pc \in Resolver =>
          /\ row'[o].status = row[o].status /\ row'[o].writer = row[o].writer

\* The others: a writer is alone, and next to a resolve there are only resolves.
LEMMA RowOthers ==
    ASSUME RowInv, NEW a \in Agents, RowFrame(a), TypeOK', AgentRow(a)',
           OpRow(agent[a].op)'
    PROVE  RowInv'
<1>1. Live(a)
  BY DEF RowFrame
<1>2. PICK o \in Ops : o = agent[a].op
  BY <1>1, AtRow
<1>3. /\ agent'[a].op = o
      /\ \A b \in Agents \ {a} : agent'[b] = agent[b]
      /\ \A p \in Ops \ {o} : row'[p] = row[p] /\ ghost'[p].took = ghost[p].took
      /\ \A p \in Ops \ {o} : OwnsLock(p)' => OwnsLock(p)
      /\ agent[a].pc \in Resolver =>
            /\ OwnsLock(o)' => OwnsLock(o)
            /\ row'[o].status = row[o].status /\ row'[o].writer = row[o].writer
  BY <1>2 DEF RowFrame, OwnsLock
<1>4. ASSUME NEW b \in Agents \ {a} PROVE AgentRow(b)'
  <2>1. CASE ~Live(b)
    BY <1>3, <2>1 DEF AgentRow, Live
  <2>2. CASE Live(b)
    <3>1. PICK p \in Ops : p = agent[b].op
      BY <2>2, AtRow
    <3>2. /\ agent[a].pc \in Resolver => ReadsRow(a)
          /\ agent[a].pc \notin Resolver => HoldsRow(a)
          /\ agent[b].pc \in Resolver => ReadsRow(b)
          /\ agent[b].pc \notin Resolver => HoldsRow(b)
      BY <1>1, <2>2, AtRow
    <3>3. p = o => agent[a].pc \in Resolver /\ agent[b].pc \in Resolver
      BY <1>1, <1>2, <2>2, <3>1, <3>2 DEF HoldsRow, ReadsRow, Alive, Live
    <3>4. CASE agent[b].pc \notin Resolver
      <4>1. HoldsRow(b)'
        BY <1>3, <3>1, <3>2, <3>3, <3>4 DEF HoldsRow
      <4> QED BY <1>3, <3>1, <3>4, <4>1 DEF AgentRow
    <3>5. CASE agent[b].pc \in Resolver
      <4>1. row[p].writer \in Agents \ {a} /\ ~Alive(row[p].writer)
        BY <1>1, <3>1, <3>2, <3>5 DEF ReadsRow, Alive, Live
      <4>2. row'[p].writer = row[p].writer /\ row'[p].status = row[p].status
        BY <1>3, <3>3
      <4>3. ~Alive(row[agent[b].op].writer)'
        BY <1>3, <3>1, <4>1, <4>2 DEF Alive
      <4>4. OwnsLock(agent[b].op)' => OwnsLock(p)
        BY <1>3, <3>1, <3>3
      <4>5. ReadsRow(b)'
        BY <1>3, <3>1, <3>2, <3>5, <4>1, <4>2, <4>3, <4>4 DEF ReadsRow
      <4> QED BY <1>3, <3>1, <3>5, <4>5 DEF AgentRow
    <3> QED BY <3>4, <3>5
  <2> QED BY <2>1, <2>2
<1>5. ASSUME NEW p \in Ops \ {o} PROVE OpRow(p)'
  <2>1. OpRow(p)
    BY DEF RowInv
  <2> QED BY <1>3, <2>1 DEF OpRow
<1>6. OpRow(o)'
  BY <1>3 DEF OpRow, OwnsLock
<1> QED BY <1>4, <1>5, <1>6 DEF RowInv

\* A step of a writer that touches neither its row nor whether it had the lock.
LEMMA RowMoves ==
    ASSUME RowInv, NEW a \in Agents, Live(a), agent[a].pc \notin Resolver, TypeOK',
           NEW x \in PCs \ (Resolver \union {"idle"}), agent'[a].pc = x,
           agent'[a].op = agent[a].op,
           \A b \in Agents \ {a} : agent'[b] = agent[b],
           row' = row, \A p \in Ops : ghost'[p].took = ghost[p].took,
           x # "exited" => (x \in Early <=> agent[a].pc \in Early),
           agent[a].pc \notin Early =>
               agent'[a].journal # None /\ agent'[a].journal.op = agent[a].op,
           \/ lock' = lock \/ lock' = None
           \/ agent[a].pc \notin Early /\ lock' # None /\ lock'.op = agent[a].op,
           x = "succeeded" => lock' = None,
           x \in Writing => agent'[a].then \in Thens
    PROVE  RowInv'
<1>1. PICK o \in Ops : o = agent[a].op
  BY AtRow
<1>2. HoldsRow(a) /\ OpRow(o)
  BY <1>1, AtRow
<1>3. RowFrame(a)
  BY DEF RowFrame
<1>4. OwnsLock(o)' => OwnsLock(o) \/ ghost[o].took
  BY <1>1, <1>2 DEF OwnsLock, HoldsRow
<1>5. OpRow(o)'
  BY <1>1, <1>2, <1>4 DEF OpRow, HoldsRow
<1>6. x # "exited" => HoldsRow(a)'
  <2>1. CASE x \in Early
    BY <1>1, <1>2, <2>1 DEF HoldsRow, Early, Writing
  <2>2. CASE x \notin Early
    BY <1>1, <1>2, <2>2 DEF HoldsRow, OwnsLock
  <2> QED BY <2>1, <2>2
<1>7. AgentRow(a)'
  BY <1>1, <1>6 DEF AgentRow, Live
<1> QED BY <1>1, <1>3, <1>5, <1>7, RowOthers

\* The steps of a writer that only move it, or set a part of the disk.
LEMMA RowPlain ==
    ASSUME RowInv, NEW a \in Agents,
           \/ Check(a) \/ MakeStage(a) \/ Draft(a) \/ Start(a) \/ Consume(a)
           \/ FileCheck(a)
           \/ WriteTerminal(a) \/ Unlock(a) \/ Fails(a) \/ Inspect(a) \/ Release(a)
           \/ Drop(a) \/ Escapes(a)
    PROVE  RowInv'
<1> DEFINE o == agent[a].op
<1>1. Live(a) /\ agent[a].pc \notin Resolver
  BY DEF Check, MakeStage, Draft, Start, Consume, FileCheck, WriteTerminal, Unlock,
         Fails, Inspect, Release, Drop, Escapes, Live, Resolver
<1>2. /\ o \in Ops /\ TypeOK /\ HoldsRow(a) /\ agent[a].then \in PCs
      /\ agent[a].journal \in Journals \union {None}
      /\ agent[a].pc \notin Early => agent[a].journal \in Journals
  BY <1>1, AtRow
<1>3. PICK x \in PCs \ (Resolver \union {"idle", "exited"}) :
         /\ Goto(a, x)
         /\ x \in Early <=> agent[a].pc \in Early
         /\ x \in Writing => agent[a].pc \in Writing
         /\ x = "succeeded" => Unlock(a)
  <2>1. CASE Check(a)
    BY <2>1 DEF Check, PCs, Resolver, Early, Writing
  <2>2. CASE Inspect(a)
    BY <2>2 DEF Inspect, PCs, Resolver, Early, Writing
  <2>3. CASE Fails(a)
    BY <2>3 DEF Fails, PCs, Resolver, Early, Writing
  <2>4. CASE \/ MakeStage(a) \/ Draft(a) \/ Start(a) \/ Consume(a) \/ FileCheck(a)
             \/ WriteTerminal(a) \/ Unlock(a) \/ Release(a) \/ Drop(a) \/ Escapes(a)
    BY <2>4 DEF MakeStage, Draft, Start, Consume, FileCheck, WriteTerminal, Unlock,
                Release, Drop, Escapes, PCs, Resolver, Early, Writing
  <2> QED BY <2>1, <2>2, <2>3, <2>4
<1>4. Move(a, x)
  BY <1>2, <1>3, Moves
<1>5. /\ agent' \in [Agents -> Process] /\ agent'[a].pc = x
      /\ agent'[a].then = agent[a].then /\ agent'[a].op = o
      /\ agent'[a].journal = agent[a].journal
      /\ \A b \in Agents \ {a} : agent'[b] = agent[b]
  BY <1>4 DEF Move, Put
<1>6. /\ UNCHANGED <<output, archive, row, ghost>>
      /\ lock' = lock \/ lock' = None
      /\ Unlock(a) => lock' = None
  BY DEF Check, MakeStage, Draft, Start, Consume, FileCheck, WriteTerminal, Unlock,
         Fails, Inspect, Release, Drop, Escapes, disk
<1>7. next' \in BOOLEAN /\ child' \in [Ops -> {"none", "running", "stopped"}]
  BY <1>2 DEF Check, MakeStage, Draft, Start, Consume, FileCheck, WriteTerminal,
              Unlock, Fails, Inspect, Release, Drop, Escapes, disk, TypeOK
<1>8. stage' \in [Ops -> Stage]
  <2>1. CASE Consume(a)
    <3>1. stage' = [stage EXCEPT ![o].manifest = TRUE]
      BY <2>1 DEF Consume
    <3>2. stage[o].files \in SUBSET FileNames
      BY <1>2 DEF TypeOK, Stage
    <3> QED BY <1>2, <3>1, <3>2, StageMoves
  <2>2. CASE WriteTerminal(a)
    <3>1. /\ stage' = [stage EXCEPT ![o].terminal = agent[a].journal]
          /\ agent[a].journal \in Journals
      BY <1>2, <2>2 DEF WriteTerminal, Early
    <3> QED BY <1>2, <3>1, TerminalMoves
  <2>3. CASE Release(a)
    <3> DEFINE k == [agent[a].journal EXCEPT !.phase = "failed-no-artifacts"]
    <3>1. agent[a].journal \in Journals
      BY <1>2, <2>3 DEF Release, Early
    <3>2. k \in Journals
      BY <3>1, Zenon DEF Journals, Phases
    <3>3. stage' = [stage EXCEPT ![o].terminal = k]
      BY <2>3, Zenon DEF Release
    <3> HIDE DEF k
    <3> QED BY <1>2, <3>2, <3>3, TerminalMoves
  <2>4. CASE MakeStage(a)
    <3>1. stage' = [stage EXCEPT ![o].made = TRUE]
      BY <2>4 DEF MakeStage
    <3>2. stage[o].files \in SUBSET FileNames
      BY <1>2 DEF TypeOK, Stage
    <3> QED BY <1>2, <3>1, <3>2, StageMoves
  <2>5. CASE ~(MakeStage(a) \/ Consume(a) \/ WriteTerminal(a) \/ Release(a))
    <3>1. stage' = stage
      BY <2>5 DEF Check, Draft, Start, FileCheck, Unlock, Fails, Inspect, Drop, Escapes, disk
    <3> QED BY <1>2, <3>1 DEF TypeOK
  <2> QED BY <2>1, <2>2, <2>3, <2>4, <2>5
<1>9. TypeOK'
  BY <1>2, <1>5, <1>6, <1>7, <1>8 DEF TypeOK
<1>10. agent[a].pc \notin Early =>
           agent'[a].journal # None /\ agent'[a].journal.op = o
  BY <1>2, <1>5 DEF HoldsRow
<1>11. x \in Writing => agent'[a].then \in Thens
  BY <1>2, <1>3, <1>5 DEF HoldsRow
<1> QED BY <1>1, <1>3, <1>5, <1>6, <1>9, <1>10, <1>11, RowMoves

\* The steps of a writer that change its journal and go on to write it.
LEMMA RowUpdates ==
    ASSUME RowInv, NEW a \in Agents,
           \/ StageInputs(a) \/ RecordChild(a) \/ Wait(a) \/ PublishCheck(a)
           \/ VerifyOutput(a)
    PROVE  RowInv'
<1> DEFINE o == agent[a].op
           j == agent[a].journal
<1>1. Live(a) /\ agent[a].pc \notin Resolver \union Early
  BY DEF StageInputs, RecordChild, Wait, PublishCheck, VerifyOutput, Live, Resolver, Early
<1>2. /\ o \in Ops /\ TypeOK /\ HoldsRow(a) /\ j \in Journals /\ j.op = o
  BY <1>1, AtRow DEF HoldsRow
<1>3. PICK then \in Thens, k \in Journals : Update(a, k, then) /\ k.op = o
  <2>1. /\ [j EXCEPT !.phase = "spawning"] \in Journals
        /\ [j EXCEPT !.phase = "generating", !.native = TRUE] \in Journals
        /\ [j EXCEPT !.phase = "generated", !.stopped = TRUE] \in Journals
        /\ [j EXCEPT !.phase = "publishing"] \in Journals
        /\ [j EXCEPT !.phase = "completed"] \in Journals
    BY <1>2, Zenon DEF Journals, Phases
  <2>2. /\ [j EXCEPT !.phase = "spawning"].op = o
        /\ [j EXCEPT !.phase = "generating", !.native = TRUE].op = o
        /\ [j EXCEPT !.phase = "generated", !.stopped = TRUE].op = o
        /\ [j EXCEPT !.phase = "publishing"].op = o
        /\ [j EXCEPT !.phase = "completed"].op = o
    BY <1>2, Zenon DEF Journals
  <2>3. CASE StageInputs(a)
    BY <2>1, <2>2, <2>3, Zenon DEF StageInputs, Thens
  <2>4. CASE RecordChild(a)
    BY <2>1, <2>2, <2>4, Zenon DEF RecordChild, Thens
  <2>5. CASE Wait(a)
    BY <2>1, <2>2, <2>5, Zenon DEF Wait, Thens
  <2>6. CASE PublishCheck(a)
    BY <2>1, <2>2, <2>6, Zenon DEF PublishCheck, Thens
  <2>7. CASE VerifyOutput(a)
    BY <2>1, <2>2, <2>7, Zenon DEF VerifyOutput, Thens
  <2> QED BY <2>3, <2>4, <2>5, <2>6, <2>7
<1>4. Put(a, "drafting", then, k)
  <2>1. then \in PCs /\ "drafting" \in PCs
    BY DEF Thens, PCs
  <2> QED BY <1>2, <1>3, <2>1, Moves
<1>5. /\ agent' \in [Agents -> Process] /\ agent'[a].pc = "drafting"
      /\ agent'[a].then = then /\ agent'[a].op = o /\ agent'[a].journal = k
      /\ \A b \in Agents \ {a} : agent'[b] = agent[b]
  BY <1>4 DEF Put
<1>6. UNCHANGED <<output, lock, next, stage, archive, child, row, ghost>>
  BY DEF StageInputs, RecordChild, Wait, PublishCheck, VerifyOutput, disk
<1>7. stage' \in [Ops -> Stage]
  BY <1>2, <1>6 DEF TypeOK
<1>8. TypeOK'
  BY <1>2, <1>5, <1>6, <1>7 DEF TypeOK
<1>9. k # None
  BY NoneFacts
<1>10. /\ "drafting" \in PCs \ (Resolver \union {"idle"})
       /\ "drafting" \notin Early /\ "drafting" \in Writing
  BY DEF PCs, Resolver, Early, Writing
<1> QED BY <1>1, <1>3, <1>5, <1>6, <1>8, <1>9, <1>10, RowMoves

\* The lock gets the journal of the writer, whoever's it was.
LEMMA RowReplace ==
    ASSUME RowInv, NEW a \in Agents, Replace(a)
    PROVE  RowInv'
<1> DEFINE o == agent[a].op
<1>1. /\ Live(a) /\ agent[a].pc \notin Resolver \union Early /\ agent[a].pc \in Writing
  BY DEF Replace, Live, Resolver, Early, Writing
<1>2. /\ o \in Ops /\ TypeOK /\ HoldsRow(a) /\ agent[a].journal \in Journals
      /\ agent[a].journal # None /\ agent[a].journal.op = o
      /\ agent[a].then \in Thens /\ agent[a].then \in PCs
  BY <1>1, AtRow DEF HoldsRow
<1>3. /\ Goto(a, agent[a].then) /\ lock' = agent[a].journal /\ next' = FALSE
      /\ UNCHANGED <<output, stage, archive, child, row, ghost>>
  BY DEF Replace
<1>4. Move(a, agent[a].then)
  BY <1>2, <1>3, Moves
<1>5. /\ agent' \in [Agents -> Process] /\ agent'[a].pc = agent[a].then
      /\ agent'[a].op = o /\ agent'[a].journal = agent[a].journal
      /\ \A b \in Agents \ {a} : agent'[b] = agent[b]
  BY <1>4 DEF Move, Put
<1>6. TypeOK'
  BY <1>2, <1>3, <1>5 DEF TypeOK
<1>7. /\ agent[a].then \notin Resolver \union {"idle", "exited", "succeeded"}
      /\ agent[a].then \notin Early \union Writing
  BY <1>2 DEF Thens, Resolver, Early, Writing
<1> QED BY <1>1, <1>2, <1>3, <1>5, <1>6, <1>7, RowMoves

\* The directory is made, or a file published in it.
LEMMA RowPublish ==
    ASSUME RowInv, NEW a \in Agents, Make(a) \/ PublishFile(a)
    PROVE  RowInv'
<1> DEFINE o == agent[a].op
<1>1. Live(a) /\ agent[a].pc \notin Resolver \union Early
  BY DEF Make, PublishFile, Live, Resolver, Early
<1>2. /\ o \in Ops /\ TypeOK /\ HoldsRow(a)
      /\ agent[a].journal # None /\ agent[a].journal.op = o
  BY <1>1, AtRow DEF HoldsRow
<1>3. UNCHANGED <<lock, next, stage, archive, child, row>>
  BY DEF Make, PublishFile
<1>4. /\ agent' \in [Agents -> Process] /\ agent'[a].pc = "publishing"
      /\ agent'[a].op = o /\ agent'[a].journal = agent[a].journal
      /\ \A b \in Agents \ {a} : agent'[b] = agent[b]
  BY <1>2, PublishMoves
<1>5. /\ output' \in Outputs \union {None}
      /\ ghost' \in [Ops -> [took : BOOLEAN, published : SUBSET FileNames]]
      /\ \A p \in Ops : ghost'[p].took = ghost[p].took
  <2>1. CASE Make(a)
    <3>1. output' = [maker |-> o, files |-> {}] /\ ghost' = ghost
      BY <2>1 DEF Make
    <3> QED BY <1>2, <3>1 DEF TypeOK, Outputs
  <2>2. CASE PublishFile(a)
    <3>1. PICK n \in FileNames :
            /\ output' = [output EXCEPT !.files = output.files \union {<<n, o>>}]
            /\ ghost' = [ghost EXCEPT ![o] = [ghost[o] EXCEPT
                             !.published = ghost[o].published \union {n}]]
      BY <1>2, <2>2, PublishMoves
    <3>2. output \in Outputs
      BY <1>2, <2>2 DEF PublishFile, TypeOK
    <3>3. <<n, o>> \in Files
      BY <1>2 DEF Files
    <3>4. output' \in Outputs
      BY <3>1, <3>2, <3>3 DEF Outputs
    <3> QED BY <1>2, <3>1, <3>4, PublishedMoves
  <2> QED BY <2>1, <2>2
<1>6. TypeOK'
  BY <1>2, <1>3, <1>4, <1>5 DEF TypeOK
<1>7. "publishing" \in PCs \ (Resolver \union {"idle"} \union Early \union Writing)
  BY DEF PCs, Resolver, Early, Writing
<1> QED BY <1>1, <1>2, <1>3, <1>4, <1>5, <1>6, <1>7, RowMoves

\* The writer takes the lock, or is refused.
LEMMA RowAcquire ==
    ASSUME RowInv, NEW a \in Agents, Acquire(a)
    PROVE  RowInv'
<1> DEFINE o == agent[a].op
           k == [op |-> o, phase |-> "prepared", native |-> FALSE, stopped |-> FALSE]
<1>1. Live(a) /\ agent[a].pc \notin Resolver /\ agent[a].pc \in Early
  BY DEF Acquire, Live, Resolver, Early
<1>2. o \in Ops /\ TypeOK /\ OpRow(o) /\ HoldsRow(a) /\ agent[a].then \in PCs
      /\ agent[a].journal \in Journals \union {None}
  BY <1>1, AtRow
<1>3. UNCHANGED <<output, next, stage, archive, child, row>>
  BY DEF Acquire
<1>4. CASE lock # None
  <2>1. Goto(a, "refused") /\ UNCHANGED <<lock, ghost>>
    BY <1>4 DEF Acquire
  <2>2. Move(a, "refused")
    BY <1>2, <2>1, Moves DEF PCs
  <2>3. /\ agent' \in [Agents -> Process] /\ agent'[a].pc = "refused" /\ agent'[a].op = o
        /\ \A b \in Agents \ {a} : agent'[b] = agent[b]
    BY <2>2 DEF Move, Put
  <2>4. TypeOK'
    BY <1>2, <1>3, <2>1, <2>3 DEF TypeOK
  <2>5. /\ "refused" \in PCs \ (Resolver \union {"idle"})
        /\ "refused" \in Early /\ "refused" \notin Writing
    BY DEF PCs, Resolver, Early, Writing
  <2> QED BY <1>1, <1>3, <2>1, <2>3, <2>4, <2>5, RowMoves
<1>5. CASE lock = None
  <2>1. /\ lock' = k /\ ghost' = [ghost EXCEPT ![o].took = TRUE]
        /\ agent' = [agent EXCEPT ![a] = [@ EXCEPT !.pc = "staging", !.journal = k]]
    BY <1>5, Zenon DEF Acquire
  <2>2. k \in Journals /\ k # None /\ k.op = o
    BY <1>2, FirstJournal, NoneFacts
  <2> HIDE DEF k
  <2>3. Put(a, "staging", agent[a].then, k)
    BY <1>2, <2>1, <2>2, Moves DEF PCs
  <2>4. /\ agent' \in [Agents -> Process] /\ agent'[a].pc = "staging"
        /\ agent'[a].op = o /\ agent'[a].journal = k
        /\ \A b \in Agents \ {a} : agent'[b] = agent[b]
    BY <2>3 DEF Put
  <2>5. /\ ghost' \in [Ops -> [took : BOOLEAN, published : SUBSET FileNames]]
        /\ ghost'[o].took /\ \A p \in Ops \ {o} : ghost'[p] = ghost[p]
    BY <1>2, <2>1, TookMoves
  <2>6. TypeOK'
    BY <1>2, <1>3, <2>1, <2>2, <2>4, <2>5 DEF TypeOK
  <2>7. RowFrame(a)
    BY <1>1, <1>3, <2>1, <2>2, <2>4, <2>5 DEF RowFrame
  <2>8. HoldsRow(a)'
    BY <1>2, <1>3, <2>2, <2>4, <2>5 DEF HoldsRow, Early, Writing
  <2>9. AgentRow(a)'
    BY <1>2, <2>4, <2>8 DEF AgentRow, Resolver
  <2>10. OpRow(o)'
    BY <1>2, <1>3, <2>4, <2>5 DEF OpRow, HoldsRow
  <2> QED BY <1>2, <2>4, <2>6, <2>7, <2>9, <2>10, RowOthers
<1> QED BY <1>4, <1>5

\* A process dies.
LEMMA RowCrash ==
    ASSUME RowInv, NEW a \in Agents, Crash(a)
    PROVE  RowInv'
<1>1. Live(a) /\ Goto(a, "exited") /\ UNCHANGED <<disk, child, row, ghost>>
  BY DEF Crash, Live
<1>2. /\ agent[a].op \in Ops /\ TypeOK /\ OpRow(agent[a].op) /\ agent[a].then \in PCs
      /\ agent[a].journal \in Journals \union {None}
  BY <1>1, AtRow
<1>3. Move(a, "exited")
  BY <1>1, <1>2, Moves DEF PCs
<1>4. /\ agent' \in [Agents -> Process] /\ agent'[a].pc = "exited"
      /\ agent'[a].op = agent[a].op
      /\ \A b \in Agents \ {a} : agent'[b] = agent[b]
  BY <1>3 DEF Move, Put
<1>5. TypeOK'
  BY <1>1, <1>2, <1>4 DEF TypeOK, disk
<1>6. RowFrame(a)
  BY <1>1, <1>4 DEF RowFrame, disk
<1>7. AgentRow(a)' /\ OpRow(agent[a].op)'
  BY <1>1, <1>2, <1>4 DEF AgentRow, Live, OpRow, OwnsLock, disk
<1> QED BY <1>5, <1>6, <1>7, RowOthers

\* The writer records how it ended, or gives its plan back.
LEMMA RowFinish ==
    ASSUME RowInv, NEW a \in Agents, Finish(a) \/ Undispatch(a)
    PROVE  RowInv'
<1> DEFINE o == agent[a].op
<1>1. Live(a) /\ agent[a].pc \notin Resolver
  BY DEF Finish, Undispatch, Live, Resolver
<1>2. /\ o \in Ops /\ TypeOK /\ OpRow(o) /\ HoldsRow(a) /\ agent[a].then \in PCs
      /\ agent[a].journal \in Journals \union {None}
  BY <1>1, AtRow
<1>3. Goto(a, "exited") /\ UNCHANGED <<output, lock, next, stage, archive, child, ghost>>
  BY DEF Finish, Undispatch, disk
<1>4. Move(a, "exited")
  BY <1>2, <1>3, Moves DEF PCs
<1>5. /\ agent' \in [Agents -> Process] /\ agent'[a].pc = "exited"
      /\ agent'[a].op = o /\ \A b \in Agents \ {a} : agent'[b] = agent[b]
  BY <1>4 DEF Move, Put
<1>6. ~Register(a)
  BY <1>1 DEF Register, Resolver
<1>7. /\ OthersRows(o) /\ row' \in [Ops -> Row]
      /\ row'[o].resolution = row[o].resolution
      /\ Finish(a) => /\ row'[o].writer = row[o].writer
                      /\ row'[o].status = IF agent[a].pc = "uncertain" THEN "unknown"
                                          ELSE agent[a].pc
      /\ Undispatch(a) => row'[o].status = "planned"
  BY <1>2, <1>6, StoreRows
<1>8. TypeOK'
  BY <1>2, <1>3, <1>5, <1>7 DEF TypeOK
<1>9. RowFrame(a)
  BY <1>1, <1>3, <1>5, <1>7 DEF RowFrame, OthersRows
<1>10. AgentRow(a)'
  BY <1>5 DEF AgentRow, Live
<1>11. OpRow(o)'
  <2>1. CASE Finish(a)
    BY <1>2, <1>3, <1>5, <1>7, <2>1 DEF OpRow, HoldsRow, OwnsLock, Finish
  <2>2. CASE Undispatch(a)
    BY <1>2, <1>3, <1>5, <1>7, <2>2 DEF OpRow, HoldsRow, OwnsLock, Undispatch, Early
  <2> QED BY <2>1, <2>2
<1> QED BY <1>5, <1>8, <1>9, <1>10, <1>11, RowOthers

\* operation resolve: whatever lock it deletes, afterwards its own is gone.
LEMMA RowResolve ==
    ASSUME RowInv, NEW a \in Agents, Archive(a) \/ UnlinkLock(a) \/ Register(a)
    PROVE  RowInv'
<1> DEFINE o == agent[a].op
<1>1. Live(a) /\ agent[a].pc \in Resolver
  BY DEF Archive, UnlinkLock, Register, Live, Resolver
<1>2. /\ o \in Ops /\ TypeOK /\ OpRow(o) /\ ReadsRow(a) /\ agent[a].then \in PCs
      /\ agent[a].journal \in Journals \union {None}
  BY <1>1, AtRow
<1>3. /\ UNCHANGED <<output, next, stage, child, ghost>>
      /\ archive' \in SUBSET Ops /\ (lock' = lock \/ lock' = None)
  BY <1>2 DEF Archive, UnlinkLock, Register, disk, TypeOK
<1>4. PICK x \in {"unlinking", "registering", "exited"} :
         Goto(a, x) /\ (x = "registering" => lock' = None)
  BY DEF Archive, UnlinkLock, Register
<1>5. Move(a, x)
  BY <1>2, <1>4, Moves DEF PCs
<1>6. /\ agent' \in [Agents -> Process] /\ agent'[a].pc = x /\ agent'[a].op = o
      /\ agent'[a].seen = agent[a].seen
      /\ \A b \in Agents \ {a} : agent'[b] = agent[b]
  BY <1>5 DEF Move, Put
<1>7. /\ OthersRows(o) /\ row' \in [Ops -> Row]
      /\ row'[o].status = row[o].status /\ row'[o].writer = row[o].writer
      /\ row'[o].resolution # row[o].resolution => Register(a)
  <2>1. CASE Register(a)
    <3>1. CASE Unresolved(o)
      BY <1>2, <2>1, <3>1, StoreRows DEF ReadsRow
    <3>2. CASE ~Unresolved(o)
      BY <1>2, <2>1, <3>2, StoreRows DEF ReadsRow
    <3> QED BY <3>1, <3>2
  <2>2. CASE ~Register(a)
    <3>1. row' = row
      BY <2>2 DEF Archive, UnlinkLock
    <3> QED BY <1>2, <3>1 DEF OthersRows, TypeOK
  <2> QED BY <2>1, <2>2
<1>8. TypeOK'
  BY <1>2, <1>3, <1>6, <1>7 DEF TypeOK
<1>9. RowFrame(a)
  BY <1>1, <1>3, <1>6, <1>7 DEF RowFrame, OthersRows
<1>10. AgentRow(a)'
  <2>1. CASE x = "exited"
    BY <1>6, <2>1 DEF AgentRow, Live
  <2>2. CASE x # "exited"
    <3>1. row[o].writer \in Agents \ {a} /\ ~Alive(row[o].writer)
      BY <1>1, <1>2 DEF ReadsRow, Alive, Live
    <3>2. ~Alive(row[agent[a].op].writer)'
      BY <1>6, <1>7, <3>1 DEF Alive
    <3>3. x = "registering" => ~OwnsLock(agent[a].op)'
      BY <1>4 DEF OwnsLock
    <3>4. ReadsRow(a)'
      BY <1>2, <1>6, <1>7, <3>2, <3>3 DEF ReadsRow
    <3> QED BY <1>2, <1>6, <2>2, <3>4 DEF AgentRow, Resolver
  <2> QED BY <2>1, <2>2
<1>11. OpRow(o)'
  <2>1. OwnsLock(o)' => OwnsLock(o)
    BY <1>3, <1>6 DEF OwnsLock
  <2>2. row[o].status # "planned" /\ row[o].writer \in Agents
    BY <1>2 DEF ReadsRow
  <2>3. row'[o].resolution # row[o].resolution => ~OwnsLock(o)
    BY <1>2, <1>7 DEF ReadsRow, Register
  <2> QED BY <1>2, <1>3, <1>6, <1>7, <2>1, <2>2, <2>3 DEF OpRow
<1> QED BY <1>6, <1>8, <1>9, <1>10, <1>11, RowOthers

\* A waiting plan gets its writer.
LEMMA RowConfirm ==
    ASSUME RowInv, NEW a \in Agents, NEW o \in Ops, Confirm(a, o)
    PROVE  RowInv'
<1>1. /\ TypeOK /\ OpRow(o) /\ row[o].status = "planned" /\ agent[a].pc = "idle"
  BY DEF RowInv, Confirm
<1>2. /\ TypeOK' /\ UNCHANGED <<lock, ghost>> /\ OthersRows(o)
      /\ row'[o].status = "dispatched" /\ row'[o].writer = a /\ row'[o].resolution = None
      /\ agent'[a].pc = "confirmed" /\ agent'[a].op = o
      /\ \A b \in Agents \ {a} : agent'[b] = agent[b]
  BY <1>1, ConfirmMoves DEF OpRow
<1>3. AgentRow(a)'
  BY <1>1, <1>2 DEF AgentRow, HoldsRow, OpRow, Early, Resolver, Writing
<1>4. ASSUME NEW b \in Agents \ {a} PROVE AgentRow(b)'
  <2>1. CASE ~Live(b)
    BY <1>2, <2>1 DEF AgentRow, Live
  <2>2. CASE Live(b)
    <3>1. PICK p \in Ops : p = agent[b].op
      BY <2>2, AtRow
    <3>2. /\ agent[b].pc \in Resolver => ReadsRow(b)
          /\ agent[b].pc \notin Resolver => HoldsRow(b)
      BY <2>2, AtRow
    <3>3. p # o /\ row'[p] = row[p] /\ agent'[b] = agent[b]
      BY <1>1, <1>2, <3>1, <3>2 DEF OthersRows, HoldsRow, ReadsRow
    <3>4. agent[b].pc \in Resolver => ~Alive(row[agent[b].op].writer)'
      <4>1. agent[b].pc \in Resolver =>
                row[p].writer \in Agents \ {a} /\ ~Alive(row[p].writer)
        BY <1>1, <3>1, <3>2 DEF ReadsRow, Alive
      <4> QED BY <1>2, <3>1, <3>3, <4>1 DEF Alive
    <3> QED BY <1>2, <3>1, <3>2, <3>3, <3>4 DEF AgentRow, HoldsRow, ReadsRow, OwnsLock
  <2> QED BY <2>1, <2>2
<1>5. ASSUME NEW p \in Ops PROVE OpRow(p)'
  <2>1. OpRow(p)
    BY DEF RowInv
  <2>2. CASE p = o
    BY <1>1, <1>2, <2>2 DEF OpRow, OwnsLock
  <2>3. CASE p # o
    BY <1>2, <2>1, <2>3 DEF OpRow, OwnsLock, OthersRows
  <2> QED BY <2>2, <2>3
<1> QED BY <1>2, <1>3, <1>4, <1>5 DEF RowInv

\* An operation resolve starts, next to any others.
LEMMA RowBegin ==
    ASSUME RowInv, NEW a \in Agents, NEW o \in Ops, ResolveBegin(a, o)
    PROVE  RowInv'
<1>1. /\ TypeOK /\ OpRow(o) /\ Unresolved(o) /\ ~Alive(row[o].writer)
      /\ agent[a].pc = "idle"
  BY DEF RowInv, ResolveBegin
<1>2. /\ TypeOK' /\ UNCHANGED <<lock, row, ghost>>
      /\ agent'[a].pc = "archiving" /\ agent'[a].op = o /\ agent'[a].seen # None
      /\ \A b \in Agents \ {a} : agent'[b] = agent[b]
  BY <1>1, ResolveMoves
<1>3. /\ row[o].status # "planned" /\ row[o].writer \in Agents \ {a}
  BY <1>1 DEF OpRow, Unresolved, Alive
<1>4. AgentRow(a)'
  <2>1. ReadsRow(a)'
    BY <1>1, <1>2, <1>3 DEF ReadsRow, Alive
  <2> QED BY <1>2, <2>1 DEF AgentRow, Resolver
<1>5. ASSUME NEW b \in Agents \ {a} PROVE AgentRow(b)'
  <2>1. CASE ~Live(b)
    BY <1>2, <2>1 DEF AgentRow, Live
  <2>2. CASE Live(b)
    <3>1. /\ agent[b].op \in Ops
          /\ agent[b].pc \in Resolver => ReadsRow(b)
          /\ agent[b].pc \notin Resolver => HoldsRow(b)
      BY <2>2, AtRow
    <3>2. agent[b].pc \in Resolver => ~Alive(row[agent[b].op].writer)'
      <4>1. agent[b].pc \in Resolver =>
                /\ row[agent[b].op].writer \in Agents \ {a}
                /\ ~Alive(row[agent[b].op].writer)
        BY <1>1, <3>1 DEF ReadsRow, Alive
      <4> QED BY <1>2, <4>1 DEF Alive
    <3> QED BY <1>2, <3>1, <3>2 DEF AgentRow, HoldsRow, ReadsRow, OwnsLock
  <2> QED BY <2>1, <2>2
<1>6. ASSUME NEW p \in Ops PROVE OpRow(p)'
  BY <1>2 DEF RowInv, OpRow, OwnsLock
<1> QED BY <1>2, <1>4, <1>5, <1>6 DEF RowInv

\* What neither row nor lock, process and ghost take part in.
LEMMA RowStays ==
    ASSUME RowInv, TypeOK', UNCHANGED <<lock, row, agent, ghost>>
    PROVE  RowInv'
<1>1. ASSUME NEW b \in Agents PROVE AgentRow(b)'
  <2>1. CASE ~Live(b)
    BY <2>1 DEF AgentRow, Live
  <2>2. CASE Live(b)
    <3>1. /\ agent[b].op \in Ops
          /\ agent[b].pc \in Resolver => ReadsRow(b)
          /\ agent[b].pc \notin Resolver => HoldsRow(b)
      BY <2>2, AtRow
    <3> QED BY <3>1 DEF AgentRow, HoldsRow, ReadsRow, OwnsLock, Alive
  <2> QED BY <2>1, <2>2
<1>2. ASSUME NEW p \in Ops PROVE OpRow(p)'
  BY DEF RowInv, OpRow, OwnsLock
<1> QED BY <1>1, <1>2 DEF RowInv

\* The constants' null values are not elements: the initial state is well typed.
LEMMA TypeInit == Init => TypeOK
<1> SUFFICES ASSUME Init PROVE TypeOK
  OBVIOUS
<1>1. /\ output \in Outputs \union {None} /\ lock \in Journals \union {None}
      /\ next \in BOOLEAN /\ archive \subseteq Ops
      /\ child \in [Ops -> {"none", "running", "stopped"}]
  BY DEF Init
<1>2. stage \in [Ops -> Stage]
  BY DEF Init, Stage
<1>3. row \in [Ops -> Row]
  BY DEF Init, Row
<1>4. agent \in [Agents -> Process]
  <2> DEFINE m == [pc |-> "idle", then |-> "idle", op |-> None, journal |-> None,
                   published |-> FALSE, done |-> {}, seen |-> None]
  <2>1. {} \in SUBSET FileNames
    OBVIOUS
  <2>2. m \in Process
    BY <2>1, Zenon DEF Process, PCs
  <2>3. agent = [a \in Agents |-> m]
    BY Zenon DEF Init
  <2> HIDE DEF m
  <2> QED BY <2>2, <2>3
<1>5. ghost \in [Ops -> [took : BOOLEAN, published : SUBSET FileNames]]
  BY DEF Init
<1> QED BY <1>1, <1>2, <1>3, <1>4, <1>5 DEF TypeOK

\* Nothing is planned or locked.
LEMMA RowInit == Init => RowInv
<1> SUFFICES ASSUME Init PROVE RowInv
  OBVIOUS
<1>1. \A a \in Agents : AgentRow(a)
  BY DEF Init, AgentRow, Live
<1>2. ASSUME NEW o \in Ops PROVE OpRow(o)
  <2>1. /\ row[o].status = "planned" /\ row[o].resolution = None
        /\ ~ghost[o].took /\ lock = None
    BY DEF Init
  <2> QED BY <2>1 DEF OpRow, OwnsLock
<1> QED BY <1>1, <1>2, TypeInit DEF RowInv

\* Every step preserves the invariant of the rows.
LEMMA RowNext ==
    ASSUME RowInv, [Next]_vars
    PROVE  RowInv'
<1>1. CASE \E a \in Agents : Step(a) \/ Crash(a)
  BY <1>1, RowPlain, RowUpdates, RowReplace, RowPublish, RowAcquire, RowCrash, RowFinish,
     RowResolve DEF Step
<1>2. CASE \E a \in Agents, o \in Ops : Confirm(a, o) \/ ResolveBegin(a, o)
  BY <1>2, RowConfirm, RowBegin
<1>3. CASE (\E o \in Ops : ChildWrites(o) \/ ChildExits(o)) \/ MakeForeign \/ TakeAway
  <2>1. TypeOK' /\ UNCHANGED <<lock, row, agent, ghost>>
    BY <1>3, OutsideMoves DEF RowInv
  <2> QED BY <2>1, RowStays
<1>4. CASE UNCHANGED vars
  <2>1. UNCHANGED <<output, lock, next, stage, archive, child, row, agent, ghost>>
    BY <1>4 DEF vars, disk
  <2>2. TypeOK'
    BY <2>1 DEF RowInv, TypeOK
  <2> QED BY <2>1, <2>2, RowStays
<1> QED BY <1>1, <1>2, <1>3, <1>4 DEF Next

-----------------------------------------------------------------------------
(* The theorems about the rows, for any number of resolves at a time.       *)

\* The inductive invariant of the rows holds at every step.
THEOREM RowInvariant == Spec => []RowInv
  BY RowInit, RowNext, PTL DEF Spec

\* Journals, stages, rows and processes stay in their sets, for every number of
\* operations, processes and files.
THEOREM ExportTypes == Spec => []TypeOK
<1>1. RowInv => TypeOK
  BY DEF RowInv
<1> QED BY <1>1, RowInvariant, PTL

\* Success and a resolution have given the output back (Unlock, resolve_recovery),
\* also when several resolves race for the operation.
THEOREM ClosedAreUnlocked == Spec => []ClosedLeavesNoLock
<1>1. RowInv => ClosedLeavesNoLock
  BY DEF RowInv, OpRow, OwnsLock, ClosedLeavesNoLock
<1> QED BY <1>1, RowInvariant, PTL

-----------------------------------------------------------------------------
(* What a process changes belongs to its operation.                         *)

Frame(a) ==
    LET o == agent[a].op IN
    /\ Live(a) /\ agent'[a].op = o /\ agent'[a].pc # "idle"
    /\ \A b \in Agents \ {a} : agent'[b] = agent[b]
    /\ archive \subseteq archive'
    /\ \A p \in Ops \ {o} :
          /\ row'[p] = row[p] /\ stage'[p] = stage[p]
          /\ child'[p] = child[p] /\ ghost'[p] = ghost[p]
    /\ \/ lock' = lock
       \/ (lock = None \/ lock.op = o) /\ (lock' = None \/ lock'.op = o)

Own(a) ==
    LET o == agent[a].op IN
    TypeOK' /\ Frame(a) /\ AgentInv(a)' /\ OpInv(o)'

\* What the invariant says of a process that takes a step.
LEMMA AtStep ==
    ASSUME LockInv, NEW a \in Agents, Live(a)
    PROVE  LET o == agent[a].op IN
           /\ o \in Ops /\ TypeOK /\ OpInv(o)
           /\ agent[a].pc \in Resolver => ResolverAt(a)
           /\ agent[a].pc \notin Resolver =>
                 /\ WriterAt(a)
                 /\ agent[a].pc \notin Early => agent[a].journal \in Journals
           /\ agent[a] \in Process /\ agent[a].then \in PCs /\ agent[a].pc \in PCs
           /\ agent[a].journal \in Journals \union {None}
           /\ lock \in Journals \union {None}
           /\ row \in [Ops -> Row] /\ agent \in [Agents -> Process]
           /\ child \in [Ops -> {"none", "running", "stopped"}]
           /\ stage \in [Ops -> Stage]
<1>1. TypeOK /\ AgentInv(a) /\ agent[a].op \in Ops
  BY DEF LockInv, AgentInv
<1>2. agent[a] \in Process
  BY <1>1 DEF TypeOK
<1>3. /\ agent[a].then \in PCs /\ agent[a].pc \in PCs
      /\ agent[a].journal \in Journals \union {None}
  BY <1>2 DEF Process
<1>4. /\ agent[a].pc \in Resolver => ResolverAt(a)
      /\ agent[a].pc \notin Resolver => WriterAt(a)
  BY <1>1 DEF AgentInv
<1>5. agent[a].pc \notin Resolver /\ agent[a].pc \notin Early =>
          agent[a].journal \in Journals
  BY <1>3, <1>4 DEF WriterAt, Says
<1> QED BY <1>1, <1>2, <1>3, <1>4, <1>5 DEF LockInv, TypeOK

\* A step that changes nothing but its process, the draft of a journal, the output
\* and a stage.
LEMMA QuietOwn ==
    ASSUME LockInv, NEW a \in Agents, Live(a),
           agent' \in [Agents -> Process],
           agent'[a].op = agent[a].op, agent'[a].pc # "idle",
           \A b \in Agents \ {a} : agent'[b] = agent[b],
           UNCHANGED <<lock, archive, child, row>>,
           next' \in BOOLEAN, output' \in Outputs \union {None},
           stage' \in [Ops -> Stage], OthersStages(agent[a].op),
           stage'[agent[a].op].terminal = stage[agent[a].op].terminal,
           ghost' \in [Ops -> [took : BOOLEAN, published : SUBSET FileNames]],
           ghost'[agent[a].op].took = ghost[agent[a].op].took,
           \A p \in Ops \ {agent[a].op} : ghost'[p] = ghost[p],
           AgentInv(a)'
    PROVE  Own(a)
<1> DEFINE o == agent[a].op
<1>1. o \in Ops /\ TypeOK /\ OpInv(o)
  BY AtStep
<1>2. TypeOK'
  BY <1>1 DEF TypeOK
<1>3. Frame(a)
  BY DEF Frame, OthersStages
<1>4. OpInv(o)'
  BY <1>1 DEF OpInv, OwnsLock, Says
<1> QED BY <1>2, <1>3, <1>4 DEF Own

\* The end of a process satisfies what is said of it.
LEMMA ExitedInv ==
    ASSUME NEW a, agent'[a].pc = "exited"
    PROVE  AgentInv(a)'
  BY DEF AgentInv, Live

\* A process that stops.
LEMMA OwnCrash ==
    ASSUME LockInv, NEW a \in Agents, Crash(a)
    PROVE  Own(a)
<1>1. Live(a) /\ Goto(a, "exited") /\ "exited" \in PCs
  BY DEF Crash, Live, PCs
<1>2. TypeOK /\ agent[a].then \in PCs /\ agent[a].journal \in Journals \union {None}
  BY <1>1, AtStep
<1>3. Move(a, "exited")
  BY <1>1, <1>2, Moves
<1>4. UNCHANGED <<output, lock, next, stage, archive, child, row, ghost>>
  BY DEF Crash, disk
<1> QED BY <1>1, <1>2, <1>3, <1>4, ExitedInv, QuietOwn
        DEF Move, Put, TypeOK, OthersStages

\* Where a writer may go when only its position changes.
LEMMA QuietMoves ==
    ASSUME LockInv, NEW a \in Agents, Live(a), agent[a].pc \notin Resolver,
           NEW x \in PCs, Move(a, x),
           UNCHANGED <<lock, child, row, ghost>>,
           stage'[agent[a].op].terminal = stage[agent[a].op].terminal,
           \/ agent[a].pc = "confirmed" /\ x \in {"locking", "refused"}
           \/ agent[a].pc = "locking" /\ x = "refused"
           \/ agent[a].pc = "drafting" /\ x = "replacing"
           \/ agent[a].pc = "staging" /\ x = "copying"
           \/ agent[a].pc = "generated" /\ x = "checking"
           \/ agent[a].pc = "publishing" /\ x = "filing"
           \/ /\ agent[a].pc \notin Early
              /\ x \in {"failing", "uncertain", "partial", "failed"}
           \/ /\ agent[a].pc = "failing" /\ x = "releasing"
              /\ lock = agent[a].journal /\ Releasable(agent[a].journal)
    PROVE  AgentInv(a)'
<1> DEFINE o == agent[a].op
<1>1. o \in Ops /\ WriterAt(a)
  BY AtStep
<1>2. /\ agent'[a].pc = x /\ agent'[a].then = agent[a].then /\ agent'[a].op = o
      /\ agent'[a].journal = agent[a].journal
  BY DEF Move, Put
<1>3. (OwnsLock(o) <=> OwnsLock(agent[a].op)')
  BY <1>2 DEF OwnsLock
<1>4. Says(agent[a].journal, o) => Says(agent[a].journal, agent[a].op)'
  BY <1>2 DEF Says
<1>5. x \notin Resolver
  BY DEF Resolver
<1>6. WriterAt(a)'
  <2>1. CASE x \in Early
    BY <1>1, <1>2, <2>1 DEF WriterAt, Early, Settled, Writing, At
  <2>2. CASE x = "replacing"
    BY <1>1, <1>2, <1>3, <1>4, <2>2 DEF WriterAt, Early, Settled, Writing, At
  <2>3. CASE x \in {"copying", "checking", "filing"}
    BY <1>1, <1>2, <1>4, <2>3 DEF WriterAt, Early, Settled, Writing, At
  <2>4. CASE x \in {"failing", "uncertain", "partial", "failed"}
    BY <1>1, <1>2, <1>4, <2>4 DEF WriterAt, Early, Settled, Writing, At
  <2>5. CASE x = "releasing"
    BY <1>1, <1>2, <1>4, <2>5 DEF WriterAt, Early, Settled, Writing, At, Releasable
  <2> QED BY <2>1, <2>2, <2>3, <2>4, <2>5 DEF Early
<1> QED BY <1>1, <1>2, <1>5, <1>6 DEF AgentInv

\* The checks of a writer, and what it does with a failure.
LEMMA OwnChecks ==
    ASSUME LockInv, NEW a \in Agents,
           \/ Check(a) \/ MakeStage(a) \/ Draft(a) \/ Consume(a) \/ FileCheck(a)
           \/ Inspect(a)
           \/ Escapes(a)
    PROVE  Own(a)
<1> DEFINE o == agent[a].op
<1>1. Live(a) /\ agent[a].pc \notin Resolver
  BY DEF Check, MakeStage, Draft, Consume, FileCheck, Inspect, Escapes, Live, Resolver
<1>2. /\ o \in Ops /\ TypeOK /\ agent[a].then \in PCs
      /\ agent[a].journal \in Journals \union {None} /\ stage \in [Ops -> Stage]
  BY <1>1, AtStep
<1>3. PICK x \in PCs :
         /\ Goto(a, x)
         /\ \/ agent[a].pc = "confirmed" /\ x \in {"locking", "refused"}
            \/ agent[a].pc = "drafting" /\ x = "replacing"
            \/ agent[a].pc = "staging" /\ x = "copying"
            \/ agent[a].pc = "generated" /\ x = "checking"
            \/ agent[a].pc = "publishing" /\ x = "filing"
            \/ /\ agent[a].pc \notin Early
               /\ x \in {"failing", "uncertain", "partial", "failed"}
            \/ /\ agent[a].pc = "failing" /\ x = "releasing"
               /\ lock = agent[a].journal /\ Releasable(agent[a].journal)
  <2>1. CASE Check(a)
    BY <2>1 DEF Check, PCs
  <2>2. CASE Draft(a)
    BY <2>2 DEF Draft, PCs
  <2>3. CASE Consume(a)
    BY <2>3 DEF Consume, PCs
  <2>4. CASE FileCheck(a)
    BY <2>4 DEF FileCheck, PCs
  <2>5. CASE Inspect(a)
    BY <2>5 DEF Inspect, PCs, Early
  <2>6. CASE Escapes(a)
    BY <2>6 DEF Escapes, PCs, Early
  <2>7. CASE MakeStage(a)
    BY <2>7 DEF MakeStage, PCs
  <2> QED BY <2>1, <2>2, <2>3, <2>4, <2>5, <2>6, <2>7
<1>4. Move(a, x)
  BY <1>2, <1>3, Moves
<1>5. /\ UNCHANGED <<output, lock, archive, child, row, ghost>>
      /\ next' \in BOOLEAN
      /\ \/ stage' = stage
         \/ stage' = [stage EXCEPT ![o].made = TRUE]
         \/ stage' = [stage EXCEPT ![o].manifest = TRUE]
  BY <1>2 DEF Check, MakeStage, Draft, Consume, FileCheck, Inspect, Escapes, disk,
              TypeOK
<1>6. /\ stage' \in [Ops -> Stage] /\ OthersStages(o)
      /\ stage'[o].terminal = stage[o].terminal
  <2>1. CASE stage' = stage
    BY <1>2, <2>1 DEF OthersStages
  <2>2. CASE stage' = [stage EXCEPT ![o].manifest = TRUE]
    BY <1>2, <2>2, StageMoves
  <2>3. CASE stage' = [stage EXCEPT ![o].made = TRUE]
    BY <1>2, <2>3, StageMoves
  <2> QED BY <1>5, <2>1, <2>2, <2>3
<1>7. AgentInv(a)'
  BY <1>1, <1>3, <1>4, <1>5, <1>6, QuietMoves
<1>8. agent'[a].pc # "idle"
  BY <1>3, <1>4 DEF Move, Put
<1> QED BY <1>1, <1>2, <1>4, <1>5, <1>6, <1>7, <1>8, QuietOwn DEF Move, Put, TypeOK

\* The next journal is in memory: WriterAt of a process that drafts it.
LEMMA DraftingInv ==
    ASSUME LockInv, NEW a \in Agents, Live(a), agent[a].pc \notin Resolver \union Early,
           NEW then \in Thens,
           NEW journal \in Journals, Put(a, "drafting", then, journal),
           UNCHANGED <<lock, child, row, ghost>>,
           Says(journal, agent[a].op), OwnsLock(agent[a].op),
           then # "starting" => lock.phase # "prepared",
           then = "starting" => journal.phase = "spawning",
           then = "waiting" => journal.phase = "generating",
           then = "generated" => journal.phase = "generated",
           then = "making" => journal.phase = "publishing",
           then = "terminating" => journal.phase = "completed"
    PROVE  AgentInv(a)'
<1> DEFINE o == agent[a].op
<1>1. o \in Ops /\ WriterAt(a)
  BY AtStep
<1>2. /\ agent'[a].pc = "drafting" /\ agent'[a].then = then /\ agent'[a].op = o
      /\ agent'[a].journal = journal
  BY DEF Put
<1>3. OwnsLock(agent[a].op)'
  BY <1>2 DEF OwnsLock
<1>4. Says(journal, agent[a].op)'
  BY <1>2 DEF Says
<1>5. WriterAt(a)'
  BY <1>1, <1>2, <1>3, <1>4 DEF WriterAt, Early, Settled, Writing, At, Thens
<1> QED BY <1>1, <1>2, <1>5 DEF AgentInv, Resolver

\* The journal in memory goes on to its next phase.
LEMMA OwnUpdates ==
    ASSUME LockInv, NEW a \in Agents,
           \/ StageInputs(a) \/ RecordChild(a) \/ Wait(a) \/ PublishCheck(a)
           \/ VerifyOutput(a)
    PROVE  Own(a)
<1> DEFINE o == agent[a].op
           j == agent[a].journal
<1>1. Live(a) /\ agent[a].pc \notin Resolver \union Early
  BY DEF StageInputs, RecordChild, Wait, PublishCheck, VerifyOutput, Live, Resolver, Early
<1>2. /\ o \in Ops /\ TypeOK /\ OpInv(o) /\ WriterAt(a) /\ j \in Journals
      /\ lock = j /\ Says(j, o) /\ stage \in [Ops -> Stage]
  <2>1. WriterAt(a) /\ j \in Journals
    BY <1>1, AtStep
  <2>2. lock = j /\ Says(j, o)
    BY <1>1, <2>1 DEF WriterAt, Settled, StageInputs, RecordChild, Wait, PublishCheck,
                      VerifyOutput
  <2> QED BY <1>1, <2>1, <2>2, AtStep
<1>3. OwnsLock(o)
  BY <1>2 DEF OwnsLock, Says
<1>4. PICK then \in Thens, journal \in Journals :
         /\ Update(a, journal, then)
         /\ Says(journal, o)
         /\ then # "starting" => j.phase # "prepared"
         /\ then = "starting" => journal.phase = "spawning"
         /\ then = "waiting" => journal.phase = "generating"
         /\ then = "generated" => journal.phase = "generated"
         /\ then = "making" => journal.phase = "publishing"
         /\ then = "terminating" => journal.phase = "completed"
  <2>1. CASE StageInputs(a)
    <3> DEFINE k == [j EXCEPT !.phase = "spawning"]
    <3>1. j.phase = "prepared" /\ ~j.stopped
      BY <1>2, <2>1 DEF WriterAt, StageInputs, At, Writing, Says
    <3>2. Update(a, k, "starting")
      BY <2>1, Zenon DEF StageInputs
    <3>3. /\ k \in Journals /\ k.op = j.op /\ k.phase = "spawning"
          /\ k.stopped <=> j.stopped
      BY <1>2, Zenon DEF Journals, Phases
    <3> HIDE DEF k
    <3>4. Says(k, o)
      BY <1>2, <3>1, <3>3, NoneFacts DEF Says
    <3> QED BY <3>1, <3>2, <3>3, <3>4 DEF Thens
  <2>2. CASE RecordChild(a)
    <3> DEFINE k == [j EXCEPT !.phase = "generating", !.native = TRUE]
    <3>1. j.phase = "spawning"
      BY <1>2, <2>2 DEF WriterAt, RecordChild, At, Writing, Says
    <3>2. Update(a, k, "waiting")
      BY <2>2, Zenon DEF RecordChild
    <3>3. /\ k \in Journals /\ k.op = j.op /\ k.phase = "generating"
          /\ k.native /\ (k.stopped <=> j.stopped)
      BY <1>2, Zenon DEF Journals, Phases
    <3> HIDE DEF k
    <3>4. Says(k, o)
      BY <1>2, <3>1, <3>3, NoneFacts DEF Says
    <3> QED BY <3>1, <3>2, <3>3, <3>4 DEF Thens
  <2>3. CASE Wait(a)
    <3> DEFINE k == [j EXCEPT !.phase = "generated", !.stopped = TRUE]
    <3>1. j.phase = "generating" /\ child[o] = "stopped"
      BY <1>2, <2>3 DEF WriterAt, Wait, At, Writing, Says
    <3>2. Update(a, k, "generated")
      BY <2>3, Zenon DEF Wait
    <3>3. /\ k \in Journals /\ k.op = j.op /\ k.phase = "generated" /\ k.stopped
      BY <1>2, Zenon DEF Journals, Phases
    <3> HIDE DEF k
    <3>4. Says(k, o)
      BY <1>2, <3>1, <3>3, NoneFacts DEF Says
    <3> QED BY <3>1, <3>2, <3>3, <3>4 DEF Thens
  <2>4. CASE PublishCheck(a)
    <3> DEFINE k == [j EXCEPT !.phase = "publishing"]
    <3>1. j.phase = "generated" /\ j.stopped
      BY <1>2, <2>4 DEF WriterAt, PublishCheck, At, Writing, Says
    <3>2. Update(a, k, "making")
      BY <2>4, Zenon DEF PublishCheck
    <3>3. /\ k \in Journals /\ k.op = j.op /\ k.phase = "publishing"
          /\ k.stopped <=> j.stopped
      BY <1>2, Zenon DEF Journals, Phases
    <3> HIDE DEF k
    <3>4. Says(k, o)
      BY <1>2, <3>1, <3>3, NoneFacts DEF Says
    <3> QED BY <3>1, <3>2, <3>3, <3>4 DEF Thens
  <2>5. CASE VerifyOutput(a)
    <3> DEFINE k == [j EXCEPT !.phase = "completed"]
    <3>1. j.phase = "publishing" /\ j.stopped
      BY <1>2, <2>5 DEF WriterAt, VerifyOutput, At, Writing, Says
    <3>2. Update(a, k, "terminating")
      BY <2>5, Zenon DEF VerifyOutput
    <3>3. /\ k \in Journals /\ k.op = j.op /\ k.phase = "completed"
          /\ k.stopped <=> j.stopped
      BY <1>2, Zenon DEF Journals, Phases
    <3> HIDE DEF k
    <3>4. Says(k, o)
      BY <1>2, <3>1, <3>3, NoneFacts DEF Says
    <3> QED BY <3>1, <3>2, <3>3, <3>4 DEF Thens
  <2> QED BY <2>1, <2>2, <2>3, <2>4, <2>5
<1>5. Put(a, "drafting", then, journal)
  BY <1>2, <1>4, Moves DEF PCs, Thens
<1>6. UNCHANGED <<output, lock, next, stage, archive, child, row, ghost>>
  BY DEF StageInputs, RecordChild, Wait, PublishCheck, VerifyOutput, disk
<1>7. /\ stage' \in [Ops -> Stage] /\ OthersStages(o)
      /\ stage'[o].terminal = stage[o].terminal
  BY <1>2, <1>6 DEF OthersStages
<1>8. AgentInv(a)'
  BY <1>1, <1>2, <1>3, <1>4, <1>5, <1>6, DraftingInv
<1> QED BY <1>1, <1>2, <1>5, <1>6, <1>7, <1>8, QuietOwn DEF Put, TypeOK

\* The draft replaces the lock.
LEMMA OwnReplace ==
    ASSUME LockInv, NEW a \in Agents, Replace(a)
    PROVE  Own(a)
<1> DEFINE o == agent[a].op
           j == agent[a].journal
           x == agent[a].then
<1>1. Live(a) /\ agent[a].pc = "replacing" /\ agent[a].pc \notin Resolver \union Early
  BY DEF Replace, Live, Resolver, Early
<1>2. /\ o \in Ops /\ TypeOK /\ OpInv(o) /\ WriterAt(a) /\ j \in Journals /\ x \in PCs
      /\ Says(j, o) /\ OwnsLock(o)
      /\ x \in Thens
  <2>1. WriterAt(a) /\ j \in Journals
    BY <1>1, AtStep
  <2>2. /\ Says(j, o) /\ OwnsLock(o)
        /\ x \in Thens
    BY <1>1, <2>1 DEF WriterAt, Writing
  <2> QED BY <1>1, <2>1, <2>2, AtStep
<1>3. /\ lock' = j /\ next' = FALSE /\ Goto(a, x)
      /\ UNCHANGED <<output, stage, archive, child, row, ghost>>
  BY DEF Replace
<1>4. Move(a, x)
  BY <1>2, <1>3, Moves
<1>5. /\ agent' \in [Agents -> Process] /\ agent'[a].pc = x /\ agent'[a].op = o
      /\ agent'[a].then = x /\ agent'[a].journal = j
      /\ \A b \in Agents \ {a} : agent'[b] = agent[b]
  BY <1>4 DEF Move, Put
<1>6. TypeOK'
  BY <1>2, <1>3, <1>5 DEF TypeOK
<1>7. Frame(a)
  BY <1>1, <1>2, <1>3, <1>5 DEF Frame, OwnsLock, Says, Thens
<1>8. Says(j, agent[a].op)' /\ Says(lock, o)' /\ OwnsLock(o)' /\ OwnsLock(agent[a].op)'
  BY <1>2, <1>3, <1>5 DEF Says, OwnsLock
<1>9. AgentInv(a)'
  <2>1. WriterAt(a)'
    BY <1>1, <1>2, <1>3, <1>5, <1>8 DEF WriterAt, Early, Settled, Writing, At, Thens
  <2> QED BY <1>2, <1>5, <2>1 DEF AgentInv, Resolver, Thens
<1>10. OpInv(o)'
  BY <1>2, <1>3, <1>5, <1>8 DEF OpInv, OwnsLock
<1> QED BY <1>6, <1>7, <1>9, <1>10 DEF Own

\* The lock is created.
LEMMA OwnAcquire ==
    ASSUME LockInv, NEW a \in Agents, Acquire(a)
    PROVE  Own(a)
<1> DEFINE o == agent[a].op
           k == [op |-> o, phase |-> "prepared", native |-> FALSE, stopped |-> FALSE]
<1>1. Live(a) /\ agent[a].pc = "locking" /\ agent[a].pc \notin Resolver
  BY DEF Acquire, Live, Resolver
<1>2. /\ o \in Ops /\ TypeOK /\ OpInv(o) /\ WriterAt(a)
      /\ agent[a].then \in PCs /\ agent[a].journal \in Journals \union {None}
      /\ ~ghost[o].took /\ child[o] = "none"
  <2>1. WriterAt(a) /\ OpInv(o)
    BY <1>1, AtStep
  <2>2. ~ghost[o].took /\ child[o] = "none"
    BY <1>1, <2>1 DEF WriterAt, OpInv, Early
  <2> QED BY <1>1, <2>1, <2>2, AtStep
<1>3. CASE lock # None
  <2>1. Goto(a, "refused") /\ UNCHANGED <<output, lock, next, stage, archive, child, row,
                                          ghost>>
    BY <1>3 DEF Acquire
  <2>2. Move(a, "refused")
    BY <1>2, <2>1, Moves DEF PCs
  <2>3. AgentInv(a)'
    BY <1>1, <2>1, <2>2, QuietMoves DEF PCs
  <2> QED BY <1>1, <1>2, <2>1, <2>2, <2>3, QuietOwn
          DEF Move, Put, TypeOK, OthersStages
<1>4. CASE lock = None
  <2>1. /\ lock' = k /\ ghost' = [ghost EXCEPT ![o].took = TRUE]
        /\ agent' = [agent EXCEPT ![a] = [@ EXCEPT !.pc = "staging", !.journal = k]]
        /\ UNCHANGED <<output, next, stage, archive, child, row>>
    BY <1>4, Zenon DEF Acquire
  <2>2. k \in Journals /\ k.op = o /\ k.phase = "prepared" /\ ~k.stopped
    BY <1>2, FirstJournal
  <2> HIDE DEF k
  <2>3. Put(a, "staging", agent[a].then, k)
    BY <1>2, <2>1, <2>2, Moves DEF PCs
  <2>4. /\ agent' \in [Agents -> Process] /\ agent'[a].pc = "staging"
        /\ agent'[a].op = o /\ agent'[a].journal = k
        /\ \A b \in Agents \ {a} : agent'[b] = agent[b]
    BY <2>3 DEF Put
  <2>5. /\ ghost' \in [Ops -> [took : BOOLEAN, published : SUBSET FileNames]]
        /\ ghost'[o].took
        /\ \A p \in Ops \ {o} : ghost'[p] = ghost[p]
    BY <1>2, <2>1, TookMoves
  <2>6. TypeOK'
    BY <1>2, <2>1, <2>2, <2>4, <2>5 DEF TypeOK
  <2>7. Frame(a)
    BY <1>1, <1>2, <1>4, <2>1, <2>2, <2>4, <2>5 DEF Frame
  <2>8. Says(agent[a].journal, agent[a].op)' /\ Says(lock, o)' /\ OwnsLock(o)'
    BY <1>2, <2>1, <2>2, <2>4, NoneFacts DEF Says, OwnsLock
  <2>9. AgentInv(a)'
    <3>1. WriterAt(a)'
      BY <1>1, <1>2, <2>1, <2>2, <2>4, <2>5, <2>8
         DEF WriterAt, Early, Settled, Writing, At
    <3> QED BY <1>2, <2>4, <3>1 DEF AgentInv, Resolver
  <2>10. OpInv(o)'
    <3>1. row[o].status = "dispatched" /\ row[o].writer = a /\ row[o].resolution = None
      BY <1>2 DEF WriterAt
    <3> QED BY <1>2, <2>1, <2>5, <2>8, <3>1 DEF OpInv
  <2> QED BY <2>6, <2>7, <2>9, <2>10 DEF Own
<1> QED BY <1>3, <1>4

\* The child is started, or killed by a failure.
LEMMA OwnChild ==
    ASSUME LockInv, NEW a \in Agents, Start(a) \/ Fails(a)
    PROVE  Own(a)
<1> DEFINE o == agent[a].op
           j == agent[a].journal
           pc == agent[a].pc
           kills == \/ pc = "waiting"
                    \/ pc \in {"drafting", "replacing"} /\ agent[a].then = "waiting"
<1>1. Live(a) /\ pc \notin Resolver \union Early
  BY DEF Start, Fails, Live, Resolver, Early
<1>2. /\ o \in Ops /\ TypeOK /\ OpInv(o) /\ WriterAt(a) /\ j \in Journals
      /\ agent[a].then \in PCs /\ Says(j, o) /\ ghost[o].took
      /\ row[o].status = "dispatched" /\ row[o].writer = a /\ row[o].resolution = None
      /\ child \in [Ops -> {"none", "running", "stopped"}]
  <2>1. WriterAt(a) /\ j \in Journals
    BY <1>1, AtStep
  <2>2. /\ Says(j, o) /\ ghost[o].took
        /\ row[o].status = "dispatched" /\ row[o].writer = a /\ row[o].resolution = None
    BY <1>1, <2>1 DEF WriterAt
  <2> QED BY <1>1, <2>1, <2>2, AtStep
<1>3. UNCHANGED <<output, lock, next, stage, archive, row, ghost>>
  BY DEF Start, Fails, disk
<1>4. CASE Start(a)
  <2>1. pc = "starting" /\ lock = j /\ j.phase = "spawning" /\ ~j.stopped
    <3>1. pc = "starting" /\ lock = j /\ j.phase = "spawning"
      BY <1>2, <1>4 DEF Start, WriterAt, Settled, At, Writing
    <3> QED BY <1>2, <3>1 DEF Says
  <2>2. child' = [child EXCEPT ![o] = "running"] /\ Move(a, "spawned")
    BY <1>2, <1>4, Moves DEF Start, PCs
  <2>3. /\ agent' \in [Agents -> Process] /\ agent'[a].pc = "spawned"
        /\ agent'[a].then = agent[a].then /\ agent'[a].op = o /\ agent'[a].journal = j
        /\ \A b \in Agents \ {a} : agent'[b] = agent[b]
        /\ child' \in [Ops -> {"none", "running", "stopped"}]
        /\ child'[o] = "running" /\ \A p \in Ops \ {o} : child'[p] = child[p]
    BY <1>2, <2>2 DEF Move, Put
  <2>4. TypeOK'
    BY <1>2, <1>3, <2>3 DEF TypeOK
  <2>5. Frame(a)
    BY <1>1, <1>3, <2>3 DEF Frame
  <2>6. /\ Says(agent[a].journal, agent[a].op)' /\ Says(lock, agent[a].op)'
        /\ OwnsLock(agent[a].op)'
    BY <1>2, <1>3, <2>1, <2>3 DEF Says, OwnsLock
  <2>7. WriterAt(a)'
    BY <1>2, <1>3, <2>1, <2>3, <2>6 DEF WriterAt, Early, Settled, Writing, At
  <2>8. OpInv(o)'
    BY <1>2, <1>3, <2>3, <2>6 DEF OpInv
  <2>9. AgentInv(a)'
    BY <1>2, <2>3, <2>7 DEF AgentInv, Resolver
  <2> QED BY <2>4, <2>5, <2>8, <2>9 DEF Own
<1>5. CASE Fails(a)
  <2>1. Move(a, "failing")
    BY <1>2, <1>5, Moves DEF Fails, PCs
  <2>2. /\ agent' \in [Agents -> Process] /\ agent'[a].pc = "failing"
        /\ agent'[a].then = agent[a].then /\ agent'[a].op = o /\ agent'[a].journal = j
        /\ \A b \in Agents \ {a} : agent'[b] = agent[b]
    BY <2>1 DEF Move, Put
  <2>3. CASE child' = child
    <3>1. AgentInv(a)'
      BY <1>1, <1>3, <2>1, <2>3, QuietMoves DEF PCs
    <3> QED BY <1>1, <1>2, <1>3, <2>2, <2>3, <3>1, QuietOwn DEF TypeOK, OthersStages
  <2>4. CASE child' # child
    <3>1. kills /\ child' = [child EXCEPT ![o] = "stopped"]
      BY <1>5, <2>4 DEF Fails
    <3>2. /\ child' \in [Ops -> {"none", "running", "stopped"}]
          /\ child'[o] = "stopped" /\ \A p \in Ops \ {o} : child'[p] = child[p]
      BY <1>2, <3>1
    <3>3. OwnsLock(o) /\ lock.phase # "prepared" /\ j.phase = "generating"
      BY <1>2, <3>1 DEF WriterAt, Settled, Writing, At, Says, OwnsLock
    <3>4. TypeOK'
      BY <1>2, <1>3, <2>2, <3>2 DEF TypeOK
    <3>5. Frame(a)
      BY <1>1, <1>3, <2>2, <3>2 DEF Frame
    <3>6. Says(lock, o)
      BY <1>2, <3>3 DEF OpInv
    <3>7. /\ Says(agent[a].journal, agent[a].op)' /\ Says(lock, agent[a].op)'
          /\ OwnsLock(agent[a].op)'
      BY <1>2, <1>3, <2>2, <3>2, <3>3, <3>6 DEF Says, OwnsLock
    <3>8. WriterAt(a)'
      BY <1>2, <1>3, <2>2, <3>7 DEF WriterAt, Early, Settled, Writing, At
    <3>9. OpInv(o)'
      BY <1>2, <1>3, <2>2, <3>2, <3>7 DEF OpInv
    <3>10. AgentInv(a)'
      BY <1>2, <2>2, <3>8 DEF AgentInv, Resolver
    <3> QED BY <3>4, <3>5, <3>9, <3>10 DEF Own
  <2> QED BY <2>3, <2>4
<1> QED BY <1>4, <1>5

\* The output directory is made and filled.
LEMMA OwnPublish ==
    ASSUME LockInv, NEW a \in Agents, Make(a) \/ PublishFile(a)
    PROVE  Own(a)
<1> DEFINE o == agent[a].op
           j == agent[a].journal
<1>1. Live(a) /\ agent[a].pc \notin Resolver \union Early
  BY DEF Make, PublishFile, Live, Resolver, Early
<1>2. /\ o \in Ops /\ TypeOK /\ WriterAt(a) /\ j \in Journals
      /\ stage \in [Ops -> Stage]
  BY <1>1, AtStep
<1>3. UNCHANGED <<lock, next, stage, archive, child, row>>
  BY DEF Make, PublishFile
<1>4. /\ agent' \in [Agents -> Process] /\ agent'[a].pc = "publishing"
      /\ agent'[a].then = agent[a].then /\ agent'[a].op = o /\ agent'[a].journal = j
      /\ \A b \in Agents \ {a} : agent'[b] = agent[b]
  BY <1>2, PublishMoves
<1>5. /\ output' \in Outputs \union {None}
      /\ ghost' \in [Ops -> [took : BOOLEAN, published : SUBSET FileNames]]
      /\ ghost'[o].took = ghost[o].took
      /\ \A p \in Ops \ {o} : ghost'[p] = ghost[p]
  <2>1. CASE Make(a)
    <3>1. output' = [maker |-> o, files |-> {}] /\ ghost' = ghost
      BY <2>1 DEF Make
    <3> QED BY <1>2, <3>1 DEF TypeOK, Outputs
  <2>2. CASE PublishFile(a)
    <3>1. PICK n \in FileNames :
            /\ output' = [output EXCEPT !.files = output.files \union {<<n, o>>}]
            /\ ghost' = [ghost EXCEPT ![o] = [ghost[o] EXCEPT
                             !.published = ghost[o].published \union {n}]]
      BY <1>2, <2>2, PublishMoves
    <3>2. output \in Outputs
      BY <1>2, <2>2 DEF PublishFile, TypeOK
    <3>3. <<n, o>> \in Files
      BY <1>2 DEF Files
    <3>4. output' \in Outputs
      BY <3>1, <3>2, <3>3 DEF Outputs
    <3> QED BY <1>2, <3>1, <3>4, PublishedMoves
  <2> QED BY <2>1, <2>2
<1>6. Says(agent[a].journal, agent[a].op)'
  BY <1>1, <1>2, <1>3, <1>4 DEF WriterAt, Says
<1>7. /\ agent[a].pc \in {"making", "filing"}
      /\ lock = j /\ j.phase = "publishing"
  BY <1>2 DEF Make, PublishFile, WriterAt, Settled, At, Writing
<1>8. WriterAt(a)'
  BY <1>1, <1>2, <1>3, <1>4, <1>5, <1>6, <1>7 DEF WriterAt, Early, Settled, Writing, At
<1>9. AgentInv(a)'
  BY <1>2, <1>4, <1>8 DEF AgentInv, Resolver
<1>10. next' \in BOOLEAN /\ OthersStages(o)
  BY <1>2, <1>3 DEF TypeOK, OthersStages
<1> QED BY <1>1, <1>2, <1>3, <1>4, <1>5, <1>9, <1>10, QuietOwn

\* The journal is kept in the stage.
LEMMA OwnTerminal ==
    ASSUME LockInv, NEW a \in Agents, WriteTerminal(a) \/ Release(a)
    PROVE  Own(a)
<1> DEFINE o == agent[a].op
           j == agent[a].journal
<1>1. Live(a) /\ agent[a].pc \notin Resolver \union Early
  BY DEF WriteTerminal, Release, Live, Resolver, Early
<1>2. /\ o \in Ops /\ TypeOK /\ OpInv(o) /\ WriterAt(a) /\ j \in Journals
      /\ agent[a].then \in PCs /\ Says(j, o) /\ lock = j
  <2>1. WriterAt(a) /\ j \in Journals
    BY <1>1, AtStep
  <2>2. Says(j, o) /\ lock = j
    BY <1>1, <2>1 DEF WriterAt, Settled, WriteTerminal, Release
  <2> QED BY <1>1, <2>1, <2>2, AtStep
<1>3. UNCHANGED <<output, lock, next, archive, child, row, ghost>>
  BY DEF WriteTerminal, Release
<1>4. PICK x \in {"unlocking", "dropping"}, k \in Journals :
         /\ Goto(a, x) /\ stage' = [stage EXCEPT ![o].terminal = k]
         /\ k.op = o /\ k.phase \in {"completed", "failed-no-artifacts"}
         /\ x = "unlocking" => j.phase = "completed"
         /\ x = "dropping" => Releasable(j)
  <2>1. CASE WriteTerminal(a)
    <3>1. j.phase = "completed" /\ j.op = o
      BY <1>2, <2>1 DEF WriteTerminal, WriterAt, At, Writing, Says
    <3> QED BY <1>2, <2>1, <3>1 DEF WriteTerminal
  <2>2. CASE Release(a)
    <3> DEFINE k == [j EXCEPT !.phase = "failed-no-artifacts"]
    <3>1. k \in Journals /\ k.op = j.op /\ k.phase = "failed-no-artifacts"
      BY <1>2, Zenon DEF Journals, Phases
    <3>2. Goto(a, "dropping") /\ stage' = [stage EXCEPT ![o].terminal = k]
      BY <2>2, Zenon DEF Release
    <3> HIDE DEF k
    <3>3. Releasable(j) /\ j.op = o
      BY <1>2, <2>2 DEF Release, WriterAt, Says
    <3> QED BY <3>1, <3>2, <3>3
  <2> QED BY <2>1, <2>2
<1>5. Move(a, x)
  BY <1>2, <1>4, Moves DEF PCs
<1>6. /\ agent' \in [Agents -> Process] /\ agent'[a].pc = x
      /\ agent'[a].then = agent[a].then /\ agent'[a].op = o /\ agent'[a].journal = j
      /\ \A b \in Agents \ {a} : agent'[b] = agent[b]
  BY <1>5 DEF Move, Put
<1>7. stage' \in [Ops -> Stage] /\ OthersStages(o) /\ stage'[o].terminal = k
  BY <1>2, <1>4, TerminalMoves
<1>8. TypeOK'
  BY <1>2, <1>3, <1>6, <1>7 DEF TypeOK
<1>9. Frame(a)
  BY <1>1, <1>3, <1>6, <1>7 DEF Frame, OthersStages
<1>10. /\ Says(agent[a].journal, agent[a].op)' /\ Says(lock, agent[a].op)'
       /\ OwnsLock(agent[a].op)'
  BY <1>2, <1>3, <1>6 DEF Says, OwnsLock
<1>11. k # None
  BY NoneFacts
<1>12. WriterAt(a)'
  <2>1. CASE x = "unlocking"
    BY <1>1, <1>2, <1>3, <1>4, <1>6, <1>7, <1>10, <1>11, <2>1
       DEF WriterAt, Early, Settled, Writing, At
  <2>2. CASE x = "dropping"
    BY <1>1, <1>2, <1>3, <1>4, <1>6, <1>7, <1>10, <1>11, <2>2
       DEF WriterAt, Early, Settled, Writing, At, Releasable
  <2> QED BY <2>1, <2>2
<1>13. OpInv(o)'
  <2>1. row[o].status = "dispatched" /\ row[o].writer = a /\ row[o].resolution = None
        /\ ghost[o].took
    BY <1>1, <1>2 DEF WriterAt
  <2> QED BY <1>2, <1>3, <1>4, <1>6, <1>7, <1>10, <2>1 DEF OpInv
<1>14. AgentInv(a)'
  BY <1>2, <1>4, <1>6, <1>12 DEF AgentInv, Resolver
<1> QED BY <1>8, <1>9, <1>13, <1>14 DEF Own

\* The writer gives its lock up: its child has stopped, or was never started.
LEMMA OwnUnlock ==
    ASSUME LockInv, NEW a \in Agents, Unlock(a) \/ Drop(a)
    PROVE  Own(a)
<1> DEFINE o == agent[a].op
           j == agent[a].journal
<1>1. Live(a) /\ agent[a].pc \notin Resolver \union Early
  BY DEF Unlock, Drop, Live, Resolver, Early
<1>2. /\ o \in Ops /\ TypeOK /\ OpInv(o) /\ WriterAt(a) /\ j \in Journals
      /\ agent[a].then \in PCs /\ Says(j, o) /\ lock = j /\ ghost[o].took
      /\ stage[o].terminal # None /\ Releasable(j)
  <2>1. WriterAt(a) /\ j \in Journals
    BY <1>1, AtStep
  <2>2. Says(j, o) /\ lock = j /\ ghost[o].took /\ stage[o].terminal # None
    BY <1>1, <2>1 DEF WriterAt, Settled, Unlock, Drop
  <2>3. CASE Unlock(a)
    <3>1. j.phase = "completed"
      BY <2>1, <2>3 DEF Unlock, WriterAt, At, Writing
    <3>2. j.stopped
      BY <2>2, <3>1 DEF Says
    <3> QED BY <1>1, <2>1, <2>2, <3>2, AtStep DEF Releasable
  <2>4. CASE Drop(a)
    <3>1. Releasable(j)
      BY <2>1, <2>4 DEF Drop, WriterAt
    <3> QED BY <1>1, <2>1, <2>2, <3>1, AtStep
  <2> QED BY <2>3, <2>4
<1>3. child[o] # "running"
  BY <1>2 DEF Releasable, Says
<1>4. /\ lock' = None /\ UNCHANGED <<output, next, stage, archive, child, row, ghost>>
  BY DEF Unlock, Drop
<1>5. PICK x \in {"succeeded", "failed"} : Goto(a, x)
  BY DEF Unlock, Drop
<1>6. Move(a, x)
  BY <1>2, <1>5, Moves DEF PCs
<1>7. /\ agent' \in [Agents -> Process] /\ agent'[a].pc = x
      /\ agent'[a].op = o /\ agent'[a].journal = j
      /\ \A b \in Agents \ {a} : agent'[b] = agent[b]
  BY <1>6 DEF Move, Put
<1>8. TypeOK'
  BY <1>2, <1>4, <1>7 DEF TypeOK
<1>9. Frame(a)
  BY <1>1, <1>2, <1>4, <1>7 DEF Frame, Says
<1>10. Says(agent[a].journal, agent[a].op)' /\ ~OwnsLock(agent[a].op)'
  BY <1>2, <1>4, <1>7 DEF Says, OwnsLock
<1>11. WriterAt(a)'
  BY <1>1, <1>2, <1>4, <1>7, <1>10 DEF WriterAt, Early, Settled, Writing, At
<1>12. OpInv(o)'
  BY <1>2, <1>3, <1>4, <1>7, <1>10 DEF OpInv
<1>13. AgentInv(a)'
  BY <1>2, <1>7, <1>11 DEF AgentInv, Resolver
<1> QED BY <1>8, <1>9, <1>12, <1>13 DEF Own

\* The writer records how it ended, or gives its plan back.
LEMMA OwnFinish ==
    ASSUME LockInv, NEW a \in Agents, Finish(a) \/ Undispatch(a)
    PROVE  Own(a)
<1> DEFINE o == agent[a].op
<1>1. Live(a) /\ agent[a].pc \notin Resolver
  BY DEF Finish, Undispatch, Live, Resolver
<1>2. /\ o \in Ops /\ TypeOK /\ OpInv(o) /\ WriterAt(a) /\ agent[a].then \in PCs
      /\ agent[a].journal \in Journals \union {None}
      /\ row[o].writer = a /\ row[o].resolution = None
      /\ Finish(a) => ghost[o].took
      /\ Undispatch(a) => ~ghost[o].took
      /\ agent[a].pc = "succeeded" => ~OwnsLock(o)
  <2>1. WriterAt(a)
    BY <1>1, AtStep
  <2>2. /\ row[o].writer = a /\ row[o].resolution = None
        /\ Finish(a) => ghost[o].took
        /\ Undispatch(a) => ~ghost[o].took
        /\ agent[a].pc = "succeeded" => ~OwnsLock(o)
    BY <2>1 DEF WriterAt, Finish, Undispatch, Early
  <2> QED BY <1>1, <2>1, <2>2, AtStep
<1>3. Goto(a, "exited") /\ UNCHANGED <<output, lock, next, stage, archive, child, ghost>>
  BY DEF Finish, Undispatch, disk
<1>4. Move(a, "exited")
  BY <1>2, <1>3, Moves DEF PCs
<1>5. /\ agent' \in [Agents -> Process] /\ agent'[a].op = o /\ agent'[a].pc = "exited"
      /\ \A b \in Agents \ {a} : agent'[b] = agent[b]
  BY <1>4 DEF Move, Put
<1>6. /\ OthersRows(o) /\ row' \in [Ops -> Row] /\ row'[o].resolution = None
      /\ \/ /\ Finish(a) /\ row'[o].writer = a
            /\ row'[o].status \in {"unknown", "partial", "failed", "succeeded"}
            /\ row'[o].status = "succeeded" => agent[a].pc = "succeeded"
         \/ Undispatch(a) /\ row'[o].status = "planned"
  <2>1. ~Register(a)
    BY <1>1 DEF Register, Resolver
  <2>2. /\ Finish(a) => /\ OthersRows(o) /\ row' \in [Ops -> Row]
                        /\ row'[o].resolution = None /\ row'[o].writer = a
                        /\ row'[o].status = IF agent[a].pc = "uncertain" THEN "unknown"
                                            ELSE agent[a].pc
        /\ Undispatch(a) => /\ OthersRows(o) /\ row' \in [Ops -> Row]
                            /\ row'[o].resolution = None /\ row'[o].status = "planned"
    BY <1>2, <2>1, StoreRows
  <2>3. Finish(a) => agent[a].pc \in {"succeeded", "partial", "failed", "uncertain"}
    BY DEF Finish
  <2> QED BY <2>2, <2>3
<1>7. TypeOK'
  BY <1>2, <1>3, <1>5, <1>6 DEF TypeOK
<1>8. Frame(a)
  BY <1>1, <1>3, <1>5, <1>6 DEF Frame, OthersRows
<1>9. AgentInv(a)'
  BY <1>5, ExitedInv
<1>10. OpInv(o)'
  <2>1. /\ (OwnsLock(agent[a].op)' <=> OwnsLock(o))
        /\ (Says(lock, agent[a].op)' <=> Says(lock, o))
    BY <1>3, <1>5 DEF OwnsLock, Says
  <2> QED BY <1>2, <1>3, <1>5, <1>6, <2>1, NoneFacts DEF OpInv
<1> QED BY <1>7, <1>8, <1>9, <1>10 DEF Own

\* operation resolve archives the journal, deletes the lock, and registers.
LEMMA OwnResolve ==
    ASSUME LockInv, NEW a \in Agents, Archive(a) \/ UnlinkLock(a) \/ Register(a)
    PROVE  Own(a)
<1> DEFINE o == agent[a].op
           w == row[o].writer
<1>1. Live(a) /\ agent[a].pc \in Resolver
  BY DEF Archive, UnlinkLock, Register, Live, Resolver
<1>2. /\ o \in Ops /\ TypeOK /\ OpInv(o) /\ ResolverAt(a) /\ agent[a].then \in PCs
      /\ agent[a].journal \in Journals \union {None} /\ agent[a].seen # None
      /\ Unresolved(o) /\ w \in Agents /\ w # a /\ ~Alive(w)
  <2>1. ResolverAt(a) /\ OpInv(o)
    BY <1>1, AtStep
  <2>2. w \in Agents /\ w # a
    BY <1>1, <2>1 DEF ResolverAt, OpInv, Unresolved, Alive, Live
  <2> QED BY <1>1, <2>1, <2>2, AtStep DEF ResolverAt
<1>3. UNCHANGED <<output, next, stage, child, ghost>>
  BY DEF Archive, UnlinkLock, Register, disk
<1>4. PICK x \in {"exited", "unlinking", "registering"} : Goto(a, x)
  BY DEF Archive, UnlinkLock, Register
<1>5. Move(a, x)
  BY <1>2, <1>4, Moves DEF PCs
<1>6. /\ agent' \in [Agents -> Process] /\ agent'[a].op = o /\ agent'[a].pc = x
      /\ agent'[a].seen = agent[a].seen
      /\ \A b \in Agents \ {a} : agent'[b] = agent[b]
  BY <1>5 DEF Move, Put
<1>7. ASSUME UNCHANGED row, x # "exited",
             x = "unlinking" => OwnsLock(o)' /\ child[o] # "running" /\ o \in archive',
             x = "registering" => ~OwnsLock(o)'
      PROVE  AgentInv(a)'
  <2>1. Unresolved(agent[a].op)' /\ ~Alive(row[agent[a].op].writer)'
    BY <1>2, <1>6, <1>7 DEF Unresolved, Alive
  <2>2. ResolverAt(a)'
    BY <1>2, <1>3, <1>6, <1>7, <2>1 DEF ResolverAt
  <2> QED BY <1>2, <1>6, <1>7, <2>2 DEF AgentInv, Resolver
<1>8. x = "exited" => AgentInv(a)'
  BY <1>6, ExitedInv
<1>9. CASE Archive(a)
  <2>1. /\ UNCHANGED <<lock, row>> /\ archive' \in {archive, archive \union {o}}
        /\ x # "exited" => Registrable(o) /\ archive' = archive \union {o}
        /\ x = "unlinking" => lock # None
        /\ x = "registering" => lock = None
    <3>1. UNCHANGED <<lock, row>>
      BY <1>9 DEF Archive
    <3>2. CASE Registrable(o) /\ Readback(o) = agent[a].seen
      <4>1. archive' = archive \union {o} /\ Registrable(o)
            /\ Goto(a, IF lock # None THEN "unlinking" ELSE "registering")
        BY <1>9, <3>2 DEF Archive
      <4>2. agent'[a].pc = IF lock # None THEN "unlinking" ELSE "registering"
        BY <1>2, <4>1, Moves DEF PCs, Move, Put
      <4> QED BY <1>6, <3>1, <4>1, <4>2
    <3>3. CASE ~(Registrable(o) /\ Readback(o) = agent[a].seen)
      <4>1. archive' = archive /\ Goto(a, "exited")
        BY <1>9, <3>3 DEF Archive
      <4>2. agent'[a].pc = "exited"
        BY <1>2, <4>1, Moves DEF PCs, Move, Put
      <4> QED BY <1>6, <3>1, <4>1, <4>2
    <3> QED BY <3>2, <3>3
  <2>2. x = "unlinking" => OwnsLock(o) /\ child[o] # "running"
    <3> SUFFICES ASSUME x = "unlinking" PROVE OwnsLock(o) /\ child[o] # "running"
      OBVIOUS
    <3>1. lock # None /\ Registrable(o)
      BY <2>1
    <3>2. OwnsLock(o) /\ ~(lock.phase = "spawning" /\ ~lock.native)
          /\ ~(lock.native /\ child[o] = "running")
      BY <3>1 DEF Registrable, JournalOf, OwnsLock
    <3>3. lock \in Journals /\ Says(lock, o)
      BY <1>2, <3>1, <3>2 DEF OpInv, TypeOK
    <3>4. CASE lock.phase \in {"spawning", "generating"}
      BY <3>2, <3>3, <3>4 DEF Says
    <3>5. CASE lock.phase \notin {"spawning", "generating"}
      BY <3>2, <3>3, <3>5 DEF Says, Journals, Phases
    <3> QED BY <3>4, <3>5
  <2>3. (OwnsLock(agent[a].op)' <=> OwnsLock(o)) /\ (OwnsLock(o)' <=> OwnsLock(o))
        /\ (Says(lock, agent[a].op)' <=> Says(lock, o))
    BY <1>3, <1>6, <2>1 DEF OwnsLock, Says
  <2>4. AgentInv(a)'
    BY <1>2, <1>3, <1>7, <1>8, <2>1, <2>2, <2>3 DEF OwnsLock
  <2>5. TypeOK'
    BY <1>2, <1>3, <1>6, <2>1 DEF TypeOK
  <2>6. Frame(a)
    BY <1>1, <1>3, <1>6, <2>1 DEF Frame
  <2>7. OpInv(o)'
    BY <1>2, <1>3, <1>6, <2>1, <2>3 DEF OpInv
  <2> QED BY <2>4, <2>5, <2>6, <2>7 DEF Own
<1>10. CASE UnlinkLock(a)
  <2>1. /\ OwnsLock(o) /\ child[o] # "running" /\ o \in archive
        /\ lock' = None /\ UNCHANGED <<archive, row>>
    BY <1>2, <1>10 DEF UnlinkLock, ResolverAt
  <2>2. x # "unlinking"
    <3>1. Goto(a, "registering")
      BY <1>10, <2>1 DEF UnlinkLock, OwnsLock
    <3>2. agent'[a].pc = "registering"
      BY <1>2, <3>1, Moves DEF PCs, Move, Put
    <3> QED BY <1>6, <3>2
  <2>3. ~OwnsLock(o)' /\ ~OwnsLock(agent[a].op)'
    BY <2>1 DEF OwnsLock
  <2>4. AgentInv(a)'
    BY <1>7, <1>8, <2>1, <2>2, <2>3
  <2>5. TypeOK'
    BY <1>2, <1>3, <1>6, <2>1 DEF TypeOK
  <2>6. Frame(a)
    BY <1>1, <1>3, <1>6, <2>1 DEF Frame, OwnsLock
  <2>7. OpInv(o)'
    BY <1>2, <1>3, <1>6, <2>1, <2>3 DEF OpInv
  <2> QED BY <2>4, <2>5, <2>6, <2>7 DEF Own
<1>11. CASE Register(a)
  <2>1. /\ ~OwnsLock(o) /\ UNCHANGED <<lock, archive>>
    BY <1>2, <1>11 DEF Register, ResolverAt, disk
  <2>2. agent'[a].pc = "exited"
    BY <1>2, <1>11, Moves DEF Register, PCs, Move, Put
  <2>3. /\ OthersRows(o) /\ row' \in [Ops -> Row]
        /\ row'[o].status = row[o].status /\ row'[o].writer = w
    BY <1>2, <1>11, StoreRows
  <2>4. (OwnsLock(agent[a].op)' <=> OwnsLock(o))
        /\ (Says(lock, agent[a].op)' <=> Says(lock, o))
    BY <1>3, <1>6, <2>1 DEF OwnsLock, Says
  <2>5. AgentInv(a)'
    BY <2>2, ExitedInv
  <2>6. TypeOK'
    BY <1>2, <1>3, <1>6, <2>1, <2>3 DEF TypeOK
  <2>7. Frame(a)
    BY <1>1, <1>3, <1>6, <2>1, <2>3 DEF Frame, OthersRows
  <2>8. row[o].status # "planned"
    BY <1>2 DEF Unresolved
  <2>9. OpInv(o)'
    BY <1>2, <1>3, <1>6, <2>1, <2>3, <2>4, <2>8 DEF OpInv
  <2> QED BY <2>5, <2>6, <2>7, <2>9 DEF Own
<1> QED BY <1>9, <1>10, <1>11

\* Every step of a process.
LEMMA OwnStep ==
    ASSUME LockInv, NEW a \in Agents, Step(a) \/ Crash(a)
    PROVE  Own(a)
BY OwnChecks, OwnUpdates, OwnReplace, OwnAcquire, OwnChild, OwnPublish, OwnTerminal,
   OwnUnlock, OwnFinish, OwnResolve, OwnCrash DEF Step

-----------------------------------------------------------------------------
(* What the others change leaves an operation and its process alone.        *)

\* The lock is as it was, or neither was nor is the lock of o.
LockOfOthers(o) ==
    lock' = lock \/ ((lock = None \/ lock.op # o) /\ (lock' = None \/ lock'.op # o))

\* A process keeps its position when what belongs to its operation stays.
LEMMA Untouched ==
    ASSUME LockInv, NEW b \in Agents, Live(b), agent'[b] = agent[b],
           LET o == agent[b].op IN
               /\ row'[o] = row[o] /\ stage'[o].terminal = stage[o].terminal
               /\ ghost'[o].took = ghost[o].took
               /\ child'[o] = child[o] \/ (child[o] = "running" /\ child'[o] = "stopped")
               /\ LockOfOthers(o),
           archive \subseteq archive',
           agent[b].pc \in Resolver => ~Alive(row[agent[b].op].writer)'
    PROVE  AgentInv(b)'
<1> DEFINE o == agent[b].op
<1>1. AgentInv(b) /\ o \in Ops
  BY AtStep DEF LockInv
<1>2. (OwnsLock(agent[b].op)' <=> OwnsLock(o)) /\ (OwnsLock(o) => lock' = lock)
  BY DEF OwnsLock, LockOfOthers
<1>3. CASE agent[b].pc \notin Resolver
  <2>1. WriterAt(b)
    BY <1>1, <1>3 DEF AgentInv
  <2>2. Says(agent[b].journal, o) => Says(agent[b].journal, agent[b].op)'
    BY DEF Says
  <2>3. agent[b].pc \in Settled => OwnsLock(o)
    BY <2>1 DEF WriterAt, Settled, Early, Says, OwnsLock
  <2>4. WriterAt(b)'
    BY <1>2, <2>1, <2>2, <2>3 DEF WriterAt, At, Releasable
  <2> QED BY <1>1, <1>3, <2>4 DEF AgentInv
<1>4. CASE agent[b].pc \in Resolver
  <2>1. ResolverAt(b)
    BY <1>1, <1>4 DEF AgentInv
  <2>2. Unresolved(o) => Unresolved(agent[b].op)'
    BY DEF Unresolved
  <2>3. ResolverAt(b)'
    BY <1>2, <1>4, <2>1, <2>2 DEF ResolverAt
  <2> QED BY <1>1, <1>4, <2>3 DEF AgentInv
<1> QED BY <1>3, <1>4

\* The same for what holds of an operation.
LEMMA UntouchedOp ==
    ASSUME LockInv, NEW o \in Ops,
           row'[o] = row[o], stage'[o].terminal = stage[o].terminal,
           ghost'[o].took = ghost[o].took,
           child'[o] = child[o] \/ (child[o] = "running" /\ child'[o] = "stopped"),
           LockOfOthers(o), archive \subseteq archive'
    PROVE  OpInv(o)'
<1>1. OpInv(o)
  BY DEF LockInv
<1>2. (OwnsLock(o)' <=> OwnsLock(o)) /\ (OwnsLock(o) => lock' = lock)
  BY DEF OwnsLock, LockOfOthers
<1>3. OwnsLock(o) => Says(lock, o)'
  BY <1>1, <1>2 DEF OpInv, Says
<1> QED BY <1>1, <1>2, <1>3 DEF OpInv

\* The operation of a live process is dispatched, or open with a dead writer.
LEMMA LiveRow ==
    ASSUME LockInv, NEW b \in Agents, Live(b)
    PROVE  /\ agent[b].op \in Ops /\ row[agent[b].op].status # "planned"
           /\ row[agent[b].op].writer \in Agents
           /\ agent[b].pc \notin Resolver => row[agent[b].op].writer = b
           /\ agent[b].pc \in Resolver =>
                 agent[b].seen # None /\ ~Alive(row[agent[b].op].writer)
<1>1. /\ agent[b].op \in Ops /\ OpInv(agent[b].op)
      /\ agent[b].pc \notin Resolver => WriterAt(b)
      /\ agent[b].pc \in Resolver => ResolverAt(b)
  BY AtStep
<1> QED BY <1>1 DEF WriterAt, ResolverAt, OpInv, Unresolved

\* What one process does preserves what is said of the others.
LEMMA Others ==
    ASSUME LockInv, NEW a \in Agents, Own(a)
    PROVE  LockInv'
<1> DEFINE o == agent[a].op
<1>1. /\ TypeOK' /\ Frame(a) /\ AgentInv(a)' /\ OpInv(agent[a].op)' /\ Live(a)
  BY DEF Own, Frame
<1>2. PICK q \in Ops : q = agent[a].op
  BY <1>1, AtStep
<1>3. /\ agent'[a].op = q /\ \A b \in Agents \ {a} : agent'[b] = agent[b]
      /\ archive \subseteq archive'
      /\ \A p \in Ops \ {q} : /\ row'[p] = row[p] /\ stage'[p] = stage[p]
                              /\ child'[p] = child[p] /\ ghost'[p] = ghost[p]
                              /\ LockOfOthers(p)
  BY <1>1, <1>2 DEF Frame, LockOfOthers
<1>4. Alone'
  BY <1>1, <1>2, <1>3 DEF LockInv, Alone, Live
<1>5. ASSUME NEW b \in Agents PROVE AgentInv(b)'
  <2>1. CASE b = a
    BY <1>1, <2>1
  <2>2. CASE b # a /\ ~Live(b)
    BY <1>3, <2>2 DEF AgentInv, Live
  <2>3. CASE b # a /\ Live(b)
    <3>1. PICK p \in Ops : p = agent[b].op
      BY <2>3, AtStep
    <3>2. p # q
      BY <1>1, <1>2, <2>3, <3>1 DEF LockInv, Alone
    <3>3. agent[b].pc \in Resolver => ~Alive(row[agent[b].op].writer)'
      <4>1. agent[b].pc \in Resolver =>
                row[p].writer \in Agents /\ ~Alive(row[p].writer) /\ row[p].writer # a
        BY <1>1, <2>3, <3>1, LiveRow DEF Alive, Live
      <4> QED BY <1>3, <2>3, <3>1, <3>2, <4>1 DEF Alive
    <3> QED BY <1>3, <2>3, <3>1, <3>2, <3>3, Untouched
  <2> QED BY <2>1, <2>2, <2>3
<1>6. ASSUME NEW p \in Ops PROVE OpInv(p)'
  <2>1. CASE p = q
    BY <1>1, <1>2, <1>3, <2>1
  <2>2. CASE p # q
    BY <1>3, <2>2, UntouchedOp
  <2> QED BY <2>1, <2>2
<1> QED BY <1>1, <1>4, <1>5, <1>6 DEF LockInv

\* A waiting plan gets its writer.
LEMMA ConfirmStep ==
    ASSUME LockInv, NEW a \in Agents, NEW o \in Ops, Confirm(a, o)
    PROVE  LockInv'
<1>1. /\ TypeOK /\ OpInv(o) /\ row[o].status = "planned" /\ agent[a].pc = "idle"
  BY DEF LockInv, Confirm
<1>2. ~ghost[o].took /\ row[o].resolution = None
  BY <1>1 DEF OpInv
<1>3. /\ TypeOK' /\ UNCHANGED <<output, lock, next, stage, archive, child, ghost>>
      /\ OthersRows(o) /\ row'[o].status = "dispatched" /\ row'[o].writer = a
      /\ row'[o].resolution = None
      /\ agent'[a].pc = "confirmed" /\ agent'[a].op = o
      /\ \A b \in Agents \ {a} : agent'[b] = agent[b]
  BY <1>1, <1>2, ConfirmMoves
<1>4. \A b \in Agents : Live(b) => agent[b].op # o
  BY <1>1, LiveRow
<1>5. Alone'
  BY <1>3, <1>4 DEF LockInv, Alone, Live
<1>6. AgentInv(a)'
  BY <1>2, <1>3 DEF AgentInv, WriterAt, Early, Resolver, Settled, Writing, At
<1>7. ASSUME NEW b \in Agents \ {a} PROVE AgentInv(b)'
  <2>1. CASE ~Live(b)
    BY <1>3, <2>1 DEF AgentInv, Live
  <2>2. CASE Live(b)
    <3>1. PICK p \in Ops : p = agent[b].op
      BY <2>2, LiveRow
    <3>2. p # o /\ row'[p] = row[p] /\ agent'[b] = agent[b]
      BY <1>3, <1>4, <2>2, <3>1 DEF OthersRows
    <3>3. agent[b].pc \in Resolver => ~Alive(row[agent[b].op].writer)'
      <4>1. agent[b].pc \in Resolver =>
                row[p].writer \in Agents /\ ~Alive(row[p].writer) /\ row[p].writer # a
        BY <1>1, <2>2, <3>1, LiveRow DEF Alive
      <4> QED BY <1>3, <3>1, <3>2, <4>1 DEF Alive
    <3> QED BY <1>3, <2>2, <3>1, <3>2, <3>3, Untouched DEF LockOfOthers
  <2> QED BY <2>1, <2>2
<1>8. ASSUME NEW p \in Ops PROVE OpInv(p)'
  <2>1. CASE p = o
    BY <1>1, <1>2, <1>3, <2>1 DEF OpInv, OwnsLock, Says
  <2>2. CASE p # o
    BY <1>3, <2>2, UntouchedOp DEF LockOfOthers, OthersRows
  <2> QED BY <2>1, <2>2
<1> QED BY <1>3, <1>5, <1>6, <1>7, <1>8 DEF LockInv

\* The only operation resolve takes up an operation of a dead writer.
LEMMA ResolveBeginStep ==
    ASSUME OneResolver, LockInv, NEW a \in Agents, NEW o \in Ops, ResolveBegin(a, o)
    PROVE  LockInv'
<1>1. /\ TypeOK /\ OpInv(o) /\ Unresolved(o) /\ ~Alive(row[o].writer)
      /\ agent[a].pc = "idle"
  BY DEF LockInv, ResolveBegin
<1>2. /\ TypeOK' /\ UNCHANGED <<output, lock, next, stage, archive, child, row, ghost>>
      /\ agent'[a].pc = "archiving" /\ agent'[a].op = o /\ agent'[a].seen # None
      /\ \A b \in Agents \ {a} : agent'[b] = agent[b]
  BY <1>1, ResolveMoves
<1>3. \A b \in Agents : Live(b) => agent[b].pc \notin Resolver
  BY LiveRow DEF ResolveBegin, Alive, Live
<1>4. \A b \in Agents : Live(b) => agent[b].op # o
  BY <1>1, <1>3, LiveRow DEF Alive, Live
<1>5. Alone'
  BY <1>2, <1>4 DEF LockInv, Alone, Live
<1>6. row[o].writer \in Agents /\ row[o].writer # a
  BY <1>1 DEF OpInv, Unresolved, Alive
<1>7. AgentInv(a)'
  <2>1. Unresolved(agent[a].op)' /\ ~Alive(row[agent[a].op].writer)'
    BY <1>1, <1>2, <1>6 DEF Unresolved, Alive
  <2> QED BY <1>2, <2>1 DEF AgentInv, ResolverAt, Resolver
<1>8. ASSUME NEW b \in Agents \ {a} PROVE AgentInv(b)'
  <2>1. CASE ~Live(b)
    BY <1>2, <2>1 DEF AgentInv, Live
  <2>2. CASE Live(b)
    BY <1>2, <1>3, <2>2, Untouched DEF LockOfOthers
  <2> QED BY <2>1, <2>2
<1>9. ASSUME NEW p \in Ops PROVE OpInv(p)'
  BY <1>2, UntouchedOp DEF LockOfOthers
<1> QED BY <1>2, <1>5, <1>7, <1>8, <1>9 DEF LockInv

\* A native child writes a file or exits; somebody makes or takes the output.
LEMMA OutsideStep ==
    ASSUME LockInv,
           (\E o \in Ops : ChildWrites(o) \/ ChildExits(o)) \/ MakeForeign \/ TakeAway
    PROVE  LockInv'
<1>1. /\ TypeOK' /\ UNCHANGED <<lock, next, archive, row, agent, ghost>>
      /\ \A o \in Ops :
            /\ stage'[o].terminal = stage[o].terminal
            /\ child'[o] = child[o] \/ (child[o] = "running" /\ child'[o] = "stopped")
  BY OutsideMoves DEF LockInv
<1>2. Alone'
  BY <1>1 DEF LockInv, Alone, Live
<1>3. ASSUME NEW b \in Agents PROVE AgentInv(b)'
  <2>1. CASE ~Live(b)
    BY <1>1, <2>1 DEF AgentInv, Live
  <2>2. CASE Live(b)
    <3>1. agent[b].op \in Ops
      BY <2>2, AtStep
    <3>2. agent[b].pc \in Resolver => ~Alive(row[agent[b].op].writer)'
      BY <1>1, <2>2, LiveRow DEF Alive
    <3> QED BY <1>1, <2>2, <3>1, <3>2, Untouched DEF LockOfOthers
  <2> QED BY <2>1, <2>2
<1>4. ASSUME NEW p \in Ops PROVE OpInv(p)'
  BY <1>1, UntouchedOp DEF LockOfOthers
<1> QED BY <1>1, <1>2, <1>3, <1>4 DEF LockInv

-----------------------------------------------------------------------------
(* The theorems about the lock.  All of them suppose that operation resolve *)
(* runs in one process at a time, as the run export_publish does.           *)

\* Nothing is planned, locked or started.
LEMMA LockInit == Init => LockInv
<1> SUFFICES ASSUME Init PROVE LockInv
  OBVIOUS
<1>1. TypeOK
  BY TypeInit
<1>2. \A a \in Agents : agent[a].pc = "idle"
  BY DEF Init
<1>3. Alone /\ \A a \in Agents : AgentInv(a)
  BY <1>2 DEF Alone, AgentInv, Live
<1>4. ASSUME NEW o \in Ops PROVE OpInv(o)
  <2>1. /\ row[o].status = "planned" /\ row[o].resolution = None
        /\ ~ghost[o].took /\ stage[o].terminal = None /\ child[o] = "none"
        /\ lock = None
    BY DEF Init
  <2> QED BY <2>1 DEF OpInv, OwnsLock
<1> QED BY <1>1, <1>3, <1>4 DEF LockInv

\* Every step preserves the invariant.
LEMMA LockNext ==
    ASSUME OneResolver, LockInv, [Next]_vars
    PROVE  LockInv'
<1>1. CASE \E a \in Agents : Step(a) \/ Crash(a)
  BY <1>1, OwnStep, Others
<1>2. CASE \E a \in Agents, o \in Ops : Confirm(a, o) \/ ResolveBegin(a, o)
  BY <1>2, ConfirmStep, ResolveBeginStep
<1>3. CASE (\E o \in Ops : ChildWrites(o) \/ ChildExits(o)) \/ MakeForeign \/ TakeAway
  BY <1>3, OutsideStep
<1>4. CASE UNCHANGED vars
  <2>1. UNCHANGED <<output, lock, next, stage, archive, child, row, agent, ghost>>
    BY <1>4 DEF vars, disk
  <2> QED BY <2>1 DEF LockInv, TypeOK, Alone, Live, AgentInv, WriterAt, ResolverAt,
                      OpInv, OwnsLock, Says, At, Alive, Unresolved
<1> QED BY <1>1, <1>2, <1>3, <1>4 DEF Next

\* The inductive invariant holds at every step of every export, crash and
\* resolve, whatever others do to the output.
THEOREM LockInvariant == ASSUME OneResolver PROVE Spec => []LockInv
  BY LockInit, LockNext, PTL DEF Spec

\* While a child of an operation runs, the output is locked by that operation,
\* whatever became of the process that started it.
THEOREM ChildrenLocked == ASSUME OneResolver PROVE Spec => []NativeUnderLock
<1>1. LockInv => NativeUnderLock
  BY DEF LockInv, OpInv, OwnsLock, NativeUnderLock
<1> QED BY <1>1, LockInvariant, PTL

\* An interrupted export that had the lock has a journal that operation resolve
\* accepts, or had it archived, when nobody else has the output and its child
\* was not about to start.
THEOREM InterruptedRegistrable ==
    ASSUME OneResolver PROVE Spec => []InterruptedIsRegistrable
<1>1. LockInv => InterruptedIsRegistrable
  <2> SUFFICES ASSUME LockInv, NEW o \in Ops, ghost[o].took, child[o] # "running",
                      lock # None => lock.op = o /\ lock.phase # "spawning",
                      o \notin archive
               PROVE  Registrable(o)
    BY DEF InterruptedIsRegistrable
  <2>1. OpInv(o)
    BY DEF LockInv
  <2>2. CASE lock # None
    BY <2>2 DEF Registrable, JournalOf
  <2>3. CASE lock = None
    <3>1. /\ stage[o].terminal # None /\ stage[o].terminal.op = o
          /\ stage[o].terminal.phase # "spawning"
      BY <2>1, <2>3 DEF OpInv, OwnsLock
    <3> QED BY <2>3, <3>1 DEF Registrable, JournalOf
  <2> QED BY <2>2, <2>3
<1> QED BY <1>1, LockInvariant, PTL

\* Files are published under the own lock only, which says so on disk, and after
\* the child has stopped.
THEOREM PublishesLocked == ASSUME OneResolver PROVE Spec => PublishesUnderOwnLock
<1>1. ASSUME LockInv, [Next]_vars, NEW o \in Ops,
             ghost'[o].published # ghost[o].published
      PROVE  /\ lock # None /\ lock.op = o /\ lock.phase = "publishing"
             /\ child[o] = "stopped"
  <2>1. CASE \E a \in Agents : PublishFile(a)
    <3>1. PICK a \in Agents : PublishFile(a)
      BY <2>1
    <3>2. Live(a) /\ agent[a].pc = "filing"
      BY <3>1 DEF PublishFile, Live
    <3>3. WriterAt(a) /\ agent[a].op \in Ops /\ TypeOK
      BY <1>1, <3>2, AtStep DEF Resolver
    <3>4. PICK n \in FileNames :
              ghost' = [ghost EXCEPT ![agent[a].op] = [ghost[agent[a].op] EXCEPT
                            !.published = ghost[agent[a].op].published \union {n}]]
      BY <3>1, <3>3, PublishMoves
    <3>5. agent[a].op = o
      BY <1>1, <3>3, <3>4, PublishedMoves
    <3>6. /\ lock = agent[a].journal /\ agent[a].journal.phase = "publishing"
          /\ Says(agent[a].journal, agent[a].op)
      BY <3>2, <3>3 DEF WriterAt, Early, Settled, At, Writing
    <3> QED BY <3>5, <3>6 DEF Says
  <2>2. CASE ~\E a \in Agents : PublishFile(a)
    <3>1. CASE \E a \in Agents : Acquire(a)
      <4>1. PICK a \in Agents : Acquire(a)
        BY <3>1
      <4>2. Live(a)
        BY <4>1 DEF Acquire, Live
      <4>3. agent[a].op \in Ops /\ TypeOK
        BY <1>1, <4>2, AtStep
      <4>4. ghost' = ghost \/ ghost' = [ghost EXCEPT ![agent[a].op].took = TRUE]
        BY <4>1, Zenon DEF Acquire
      <4>5. ghost'[o].published = ghost[o].published
        <5>1. CASE ghost' = ghost
          BY <5>1
        <5>2. CASE ghost' = [ghost EXCEPT ![agent[a].op].took = TRUE]
          BY <4>3, <5>2, TookMoves
        <5> QED BY <4>4, <5>1, <5>2
      <4> QED BY <1>1, <4>5
    <3>2. CASE ~\E a \in Agents : Acquire(a)
      <4>1. ghost' = ghost
        BY <1>1, <2>2, <3>2
           DEF Next, Step, Crash, Confirm, ResolveBegin, ChildWrites, ChildExits, MakeForeign,
               TakeAway, vars, Check, MakeStage, StageInputs, Draft, Replace, Start,
               RecordChild, Wait, Consume, PublishCheck, Make, FileCheck,
               VerifyOutput, WriteTerminal, Unlock, Fails, Inspect, Release, Drop,
               Escapes, Finish, Undispatch, Archive, UnlinkLock, Register
      <4> QED BY <1>1, <4>1
    <3> QED BY <3>1, <3>2
  <2> QED BY <2>1, <2>2
<1>2. LockInv /\ [Next]_vars =>
        [\A o \in Ops :
           ghost'[o].published # ghost[o].published =>
               /\ lock # None /\ lock.op = o /\ lock.phase = "publishing"
               /\ child[o] = "stopped"]_vars
  BY <1>1
<1> QED BY <1>2, LockInvariant, PTL DEF Spec, PublishesUnderOwnLock

-----------------------------------------------------------------------------
(* The published files, step by step.                                       *)

\* A step that publishes nothing: what it keeps, and where it goes.
Quiet(a) == (Step(a) \/ Crash(a)) /\ ~Make(a) /\ ~PublishFile(a)

Done == {"terminating", "unlocking", "succeeded"}

\* Inspect has found nothing.
FoundNone(a) ==
    LET o == agent[a].op IN
    /\ agent[a].pc = "failing"
    /\ IF agent[a].published THEN output # None /\ output.files = {}
                             ELSE stage[o].files = {}

\* What a step of a process writes belongs to it and to its operation.
LEMMA QuietFrame ==
    ASSUME RowInv, NEW a \in Agents, NEW o \in Ops, o = agent[a].op, Quiet(a)
    PROVE  /\ \A b \in Agents \ {a} : agent'[b] = agent[b]
           /\ \A p \in Ops \ {o} : ghost'[p] = ghost[p] /\ row'[p] = row[p]
<1>1. \A b \in Agents \ {a} : agent'[b] = agent[b]
  <2>1. DOMAIN agent = Agents
    BY DEF RowInv, TypeOK
  <2>2. CASE Acquire(a)
    BY <2>1, <2>2 DEF Acquire, Goto
  <2>3. CASE \/ StageInputs(a) \/ RecordChild(a) \/ Wait(a) \/ PublishCheck(a)
             \/ VerifyOutput(a)
    <3>1. PICK j, then : Update(a, j, then)
      BY <2>3, Zenon DEF StageInputs, RecordChild, Wait, PublishCheck, VerifyOutput
    <3>2. PICK x : agent' = [agent EXCEPT ![a] = x]
      BY <3>1, Zenon DEF Update
    <3> QED BY <2>1, <3>2
  <2>4. CASE \/ Check(a) \/ MakeStage(a) \/ Draft(a) \/ Replace(a) \/ Start(a)
             \/ Consume(a)
             \/ FileCheck(a) \/ WriteTerminal(a) \/ Unlock(a) \/ Fails(a)
    BY <2>1, <2>4 DEF Check, MakeStage, Draft, Replace, Start, Consume, FileCheck,
                      WriteTerminal, Unlock, Fails, Goto
  <2>5. CASE \/ Inspect(a) \/ Release(a) \/ Drop(a) \/ Escapes(a) \/ Finish(a)
             \/ Undispatch(a) \/ Crash(a)
    BY <2>1, <2>5 DEF Inspect, Release, Drop, Escapes, Finish, Undispatch, Crash, Goto
  <2>6. CASE Archive(a) \/ UnlinkLock(a) \/ Register(a)
    BY <2>1, <2>6 DEF Archive, UnlinkLock, Register, Goto
  <2> QED BY <2>2, <2>3, <2>4, <2>5, <2>6 DEF Quiet, Step
<1>2. \A p \in Ops \ {o} : row'[p] = row[p]
  <2>1. CASE Finish(a) \/ Undispatch(a) \/ Register(a)
    <3>1. Register(a) => agent[a].seen # None
      BY AtRow DEF Register, ReadsRow, Live, Resolver
    <3> QED BY <2>1, <3>1, StoreRows DEF RowInv, OthersRows
  <2>2. CASE ~(Finish(a) \/ Undispatch(a) \/ Register(a))
    BY <2>2
       DEF Quiet, Step, Crash, Check, Acquire, MakeStage, StageInputs, Draft, Replace,
           Start, RecordChild, Wait, Consume, PublishCheck, FileCheck, VerifyOutput,
           WriteTerminal, Unlock, Fails, Inspect, Release, Drop, Escapes, Archive,
           UnlinkLock, disk
  <2> QED BY <2>1, <2>2
<1>3. \A p \in Ops \ {o} : ghost'[p] = ghost[p]
  <2>1. ghost' = ghost \/ ghost' = [ghost EXCEPT ![o].took = TRUE]
    BY DEF Quiet, Step, Crash, Check, Acquire, MakeStage, StageInputs, Draft, Replace,
           Start, RecordChild, Wait, Consume, PublishCheck, FileCheck, VerifyOutput,
           WriteTerminal, Unlock, Fails, Inspect, Release, Drop, Escapes, Finish,
           Undispatch, Archive, UnlinkLock, Register
  <2> QED BY <2>1, TookMoves DEF RowInv
<1> QED BY <1>1, <1>2, <1>3

\* Nothing is published, and no later position is reached without the files for it.
LEMMA QuietSteps ==
    ASSUME RowInv, NEW a \in Agents, Quiet(a)
    PROVE  /\ Live(a) /\ agent'[a].op = agent[a].op /\ output' = output
           /\ agent'[a].published = agent[a].published
           /\ agent'[a].done = agent[a].done /\ agent'[a].seen = agent[a].seen
           /\ \A p \in Ops : ghost'[p].published = ghost[p].published
           /\ ghost[agent[a].op].took => ghost'[agent[a].op].took
           /\ agent[a].pc \in Resolver => agent'[a].pc \in Resolver \union {"exited"}
           /\ agent[a].pc \notin Resolver =>
                 /\ agent'[a].pc \notin Resolver \union {"idle", "publishing"}
                 /\ agent'[a].pc = "filing" =>
                       /\ agent[a].pc = "publishing" /\ output # None
                       /\ output.maker = agent[a].op
                 /\ At(a)' \in Done => At(a) \in Done \/ agent[a].done = FileNames
                 /\ agent'[a].pc \in {"releasing", "dropping", "failed"} =>
                       agent[a].pc \in {"releasing", "dropping"} \/ FoundNone(a)
<1> DEFINE o == agent[a].op
<1>1. Live(a)
  BY DEF Quiet, Step, Crash, Check, Acquire, MakeStage, StageInputs, Draft, Replace,
         Start, RecordChild, Wait, Consume, PublishCheck, FileCheck, VerifyOutput,
         WriteTerminal, Unlock, Fails, Inspect, Release, Drop, Escapes, Finish,
         Undispatch, Archive, UnlinkLock, Register, Live
<1>2. /\ o \in Ops /\ TypeOK /\ agent[a].then \in PCs /\ agent[a].pc \in PCs
      /\ agent[a].journal \in Journals \union {None}
      /\ agent[a].pc \notin Resolver =>
            HoldsRow(a) /\ (agent[a].pc \notin Early => agent[a].journal \in Journals)
  BY <1>1, AtRow
<1>3. output' = output
  BY DEF Quiet, Step, Crash, Check, Acquire, MakeStage, StageInputs, Draft, Replace,
         Start, RecordChild, Wait, Consume, PublishCheck, FileCheck, VerifyOutput,
         WriteTerminal, Unlock, Fails, Inspect, Release, Drop, Escapes, Finish,
         Undispatch, Archive, UnlinkLock, Register, disk
<1>4. ASSUME NEW x \in PCs, Goto(a, x)
      PROVE  /\ agent'[a].pc = x /\ agent'[a].then = agent[a].then /\ agent'[a].op = o
             /\ agent'[a].published = agent[a].published
             /\ agent'[a].done = agent[a].done /\ agent'[a].seen = agent[a].seen
  BY <1>2, <1>4, Moves DEF Move, Put
<1>5. ASSUME NEW then \in PCs, NEW j \in Journals, Update(a, j, then)
      PROVE  /\ agent'[a].pc = "drafting" /\ agent'[a].then = then /\ agent'[a].op = o
             /\ agent'[a].published = agent[a].published
             /\ agent'[a].done = agent[a].done /\ agent'[a].seen = agent[a].seen
  <2>1. Put(a, "drafting", then, j)
    BY <1>2, <1>5, Moves
  <2> QED BY <2>1 DEF Put
<1> DEFINE Kept == /\ agent'[a].op = o /\ agent'[a].published = agent[a].published
                   /\ agent'[a].done = agent[a].done /\ agent'[a].seen = agent[a].seen
           Next1 == /\ agent'[a].pc \notin Resolver \union {"idle", "publishing"}
                    /\ agent'[a].pc = "filing" =>
                          /\ agent[a].pc = "publishing" /\ output # None
                          /\ output.maker = o
                    /\ At(a)' \in Done => At(a) \in Done \/ agent[a].done = FileNames
                    /\ agent'[a].pc \in {"releasing", "dropping", "failed"} =>
                          agent[a].pc \in {"releasing", "dropping"} \/ FoundNone(a)
<1>6. CASE Acquire(a)
  <2> DEFINE k == [op |-> o, phase |-> "prepared", native |-> FALSE, stopped |-> FALSE]
  <2>1. agent[a].pc = "locking" /\ agent[a].pc \notin Resolver
    BY <1>6 DEF Acquire, Resolver
  <2>2. CASE Goto(a, "refused") /\ ghost' = ghost
    <3>1. Kept /\ agent'[a].pc = "refused"
      BY <1>4, <2>2 DEF PCs
    <3>2. Next1
      BY <3>1 DEF Resolver, At, Writing, Done
    <3> QED BY <1>1, <1>3, <2>1, <2>2, <3>1, <3>2
  <2>3. CASE /\ ghost' = [ghost EXCEPT ![o].took = TRUE]
             /\ agent' = [agent EXCEPT ![a] = [@ EXCEPT !.pc = "staging",
                                                        !.journal = k]]
    <3>1. k \in Journals
      BY <1>2, FirstJournal
    <3> HIDE DEF k
    <3>2. Put(a, "staging", agent[a].then, k)
      BY <1>2, <2>3, <3>1, Moves DEF PCs
    <3>3. Kept /\ agent'[a].pc = "staging"
      BY <3>2 DEF Put
    <3>4. Next1
      BY <3>3 DEF Resolver, At, Writing, Done
    <3>5. /\ \A p \in Ops : ghost'[p].published = ghost[p].published
          /\ ghost'[o].took
      BY <1>2, <2>3, TookMoves
    <3> QED BY <1>1, <1>3, <2>1, <3>3, <3>4, <3>5
  <2>4. lock # None => Goto(a, "refused") /\ ghost' = ghost
    BY <1>6 DEF Acquire
  <2>5. lock = None =>
             /\ ghost' = [ghost EXCEPT ![o].took = TRUE]
             /\ agent' = [agent EXCEPT ![a] = [@ EXCEPT !.pc = "staging",
                                                        !.journal = k]]
    BY <1>6, Zenon DEF Acquire
  <2> QED BY <2>2, <2>3, <2>4, <2>5
<1>7. CASE ~Acquire(a)
  <2>1. ghost' = ghost
    BY <1>7
       DEF Quiet, Step, Crash, Check, MakeStage, StageInputs, Draft, Replace, Start,
           RecordChild, Wait, Consume, PublishCheck, FileCheck, VerifyOutput,
           WriteTerminal, Unlock, Fails, Inspect, Release, Drop, Escapes, Finish,
           Undispatch, Archive, UnlinkLock, Register
  <2>2. CASE \/ StageInputs(a) \/ RecordChild(a) \/ Wait(a) \/ PublishCheck(a)
             \/ VerifyOutput(a)
    <3>1. agent[a].pc \notin Resolver \union Early /\ agent[a].journal \in Journals
      BY <1>2, <2>2 DEF StageInputs, RecordChild, Wait, PublishCheck, VerifyOutput,
                        Resolver, Early
    <3>2. PICK then \in Thens, j \in Journals :
            Update(a, j, then) /\ (then = "terminating" => agent[a].done = FileNames)
      <4>1. /\ [agent[a].journal EXCEPT !.phase = "spawning"] \in Journals
            /\ [agent[a].journal EXCEPT !.phase = "generating", !.native = TRUE]
                   \in Journals
            /\ [agent[a].journal EXCEPT !.phase = "generated", !.stopped = TRUE]
                   \in Journals
            /\ [agent[a].journal EXCEPT !.phase = "publishing"] \in Journals
            /\ [agent[a].journal EXCEPT !.phase = "completed"] \in Journals
        BY <3>1, Zenon DEF Journals, Phases
      <4>2. CASE StageInputs(a)
        BY <4>1, <4>2, Zenon DEF StageInputs, Thens
      <4>3. CASE RecordChild(a)
        BY <4>1, <4>3, Zenon DEF RecordChild, Thens
      <4>4. CASE Wait(a)
        BY <4>1, <4>4, Zenon DEF Wait, Thens
      <4>5. CASE PublishCheck(a)
        BY <4>1, <4>5, Zenon DEF PublishCheck, Thens
      <4>6. CASE VerifyOutput(a)
        BY <4>1, <4>6, Zenon DEF VerifyOutput, Thens
      <4> QED BY <2>2, <4>2, <4>3, <4>4, <4>5, <4>6
    <3>3. Kept /\ agent'[a].pc = "drafting" /\ agent'[a].then = then
      BY <1>5, <3>2 DEF PCs, Thens
    <3>4. Next1
      BY <3>2, <3>3 DEF Thens, Resolver, At, Writing, Done
    <3> QED BY <1>1, <1>3, <2>1, <3>1, <3>3, <3>4
  <2>3. CASE Replace(a)
    <3>1. Goto(a, agent[a].then) /\ agent[a].pc = "replacing"
      BY <2>3 DEF Replace
    <3>2. agent[a].then \in Thens
      BY <1>2, <3>1 DEF HoldsRow, Writing, Resolver
    <3>3. Kept /\ agent'[a].pc = agent[a].then /\ agent'[a].then = agent[a].then
      BY <1>2, <1>4, <3>1
    <3>4. Next1
      BY <3>1, <3>2, <3>3 DEF Thens, Resolver, At, Writing, Done
    <3> QED BY <1>1, <1>3, <2>1, <3>1, <3>3, <3>4 DEF Resolver
  <2>4. CASE Archive(a) \/ UnlinkLock(a) \/ Register(a)
    <3>1. agent[a].pc \in Resolver
      BY <2>4 DEF Archive, UnlinkLock, Register, Resolver
    <3>2. PICK x \in Resolver \union {"exited"} : Goto(a, x)
      BY <2>4 DEF Archive, UnlinkLock, Register, Resolver
    <3>3. Kept /\ agent'[a].pc = x
      BY <1>4, <3>2 DEF PCs, Resolver
    <3> QED BY <1>1, <1>3, <2>1, <3>1, <3>3
  <2>5. CASE Crash(a) \/ Finish(a) \/ Undispatch(a)
    <3>1. Goto(a, "exited")
      BY <2>5 DEF Crash, Finish, Undispatch
    <3>2. Kept /\ agent'[a].pc = "exited"
      BY <1>4, <3>1 DEF PCs
    <3>3. Next1
      BY <3>2 DEF Resolver, At, Writing, Done
    <3> QED BY <1>1, <1>3, <2>1, <3>2, <3>3
  <2>6. CASE Inspect(a)
    <3>1. PICK x \in {"uncertain", "partial", "failed", "releasing"} :
              Goto(a, x) /\ (x \in {"failed", "releasing"} => FoundNone(a))
      <4>1. CASE Goto(a, "uncertain")
        BY <4>1
      <4>2. CASE ~Goto(a, "uncertain")
        <5> DEFINE found == IF agent[a].published THEN output.files ELSE stage[o].files
        <5>1. /\ agent[a].pc = "failing" /\ ~(agent[a].published /\ output = None)
              /\ Goto(a, IF found # {} THEN "partial"
                         ELSE IF ~Releasable(agent[a].journal) THEN "failed"
                         ELSE IF lock # agent[a].journal THEN "uncertain"
                         ELSE "releasing")
          BY <2>6, <4>2 DEF Inspect
        <5>2. CASE found # {}
          BY <5>1, <5>2
        <5>3. CASE found = {}
          BY <5>1, <5>3 DEF FoundNone
        <5> QED BY <5>2, <5>3
      <4> QED BY <4>1, <4>2
    <3>2. Kept /\ agent'[a].pc = x
      BY <1>4, <3>1 DEF PCs
    <3>3. Next1
      BY <3>1, <3>2 DEF Resolver, At, Writing, Done
    <3>4. agent[a].pc \notin Resolver
      BY <2>6 DEF Inspect, Resolver
    <3> QED BY <1>1, <1>3, <2>1, <3>2, <3>3, <3>4
  <2>7. CASE \/ Check(a) \/ MakeStage(a) \/ Draft(a) \/ Start(a) \/ Consume(a)
             \/ FileCheck(a)
             \/ WriteTerminal(a) \/ Unlock(a) \/ Fails(a) \/ Release(a) \/ Drop(a)
             \/ Escapes(a)
    <3>1. PICK x \in {"locking", "refused", "copying", "replacing", "spawned",
                      "checking", "filing", "unlocking", "succeeded", "failing",
                      "dropping", "failed", "uncertain"} :
            /\ Goto(a, x)
            /\ x = "replacing" => agent[a].pc = "drafting"
            /\ x = "filing" => /\ agent[a].pc = "publishing" /\ output # None
                               /\ output.maker = o
            /\ x = "unlocking" => agent[a].pc = "terminating"
            /\ x = "succeeded" => agent[a].pc = "unlocking"
            /\ x = "dropping" => agent[a].pc = "releasing"
            /\ x = "failed" => agent[a].pc = "dropping"
      BY <2>7 DEF Check, MakeStage, Draft, Start, Consume, FileCheck, WriteTerminal,
                  Unlock, Fails, Release, Drop, Escapes
    <3>2. Kept /\ agent'[a].pc = x /\ agent'[a].then = agent[a].then
      BY <1>4, <3>1 DEF PCs
    <3>3. Next1
      BY <3>1, <3>2 DEF Resolver, At, Writing, Done
    <3>4. agent[a].pc \notin Resolver
      BY <2>7 DEF Check, MakeStage, Draft, Start, Consume, FileCheck, WriteTerminal,
                  Unlock, Fails, Release, Drop, Escapes, Resolver
    <3> QED BY <1>1, <1>3, <2>1, <3>2, <3>3, <3>4
  <2> QED BY <1>7, <2>2, <2>3, <2>4, <2>5, <2>6, <2>7 DEF Quiet, Step
<1> QED BY <1>6, <1>7

\* A step that publishes nothing keeps what is said of the files.
LEMMA QuietFiles ==
    ASSUME RowInv, FilesInv, NEW a \in Agents, Quiet(a)
    PROVE  FilesInv'
<1>1. /\ Live(a) /\ output' = output
      /\ \A p \in Ops : ghost'[p].published = ghost[p].published
  BY QuietSteps
<1>2. PICK o \in Ops : o = agent[a].op
  BY <1>1, AtRow
<1>3. /\ agent'[a].op = o /\ agent'[a].published = agent[a].published
      /\ agent'[a].done = agent[a].done /\ agent'[a].seen = agent[a].seen
      /\ \A b \in Agents \ {a} : agent'[b] = agent[b]
      /\ \A p \in Ops \ {o} : row'[p] = row[p] /\ ghost'[p] = ghost[p]
      /\ ghost[o].took => ghost'[o].took
  BY <1>2, QuietSteps, QuietFrame DEF RowInv
<1>4. AgentFiles(a) /\ OpFiles(o)
  BY DEF FilesInv
<1>5. FoundNone(a) /\ agent[a].pc \notin Resolver => agent[a].done = {}
  <2> SUFFICES ASSUME FoundNone(a), agent[a].pc \notin Resolver
               PROVE  agent[a].done = {}
    OBVIOUS
  <2>1. WriterFiles(a) /\ Unresolved(o)
    BY <1>1, <1>2, <1>4, AtRow DEF AgentFiles, HoldsRow, Unresolved
  <2>2. CASE agent[a].published
    <3>1. output # None /\ output.files = {}
      BY <2>2 DEF FoundNone
    <3>2. ghost[o].published = {}
      BY <1>4, <2>1, <3>1 DEF OpFiles
    <3> QED BY <1>2, <2>1, <3>2 DEF WriterFiles
  <2>3. CASE ~agent[a].published
    BY <2>1, <2>3 DEF WriterFiles
  <2> QED BY <2>2, <2>3
<1>6. AgentFiles(a)'
  <2>1. CASE agent[a].pc \in Resolver
    <3>1. ResolverFiles(a)
      BY <1>1, <1>4, <2>1 DEF AgentFiles
    <3>2. ResolverFiles(a)'
      BY <1>1, <1>2, <1>3, <3>1 DEF ResolverFiles
    <3>3. agent'[a].pc \in Resolver \union {"exited"}
      BY <2>1, QuietSteps
    <3> QED BY <3>2, <3>3 DEF AgentFiles, Live, Resolver
  <2>2. CASE agent[a].pc \notin Resolver
    <3>1. WriterFiles(a)
      BY <1>1, <1>4, <2>2 DEF AgentFiles
    <3>2. /\ agent'[a].pc \notin Resolver \union {"idle", "publishing"}
          /\ agent'[a].pc = "filing" =>
                agent[a].pc = "publishing" /\ output # None /\ output.maker = o
          /\ At(a)' \in Done => At(a) \in Done \/ agent[a].done = FileNames
          /\ agent'[a].pc \in {"releasing", "dropping", "failed"} =>
                agent[a].pc \in {"releasing", "dropping"} \/ FoundNone(a)
      BY <1>2, <2>2, QuietSteps
    <3>3. /\ (ghost[agent[a].op].published)' = agent'[a].done
          /\ ~agent'[a].published => agent'[a].done = {}
      BY <1>1, <1>2, <1>3, <3>1 DEF WriterFiles
    <3>4. /\ agent'[a].pc \in {"publishing", "filing"} => agent'[a].published
          /\ agent'[a].pc = "filing" => (output # None /\ output.maker = agent[a].op)'
      BY <1>1, <1>3, <3>1, <3>2 DEF WriterFiles
    <3>5. At(a)' \in Done => agent'[a].done = FileNames
      BY <1>3, <3>1, <3>2 DEF WriterFiles, Done
    <3>6. agent'[a].pc \in {"releasing", "dropping", "failed"} => agent'[a].done = {}
      BY <1>3, <1>5, <2>2, <3>1, <3>2 DEF WriterFiles
    <3>7. WriterFiles(a)'
      BY <3>3, <3>4, <3>5, <3>6 DEF WriterFiles, Done
    <3> QED BY <3>2, <3>7 DEF AgentFiles
  <2> QED BY <2>1, <2>2
<1>7. ASSUME NEW b \in Agents \ {a} PROVE AgentFiles(b)'
  <2>1. AgentFiles(b) /\ agent'[b] = agent[b]
    BY <1>3 DEF FilesInv
  <2>2. Live(b) => agent[b].op \in Ops
    BY AtRow
  <2>3. /\ Live(b) /\ WriterFiles(b) => WriterFiles(b)'
        /\ Live(b) /\ ResolverFiles(b) => ResolverFiles(b)'
    BY <1>1, <2>1, <2>2 DEF WriterFiles, ResolverFiles, At
  <2> QED BY <2>1, <2>3 DEF AgentFiles, Live
<1>8. OpFiles(o)'
  <2>1. CASE row'[o] = row[o]
    BY <1>1, <1>3, <1>4, <2>1 DEF OpFiles, Unresolved
  <2>2. CASE row'[o] # row[o]
    <3>1. Finish(a) \/ Undispatch(a) \/ Register(a)
      BY <1>2, <2>2
         DEF Quiet, Step, Crash, Check, Acquire, MakeStage, StageInputs, Draft,
             Replace, Start, RecordChild, Wait, Consume, PublishCheck, FileCheck,
             VerifyOutput, WriteTerminal, Unlock, Fails, Inspect, Release, Drop,
             Escapes, Archive, UnlinkLock, disk
    <3>2. CASE Register(a)
      <4>1. /\ agent[a].pc \in Resolver /\ agent[a].seen # None
            /\ ResolverFiles(a) /\ TypeOK
        BY <1>1, <1>2, <1>4, <3>2, AtRow
           DEF Register, Resolver, AgentFiles, ReadsRow
      <4>4. Unresolved(o)
        BY <1>2, <2>2, <3>2, <4>1, StoreRows
      <4>2. /\ row'[o].resolution = agent[a].seen.outcome
            /\ row'[o].status = row[o].status
        BY <1>2, <3>2, <4>1, <4>4, StoreRows
      <4>3. row[o].status \in {"dispatched", "unknown", "partial"}
            /\ row[o].resolution = None
        BY <4>4 DEF Unresolved
      <4> QED BY <1>1, <1>2, <1>3, <1>4, <4>1, <4>2, <4>3
              DEF OpFiles, Unresolved, ResolverFiles
    <3>3. CASE Finish(a)
      <4>1. agent[a].pc \notin Resolver /\ ~Register(a)
        BY <3>3 DEF Finish, Register, Resolver
      <4>2. WriterFiles(a) /\ HoldsRow(a) /\ TypeOK
        BY <1>1, <1>4, <4>1, AtRow DEF AgentFiles
      <4>3. /\ row'[o].resolution = None
            /\ row'[o].status = IF agent[a].pc = "uncertain" THEN "unknown"
                                ELSE agent[a].pc
            /\ row[o].status = "dispatched" /\ row[o].resolution = None
        BY <1>2, <3>3, <4>1, <4>2, StoreRows DEF HoldsRow
      <4>4. /\ agent[a].pc = "succeeded" => ghost[o].published = FileNames
            /\ agent[a].pc = "failed" => ghost[o].published = {}
        BY <1>2, <4>2 DEF WriterFiles, At, Writing
      <4>5. agent[a].pc \in {"succeeded", "partial", "failed", "uncertain"}
        BY <3>3 DEF Finish
      <4> QED BY <1>1, <1>3, <1>4, <4>3, <4>4, <4>5, NoneFacts
              DEF OpFiles, Unresolved, Outcomes
    <3>4. CASE Undispatch(a)
      <4>1. agent[a].pc \notin Resolver /\ ~Register(a)
        BY <3>4 DEF Undispatch, Register, Resolver
      <4>2. HoldsRow(a) /\ TypeOK
        BY <1>1, <4>1, AtRow
      <4>3. row'[o].resolution = None /\ row'[o].status = "planned"
        BY <1>2, <3>4, <4>1, <4>2, StoreRows DEF HoldsRow
      <4> QED BY <1>1, <1>3, <1>4, <4>3, NoneFacts DEF OpFiles, Unresolved, Outcomes
    <3> QED BY <3>1, <3>2, <3>3, <3>4
  <2> QED BY <2>1, <2>2
<1>9. ASSUME NEW p \in Ops \ {o} PROVE OpFiles(p)'
  BY <1>1, <1>3 DEF FilesInv, OpFiles, Unresolved
<1>10. OneMaker'
  BY <1>1 DEF FilesInv, OneMaker
<1> QED BY <1>6, <1>7, <1>8, <1>9, <1>10 DEF FilesInv

\* Nobody else works on the operation of a writer.
LEMMA WriterAlone ==
    ASSUME RowInv, NEW a \in Agents, Live(a), agent[a].pc \notin Resolver,
           NEW b \in Agents \ {a}, Live(b)
    PROVE  agent[b].op # agent[a].op
<1>1. /\ HoldsRow(a)
      /\ agent[b].pc \in Resolver => ReadsRow(b)
      /\ agent[b].pc \notin Resolver => HoldsRow(b)
  BY AtRow
<1> QED BY <1>1 DEF HoldsRow, ReadsRow, Alive, Live

\* The directory is made: it is empty.
LEMMA MakeFiles ==
    ASSUME RowInv, FilesInv, NEW a \in Agents, Make(a)
    PROVE  FilesInv'
<1>1. /\ Live(a) /\ agent[a].pc = "making" /\ agent[a].pc \notin Resolver
  BY DEF Make, Live, Resolver
<1>2. PICK o \in Ops : o = agent[a].op
  BY <1>1, AtRow
<1>3. /\ output = None /\ output' = [maker |-> o, files |-> {}]
      /\ UNCHANGED <<row, ghost>>
  BY <1>2 DEF Make
<1>4. /\ agent'[a].pc = "publishing" /\ agent'[a].published = TRUE
      /\ agent'[a].op = o /\ agent'[a].done = agent[a].done
      /\ \A b \in Agents \ {a} : agent'[b] = agent[b]
  BY <1>2, PublishMoves DEF RowInv
<1>5. AgentFiles(a)'
  <2>1. WriterFiles(a)
    BY <1>1 DEF FilesInv, AgentFiles
  <2>2. WriterFiles(a)'
    BY <1>2, <1>3, <1>4, <2>1 DEF WriterFiles, At, Writing
  <2> QED BY <1>4, <2>2 DEF AgentFiles, Resolver
<1>6. ASSUME NEW b \in Agents \ {a} PROVE AgentFiles(b)'
  <2>1. AgentFiles(b) /\ agent'[b] = agent[b]
    BY <1>4 DEF FilesInv
  <2>2. /\ WriterFiles(b) => WriterFiles(b)'
        /\ ResolverFiles(b) => ResolverFiles(b)'
    BY <1>3, <2>1 DEF WriterFiles, ResolverFiles, At
  <2> QED BY <2>1, <2>2 DEF AgentFiles, Live
<1>7. ASSUME NEW p \in Ops PROVE OpFiles(p)'
  <2>1. OpFiles(p)
    BY DEF FilesInv
  <2>2. output'.files = {}
    BY <1>3
  <2> QED BY <1>3, <2>1, <2>2 DEF OpFiles, Unresolved
<1>8. OneMaker'
  BY <1>3 DEF OneMaker
<1> QED BY <1>5, <1>6, <1>7, <1>8 DEF FilesInv

\* A file is published, in the directory of its operation.
LEMMA PublishFiles ==
    ASSUME RowInv, FilesInv, NEW a \in Agents, PublishFile(a)
    PROVE  FilesInv'
<1>1. /\ Live(a) /\ agent[a].pc = "filing" /\ agent[a].pc \notin Resolver
      /\ TypeOK /\ output \in Outputs /\ UNCHANGED row
  BY DEF PublishFile, Live, Resolver, RowInv, TypeOK
<1>2. PICK o \in Ops : o = agent[a].op
  BY <1>1, AtRow
<1>3. PICK n \in FileNames \ agent[a].done :
        /\ output' = [output EXCEPT !.files = output.files \union {<<n, o>>}]
        /\ ghost' = [ghost EXCEPT ![o] = [ghost[o] EXCEPT
                         !.published = ghost[o].published \union {n}]]
        /\ agent'[a].pc = "publishing" /\ agent'[a].published = agent[a].published
        /\ agent'[a].op = o /\ agent'[a].done = agent[a].done \union {n}
        /\ \A b \in Agents \ {a} : agent'[b] = agent[b]
  BY <1>1, <1>2, PublishMoves
<1>4. /\ output'.maker = output.maker /\ output' \in Outputs
      /\ output'.files = output.files \union {<<n, o>>}
  <2>1. <<n, o>> \in Files
    BY DEF Files
  <2> QED BY <1>1, <1>3, <2>1 DEF Outputs
<1>5. /\ ghost'[o].took = ghost[o].took
      /\ ghost'[o].published = ghost[o].published \union {n}
      /\ \A p \in Ops \ {o} : ghost'[p] = ghost[p]
  BY <1>1, <1>3, PublishedMoves
<1>6. output' # None
  BY <1>4, NoneFacts
<1>7. /\ WriterFiles(a) /\ HoldsRow(a) /\ OpFiles(o)
      /\ row[o].status = "dispatched" /\ row[o].resolution = None /\ ghost[o].took
  <2>1. WriterFiles(a) /\ HoldsRow(a) /\ OpFiles(o)
    BY <1>1, AtRow DEF FilesInv, AgentFiles
  <2> QED BY <1>1, <1>2, <2>1 DEF HoldsRow, Early
<1>8. AgentFiles(a)'
  <2>1. WriterFiles(a)'
    BY <1>1, <1>2, <1>3, <1>5, <1>7 DEF WriterFiles, At, Writing
  <2> QED BY <1>3, <2>1 DEF AgentFiles, Resolver
<1>9. ASSUME NEW b \in Agents \ {a} PROVE AgentFiles(b)'
  <2>1. AgentFiles(b) /\ agent'[b] = agent[b]
    BY <1>3 DEF FilesInv
  <2>2. Live(b) => agent[b].op \in Ops \ {o}
    BY <1>1, <1>2, AtRow, WriterAlone
  <2>3. /\ Live(b) /\ WriterFiles(b) => WriterFiles(b)'
        /\ Live(b) /\ ResolverFiles(b) => ResolverFiles(b)'
    BY <1>4, <1>5, <1>6, <2>1, <2>2 DEF WriterFiles, ResolverFiles, At
  <2> QED BY <2>1, <2>3 DEF AgentFiles, Live
<1>10. OpFiles(o)'
  <2>1. Unresolved(o)' => \A m \in ghost'[o].published :
            output' # None /\ <<m, o>> \in output'.files
    BY <1>1, <1>4, <1>5, <1>6, <1>7 DEF OpFiles, Unresolved
  <2>2. \A m \in FileNames : <<m, o>> \in output'.files => m \in ghost'[o].published
    BY <1>1, <1>4, <1>5, <1>7, NoneFacts DEF OpFiles
  <2> QED BY <1>1, <1>5, <1>7, <2>1, <2>2, NoneFacts DEF OpFiles, Unresolved, Outcomes
<1>11. ASSUME NEW p \in Ops \ {o} PROVE OpFiles(p)'
  <2>1. OpFiles(p) /\ output # None
    BY <1>1, NoneFacts DEF FilesInv
  <2>2. \A m \in FileNames : <<m, p>> \in output'.files => <<m, p>> \in output.files
    BY <1>4
  <2> QED BY <1>1, <1>4, <1>5, <1>6, <2>1, <2>2 DEF OpFiles, Unresolved
<1>12. OneMaker'
  <2>1. output # None /\ output.maker = o
    BY <1>1, <1>2, <1>7 DEF WriterFiles
  <2>2. \A f \in output.files : f[2] = output.maker
    BY <2>1 DEF FilesInv, OneMaker
  <2>3. <<n, o>>[2] = o
    OBVIOUS
  <2> QED BY <1>4, <2>1, <2>2, <2>3 DEF OneMaker
<1> QED BY <1>8, <1>9, <1>10, <1>11, <1>12 DEF FilesInv

\* A writer starts with nothing published.
LEMMA ConfirmFiles ==
    ASSUME RowInv, FilesInv, NEW a \in Agents, NEW o \in Ops, Confirm(a, o)
    PROVE  FilesInv'
<1>1. /\ UNCHANGED <<output, ghost>> /\ OthersRows(o)
      /\ row'[o].status = "dispatched" /\ row'[o].resolution = None
      /\ agent'[a].pc = "confirmed" /\ agent'[a].op = o
      /\ agent'[a].done = agent[a].done
      /\ agent'[a].published = agent[a].published
      /\ \A b \in Agents \ {a} : agent'[b] = agent[b]
  <2>1. TypeOK /\ OpRow(o) /\ row[o].status = "planned"
    BY DEF RowInv, Confirm
  <2>2. row[o].resolution = None
    BY <2>1 DEF OpRow
  <2> QED BY <2>1, <2>2, ConfirmMoves
<1>2. /\ row[o].status = "planned" /\ agent[a].pc = "idle"
      /\ OpRow(o) /\ OpFiles(o) /\ AgentFiles(a)
  BY DEF Confirm, RowInv, FilesInv
<1>3. /\ ~ghost[o].took /\ ghost[o].published = {} /\ agent[a].done = {}
      /\ ~agent[a].published
  BY <1>2 DEF OpRow, OpFiles, AgentFiles
<1>4. AgentFiles(a)'
  BY <1>1, <1>3 DEF AgentFiles, WriterFiles, At, Writing, Resolver
<1>5. ASSUME NEW b \in Agents \ {a} PROVE AgentFiles(b)'
  BY <1>1 DEF FilesInv, AgentFiles, WriterFiles, ResolverFiles, At, Live
<1>6. ASSUME NEW p \in Ops PROVE OpFiles(p)'
  <2>1. CASE p = o
    BY <1>1, <1>2, <1>3, <2>1, NoneFacts DEF OpFiles, Outcomes
  <2>2. CASE p # o
    BY <1>1, <2>2 DEF FilesInv, OpFiles, Unresolved, OthersRows
  <2> QED BY <2>1, <2>2
<1>7. OneMaker'
  BY <1>1 DEF FilesInv, OneMaker
<1> QED BY <1>4, <1>5, <1>6, <1>7 DEF FilesInv

\* What operation resolve reads tells what was published.
LEMMA ObservedTrue ==
    ASSUME RowInv, FilesInv, NEW o \in Ops, Unresolved(o)
    PROVE  /\ Observed(o) = "applied" => ghost[o].published = FileNames
           /\ Observed(o) = "not_applied" => ghost[o].published = {}
<1>1. OpFiles(o) /\ ghost[o].published \subseteq FileNames
  BY DEF FilesInv, RowInv, TypeOK
<1>2. ASSUME Observed(o) = "applied" PROVE ghost[o].published = FileNames
  <2>1. Complete(o)
    BY <1>2 DEF Observed
  <2>2. output # None /\ \A n \in FileNames : <<n, o>> \in output.files
    BY <2>1 DEF Complete
  <2> QED BY <1>1, <2>2 DEF OpFiles
<1>3. ASSUME Observed(o) = "not_applied" PROVE ghost[o].published = {}
  <2>1. Artifacts(o) = {}
    BY <1>3 DEF Observed
  <2>2. output # None => output.files = {}
    BY <2>1 DEF Artifacts
  <2> QED BY <1>1, <2>2 DEF OpFiles
<1> QED BY <1>2, <1>3

\* operation resolve starts with a true readback.
LEMMA ResolveBeginFiles ==
    ASSUME RowInv, FilesInv, NEW a \in Agents, NEW o \in Ops, ResolveBegin(a, o)
    PROVE  FilesInv'
<1>1. /\ UNCHANGED <<output, ghost, row>>
      /\ agent'[a].pc = "archiving" /\ agent'[a].op = o
      /\ agent'[a].seen.outcome = Observed(o)
      /\ \A b \in Agents \ {a} : agent'[b] = agent[b]
  BY ResolveMoves DEF RowInv
<1>2. AgentFiles(a)'
  <2>1. Unresolved(o)
    BY DEF ResolveBegin
  <2>2. ResolverFiles(a)'
    BY <1>1, <2>1, ObservedTrue DEF ResolverFiles
  <2> QED BY <1>1, <2>2 DEF AgentFiles, Resolver
<1>3. ASSUME NEW b \in Agents \ {a} PROVE AgentFiles(b)'
  BY <1>1 DEF FilesInv, AgentFiles, WriterFiles, ResolverFiles, At, Live
<1>4. ASSUME NEW p \in Ops PROVE OpFiles(p)'
  BY <1>1 DEF FilesInv, OpFiles, Unresolved
<1>5. OneMaker'
  BY <1>1 DEF FilesInv, OneMaker
<1> QED BY <1>2, <1>3, <1>4, <1>5 DEF FilesInv

\* An output that holds files of an open operation is not moved, and not while a
\* process is about to publish into it.
LEMMA OutsideFiles ==
    ASSUME ~EarlyMoves, RowInv, FilesInv,
           (\E o \in Ops : ChildWrites(o) \/ ChildExits(o)) \/ MakeForeign \/ TakeAway
    PROVE  FilesInv'
<1>1. UNCHANGED <<row, agent, ghost>>
  BY OutsideMoves DEF RowInv
<1>2. ASSUME output' = output PROVE FilesInv'
  BY <1>1, <1>2 DEF FilesInv, OneMaker, AgentFiles, OpFiles, WriterFiles, ResolverFiles, At,
                    Live, Unresolved
<1>3. ASSUME \A b \in Agents : agent[b].pc = "filing" => output = None
      PROVE  \A b \in Agents : AgentFiles(b)'
  <2> SUFFICES ASSUME NEW b \in Agents PROVE AgentFiles(b)'
    OBVIOUS
  <2>1. AgentFiles(b) /\ (agent[b].pc = "filing" => output = None)
    BY <1>3 DEF FilesInv
  <2>2. Live(b) /\ agent[b].pc \notin Resolver => WriterFiles(b)'
    BY <1>1, <2>1 DEF AgentFiles, WriterFiles, At
  <2> QED BY <1>1, <2>1, <2>2 DEF AgentFiles, ResolverFiles, Live
<1>4. CASE MakeForeign
  <2>1. output = None /\ output' = [maker |-> Foreign, files |-> {<<None, Foreign>>}]
    BY <1>4 DEF MakeForeign
  <2>2. ASSUME NEW o \in Ops PROVE OpFiles(o)'
    <3>1. OpFiles(o) /\ \A n \in FileNames : <<n, o>> \notin output'.files
      BY <2>1, NoneFacts DEF FilesInv
    <3> QED BY <1>1, <2>1, <3>1 DEF OpFiles, Unresolved
  <2>3. OneMaker'
    BY <2>1 DEF OneMaker
  <2> QED BY <1>3, <2>1, <2>2, <2>3 DEF FilesInv
<1>5. CASE TakeAway
  <2>1. /\ output # None /\ output' = None
        /\ \A o \in Ops : Unresolved(o) => output.files \cap (FileNames \X {o}) = {}
        /\ \A a \in Agents : agent[a].pc # "filing"
    BY <1>5 DEF TakeAway
  <2>2. ASSUME NEW o \in Ops PROVE OpFiles(o)'
    <3>1. OpFiles(o) /\ ghost[o].published \subseteq FileNames
      BY DEF FilesInv, RowInv, TypeOK
    <3>2. ASSUME Unresolved(o), NEW n \in ghost[o].published PROVE FALSE
      <4>1. <<n, o>> \in output.files /\ n \in FileNames
        BY <3>1, <3>2 DEF OpFiles
      <4>2. <<n, o>> \in FileNames \X {o}
        BY <4>1
      <4> QED BY <2>1, <3>2, <4>1, <4>2
    <3> QED BY <1>1, <2>1, <3>1, <3>2 DEF OpFiles, Unresolved
  <2>3. OneMaker'
    BY <2>1 DEF OneMaker
  <2> QED BY <1>3, <2>1, <2>2, <2>3 DEF FilesInv
<1>6. CASE \E o \in Ops : ChildWrites(o) \/ ChildExits(o)
  <2>1. output' = output
    BY <1>6 DEF ChildWrites, ChildExits, disk
  <2> QED BY <1>2, <2>1
<1> QED BY <1>4, <1>5, <1>6

\* Nothing is published.
LEMMA FilesInit == Init => FilesInv
<1> SUFFICES ASSUME Init PROVE FilesInv
  OBVIOUS
<1>1. OneMaker
  BY DEF Init, OneMaker
<1>2. ASSUME NEW a \in Agents PROVE AgentFiles(a)
  <2>1. agent[a].pc = "idle" /\ agent[a].done = {}
    BY DEF Init
  <2>2. agent[a].published = FALSE
    BY Zenon DEF Init
  <2> QED BY <2>1, <2>2 DEF AgentFiles, Live
<1>3. ASSUME NEW o \in Ops PROVE OpFiles(o)
  <2>1. /\ row[o].status = "planned" /\ row[o].resolution = None
        /\ ghost[o].published = {} /\ output = None
    BY DEF Init
  <2> QED BY <2>1, NoneFacts DEF OpFiles, Unresolved, Outcomes
<1> QED BY <1>1, <1>2, <1>3 DEF FilesInv

\* Every step preserves the invariant.
LEMMA FilesNext ==
    ASSUME ~EarlyMoves, RowInv, FilesInv, [Next]_vars
    PROVE  FilesInv'
<1>1. CASE \E a \in Agents : Step(a) \/ Crash(a)
  <2>1. PICK a \in Agents : Step(a) \/ Crash(a)
    BY <1>1
  <2> QED BY <2>1, QuietFiles, MakeFiles, PublishFiles DEF Quiet
<1>2. CASE \E a \in Agents, o \in Ops : Confirm(a, o) \/ ResolveBegin(a, o)
  BY <1>2, ConfirmFiles, ResolveBeginFiles
<1>3. CASE (\E o \in Ops : ChildWrites(o) \/ ChildExits(o)) \/ MakeForeign \/ TakeAway
  BY <1>3, OutsideFiles
<1>4. CASE UNCHANGED vars
  <2>1. UNCHANGED <<output, row, agent, ghost>>
    BY <1>4 DEF vars, disk
  <2> QED BY <2>1 DEF FilesInv, OneMaker, AgentFiles, OpFiles, WriterFiles,
                      ResolverFiles, At, Live, Unresolved
<1> QED BY <1>1, <1>2, <1>3, <1>4 DEF Next

-----------------------------------------------------------------------------
(* The theorems about the files, for any number of resolves at a time. They *)
(* suppose that an output with files of an export stays where it is until   *)
(* the export is recorded.                                                  *)

\* The inductive invariant of the files holds at every step.
THEOREM FilesInvariant ==
    ASSUME ~EarlyMoves PROVE Spec => [](RowInv /\ FilesInv)
<1>1. Init => RowInv /\ FilesInv
  BY RowInit, FilesInit
<1>2. RowInv /\ FilesInv /\ [Next]_vars => (RowInv /\ FilesInv)'
  BY RowNext, FilesNext
<1> QED BY <1>1, <1>2, PTL DEF Spec

\* The output never holds files of two writers (publish: mkdir never adopts a
\* directory, files are created exclusively).
THEOREM OutputsUnmixed ==
    ASSUME ~EarlyMoves PROVE Spec => []NoMixedOutput
<1>1. FilesInv => NoMixedOutput
  BY DEF FilesInv, OneMaker, NoMixedOutput
<1> QED BY <1>1, FilesInvariant, PTL

\* Success and the resolution applied mean that all files were published, failure
\* and not_applied that none was, for every number of operations and files.
THEOREM OutcomesTrue ==
    ASSUME ~EarlyMoves PROVE Spec => []OutcomeTrue
<1>1. FilesInv => OutcomeTrue
  BY DEF FilesInv, OpFiles, OutcomeTrue
<1> QED BY <1>1, FilesInvariant, PTL

=============================================================================
