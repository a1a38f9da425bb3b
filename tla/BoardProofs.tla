---------------------------- MODULE BoardProofs ----------------------------
(***************************************************************************)
(* Proofs about BoardTransaction for every number of operations, processes,*)
(* state directories and outside edits: types, one inductive invariant     *)
(* that ties the file, its sidecars and the rows to the position of each   *)
(* process, and the safety properties that follow from it.                 *)
(***************************************************************************)
EXTENDS BoardTransaction, TLAPS

-----------------------------------------------------------------------------
(* The inductive invariant.                                                 *)

Live(a)    == agent[a].pc \notin {"idle", "exited"}
Touched    == {"torn", "saved", "verified"}
Holding(o) == lock = o /\ journal = o /\ backup = row[o].base
Kept(o)    == <<o, row[o].base>> \in archive

\* Old bytes of o that are those of another operation were saved by it, and no
\* other operation that was planned on them has gone on from there.
BasePast(o) == \A p \in Ops \ {o} :
    /\ row[o].base = p => left[p] \in {"saved", "verified"}
    /\ row[p].base = row[o].base => left[p] \notin Touched

\* What a rollback has left.
Undone(a) ==
    LET o == agent[a].op IN
    /\ IF agent[a].noChange THEN left[o] = "untouched" ELSE left[o] = "restored"

\* The row, the sidecars and the file at each position of a writer.
WriterAt(a) ==
    LET o  == agent[a].op
        pc == agent[a].pc
        mode == agent[a].mode
    IN
    /\ pc \notin {"archiving", "dropping", "registering", "rejected"}
    /\ row[o].status = "dispatched" /\ row[o].writer = a
    /\ row[o].outcome = None /\ row[o].resolution = None
    /\ pc \in {"confirmed", "locking", "refused", "copying", "journaling", "undoing",
               "unlocking", "saving", "writing", "filling", "verifying", "failing"} =>
          mode = "commit"
    /\ pc \in {"restoring", "restored"} => mode = "rollback"
    /\ pc \in {"confirmed", "locking", "refused"} =>
          journal # o /\ left[o] = "untouched"
    /\ pc \in {"copying", "journaling", "undoing", "unlocking"} =>
          lock = o /\ journal # o /\ left[o] = "untouched"
    /\ pc = "journaling" => backup = row[o].base /\ BasePast(o)
    /\ pc \in {"saving", "writing", "filling", "verifying", "restoring"} => Holding(o)
    /\ pc \in {"saving", "writing"} => left[o] = "untouched"
    /\ pc = "writing" => EditorRaces \/ board = row[o].base
    /\ pc = "filling" => left[o] = "torn" /\ (EditorRaces \/ board = Torn(o))
    /\ pc = "verifying" => left[o] = "saved"
    /\ pc = "failing" =>
          /\ journal = o /\ left[o] # "restored"
          /\ Holding(o) \/ (left[o] = "verified" /\ backup # row[o].base)
    /\ pc = "restoring" =>
          /\ agent[a].seen \in {row[o].base, o}
          /\ EditorRaces \/ board = agent[a].seen
          /\ agent[a].seen = row[o].base => agent[a].noChange /\ left[o] = "untouched"
          /\ agent[a].seen # row[o].base => ~agent[a].noChange
    /\ pc = "restored" => lock = o /\ journal = o /\ Undone(a)
    /\ pc = "cleaning" =>
          /\ mode \in {"commit", "rollback"} /\ journal = o
          /\ mode = "commit" => left[o] = "verified"
          /\ mode = "rollback" => Undone(a)
          /\ agent[a].i = 0 => lock = o /\ (mode = "commit" => backup = row[o].base)
          /\ agent[a].i = 1 => lock = o /\ backup = None
          /\ agent[a].i = 2 => lock # o /\ (mode = "commit" => backup # row[o].base)
    /\ pc = "cleaned" =>
          /\ mode \in {"commit", "rollback"} /\ lock # o /\ journal # o
          /\ mode = "commit" => left[o] = "verified"
          /\ mode = "rollback" => Undone(a)

\* The same for operation resolve: its operation has a dead writer.
ResolverAt(a) ==
    LET o  == agent[a].op
        pc == agent[a].pc
    IN
    /\ pc \in {"archiving", "dropping", "registering", "rejected"}
    /\ Unresolved(o) /\ row[o].writer \in Agents /\ ~Alive(row[o].writer)
    /\ agent[a].seen = row[o].base => left[o] \in {"untouched", "restored"}
    /\ agent[a].seen = o => left[o] \in {"saved", "verified"}
    /\ pc = "archiving" => Holding(o) /\ agent[a].i = 0
    /\ pc = "dropping" =>
          /\ Kept(o)
          /\ agent[a].i = 0 => Holding(o)
          /\ agent[a].i = 1 => lock = o /\ journal = o
          /\ agent[a].i = 2 => lock # o /\ journal = o
    /\ pc = "registering" => lock # o /\ journal # o

AgentInv(a) ==
    /\ agent[a].pc = "idle" => agent[a].op = None /\ agent[a].mode = "commit"
    /\ Live(a) => agent[a].op \in Ops
    /\ Live(a) /\ agent[a].mode # "resolve" => WriterAt(a)
    /\ Live(a) /\ agent[a].mode = "resolve" => ResolverAt(a)

\* One process works on an operation at a time.
Alone == \A a, b \in Agents :
    Live(a) /\ Live(b) /\ agent[a].op = agent[b].op => a = b

\* What the row of an operation says of its sidecars and of the file.
RowInv(o) ==
    /\ row[o].status # "new" =>
          row[o].base \in Ops \union Edits \union {Old} /\ row[o].base # o
    /\ row[o].status \in {"new", "planned"} =>
          /\ left[o] = "untouched" /\ journal # o
          /\ row[o].resolution = None
    /\ row[o].status = "new" => row[o].base = None
    /\ row[o].status \in {"dispatched", "unknown"} => row[o].writer \in Agents
    /\ row[o].status = "finished" \/ row[o].resolution # None =>
          lock # o /\ journal # o
    /\ row[o].outcome # None => row[o].status = "finished"
    /\ "applied" \in {row[o].outcome, row[o].resolution} =>
          left[o] \in {"saved", "verified"}
    /\ "not_applied" \in {row[o].outcome, row[o].resolution} =>
          left[o] \in {"untouched", "restored"}
    /\ row[o].outcome = "rolled_back" => left[o] = "restored"

\* What the file says of an operation, whoever is alive.
FileInv(o) ==
    /\ board = o => left[o] \in {"saved", "verified"}
    /\ board = Torn(o) => left[o] = "torn"
    /\ lock = o /\ left[o] # "untouched" => journal = o
    /\ left[o] \in Touched => board # row[o].base
    /\ left[o] \in {"torn", "saved"} => Holding(o) \/ Kept(o)
    /\ \A p \in Ops : row[p].base = o => left[o] \in {"saved", "verified", "restored"}
    /\ Holding(o) => BasePast(o)

BoardInv ==
    /\ TypeOK /\ Alone
    /\ \A a \in Agents : AgentInv(a)
    /\ \A o \in Ops : RowInv(o) /\ FileInv(o)

-----------------------------------------------------------------------------
(* Facts about the constants.                                               *)

\* Names of operations, edits and torn writes are different bytes, and none is None.
LEMMA ByteFacts ==
    /\ None \notin Ops \union Edits \union Agents /\ Old \notin Ops \union Edits
    /\ Old # None /\ Ops \cap Edits = {}
    /\ None \notin Outcomes /\ None \notin Bytes
    /\ Ops \union Edits \union {Old} \subseteq Bytes
    /\ \A o \in Ops : /\ Torn(o) \in Bytes
                      /\ Torn(o) \notin Ops \union Edits \union {Old, None}
                      /\ \A p \in Ops : Torn(o) = Torn(p) => o = p
BY BoardConstants, SMT DEF BoardConstants, Bytes, Torn, Outcomes

-----------------------------------------------------------------------------
(* Where a step moves its process.                                          *)

\* A process goes to x, at its position or a new one; all else is unchanged.
PutAt(a, x, i) ==
    /\ agent'[a].pc = x /\ agent'[a].i = i
    /\ agent'[a].op = agent[a].op /\ agent'[a].mode = agent[a].mode
    /\ agent'[a].seen = agent[a].seen /\ agent'[a].noChange = agent[a].noChange
    /\ \A b \in Agents \ {a} : agent'[b] = agent[b]
Put(a, x) == PutAt(a, x, agent[a].i)

\* Goto and GotoAt do just that.
LEMMA Moves ==
    ASSUME TypeOK, NEW a \in Agents, NEW x \in PCs, NEW i \in 0..2
    PROVE  /\ Goto(a, x) => Put(a, x) /\ agent' \in [Agents -> Process]
           /\ GotoAt(a, x, i) => PutAt(a, x, i) /\ agent' \in [Agents -> Process]
<1> DEFINE q == [agent[a] EXCEPT !.pc = x]
           r == [agent[a] EXCEPT !.pc = x, !.i = i]
<1>1. agent \in [Agents -> Process] /\ agent[a] \in Process
  BY DEF TypeOK
<1>2. q \in Process /\ r \in Process
  BY <1>1, Zenon DEF Process
<1>3. /\ q.pc = x /\ q.i = agent[a].i /\ r.pc = x /\ r.i = i
      /\ q.op = agent[a].op /\ q.mode = agent[a].mode /\ q.seen = agent[a].seen
      /\ r.op = agent[a].op /\ r.mode = agent[a].mode /\ r.seen = agent[a].seen
  BY <1>1, SMT DEF Process
<1>4. q.noChange = agent[a].noChange /\ r.noChange = agent[a].noChange
  BY <1>1, Zenon DEF Process
<1>5. /\ Goto(a, x) => agent' = [agent EXCEPT ![a] = q]
      /\ GotoAt(a, x, i) => agent' = [agent EXCEPT ![a] = r]
  BY Zenon DEF Goto, GotoAt
<1> HIDE DEF q, r
<1>6. /\ Goto(a, x) => /\ agent'[a] = q /\ agent' \in [Agents -> Process]
                       /\ \A b \in Agents \ {a} : agent'[b] = agent[b]
      /\ GotoAt(a, x, i) => /\ agent'[a] = r /\ agent' \in [Agents -> Process]
                            /\ \A b \in Agents \ {a} : agent'[b] = agent[b]
  BY <1>1, <1>2, <1>5
<1> QED BY <1>3, <1>4, <1>6, Zenon DEF Put, PutAt

\* A rollback begins, or is given up.
LEMMA RollbackMoves ==
    ASSUME TypeOK, NEW a \in Agents, Rollback(a)
    PROVE  LET o == agent[a].op IN
           /\ agent' \in [Agents -> Process]
           /\ \/ Put(a, "uncertain")
              \/ /\ board \in {row[o].base, o} /\ backup = row[o].base
                 /\ agent'[a].pc = "restoring" /\ agent'[a].mode = "rollback"
                 /\ agent'[a].op = o /\ agent'[a].seen = board
                 /\ agent'[a].noChange = (board = row[o].base)
                 /\ \A b \in Agents \ {a} : agent'[b] = agent[b]
<1> DEFINE o == agent[a].op
           n == board = row[o].base
           r == [agent[a] EXCEPT !.pc = "restoring", !.mode = "rollback",
                                 !.seen = board, !.noChange = n]
<1>1. /\ agent \in [Agents -> Process] /\ agent[a] \in Process /\ board \in Bytes
      /\ "uncertain" \in PCs /\ "restoring" \in PCs /\ agent[a].i \in 0..2
      /\ n \in BOOLEAN
  BY DEF TypeOK, PCs, Process
<1>2. CASE Goto(a, "uncertain")
  BY <1>1, <1>2, Moves
<1>3. CASE ~Goto(a, "uncertain")
  <2>1. /\ board \in {row[o].base, o} /\ backup = row[o].base
        /\ agent' = [agent EXCEPT ![a] = r]
    BY <1>3, Zenon DEF Rollback
  <2> HIDE DEF n
  <2>2. r \in Process
    BY <1>1, Zenon DEF Process
  <2>3. r.pc = "restoring" /\ r.mode = "rollback" /\ r.op = o /\ r.seen = board
    BY <1>1, Zenon DEF Process
  <2>4. r.noChange = n
    BY <1>1, Zenon DEF Process
  <2> HIDE DEF r
  <2>5. /\ agent'[a] = r /\ agent' \in [Agents -> Process]
        /\ \A b \in Agents \ {a} : agent'[b] = agent[b]
    BY <1>1, <2>1, <2>2
  <2>6. agent'[a].noChange = (board = row[o].base)
    BY <2>4, <2>5, Zenon DEF n
  <2> QED BY <2>1, <2>3, <2>5, <2>6
<1> QED BY <1>2, <1>3

\* What the store steps do to the row of their process.
OthersRows(o) == \A p \in Ops \ {o} : row'[p] = row[p]

\* They change the named fields and no other row.
LEMMA StoreRows ==
    ASSUME TypeOK, NEW a \in Agents, agent[a].op \in Ops
    PROVE  LET o == agent[a].op IN
           /\ Finish(a) \/ Undispatch(a) \/ Register(a) =>
                 /\ OthersRows(o) /\ row'[o].base = row[o].base
                 /\ row' \in [Ops -> Row]
           /\ Finish(a) => /\ row'[o].resolution = row[o].resolution
                           /\ row'[o].writer = row[o].writer
                           /\ IF agent[a].pc = "cleaned"
                              THEN /\ row'[o].status = "finished"
                                   /\ row'[o].outcome = Receipt(a)
                              ELSE /\ row'[o].status = "unknown"
                                   /\ row'[o].outcome = row[o].outcome
           /\ Undispatch(a) => /\ row'[o].status = "planned" /\ row'[o].writer = None
                               /\ row'[o].resolution = row[o].resolution
                               /\ row'[o].outcome = row[o].outcome
           /\ Register(a) /\ Unresolved(o) =>
                 /\ row'[o].resolution = Observed(o, agent[a].seen)
                 /\ row'[o].status = row[o].status
                 /\ row'[o].writer = row[o].writer
                 /\ row'[o].outcome = row[o].outcome
<1> DEFINE o == agent[a].op
           x == Receipt(a)
           y == Observed(o, agent[a].seen)
           f == [row[o] EXCEPT !.status = "finished", !.outcome = x]
           k == [row[o] EXCEPT !.status = "unknown"]
           u == [row[o] EXCEPT !.status = "planned", !.writer = None]
           g == [row[o] EXCEPT !.resolution = y]
<1>1. /\ row \in [Ops -> Row] /\ row[o] \in Row
      /\ x \in Outcomes \union {None} /\ y \in Outcomes \union {None}
  BY DEF TypeOK, Receipt, Observed, Outcomes
<1>2. /\ Finish(a) => IF agent[a].pc = "cleaned" THEN row' = [row EXCEPT ![o] = f]
                                                 ELSE row' = [row EXCEPT ![o] = k]
      /\ Undispatch(a) => row' = [row EXCEPT ![o] = u]
      /\ Register(a) => IF Unresolved(o) THEN row' = [row EXCEPT ![o] = g]
                                         ELSE row' = row
  <2>1. Finish(a) /\ agent[a].pc = "cleaned" => row' = [row EXCEPT ![o] = f]
    BY Zenon DEF Finish
  <2>2. Finish(a) /\ agent[a].pc # "cleaned" => row' = [row EXCEPT ![o] = k]
    BY Zenon DEF Finish
  <2>3. Undispatch(a) => row' = [row EXCEPT ![o] = u]
    BY Zenon DEF Undispatch
  <2>4. Register(a) /\ Unresolved(o) => row' = [row EXCEPT ![o] = g]
    BY Zenon DEF Register
  <2>5. Register(a) /\ ~Unresolved(o) => row' = row
    BY Zenon DEF Register
  <2> HIDE DEF f, k, u, g
  <2> QED BY <2>1, <2>2, <2>3, <2>4, <2>5
<1> HIDE DEF x, y
<1>3. f \in Row /\ k \in Row /\ u \in Row /\ g \in Row
  BY <1>1, Zenon DEF Row
<1>4. /\ f.status = "finished" /\ f.outcome = x
      /\ f.base = row[o].base /\ f.resolution = row[o].resolution
      /\ f.writer = row[o].writer
      /\ k.status = "unknown" /\ k.outcome = row[o].outcome
      /\ k.base = row[o].base /\ k.resolution = row[o].resolution
      /\ k.writer = row[o].writer
      /\ u.status = "planned" /\ u.writer = None /\ u.outcome = row[o].outcome
      /\ u.base = row[o].base /\ u.resolution = row[o].resolution
      /\ g.status = row[o].status /\ g.outcome = row[o].outcome
      /\ g.base = row[o].base /\ g.resolution = y /\ g.writer = row[o].writer
  <2> HIDE DEF o
  <2> QED BY <1>1, SMT DEF Row
<1> HIDE DEF f, k, u, g
<1>5. /\ Finish(a) => row'[o] = IF agent[a].pc = "cleaned" THEN f ELSE k
      /\ Undispatch(a) => row'[o] = u
      /\ Register(a) => row'[o] = IF Unresolved(o) THEN g ELSE row[o]
      /\ Finish(a) \/ Undispatch(a) \/ Register(a) =>
            OthersRows(o) /\ row' \in [Ops -> Row]
  BY <1>1, <1>2, <1>3 DEF OthersRows
<1> QED BY <1>4, <1>5, Zenon DEF x, y

-----------------------------------------------------------------------------
(* What a process changes belongs to its operation.                         *)

Frame(a) ==
    LET o == agent[a].op IN
    /\ Live(a) /\ agent'[a].op = o /\ agent'[a].pc # "idle"
    /\ \A b \in Agents \ {a} : agent'[b] = agent[b]
    /\ archive \subseteq archive'
    /\ \A p \in Ops \ {o} : row'[p] = row[p] /\ left'[p] = left[p]
    /\ row'[o].base = row[o].base
    /\ lock' = lock \/ {lock, lock'} \subseteq {o, None}
    /\ journal' = journal \/ {journal, journal'} \subseteq {o, None}
    /\ backup' = backup \/ (lock = o /\ backup' \in {None, board})
    /\ left'[o] = left[o] \/ (lock = o /\ journal = o)
    /\ \/ board' = board
       \/ /\ lock = o /\ journal = o
          /\ \/ board' = Torn(o)
             \/ board' = o /\ left[o] \in {"untouched", "torn"}
             \/ board' = row[o].base /\ Holding(o)

Own(a) ==
    LET o == agent[a].op IN
    TypeOK' /\ Frame(a) /\ AgentInv(a)' /\ RowInv(o)' /\ FileInv(o)'

\* What the invariant says of a process that takes a step.
LEMMA AtStep ==
    ASSUME BoardInv, NEW a \in Agents, Live(a)
    PROVE  LET o == agent[a].op IN
           /\ o \in Ops /\ TypeOK /\ RowInv(o) /\ FileInv(o)
           /\ agent[a].mode # "resolve" => WriterAt(a)
           /\ agent[a].mode = "resolve" => ResolverAt(a)
           /\ agent[a].i \in 0..2
           /\ agent[a].mode \in {"commit", "rollback", "resolve"}
           /\ row \in [Ops -> Row] /\ agent \in [Agents -> Process]
           /\ left \in [Ops -> {"untouched", "torn", "saved", "verified", "restored"}]
<1>1. TypeOK /\ AgentInv(a) /\ agent[a].op \in Ops
  BY DEF BoardInv, AgentInv
<1>2. agent[a] \in Process
  BY <1>1 DEF TypeOK
<1>3. agent[a].i \in 0..2 /\ agent[a].mode \in {"commit", "rollback", "resolve"}
  BY <1>2 DEF Process
<1> QED BY <1>1, <1>3 DEF BoardInv, AgentInv, TypeOK

\* A step that changes nothing but its process.
LEMMA QuietOwn ==
    ASSUME BoardInv, NEW a \in Agents, Live(a),
           agent' \in [Agents -> Process],
           agent'[a].op = agent[a].op, agent'[a].pc # "idle",
           \A b \in Agents \ {a} : agent'[b] = agent[b],
           UNCHANGED <<board, sidecars, archive, row, left>>,
           AgentInv(a)'
    PROVE  Own(a)
<1> DEFINE o == agent[a].op
<1>1. o \in Ops /\ TypeOK /\ RowInv(o) /\ FileInv(o)
  BY AtStep
<1>2. TypeOK'
  BY <1>1 DEF TypeOK, sidecars
<1>3. Frame(a)
  BY DEF Frame, sidecars
<1>4. RowInv(o)' /\ FileInv(o)'
  BY <1>1 DEF RowInv, FileInv, Holding, Kept, BasePast, sidecars
<1> QED BY <1>2, <1>3, <1>4 DEF Own

\* The end of a process satisfies what is said of it.
LEMMA ExitedInv ==
    ASSUME NEW a, agent'[a].pc = "exited"
    PROVE  AgentInv(a)'
  BY DEF AgentInv, Live

\* A process that only stops.
LEMMA OwnExit ==
    ASSUME BoardInv, NEW a \in Agents, Rejected(a) \/ Crash(a)
    PROVE  Own(a)
<1>1. Live(a) /\ Goto(a, "exited") /\ "exited" \in PCs
  BY DEF Rejected, Crash, Live, PCs
<1>2. TypeOK /\ agent[a].i \in 0..2
  BY <1>1, AtStep
<1>3. Put(a, "exited") /\ agent' \in [Agents -> Process]
  BY <1>1, <1>2, Moves
<1> QED BY <1>1, <1>3, ExitedInv, QuietOwn DEF Rejected, Crash, Put, PutAt

\* The checks of a writer, and its failures.
LEMMA OwnChecks ==
    ASSUME BoardInv, NEW a \in Agents,
           ArmCheck(a) \/ ArmFails(a) \/ UndoFails(a) \/ Recheck(a) \/ Fails(a)
    PROVE  Own(a)
<1> DEFINE o == agent[a].op
<1>1. Live(a) /\ agent[a].mode # "resolve"
  <2>1. Live(a)
    BY DEF ArmCheck, ArmFails, UndoFails, Recheck, Fails, Live
  <2> QED BY <2>1, AtStep
          DEF ResolverAt, ArmCheck, ArmFails, UndoFails, Recheck, Fails
<1>2. /\ o \in Ops /\ TypeOK /\ RowInv(o) /\ FileInv(o) /\ WriterAt(a)
      /\ agent[a].mode \in {"commit", "rollback"} /\ agent[a].i \in 0..2
  BY <1>1, AtStep
<1>3. PICK x \in {"refused", "locking", "unlocking", "undoing", "writing", "failing",
                  "uncertain"} :
         /\ Goto(a, x)
         /\ agent[a].pc = "confirmed" => x \in {"refused", "locking"}
         /\ agent[a].pc = "copying" => x = "unlocking"
         /\ agent[a].pc = "journaling" => x = "undoing"
         /\ x = "writing" => agent[a].pc = "saving" /\ board = row[o].base
         /\ x = "failing" => agent[a].mode = "commit" /\
               agent[a].pc \in {"saving", "writing", "filling", "verifying", "cleaning"}
         /\ x = "uncertain" => agent[a].mode = "rollback"
         /\ agent[a].pc \in {"undoing", "unlocking"} => x = "refused"
         /\ x = "locking" => agent[a].pc = "confirmed"
         /\ x = "refused" => agent[a].pc \in {"confirmed", "undoing", "unlocking"}
         /\ x = "unlocking" => agent[a].pc = "copying"
         /\ x = "undoing" => agent[a].pc = "journaling"
  <2>1. CASE ArmCheck(a)
    BY <2>1 DEF ArmCheck
  <2>2. CASE ArmFails(a)
    BY <2>2 DEF ArmFails
  <2>3. CASE Recheck(a)
    BY <1>2, <2>3 DEF Recheck, WriterAt
  <2>4. CASE Fails(a)
    <3>1. agent[a].mode = "commit" => Goto(a, "failing")
      BY <2>4 DEF Fails
    <3>2. agent[a].mode # "commit" => Goto(a, "uncertain")
      BY <2>4 DEF Fails
    <3>3. agent[a].pc \in {"saving", "writing", "filling", "verifying", "cleaning",
                           "restoring", "restored", "cleaned"}
      BY <2>4 DEF Fails
    <3>4. agent[a].pc \in {"restoring", "restored", "cleaned"} =>
              agent[a].mode = "rollback"
      BY <1>2, <2>4 DEF Fails, WriterAt
    <3> QED BY <1>2, <3>1, <3>2, <3>3, <3>4
  <2>5. CASE UndoFails(a)
    BY <2>5 DEF UndoFails
  <2> QED BY <2>1, <2>2, <2>3, <2>4, <2>5
<1>4. Put(a, x) /\ agent' \in [Agents -> Process]
  BY <1>2, <1>3, Moves DEF PCs
<1>5. UNCHANGED <<board, sidecars, archive, row, left>>
  BY DEF ArmCheck, ArmFails, UndoFails, Recheck, Fails
<1>6. agent'[a].op = o /\ agent'[a].mode = agent[a].mode /\ agent'[a].pc = x
  BY <1>4 DEF Put, PutAt
<1>7. WriterAt(a)'
  <2>1. CASE x \in {"refused", "locking", "unlocking", "undoing"}
    BY <1>2, <1>3, <1>5, <1>6, <2>1 DEF WriterAt, sidecars
  <2>2. CASE x = "writing"
    BY <1>2, <1>3, <1>5, <1>6, <2>2 DEF WriterAt, Holding, sidecars
  <2>3. CASE x = "failing"
    <3>1. /\ journal = o /\ left[o] # "restored"
          /\ Holding(o) \/ (left[o] = "verified" /\ backup # row[o].base)
      <4>1. CASE agent[a].pc \in {"saving", "writing", "filling", "verifying"}
        BY <1>2, <4>1 DEF WriterAt, Holding
      <4>2. CASE agent[a].pc = "cleaning"
        <5>1. /\ journal = o /\ left[o] = "verified"
              /\ agent[a].i = 0 => Holding(o)
              /\ agent[a].i = 1 => backup = None
              /\ agent[a].i = 2 => backup # row[o].base
          BY <1>2, <1>3, <2>3, <4>2 DEF WriterAt, Holding
        <5>2. row[o].base # None
          BY <1>2, ByteFacts DEF WriterAt, RowInv
        <5>3. agent[a].i = 0 \/ agent[a].i = 1 \/ agent[a].i = 2
          BY <1>2
        <5> QED BY <5>1, <5>2, <5>3
      <4> QED BY <1>3, <2>3, <4>1, <4>2
    <3> QED BY <1>2, <1>3, <1>5, <1>6, <2>3, <3>1 DEF WriterAt, Holding, sidecars
  <2>4. CASE x = "uncertain"
    BY <1>2, <1>3, <1>5, <1>6, <2>4 DEF WriterAt, sidecars
  <2> QED BY <1>3, <2>1, <2>2, <2>3, <2>4
<1>8. AgentInv(a)'
  BY <1>1, <1>2, <1>3, <1>6, <1>7 DEF AgentInv
<1> QED BY <1>1, <1>3, <1>4, <1>5, <1>8, QuietOwn DEF Put, PutAt

\* arm creates its sidecars, or deletes them again.
LEMMA OwnArm ==
    ASSUME BoardInv, NEW a \in Agents,
           \/ ArmLock(a) \/ ArmBackup(a) \/ ArmJournal(a) \/ UndoBackup(a) \/ UndoLock(a)
    PROVE  Own(a)
<1> DEFINE o == agent[a].op
<1>1. Live(a) /\ agent[a].mode # "resolve"
  <2>1. Live(a)
    BY DEF ArmLock, ArmBackup, ArmJournal, UndoBackup, UndoLock, Live
  <2> QED BY <2>1, AtStep
          DEF ResolverAt, ArmLock, ArmBackup, ArmJournal, UndoBackup, UndoLock
<1>2. /\ o \in Ops /\ TypeOK /\ RowInv(o) /\ FileInv(o) /\ WriterAt(a)
      /\ agent[a].mode = "commit" /\ agent[a].i \in 0..2
      /\ row[o].status = "dispatched" /\ row[o].writer = a
      /\ row[o].outcome = None /\ row[o].resolution = None
      /\ row[o].base # o /\ row[o].base # None
      /\ left[o] = "untouched" /\ journal # o
  <2>1. WriterAt(a) /\ RowInv(o)
    BY <1>1, AtStep
  <2> QED BY <1>1, <2>1, AtStep, ByteFacts
          DEF WriterAt, RowInv, ArmLock, ArmBackup, ArmJournal, UndoBackup, UndoLock
<1>3. ASSUME NEW x \in {"refused", "copying", "unlocking", "journaling", "undoing",
                        "saving"}, Goto(a, x)
      PROVE  /\ agent' \in [Agents -> Process]
             /\ agent'[a].pc = x /\ agent'[a].op = o /\ agent'[a].mode = "commit"
             /\ \A b \in Agents \ {a} : agent'[b] = agent[b]
  BY <1>2, <1>3, Moves DEF PCs, Put, PutAt
<1>4. UNCHANGED <<board, archive, row, left>>
  BY DEF ArmLock, ArmBackup, ArmJournal, UndoBackup, UndoLock
<1>5. ASSUME NEW x \in {"refused", "unlocking", "undoing"}, Goto(a, x),
             UNCHANGED sidecars, AgentInv(a)'
      PROVE  Own(a)
  BY <1>1, <1>3, <1>4, <1>5, QuietOwn
<1>30. agent'[a].op = o
  BY <1>3 DEF ArmLock, ArmBackup, ArmJournal, UndoBackup, UndoLock
<1>6. CASE ArmLock(a)
  <2>1. CASE lock # None
    <3>1. Goto(a, "refused") /\ UNCHANGED sidecars
      BY <1>6, <2>1 DEF ArmLock, sidecars
    <3>2. AgentInv(a)'
      BY <1>2, <1>3, <1>4, <3>1 DEF AgentInv, WriterAt, sidecars
    <3> QED BY <1>5, <3>1, <3>2
  <2>2. CASE lock = None
    <3>1. Goto(a, "copying") /\ lock' = o /\ UNCHANGED <<backup, journal>>
      BY <1>6, <2>2 DEF ArmLock
    <3>2. agent[a].pc = "locking" /\ agent'[a].pc = "copying"
      BY <1>3, <1>6, <3>1 DEF ArmLock
    <3>3. TypeOK'
      BY <1>2, <1>3, <1>4, <3>1 DEF TypeOK
    <3>4. Frame(a)
      BY <1>1, <1>3, <1>4, <2>2, <3>1, <3>2 DEF Frame
    <3>5. AgentInv(a)'
      BY <1>2, <1>3, <1>4, <3>1 DEF AgentInv, WriterAt
    <3>6. RowInv(o)' /\ FileInv(o)'
      BY <1>30, <1>2, <1>4, <3>1 DEF RowInv, FileInv, Holding, Touched, Kept, BasePast
    <3> QED BY <3>3, <3>4, <3>5, <3>6 DEF Own
  <2> QED BY <2>1, <2>2
<1>7. CASE ArmBackup(a)
  <2>0. lock = o
    BY <1>2, <1>7 DEF ArmBackup, WriterAt
  <2>1. CASE board # row[o].base \/ backup # None
    <3>1. Goto(a, "unlocking") /\ UNCHANGED sidecars
      BY <1>7, <2>1 DEF ArmBackup, sidecars
    <3>2. AgentInv(a)'
      BY <1>2, <1>3, <1>4, <2>0, <3>1 DEF AgentInv, WriterAt, sidecars
    <3> QED BY <1>5, <3>1, <3>2
  <2>2. CASE board = row[o].base /\ backup = None
    <3>1. Goto(a, "journaling") /\ backup' = board /\ UNCHANGED <<lock, journal>>
      BY <1>7, <2>2 DEF ArmBackup
    <3>2. agent[a].pc = "copying" /\ agent'[a].pc = "journaling"
      BY <1>3, <1>7, <3>1 DEF ArmBackup
    <3>3. TypeOK'
      BY <1>2, <1>3, <1>4, <3>1 DEF TypeOK
    <3>4. Frame(a)
      BY <1>1, <1>3, <1>4, <2>0, <3>1 DEF Frame
    <3>5. BasePast(o)
      <4>1. \A p \in Ops : FileInv(p)
        BY DEF BoardInv
      <4> QED BY <2>2, <4>1 DEF BasePast, FileInv
    <3>6. BasePast(agent[a].op)'
      BY <1>3, <1>4, <3>1, <3>5 DEF BasePast
    <3>7. AgentInv(a)'
      BY <1>2, <1>3, <1>4, <2>0, <2>2, <3>1, <3>6 DEF AgentInv, WriterAt
    <3>8. RowInv(o)' /\ FileInv(o)'
      BY <1>30, <1>2, <1>4, <3>1 DEF RowInv, FileInv, Holding, Touched, Kept, BasePast
    <3> QED BY <3>3, <3>4, <3>7, <3>8 DEF Own
  <2> QED BY <2>1, <2>2
<1>8. CASE ArmJournal(a)
  <2>0. lock = o /\ backup = row[o].base /\ BasePast(o)
    BY <1>2, <1>8 DEF ArmJournal, WriterAt
  <2>1. CASE journal # None
    <3>1. Goto(a, "undoing") /\ UNCHANGED sidecars
      BY <1>8, <2>1 DEF ArmJournal, sidecars
    <3>2. AgentInv(a)'
      BY <1>2, <1>3, <1>4, <2>0, <3>1 DEF AgentInv, WriterAt, sidecars
    <3> QED BY <1>5, <3>1, <3>2
  <2>2. CASE journal = None
    <3>1. Goto(a, "saving") /\ journal' = o /\ UNCHANGED <<lock, backup>>
      BY <1>8, <2>2 DEF ArmJournal
    <3>2. agent[a].pc = "journaling" /\ agent'[a].pc = "saving"
      BY <1>3, <1>8, <3>1 DEF ArmJournal
    <3>3. TypeOK'
      BY <1>2, <1>3, <1>4, <3>1 DEF TypeOK
    <3>4. Frame(a)
      BY <1>1, <1>3, <1>4, <2>2, <3>1, <3>2 DEF Frame
    <3>5. Holding(o)' /\ BasePast(o)'
      BY <1>30, <1>4, <2>0, <3>1 DEF Holding, BasePast
    <3>6. Holding(agent[a].op)'
      BY <1>3, <3>1, <3>5
    <3>7. AgentInv(a)'
      BY <1>2, <1>3, <1>4, <3>1, <3>6 DEF AgentInv, WriterAt
    <3>8. RowInv(o)'
      BY <1>30, <1>2, <1>4, <2>0, <3>1 DEF RowInv
    <3>9. FileInv(o)'
      BY <1>30, <1>2, <1>4, <2>0, <3>1, <3>5 DEF FileInv, Touched, Kept
    <3> QED BY <3>3, <3>4, <3>7, <3>8, <3>9 DEF Own
  <2> QED BY <2>1, <2>2
<1>9. CASE UndoBackup(a)
  <2>1. /\ Goto(a, "unlocking") /\ backup' = None /\ UNCHANGED <<lock, journal>>
        /\ lock = o
    BY <1>2, <1>9 DEF UndoBackup, WriterAt
  <2>2. TypeOK'
    BY <1>2, <1>3, <1>4, <2>1 DEF TypeOK
  <2>3. Frame(a)
    BY <1>1, <1>3, <1>4, <2>1 DEF Frame
  <2>4. AgentInv(a)'
    BY <1>2, <1>3, <1>4, <2>1 DEF AgentInv, WriterAt
  <2>5. RowInv(o)' /\ FileInv(o)'
    BY <1>30, <1>2, <1>4, <2>1 DEF RowInv, FileInv, Holding, Touched, Kept, BasePast
  <2> QED BY <2>2, <2>3, <2>4, <2>5 DEF Own
<1>10. CASE UndoLock(a)
  <2>1. /\ Goto(a, "refused") /\ lock' = None /\ UNCHANGED <<backup, journal>>
        /\ lock = o /\ agent[a].pc = "unlocking" /\ o # None
    BY <1>2, <1>10, ByteFacts DEF UndoLock, WriterAt
  <2>2. TypeOK'
    BY <1>2, <1>3, <1>4, <2>1 DEF TypeOK
  <2>3. Frame(a)
    BY <1>1, <1>3, <1>4, <2>1 DEF Frame
  <2>4. AgentInv(a)'
    BY <1>2, <1>3, <1>4, <2>1 DEF AgentInv, WriterAt
  <2>5. RowInv(o)' /\ FileInv(o)'
    BY <1>30, <1>2, <1>4, <2>1 DEF RowInv, FileInv, Holding, Touched, Kept, BasePast
  <2> QED BY <2>2, <2>3, <2>4, <2>5 DEF Own
<1> QED BY <1>6, <1>7, <1>8, <1>9, <1>10


\* The file is written, filled, and read back.
LEMMA OwnWrite ==
    ASSUME BoardInv, NEW a \in Agents, Write(a) \/ Fill(a) \/ Verify(a)
    PROVE  Own(a)
<1> DEFINE o == agent[a].op
<1>1. Live(a) /\ agent[a].mode # "resolve"
  <2>1. Live(a)
    BY DEF Write, Fill, Verify, Live
  <2> QED BY <2>1, AtStep DEF ResolverAt, Write, Fill, Verify
<1>2. /\ o \in Ops /\ TypeOK /\ RowInv(o) /\ FileInv(o) /\ WriterAt(a)
      /\ agent[a].mode = "commit" /\ agent[a].i \in 0..2
      /\ row[o].status = "dispatched" /\ row[o].writer = a
      /\ row[o].outcome = None /\ row[o].resolution = None
      /\ row[o].base \in Ops \union Edits \union {Old} /\ row[o].base # o
      /\ Holding(o) /\ BasePast(o)
      /\ left \in [Ops -> {"untouched", "torn", "saved", "verified", "restored"}]
  <2>1. WriterAt(a) /\ RowInv(o) /\ FileInv(o)
    BY <1>1, AtStep
  <2>2. Holding(o)
    BY <2>1 DEF WriterAt, Write, Fill, Verify
  <2>3. /\ agent[a].mode = "commit" /\ row[o].status = "dispatched"
        /\ row[o].writer = a /\ row[o].outcome = None /\ row[o].resolution = None
    BY <2>1 DEF WriterAt, Write, Fill, Verify
  <2>4. BasePast(o)
    BY <2>1, <2>2 DEF FileInv
  <2>5. row[o].base \in Ops \union Edits \union {Old} /\ row[o].base # o
    BY <2>1, <2>3 DEF RowInv
  <2> QED BY <1>1, <2>1, <2>2, <2>3, <2>4, <2>5, AtStep
<1>3. UNCHANGED <<lock, backup, journal, archive, row>>
  BY DEF Write, Fill, Verify, sidecars
<1>4. PICK x \in {"filling", "verifying", "cleaning"} :
         /\ agent' \in [Agents -> Process]
         /\ agent'[a].pc = x /\ agent'[a].op = o /\ agent'[a].mode = "commit"
         /\ x = "cleaning" => agent'[a].i = 0
         /\ \A b \in Agents \ {a} : agent'[b] = agent[b]
         /\ \/ /\ x = "filling" /\ left[o] = "untouched"
               /\ board' = Torn(o) /\ left' = [left EXCEPT ![o] = "torn"]
            \/ /\ x = "verifying" /\ left[o] \in {"untouched", "torn"}
               /\ board' = o /\ left' = [left EXCEPT ![o] = "saved"]
            \/ /\ x = "cleaning" /\ board = o /\ left[o] = "saved"
               /\ board' = board /\ left' = [left EXCEPT ![o] = "verified"]
  <2>1. CASE Write(a)
    <3>1. left[o] = "untouched"
      BY <1>2, <2>1 DEF Write, WriterAt
    <3>2. CASE o \in AtomicOps
      <4>1. /\ Goto(a, "verifying") /\ board' = o
            /\ left' = [left EXCEPT ![o] = "saved"]
        BY <2>1, <3>2 DEF Write, Leave
      <4> QED BY <1>2, <3>1, <4>1, Moves DEF PCs, Put, PutAt
    <3>3. CASE o \notin AtomicOps
      <4>1. /\ Goto(a, "filling") /\ board' = Torn(o)
            /\ left' = [left EXCEPT ![o] = "torn"]
        BY <2>1, <3>3 DEF Write, Leave
      <4> QED BY <1>2, <3>1, <4>1, Moves DEF PCs, Put, PutAt
    <3> QED BY <3>2, <3>3
  <2>2. CASE Fill(a)
    <3>1. left[o] = "torn"
      BY <1>2, <2>2 DEF Fill, WriterAt
    <3>2. /\ Goto(a, "verifying") /\ board' = o
          /\ left' = [left EXCEPT ![o] = "saved"]
      BY <2>2 DEF Fill, Leave
    <3> QED BY <1>2, <3>1, <3>2, Moves DEF PCs, Put, PutAt
  <2>3. CASE Verify(a)
    <3>1. left[o] = "saved"
      BY <1>2, <2>3 DEF Verify, WriterAt
    <3>2. /\ GotoAt(a, "cleaning", 0) /\ board = o /\ board' = board
          /\ left' = [left EXCEPT ![o] = "verified"]
      BY <2>3 DEF Verify, Leave
    <3> QED BY <1>2, <3>1, <3>2, Moves DEF PCs, PutAt
  <2> QED BY <2>1, <2>2, <2>3
<1>5. /\ \A p \in Ops \ {o} : left'[p] = left[p]
      /\ left'[o] = CASE x = "filling" -> "torn" [] x = "verifying" -> "saved"
                      [] x = "cleaning" -> "verified"
      /\ left' \in [Ops -> {"untouched", "torn", "saved", "verified", "restored"}]
  BY <1>2, <1>4
<1>6. agent'[a].op = o
  BY <1>4
<1>7. TypeOK'
  BY <1>2, <1>3, <1>4, <1>5, ByteFacts DEF TypeOK
<1>8. Frame(a)
  BY <1>1, <1>2, <1>3, <1>4, <1>5 DEF Frame, Holding
<1>9. Holding(o)' /\ BasePast(o)'
  BY <1>2, <1>3, <1>5, <1>6 DEF Holding, BasePast
<1>10. Holding(agent[a].op)'
  BY <1>6, <1>9
<1>11. AgentInv(a)'
  BY <1>2, <1>3, <1>4, <1>5, <1>10, ByteFacts DEF AgentInv, WriterAt, Holding
<1>12. RowInv(o)'
  BY <1>6, <1>2, <1>3, <1>5, ByteFacts DEF RowInv, Outcomes
<1>13. FileInv(o)'
  <2>1. \A p \in Ops : row'[p].base = o => left'[o] \in {"saved", "verified", "restored"}
    BY <1>2, <1>3, <1>4, <1>5 DEF FileInv
  <2>2. /\ board' = o => left'[o] \in {"saved", "verified"}
        /\ board' = Torn(o) => left'[o] = "torn"
        /\ left'[o] \in Touched => board' # row'[o].base
    BY <1>2, <1>3, <1>4, <1>5, ByteFacts DEF FileInv, Touched
  <2> QED BY <1>6, <1>9, <1>3, <1>2, <2>1, <2>2 DEF FileInv, Holding, Kept
<1> QED BY <1>7, <1>8, <1>11, <1>12, <1>13 DEF Own

\* A rollback is decided.
LEMMA OwnRollback ==
    ASSUME BoardInv, NEW a \in Agents, Rollback(a)
    PROVE  Own(a)
<1> DEFINE o == agent[a].op
<1>1. Live(a) /\ agent[a].mode # "resolve"
  <2>1. Live(a)
    BY DEF Rollback, Live
  <2> QED BY <2>1, AtStep DEF ResolverAt, Rollback
<1>2. /\ o \in Ops /\ TypeOK /\ RowInv(o) /\ FileInv(o) /\ WriterAt(a)
      /\ agent[a].pc = "failing" /\ agent[a].mode = "commit"
  BY <1>1, AtStep DEF WriterAt, Rollback
<1>3. UNCHANGED <<board, lock, backup, journal, archive, row, left>>
  BY DEF Rollback, sidecars
<1>4. agent' \in [Agents -> Process] /\ agent'[a].op = o
      /\ agent'[a].pc \in {"uncertain", "restoring"}
      /\ \A b \in Agents \ {a} : agent'[b] = agent[b]
  BY <1>2, RollbackMoves DEF Put, PutAt
<1>5. AgentInv(a)'
  <2>1. CASE Put(a, "uncertain")
    BY <1>2, <1>3, <2>1 DEF AgentInv, WriterAt, Put, PutAt
  <2>2. CASE /\ board \in {row[o].base, o} /\ backup = row[o].base
             /\ agent'[a].pc = "restoring" /\ agent'[a].mode = "rollback"
             /\ agent'[a].op = o /\ agent'[a].seen = board
             /\ agent'[a].noChange = (board = row[o].base)
    <3>1. Holding(o) /\ left[o] # "restored" /\ row[o].status = "dispatched"
          /\ row[o].writer = a /\ row[o].outcome = None /\ row[o].resolution = None
      BY <1>2, <2>2 DEF WriterAt, Holding
    <3>2. board = row[o].base => left[o] = "untouched"
      BY <1>2, <3>1 DEF FileInv, Touched, TypeOK
    <3>3. Holding(agent[a].op)'
      BY <1>3, <2>2, <3>1 DEF Holding
    <3>4. /\ board = row[o].base => agent'[a].noChange
          /\ board # row[o].base => ~agent'[a].noChange
      BY <2>2
    <3> QED BY <1>2, <1>3, <2>2, <3>1, <3>2, <3>3, <3>4 DEF AgentInv, WriterAt
  <2> QED BY <1>2, <2>1, <2>2, RollbackMoves
<1> QED BY <1>1, <1>3, <1>4, <1>5, QuietOwn DEF sidecars

\* The baseline is put back and read.
LEMMA OwnRestore ==
    ASSUME BoardInv, NEW a \in Agents, Restore(a) \/ Restored(a)
    PROVE  Own(a)
<1> DEFINE o == agent[a].op
<1>1. Live(a) /\ agent[a].mode # "resolve"
  <2>1. Live(a)
    BY DEF Restore, Restored, Live
  <2> QED BY <2>1, AtStep DEF ResolverAt, Restore, Restored
<1>2. /\ o \in Ops /\ TypeOK /\ RowInv(o) /\ FileInv(o) /\ WriterAt(a)
      /\ agent[a].mode = "rollback" /\ agent[a].i \in 0..2
      /\ lock = o /\ journal = o
      /\ row[o].status = "dispatched" /\ row[o].writer = a
      /\ row[o].outcome = None /\ row[o].resolution = None
      /\ row[o].base \in Ops \union Edits \union {Old} /\ row[o].base # o
      /\ left \in [Ops -> {"untouched", "torn", "saved", "verified", "restored"}]
  <2>1. WriterAt(a) /\ RowInv(o)
    BY <1>1, AtStep
  <2>2. /\ agent[a].mode = "rollback" /\ lock = o /\ journal = o
        /\ row[o].status = "dispatched" /\ row[o].writer = a
        /\ row[o].outcome = None /\ row[o].resolution = None
    BY <2>1 DEF WriterAt, Restore, Restored, Holding
  <2>3. row[o].base \in Ops \union Edits \union {Old} /\ row[o].base # o
    BY <2>1, <2>2 DEF RowInv
  <2> QED BY <1>1, <2>1, <2>2, <2>3, AtStep
<1>3. ASSUME NEW x \in {"restored", "uncertain", "cleaning"},
             Goto(a, x) \/ (GotoAt(a, x, 0) /\ x = "cleaning")
      PROVE  /\ agent' \in [Agents -> Process]
             /\ agent'[a].pc = x /\ agent'[a].op = o /\ agent'[a].mode = "rollback"
             /\ agent'[a].noChange = agent[a].noChange
             /\ \A b \in Agents \ {a} : agent'[b] = agent[b]
             /\ GotoAt(a, x, 0) => agent'[a].i = 0
  BY <1>2, <1>3, Moves DEF PCs, Put, PutAt
<1>4. CASE Restored(a)
  <2>1. Undone(a)
    BY <1>2, <1>4 DEF WriterAt, Restored
  <2>2. UNCHANGED <<board, lock, backup, journal, archive, row, left>>
    BY <1>4 DEF Restored, sidecars
  <2>3. PICK x \in {"uncertain", "cleaning"} :
            IF x = "cleaning" THEN GotoAt(a, x, 0) ELSE Goto(a, x)
    BY <1>4 DEF Restored
  <2>4. /\ agent' \in [Agents -> Process]
        /\ agent'[a].pc = x /\ agent'[a].op = o /\ agent'[a].mode = "rollback"
        /\ agent'[a].noChange = agent[a].noChange
        /\ \A b \in Agents \ {a} : agent'[b] = agent[b]
        /\ x = "cleaning" => agent'[a].i = 0
    BY <1>3, <2>3
  <2>5. Undone(a)'
    BY <2>1, <2>2, <2>4 DEF Undone
  <2>6. AgentInv(a)'
    BY <1>2, <2>2, <2>4, <2>5 DEF AgentInv, WriterAt
  <2> QED BY <1>1, <2>2, <2>4, <2>6, QuietOwn DEF sidecars
<1>5. CASE Restore(a)
  <2>1. /\ Holding(o) /\ agent[a].seen \in {row[o].base, o}
        /\ agent[a].seen = row[o].base => agent[a].noChange /\ left[o] = "untouched"
        /\ agent[a].seen # row[o].base => ~agent[a].noChange
    BY <1>2, <1>5 DEF WriterAt, Restore
  <2>2. CASE agent[a].seen = row[o].base
    <3>1. Goto(a, "restored") /\ UNCHANGED <<board, lock, backup, journal, archive, row, left>>
      BY <1>5, <2>2 DEF Restore
    <3>2. /\ agent' \in [Agents -> Process]
          /\ agent'[a].pc = "restored" /\ agent'[a].op = o
          /\ agent'[a].mode = "rollback" /\ agent'[a].noChange = agent[a].noChange
          /\ \A b \in Agents \ {a} : agent'[b] = agent[b]
      BY <1>3, <3>1
    <3>3. Undone(a)'
      BY <2>1, <2>2, <3>1, <3>2 DEF Undone
    <3>4. AgentInv(a)'
      BY <1>2, <3>1, <3>2, <3>3 DEF AgentInv, WriterAt
    <3> QED BY <1>1, <3>1, <3>2, <3>4, QuietOwn DEF sidecars
  <2>3. CASE agent[a].seen # row[o].base
    <3>1. /\ Goto(a, "restored") /\ UNCHANGED <<lock, journal, archive, row>>
          /\ board' = row[o].base /\ backup' = None
          /\ left' = [left EXCEPT ![o] = "restored"]
      BY <1>5, <2>1, <2>3 DEF Restore, Leave, Holding
    <3>2. /\ agent' \in [Agents -> Process]
          /\ agent'[a].pc = "restored" /\ agent'[a].op = o
          /\ agent'[a].mode = "rollback" /\ agent'[a].noChange = agent[a].noChange
          /\ \A b \in Agents \ {a} : agent'[b] = agent[b]
      BY <1>3, <3>1
    <3>3. /\ \A p \in Ops \ {o} : left'[p] = left[p]
          /\ left'[o] = "restored"
          /\ left' \in [Ops -> {"untouched", "torn", "saved", "verified", "restored"}]
      BY <1>2, <3>1
    <3>4. TypeOK'
      BY <1>2, <3>1, <3>2, <3>3, ByteFacts DEF TypeOK
    <3>5. Frame(a)
      BY <1>1, <1>2, <2>1, <3>1, <3>2, <3>3 DEF Frame
    <3>6. Undone(a)'
      BY <2>1, <2>3, <3>2, <3>3 DEF Undone
    <3>7. AgentInv(a)'
      BY <1>2, <3>1, <3>2, <3>6 DEF AgentInv, WriterAt
    <3>8. agent'[a].op = o
      BY <3>2
    <3>9. RowInv(o)'
      BY <3>8, <1>2, <3>1, <3>3, ByteFacts DEF RowInv, Outcomes
    <3>10. FileInv(o)'
      BY <3>8, <1>2, <3>1, <3>3, ByteFacts DEF FileInv, Holding, Touched
    <3> QED BY <3>4, <3>5, <3>7, <3>9, <3>10 DEF Own
  <2> QED BY <2>2, <2>3
<1> QED BY <1>4, <1>5

\* One turn of the loop over the sidecars.
LEMMA UnlinkMoves ==
    ASSUME TypeOK, NEW a \in Agents, NEW done \in PCs, UnlinkNext(a, done)
    PROVE  /\ agent' \in [Agents -> Process]
           /\ agent'[a].op = agent[a].op /\ agent'[a].mode = agent[a].mode
           /\ agent'[a].seen = agent[a].seen /\ agent'[a].noChange = agent[a].noChange
           /\ \A b \in Agents \ {a} : agent'[b] = agent[b]
           /\ \/ /\ agent[a].i = 0 /\ agent'[a].pc = agent[a].pc /\ agent'[a].i = 1
                 /\ backup' = None /\ UNCHANGED <<lock, journal>>
              \/ /\ agent[a].i = 1 /\ agent'[a].pc = agent[a].pc /\ agent'[a].i = 2
                 /\ lock' = None /\ UNCHANGED <<backup, journal>>
              \/ /\ agent[a].i = 2 /\ agent'[a].pc = done /\ agent'[a].i = 0
                 /\ journal' = None /\ UNCHANGED <<backup, lock>>
<1>1. agent[a] \in Process /\ agent[a].pc \in PCs /\ agent[a].i \in {0, 1, 2}
  BY DEF TypeOK, Process
<1>2. CASE agent[a].i = 0
  <2>1. /\ GotoAt(a, agent[a].pc, 1) /\ backup' = None /\ UNCHANGED <<lock, journal>>
    BY <1>2 DEF UnlinkNext, UnlinkOrder
  <2> QED BY <1>1, <1>2, <2>1, Moves DEF PutAt
<1>3. CASE agent[a].i = 1
  <2>1. /\ GotoAt(a, agent[a].pc, 2) /\ lock' = None /\ UNCHANGED <<backup, journal>>
    BY <1>3 DEF UnlinkNext, UnlinkOrder
  <2> QED BY <1>1, <1>3, <2>1, Moves DEF PutAt
<1>4. CASE agent[a].i = 2
  <2>1. /\ GotoAt(a, done, 0) /\ journal' = None /\ UNCHANGED <<backup, lock>>
    BY <1>4 DEF UnlinkNext, UnlinkOrder
  <2> QED BY <1>1, <1>4, <2>1, Moves DEF PutAt
<1> QED BY <1>1, <1>2, <1>3, <1>4

\* The writer deletes its sidecars.
LEMMA OwnCleanup ==
    ASSUME BoardInv, NEW a \in Agents, Cleanup(a)
    PROVE  Own(a)
<1> DEFINE o == agent[a].op
<1>1. Live(a) /\ agent[a].mode # "resolve"
  <2>1. Live(a)
    BY DEF Cleanup, Live
  <2> QED BY <2>1, AtStep DEF ResolverAt, Cleanup
<1>2. /\ o \in Ops /\ TypeOK /\ RowInv(o) /\ FileInv(o) /\ WriterAt(a)
      /\ agent[a].mode \in {"commit", "rollback"} /\ journal = o
      /\ agent[a].mode = "commit" => left[o] = "verified"
      /\ agent[a].mode = "rollback" => Undone(a)
      /\ agent[a].i \in {0, 1} => lock = o
      /\ agent[a].i = 1 => backup = None
      /\ agent[a].i = 2 => lock # o /\ (agent[a].mode = "commit" => backup # row[o].base)
      /\ row[o].status = "dispatched" /\ row[o].writer = a
      /\ row[o].outcome = None /\ row[o].resolution = None
  BY <1>1, AtStep DEF WriterAt, Cleanup
<1>3. row[o].base # None /\ left[o] \notin {"torn", "saved"} /\ o # None
  BY <1>2, ByteFacts DEF RowInv, Undone
<1>4. UnlinkNext(a, "cleaned") /\ UNCHANGED <<board, archive, row, left>>
      /\ agent[a].pc = "cleaning"
  BY DEF Cleanup
<1>5. /\ agent' \in [Agents -> Process]
      /\ agent'[a].op = o /\ agent'[a].mode = agent[a].mode
      /\ agent'[a].noChange = agent[a].noChange
      /\ \A b \in Agents \ {a} : agent'[b] = agent[b]
      /\ \/ /\ agent[a].i = 0 /\ agent'[a].pc = "cleaning" /\ agent'[a].i = 1
            /\ backup' = None /\ UNCHANGED <<lock, journal>>
         \/ /\ agent[a].i = 1 /\ agent'[a].pc = "cleaning" /\ agent'[a].i = 2
            /\ lock' = None /\ UNCHANGED <<backup, journal>>
         \/ /\ agent[a].i = 2 /\ agent'[a].pc = "cleaned"
            /\ journal' = None /\ UNCHANGED <<backup, lock>>
  BY <1>2, <1>4, UnlinkMoves DEF PCs
<1>6. TypeOK'
  BY <1>2, <1>4, <1>5 DEF TypeOK
<1>7. Frame(a)
  BY <1>1, <1>2, <1>4, <1>5 DEF Frame
<1>8. Undone(a) => Undone(a)'
  BY <1>4, <1>5 DEF Undone
<1>9. AgentInv(a)'
  BY <1>2, <1>3, <1>4, <1>5, <1>8 DEF AgentInv, WriterAt
<1>10. agent'[a].op = o
  BY <1>5
<1>11. RowInv(o)'
  BY <1>10, <1>2, <1>3, <1>4, <1>5 DEF RowInv
<1>12. FileInv(o)'
  BY <1>10, <1>2, <1>3, <1>4, <1>5 DEF FileInv, Holding, BasePast, Kept
<1> QED BY <1>6, <1>7, <1>9, <1>11, <1>12 DEF Own

\* The writer records how it ended, or gives its plan back.
LEMMA OwnFinish ==
    ASSUME BoardInv, NEW a \in Agents, Finish(a) \/ Undispatch(a)
    PROVE  Own(a)
<1> DEFINE o == agent[a].op
<1>1. Live(a) /\ agent[a].mode # "resolve"
  <2>1. Live(a)
    BY DEF Finish, Undispatch, Live
  <2> QED BY <2>1, AtStep DEF ResolverAt, Finish, Undispatch
<1>2. /\ o \in Ops /\ TypeOK /\ RowInv(o) /\ FileInv(o) /\ WriterAt(a)
      /\ row[o].status = "dispatched" /\ row[o].writer = a /\ a \in Agents
      /\ row[o].outcome = None /\ row[o].resolution = None
      /\ agent[a].i \in 0..2
  BY <1>1, AtStep DEF WriterAt
<1>3. Goto(a, "exited") /\ UNCHANGED <<board, lock, backup, journal, archive, left>>
  BY DEF Finish, Undispatch, sidecars
<1>4. /\ agent' \in [Agents -> Process]
      /\ agent'[a].op = o /\ agent'[a].pc = "exited"
      /\ \A b \in Agents \ {a} : agent'[b] = agent[b]
  BY <1>2, <1>3, Moves DEF PCs, Put, PutAt
<1>5. /\ OthersRows(o) /\ row'[o].base = row[o].base /\ row' \in [Ops -> Row]
      /\ row'[o].resolution = None
      /\ \/ /\ Finish(a) /\ agent[a].pc = "cleaned" /\ row'[o].writer = a
            /\ row'[o].status = "finished" /\ row'[o].outcome = Receipt(a)
         \/ /\ Finish(a) /\ row'[o].writer = a
            /\ row'[o].status = "unknown" /\ row'[o].outcome = None
         \/ /\ Undispatch(a) /\ row'[o].status = "planned" /\ row'[o].outcome = None
  BY <1>2, StoreRows DEF Finish
<1>6. TypeOK'
  BY <1>2, <1>3, <1>4, <1>5 DEF TypeOK
<1>7. Frame(a)
  BY <1>1, <1>3, <1>4, <1>5 DEF Frame, OthersRows
<1>8. AgentInv(a)'
  BY <1>4, ExitedInv
<1>9. RowInv(o)'
  <2>1. CASE row'[o].status = "finished"
    <3>1. /\ agent[a].pc = "cleaned" /\ row'[o].outcome = Receipt(a)
          /\ row'[o].writer = a
      BY <1>5, <2>1
    <3>2. /\ agent[a].mode \in {"commit", "rollback"} /\ lock # o /\ journal # o
          /\ agent[a].mode = "commit" => left[o] = "verified"
          /\ agent[a].mode = "rollback" => Undone(a)
      BY <1>2, <3>1 DEF WriterAt
    <3>3. CASE agent[a].mode = "commit"
      <4>1. row'[o].outcome = "applied"
        BY <3>1, <3>3 DEF Receipt
      <4> QED BY <1>4, <1>2, <1>3, <1>5, <2>1, <3>2, <3>3, <4>1, ByteFacts
              DEF RowInv, Outcomes
    <3>4. CASE agent[a].mode # "commit" /\ agent[a].noChange
      <4>1. row'[o].outcome = "not_applied" /\ left[o] = "untouched"
        BY <3>1, <3>2, <3>4 DEF Receipt, Undone
      <4> QED BY <1>4, <1>2, <1>3, <1>5, <2>1, <3>2, <4>1, ByteFacts
              DEF RowInv, Outcomes
    <3>5. CASE agent[a].mode # "commit" /\ ~agent[a].noChange
      <4>1. row'[o].outcome = "rolled_back" /\ left[o] = "restored"
        BY <3>1, <3>2, <3>5 DEF Receipt, Undone
      <4> QED BY <1>4, <1>2, <1>3, <1>5, <2>1, <3>2, <4>1, ByteFacts
              DEF RowInv, Outcomes
    <3> QED BY <3>3, <3>4, <3>5
  <2>2. CASE row'[o].status = "unknown"
    BY <1>4, <1>2, <1>3, <1>5, <2>2, ByteFacts DEF RowInv, Outcomes
  <2>3. CASE row'[o].status = "planned"
    <3>1. left[o] = "untouched" /\ journal # o
      BY <1>2, <1>5, <2>3 DEF WriterAt, Undispatch
    <3> QED BY <1>4, <1>2, <1>3, <1>5, <2>3, <3>1, ByteFacts DEF RowInv, Outcomes
  <2> QED BY <1>5, <2>1, <2>2, <2>3
<1>10. \A p \in Ops : row'[p].base = row[p].base
  BY <1>5 DEF OthersRows
<1>11. FileInv(o)'
  BY <1>4, <1>2, <1>3, <1>10 DEF FileInv, Holding, BasePast, Kept
<1> QED BY <1>6, <1>7, <1>8, <1>9, <1>11 DEF Own

\* operation resolve archives, deletes and records.
LEMMA OwnResolve ==
    ASSUME BoardInv, NEW a \in Agents,
           Archive(a) \/ Drop(a) \/ DropFails(a) \/ Register(a)
    PROVE  Own(a)
<1> DEFINE o == agent[a].op
<1>1. Live(a) /\ agent[a].mode = "resolve"
  <2>1. Live(a) /\ agent[a].pc \in {"archiving", "dropping", "registering"}
    BY DEF Archive, Drop, DropFails, Register, Live
  <2>2. ~WriterAt(a)
    BY <2>1 DEF WriterAt
  <2> QED BY <2>1, <2>2, AtStep
<1>2. /\ o \in Ops /\ TypeOK /\ RowInv(o) /\ FileInv(o) /\ ResolverAt(a)
      /\ Unresolved(o) /\ row[o].writer \in Agents /\ ~Alive(row[o].writer)
      /\ agent[a].seen = row[o].base => left[o] \in {"untouched", "restored"}
      /\ agent[a].seen = o => left[o] \in {"saved", "verified"}
      /\ agent[a].i \in 0..2 /\ a # row[o].writer
      /\ row[o].base \in Ops \union Edits \union {Old} /\ row[o].base # o
      /\ row[o].outcome = None
  <2>1. ResolverAt(a) /\ RowInv(o)
    BY <1>1, AtStep
  <2>2. Unresolved(o) /\ ~Alive(row[o].writer)
    BY <2>1 DEF ResolverAt
  <2>3. a # row[o].writer
    BY <1>1, <2>2 DEF Alive, Live
  <2>4. /\ row[o].base \in Ops \union Edits \union {Old} /\ row[o].base # o
        /\ row[o].outcome = None
    BY <2>1, <2>2 DEF RowInv, Unresolved
  <2> QED BY <1>1, <2>1, <2>3, <2>4, AtStep DEF ResolverAt
<1>3. ASSUME NEW x \in {"dropping", "rejected", "exited"}, Goto(a, x)
      PROVE  /\ agent' \in [Agents -> Process]
             /\ agent'[a].pc = x /\ agent'[a].op = o /\ agent'[a].mode = "resolve"
             /\ agent'[a].i = agent[a].i /\ agent'[a].seen = agent[a].seen
             /\ \A b \in Agents \ {a} : agent'[b] = agent[b]
  BY <1>1, <1>2, <1>3, Moves DEF PCs, Put, PutAt
<1>4. ASSUME Goto(a, "rejected"), UNCHANGED <<board, sidecars, archive, row, left>>
      PROVE  Own(a)
  <2>1. Unresolved(agent[a].op)' /\ ~Alive(row[agent[a].op].writer)'
    BY <1>2, <1>3, <1>4 DEF Unresolved, Alive
  <2>2. AgentInv(a)'
    BY <1>2, <1>3, <1>4, <2>1 DEF AgentInv, ResolverAt
  <2> QED BY <1>1, <1>3, <1>4, <2>2, QuietOwn
<1>5. CASE Archive(a)
  <2>1. Holding(o) /\ agent[a].i = 0 /\ backup \in Bytes
    BY <1>2, <1>5, ByteFacts DEF Archive, ResolverAt, Holding
  <2>2. UNCHANGED <<board, lock, backup, journal, row, left>>
    BY <1>5 DEF Archive, sidecars
  <2>3. CASE /\ archive' = archive \union {<<o, backup>>}
             /\ Goto(a, "dropping")
    <3>1. Kept(o)' /\ Holding(o)'
      <4>1. agent'[a].op = o
        BY <1>3, <2>3
      <4> QED BY <2>1, <2>2, <2>3, <4>1 DEF Kept, Holding
    <3>2. Unresolved(agent[a].op)' /\ ~Alive(row[agent[a].op].writer)'
      BY <1>2, <1>3, <2>2, <2>3 DEF Unresolved, Alive
    <3>3. Kept(agent[a].op)' /\ Holding(agent[a].op)'
      BY <1>3, <2>3, <3>1
    <3>4. TypeOK'
      BY <1>2, <1>3, <2>1, <2>2, <2>3 DEF TypeOK
    <3>5. Frame(a)
      BY <1>1, <1>3, <2>2, <2>3 DEF Frame
    <3>6. AgentInv(a)'
      BY <1>2, <1>3, <2>1, <2>2, <2>3, <3>2, <3>3 DEF AgentInv, ResolverAt, Holding, Kept
    <3>7. agent'[a].op = o
      BY <1>3, <2>3
    <3>8. RowInv(o)' /\ FileInv(o)'
      BY <3>7, <1>2, <2>2, <2>3 DEF RowInv, FileInv, Holding, BasePast, Kept
    <3> QED BY <3>4, <3>5, <3>6, <3>8 DEF Own
  <2>4. CASE /\ archive' = archive \union {<<o, backup>>}
             /\ Goto(a, "rejected")
    <3>1. Unresolved(agent[a].op)' /\ ~Alive(row[agent[a].op].writer)'
      BY <1>2, <1>3, <2>2, <2>4 DEF Unresolved, Alive
    <3>2. TypeOK'
      BY <1>2, <1>3, <2>1, <2>2, <2>4 DEF TypeOK
    <3>3. Frame(a)
      BY <1>1, <1>3, <2>2, <2>4 DEF Frame
    <3>4. AgentInv(a)'
      BY <1>2, <1>3, <2>1, <2>2, <2>4, <3>1 DEF AgentInv, ResolverAt
    <3>5. agent'[a].op = o
      BY <1>3, <2>4
    <3>6. RowInv(o)' /\ FileInv(o)'
      BY <3>5, <1>2, <2>2, <2>4 DEF RowInv, FileInv, Holding, BasePast, Kept
    <3> QED BY <3>2, <3>3, <3>4, <3>6 DEF Own
  <2>5. CASE Goto(a, "rejected") /\ UNCHANGED archive
    BY <1>4, <2>2, <2>5 DEF sidecars
  <2> QED BY <1>5, <2>3, <2>4, <2>5 DEF Archive
<1>6. CASE Drop(a)
  <2>1. CASE Goto(a, "rejected") /\ UNCHANGED sidecars
    BY <1>4, <1>6, <2>1 DEF Drop
  <2>2. CASE UnlinkNext(a, "registering")
    <3>1. /\ Kept(o) /\ journal = o /\ o # None
          /\ agent[a].i \in {0, 1} => lock = o
          /\ agent[a].i = 2 => lock # o
      BY <1>2, <1>6, ByteFacts DEF Drop, ResolverAt, Holding
    <3>2. /\ UNCHANGED <<board, archive, row, left>> /\ agent[a].pc = "dropping"
      BY <1>6 DEF Drop
    <3>3. /\ agent' \in [Agents -> Process]
          /\ agent'[a].op = o /\ agent'[a].mode = "resolve"
          /\ agent'[a].seen = agent[a].seen
          /\ \A b \in Agents \ {a} : agent'[b] = agent[b]
          /\ \/ /\ agent[a].i = 0 /\ agent'[a].pc = "dropping" /\ agent'[a].i = 1
                /\ backup' = None /\ UNCHANGED <<lock, journal>>
             \/ /\ agent[a].i = 1 /\ agent'[a].pc = "dropping" /\ agent'[a].i = 2
                /\ lock' = None /\ UNCHANGED <<backup, journal>>
             \/ /\ agent[a].i = 2 /\ agent'[a].pc = "registering"
                /\ journal' = None /\ UNCHANGED <<backup, lock>>
      BY <1>1, <1>2, <2>2, <3>2, UnlinkMoves DEF PCs
    <3>4. TypeOK'
      BY <1>2, <3>2, <3>3 DEF TypeOK
    <3>5. Frame(a)
      BY <1>1, <3>1, <3>2, <3>3 DEF Frame
    <3>6. /\ Unresolved(agent[a].op)' /\ ~Alive(row[agent[a].op].writer)'
          /\ Kept(agent[a].op)'
      BY <1>2, <3>1, <3>2, <3>3 DEF Unresolved, Alive, Kept
    <3>7. AgentInv(a)'
      BY <1>2, <3>1, <3>2, <3>3, <3>6 DEF AgentInv, ResolverAt
    <3>8. agent'[a].op = o
      BY <3>3
    <3>9. RowInv(o)'
      BY <3>8, <1>2, <3>1, <3>2, <3>3 DEF RowInv
    <3>10. FileInv(o)'
      BY <3>8, <1>2, <3>1, <3>2, <3>3, ByteFacts
         DEF FileInv, Holding, BasePast, Kept
    <3> QED BY <3>4, <3>5, <3>7, <3>9, <3>10 DEF Own
  <2> QED BY <1>6, <2>1, <2>2 DEF Drop
<1>7. CASE DropFails(a)
  BY <1>4, <1>7 DEF DropFails
<1>8. CASE Register(a)
  <2>1. Goto(a, "exited") /\ UNCHANGED <<board, lock, backup, journal, archive, left>>
        /\ lock # o /\ journal # o
    BY <1>2, <1>8 DEF Register, sidecars, ResolverAt
  <2>2. /\ OthersRows(o) /\ row'[o].base = row[o].base /\ row' \in [Ops -> Row]
        /\ row'[o].resolution = Observed(o, agent[a].seen)
        /\ row'[o].status = row[o].status /\ row'[o].writer = row[o].writer
        /\ row'[o].outcome = row[o].outcome
    BY <1>2, <1>8, StoreRows
  <2>3. /\ agent' \in [Agents -> Process]
        /\ agent'[a].pc = "exited" /\ agent'[a].op = o
        /\ \A b \in Agents \ {a} : agent'[b] = agent[b]
    BY <1>3, <2>1
  <2>4. /\ Observed(o, agent[a].seen) \in {"not_applied", "applied", "partial"}
        /\ Observed(o, agent[a].seen) = "applied" => agent[a].seen = o
        /\ Observed(o, agent[a].seen) = "not_applied" => agent[a].seen = row[o].base
    BY <1>2 DEF Observed
  <2>5. TypeOK'
    BY <1>2, <2>1, <2>2, <2>3 DEF TypeOK
  <2>6. Frame(a)
    BY <1>1, <2>1, <2>2, <2>3 DEF Frame, OthersRows
  <2>7. AgentInv(a)'
    BY <2>3, ExitedInv
  <2>8. RowInv(o)'
    BY <2>3, <1>2, <2>1, <2>2, <2>4, ByteFacts DEF RowInv, Outcomes, Unresolved
  <2>9. \A p \in Ops : row'[p].base = row[p].base
    BY <2>2 DEF OthersRows
  <2>10. FileInv(o)'
    BY <2>3, <1>2, <2>1, <2>9 DEF FileInv, Holding, BasePast, Kept
  <2> QED BY <2>5, <2>6, <2>7, <2>8, <2>10 DEF Own
<1> QED BY <1>5, <1>6, <1>7, <1>8

\* Every step of a process keeps what is said of it and of its operation.
LEMMA OwnStep ==
    ASSUME BoardInv, NEW a \in Agents, Step(a) \/ Crash(a)
    PROVE  Own(a)
  BY OwnExit, OwnChecks, OwnArm, OwnWrite, OwnRollback, OwnRestore, OwnCleanup,
     OwnFinish, OwnResolve DEF Step

\* ... and what is said of the others.
LEMMA Others ==
    ASSUME BoardInv, NEW a \in Agents, Own(a)
    PROVE  BoardInv'
<1> DEFINE o == agent[a].op
<1>1. /\ o \in Ops /\ RowInv(o) /\ FileInv(o) /\ Live(a) /\ agent'[a].op = o
      /\ \A b \in Agents \ {a} : agent'[b] = agent[b]
      /\ Frame(a) /\ TypeOK /\ Alone
  BY AtStep DEF Own, Frame, BoardInv
<1>2. \A p \in Ops : row'[p].base = row[p].base
  BY <1>1 DEF Frame
<1>3. Alone'
  <2>1. \A b \in Agents : Live(b)' => Live(b) /\ agent'[b].op = agent[b].op
    BY <1>1 DEF Live
  <2> QED BY <1>1, <2>1 DEF Alone
<1>4. \A p \in Ops \ {o} : /\ lock' = p <=> lock = p
                           /\ journal' = p <=> journal = p
                           /\ lock = p => UNCHANGED <<board, backup, left>>
                           /\ row'[p] = row[p] /\ left'[p] = left[p]
                           /\ Kept(p) => Kept(p)'
  <2>1. TAKE p \in Ops \ {o}
  <2>2. p # None
    BY ByteFacts
  <2>3. lock' = p <=> lock = p
    BY <1>1, <2>2 DEF Frame
  <2>4. journal' = p <=> journal = p
    BY <1>1, <2>2 DEF Frame
  <2>5. row'[p] = row[p] /\ left'[p] = left[p] /\ (Kept(p) => Kept(p)')
    BY <1>1 DEF Frame, Kept
  <2>6. lock = p => board' = board /\ backup' = backup /\ left' = left
    <3>1. ASSUME lock = p
          PROVE  board' = board /\ backup' = backup /\ left'[o] = left[o]
      BY <1>1, <3>1 DEF Frame
    <3>2. left' \in [Ops -> {"untouched", "torn", "saved", "verified", "restored"}]
          /\ left \in [Ops -> {"untouched", "torn", "saved", "verified", "restored"}]
      BY DEF Own, BoardInv, TypeOK
    <3>3. ASSUME lock = p PROVE left' = left
      <4>1. \A q \in Ops : left'[q] = left[q]
        BY <1>1, <3>1, <3>3 DEF Frame
      <4> QED BY <3>2, <4>1
    <3> QED BY <3>1, <3>3
  <2> QED BY <2>3, <2>4, <2>5, <2>6
<1>5. \A p \in Ops \ {o} : Holding(p)' => Holding(p)
  BY <1>2, <1>4 DEF Holding
<1>6. \A p \in Ops \ {o} : lock = p /\ BasePast(p) => BasePast(p)'
  BY <1>2, <1>4 DEF BasePast
<1>7. ASSUME NEW b \in Agents \ {a}
      PROVE  AgentInv(b)'
  <2>1. agent'[b] = agent[b] /\ AgentInv(b) /\ b \in Agents
    BY <1>1 DEF BoardInv
  <2>2. CASE ~Live(b)
    BY <2>1, <2>2 DEF AgentInv, Live
  <2>3. CASE Live(b)
    <3>0. PICK p \in Ops \ {o} : p = agent[b].op
      BY <1>1, <2>1, <2>3 DEF AgentInv, Alone
    <3>1. RowInv(p) /\ FileInv(p)
      BY DEF BoardInv
    <3>2. agent'[b].op = p
      BY <2>1, <3>0
    <3>3. /\ lock' = p <=> lock = p
          /\ journal' = p <=> journal = p
          /\ lock = p => board' = board /\ backup' = backup
          /\ row'[p] = row[p] /\ left'[p] = left[p]
          /\ Kept(p) => Kept(p)'
      BY <1>4
    <3>4. Holding(p) => Holding(p)'
      BY <3>3 DEF Holding
    <3>5. CASE agent[b].mode # "resolve"
      <4>1. WriterAt(b)
        BY <2>1, <2>3, <3>5 DEF AgentInv
      <4>2. row[p].base \in Ops \union Edits \union {Old} /\ row[p].base # None
        BY <3>0, <3>1, <4>1, ByteFacts DEF WriterAt, RowInv
      <4>3. left[p] = "verified" /\ backup # row[p].base => backup' # row[p].base
        BY <1>1, <3>1, <4>2 DEF Frame, FileInv, Touched
      <4>4. Undone(b) => Undone(b)'
        BY <2>1, <3>0, <3>3 DEF Undone
      <4>5. Holding(agent[b].op) => Holding(agent[b].op)'
        BY <3>0, <3>2, <3>4 DEF Holding
      <4>6. lock = p /\ BasePast(agent[b].op) => BasePast(agent[b].op)'
        BY <1>6, <3>0, <3>2 DEF BasePast
      <4>7. Holding(p) => lock = p /\ backup = row[p].base /\ journal = p
        BY DEF Holding
      <4>8. WriterAt(b)'
        BY <2>1, <3>0, <3>2, <3>3, <4>1, <4>3, <4>4, <4>5, <4>6, <4>7 DEF WriterAt
      <4> QED BY <2>1, <3>0, <3>5, <4>8 DEF AgentInv, Live
    <3>6. CASE agent[b].mode = "resolve"
      <4>1. ResolverAt(b)
        BY <2>1, <2>3, <3>6 DEF AgentInv
      <4>2. row[p].writer # a
        BY <1>1, <3>0, <4>1 DEF ResolverAt, Alive, Live
      <4>3. ~Alive(row[agent[b].op].writer)'
        BY <1>1, <2>1, <3>0, <3>2, <3>3, <4>1, <4>2 DEF ResolverAt, Alive
      <4>4. Unresolved(agent[b].op)'
        BY <2>1, <3>0, <3>2, <3>3, <4>1 DEF ResolverAt, Unresolved
      <4>5. /\ Holding(agent[b].op) => Holding(agent[b].op)'
            /\ Kept(agent[b].op) => Kept(agent[b].op)'
        BY <3>0, <3>2, <3>3, <3>4 DEF Holding, Kept
      <4>6. ResolverAt(b)'
        BY <2>1, <3>0, <3>2, <3>3, <4>1, <4>3, <4>4, <4>5 DEF ResolverAt
      <4> QED BY <2>1, <3>0, <3>6, <4>6 DEF AgentInv, Live
    <3> QED BY <3>5, <3>6
  <2> QED BY <2>2, <2>3
<1>8. ASSUME NEW p \in Ops \ {o}
      PROVE  RowInv(p)' /\ FileInv(p)'
  <2>1. RowInv(p) /\ FileInv(p) /\ p # o /\ p \in Ops
    BY DEF BoardInv
  <2>2. RowInv(p)'
    BY <1>4, <2>1 DEF RowInv
  <2>3. row[p].base \in Ops \union Edits \union {Old, None}
    BY <1>1, <2>1 DEF RowInv, TypeOK, Row
  <2>4. \/ board' = board \/ board' = Torn(o)
        \/ board' = o /\ left[o] \in {"untouched", "torn"}
        \/ board' = row[o].base /\ row[o].base \in Ops \union Edits \union {Old}
           /\ BasePast(o)
    <3>1. Holding(o) => row[o].base \in Ops \union Edits \union {Old} /\ BasePast(o)
      BY <1>1 DEF Holding, RowInv, FileInv
    <3> QED BY <1>1, <3>1 DEF Frame
  <2>5. board' = p => left'[p] \in {"saved", "verified"}
    BY <1>4, <2>1, <2>4, <1>1, ByteFacts DEF FileInv, BasePast
  <2>6. board' = Torn(p) => left'[p] = "torn"
    BY <1>4, <2>1, <2>4, <1>1, ByteFacts DEF FileInv
  <2>7. left'[p] \in Touched => board' # row'[p].base
    <3>1. CASE board' = board
      BY <1>4, <2>1, <3>1 DEF FileInv
    <3>2. CASE board' = Torn(o)
      BY <1>4, <1>1, <2>3, <3>2, ByteFacts
    <3>3. CASE board' = o /\ left[o] \in {"untouched", "torn"}
      <4>1. row[p].base # o
        BY <1>1, <2>1, <3>3 DEF FileInv
      <4> QED BY <1>2, <3>3, <4>1
    <3>4. CASE board' = row[o].base /\ BasePast(o)
      BY <1>2, <1>4, <2>1, <3>4 DEF BasePast
    <3> QED BY <2>4, <3>1, <3>2, <3>3, <3>4
  <2>8. left'[p] \in {"torn", "saved"} => (Holding(p) \/ Kept(p))'
    BY <1>4, <2>1 DEF FileInv, Holding, Kept
  <2>9. (lock = p /\ left[p] # "untouched" => journal = p)'
    BY <1>4, <2>1 DEF FileInv
  <2>10. (\A q \in Ops : row[q].base = p => left[p] \in {"saved", "verified", "restored"})'
    BY <1>2, <1>4, <2>1 DEF FileInv
  <2>11. (Holding(p) => BasePast(p))'
    BY <1>4, <1>5, <1>6, <2>1 DEF FileInv, Holding
  <2>12. FileInv(p)'
    BY <2>5, <2>6, <2>7, <2>8, <2>9, <2>10, <2>11 DEF FileInv
  <2> QED BY <2>2, <2>12
<1>9. RowInv(o)' /\ FileInv(o)' /\ AgentInv(a)' /\ TypeOK'
  BY <1>1 DEF Own
<1>10. \A b \in Agents : AgentInv(b)'
  BY <1>7, <1>9
<1>11. \A p \in Ops : RowInv(p)' /\ FileInv(p)'
  <2>1. \A p \in Ops \ {o} : RowInv(p)' /\ FileInv(p)'
    BY <1>8
  <2>2. RowInv(agent[a].op)' /\ FileInv(agent[a].op)'
    BY <1>9
  <2> QED BY <1>1, <1>9, <2>1
<1> QED BY <1>3, <1>9, <1>10, <1>11 DEF BoardInv

-----------------------------------------------------------------------------
(* Steps that begin something, and steps outside the tool.                  *)

\* A process that the step leaves alone stays as it was when its row, the
\* sidecars and the file do.
LEMMA Untouched ==
    ASSUME BoardInv, NEW b \in Agents, Live(b),
           agent'[b] = agent[b], row'[agent[b].op] = row[agent[b].op],
           UNCHANGED <<sidecars, archive, left>>,
           WriterAt(b) /\ ~EditorRaces /\ agent[b].pc \in {"writing", "filling", "restoring"}
               => board' = board,
           agent[b].pc = "journaling" => BasePast(agent[b].op)',
           agent[b].mode = "resolve" =>
               ~Alive(row[agent[b].op].writer)'
    PROVE  AgentInv(b)'
<1> DEFINE o == agent[b].op
<1>1. AgentInv(b)
  BY DEF BoardInv
<1>2. CASE agent[b].mode # "resolve"
  <2>1. WriterAt(b)
    BY <1>1, <1>2 DEF AgentInv
  <2>2. Undone(b) => Undone(b)'
    BY DEF Undone
  <2>3. Holding(agent[b].op) => Holding(agent[b].op)'
    BY DEF Holding, sidecars
  <2>4. WriterAt(b)'
    BY <2>1, <2>2, <2>3 DEF WriterAt, sidecars
  <2> QED BY <1>1, <1>2, <2>4 DEF AgentInv
<1>3. CASE agent[b].mode = "resolve"
  <2>1. ResolverAt(b)
    BY <1>1, <1>3 DEF AgentInv
  <2>2. /\ Holding(agent[b].op) => Holding(agent[b].op)'
        /\ Kept(agent[b].op) => Kept(agent[b].op)'
    BY DEF Holding, Kept, sidecars
  <2>3. Unresolved(agent[b].op) => Unresolved(agent[b].op)'
    BY DEF Unresolved
  <2>4. ResolverAt(b)'
    BY <1>3, <2>1, <2>2, <2>3 DEF ResolverAt, sidecars
  <2> QED BY <1>1, <1>3, <2>4 DEF AgentInv
<1> QED BY <1>2, <1>3

\* A live process works on an operation that is dispatched or unknown.
LEMMA LiveRow ==
    ASSUME BoardInv, NEW b \in Agents, Live(b)
    PROVE  /\ agent[b].op \in Ops
           /\ row[agent[b].op].status \in {"dispatched", "unknown"}
           /\ agent[b].mode # "resolve" => row[agent[b].op].writer = b
           /\ agent[b].mode = "resolve" => ~Alive(row[agent[b].op].writer)
  BY AtStep DEF WriterAt, ResolverAt, Unresolved

\* A dry run binds the bytes of the file to its plan.
LEMMA PlanStep ==
    ASSUME BoardInv, NEW o \in Ops, Plan(o)
    PROVE  BoardInv'
<1> DEFINE r == [row[o] EXCEPT !.status = "planned", !.base = board]
<1>1. /\ TypeOK /\ RowInv(o) /\ FileInv(o) /\ row[o].status = "new" /\ board \in Bytes
      /\ \A p \in Ops : board # Torn(p)
  BY DEF BoardInv, TypeOK, Plan, Readable
<1>2. row \in [Ops -> Row] /\ row[o] \in Row
  BY <1>1 DEF TypeOK
<1>3. UNCHANGED <<board, sidecars, archive, agent, left>>
  BY DEF Plan
<1>4. row' = [row EXCEPT ![o] = r]
  BY Zenon DEF Plan
<1>5. r \in Row
  BY <1>1, <1>2, Zenon DEF Row
<1>6. /\ r.status = "planned" /\ r.base = board /\ r.writer = row[o].writer
      /\ r.outcome = row[o].outcome /\ r.resolution = row[o].resolution
  BY <1>2, SMT DEF Row
<1> HIDE DEF r
<1>7. /\ row' \in [Ops -> Row] /\ \A p \in Ops \ {o} : row'[p] = row[p]
      /\ row'[o].status = "planned" /\ row'[o].base = board
      /\ row'[o].outcome = row[o].outcome /\ row'[o].resolution = row[o].resolution
  BY <1>2, <1>4, <1>5, <1>6
<1>8. TypeOK'
  BY <1>1, <1>3, <1>7 DEF TypeOK, sidecars
<1>9. Alone'
  BY <1>3 DEF BoardInv, Alone, Live
<1>10. /\ left[o] = "untouched" /\ journal # o
       /\ row[o].resolution = None
  BY <1>1 DEF RowInv
<1>11. /\ board \in Ops \union Edits \union {Old} /\ board # o
       /\ \A p \in Ops : board = p => left[p] \in {"saved", "verified"}
  <2>1. \A p \in Ops : FileInv(p)
    BY DEF BoardInv
  <2> QED BY <1>1, <1>10, <2>1 DEF FileInv, Bytes
<1>12. \A p \in Ops \ {o} : BasePast(p) => BasePast(p)'
  BY <1>3, <1>7, <1>10 DEF BasePast, Touched
<1>13. ASSUME NEW b \in Agents PROVE AgentInv(b)'
  <2>1. CASE ~Live(b)
    BY <1>3, <2>1 DEF AgentInv, Live, BoardInv
  <2>2. CASE Live(b)
    <3>0. PICK p \in Ops : p = agent[b].op
      BY <2>2, LiveRow
    <3>1. p # o /\ row'[p] = row[p]
      BY <1>1, <1>7, <2>2, <3>0, LiveRow
    <3>2. agent[b].mode = "resolve" => ~Alive(row[agent[b].op].writer)'
      BY <1>3, <2>2, <3>0, <3>1, LiveRow DEF Alive
    <3>3. agent[b].pc = "journaling" => BasePast(agent[b].op)'
      <4>1. agent[b].pc = "journaling" => BasePast(p)
        BY <2>2, <3>0, AtStep DEF WriterAt, ResolverAt
      <4>2. agent'[b].op = p
        BY <1>3, <3>0
      <4>3. BasePast(p)' => BasePast(agent[b].op)'
        BY <4>2
      <4> QED BY <1>12, <3>1, <4>1, <4>3
    <3> QED BY <1>3, <2>2, <3>0, <3>1, <3>2, <3>3, Untouched
  <2> QED BY <2>1, <2>2
<1>14. RowInv(o)'
  BY <1>3, <1>1, <1>7, <1>10, <1>11, ByteFacts DEF RowInv, Outcomes, sidecars
<1>15. ASSUME NEW p \in Ops \ {o} PROVE RowInv(p)'
  BY <1>3, <1>7 DEF BoardInv, RowInv, sidecars
<1>16. FileInv(o)'
  <2>1. \A q \in Ops : row'[q].base # o
    BY <1>1, <1>7, <1>10, <1>11 DEF FileInv
  <2> QED BY <1>1, <1>3, <1>10, <2>1 DEF FileInv, Holding, Touched, sidecars
<1>17. ASSUME NEW p \in Ops \ {o} PROVE FileInv(p)'
  <2>1. FileInv(p)
    BY DEF BoardInv
  <2>2. \A q \in Ops : row'[q].base = p => left'[p] \in {"saved", "verified", "restored"}
    BY <1>3, <1>7, <1>11, <2>1 DEF FileInv
  <2>3. (Holding(p) => BasePast(p))'
    BY <1>3, <1>7, <1>12, <2>1 DEF FileInv, Holding, sidecars
  <2> QED BY <1>3, <1>7, <2>1, <2>2, <2>3 DEF FileInv, Holding, Kept, sidecars
<1> QED BY <1>8, <1>9, <1>13, <1>14, <1>15, <1>16, <1>17 DEF BoardInv

\* A waiting plan gets its writer.
LEMMA ConfirmStep ==
    ASSUME BoardInv, NEW a \in Agents, NEW o \in Ops, Confirm(a, o)
    PROVE  BoardInv'
<1> DEFINE r == [row[o] EXCEPT !.status = "dispatched", !.writer = a]
           m == [agent[a] EXCEPT !.pc = "confirmed", !.op = o]
<1>1. /\ TypeOK /\ RowInv(o) /\ FileInv(o) /\ row[o].status = "planned"
      /\ agent[a].pc = "idle" /\ AgentInv(a)
  BY DEF BoardInv, Confirm
<1>2. /\ row \in [Ops -> Row] /\ row[o] \in Row
      /\ agent \in [Agents -> Process] /\ agent[a] \in Process
  BY <1>1 DEF TypeOK
<1>3. UNCHANGED <<board, sidecars, archive, left>>
  BY DEF Confirm
<1>4. row' = [row EXCEPT ![o] = r] /\ agent' = [agent EXCEPT ![a] = m]
  BY Zenon DEF Confirm
<1>5. r \in Row
  BY <1>2, Zenon DEF Row
<1>6. m \in Process
  BY <1>2, Zenon DEF Process, PCs
<1>7. /\ r.status = "dispatched" /\ r.base = row[o].base /\ r.writer = a
      /\ r.outcome = row[o].outcome /\ r.resolution = row[o].resolution
  BY <1>2, SMT DEF Row
<1>8. m.pc = "confirmed" /\ m.op = o /\ m.mode = agent[a].mode
  BY <1>2, SMT DEF Process
<1> HIDE DEF r, m
<1>9. /\ row' \in [Ops -> Row] /\ \A p \in Ops \ {o} : row'[p] = row[p]
      /\ row'[o].status = "dispatched" /\ row'[o].writer = a
      /\ \A p \in Ops : row'[p].base = row[p].base
      /\ row'[o].outcome = row[o].outcome /\ row'[o].resolution = row[o].resolution
  BY <1>2, <1>4, <1>5, <1>7
<1>10. /\ agent' \in [Agents -> Process] /\ \A b \in Agents \ {a} : agent'[b] = agent[b]
       /\ agent'[a].pc = "confirmed" /\ agent'[a].op = o /\ agent'[a].mode = "commit"
  BY <1>1, <1>2, <1>4, <1>6, <1>8 DEF AgentInv
<1>11. TypeOK'
  BY <1>1, <1>3, <1>9, <1>10 DEF TypeOK, sidecars
<1>12. \A b \in Agents : Live(b) => agent[b].op # o
  BY <1>1, LiveRow
<1>13. Alone'
  BY <1>10, <1>12 DEF BoardInv, Alone, Live
<1>14. /\ left[o] = "untouched" /\ journal # o
       /\ row[o].resolution = None /\ row[o].outcome = None
  BY <1>1 DEF RowInv
<1>15. AgentInv(a)'
  BY <1>3, <1>9, <1>10, <1>14 DEF AgentInv, WriterAt, sidecars
<1>16. ASSUME NEW b \in Agents \ {a} PROVE AgentInv(b)'
  <2>1. CASE ~Live(b)
    BY <1>10, <2>1 DEF AgentInv, Live, BoardInv
  <2>2. CASE Live(b)
    <3>0. PICK p \in Ops : p = agent[b].op
      BY <2>2, LiveRow
    <3>1. p # o /\ row'[p] = row[p] /\ agent'[b] = agent[b]
      BY <1>9, <1>10, <1>12, <2>2, <3>0
    <3>2. agent[b].mode = "resolve" => ~Alive(row[agent[b].op].writer)'
      <4>1. agent[b].mode = "resolve" => ~Alive(row[p].writer)
        BY <2>2, <3>0, LiveRow
      <4>2. agent[b].mode = "resolve" => row[p].writer \in Agents
        BY <2>2, <3>0, AtStep DEF ResolverAt
      <4>3. agent[b].mode = "resolve" => row[p].writer # a
        BY <1>1, <4>1 DEF Alive
      <4> QED BY <1>10, <3>0, <3>1, <4>1, <4>2, <4>3 DEF Alive
    <3>3. agent[b].pc = "journaling" => BasePast(agent[b].op)'
      <4>1. agent[b].pc = "journaling" => BasePast(p)
        BY <2>2, <3>0, AtStep DEF WriterAt, ResolverAt
      <4>2. BasePast(p) => BasePast(p)'
        BY <1>3, <1>9 DEF BasePast
      <4>3. BasePast(p)' => BasePast(agent[b].op)'
        BY <3>0, <3>1
      <4> QED BY <4>1, <4>2, <4>3
    <3> QED BY <1>3, <2>2, <3>0, <3>1, <3>2, <3>3, Untouched
  <2> QED BY <2>1, <2>2
<1>17. RowInv(o)'
  BY <1>3, <1>1, <1>9, <1>14, ByteFacts DEF RowInv, Outcomes, sidecars
<1>18. ASSUME NEW p \in Ops \ {o} PROVE RowInv(p)'
  BY <1>3, <1>9 DEF BoardInv, RowInv, sidecars
<1>19. ASSUME NEW p \in Ops PROVE FileInv(p)'
  <2>1. FileInv(p)
    BY DEF BoardInv
  <2>2. BasePast(p) => BasePast(p)'
    BY <1>3, <1>9 DEF BasePast
  <2> QED BY <1>3, <1>9, <2>1, <2>2 DEF FileInv, Holding, Kept, sidecars
<1> QED BY <1>11, <1>13, <1>15, <1>16, <1>17, <1>18, <1>19 DEF BoardInv

\* The only operation resolve takes up an operation of a dead writer.
LEMMA ResolveBeginStep ==
    ASSUME OneResolver, BoardInv, NEW a \in Agents, NEW o \in Ops, ResolveBegin(a, o)
    PROVE  BoardInv'
<1> DEFINE x == IF journal = o THEN "archiving" ELSE "registering"
           m == [agent[a] EXCEPT !.pc = x, !.op = o, !.mode = "resolve", !.i = 0,
                                 !.seen = board]
<1>1. /\ TypeOK /\ RowInv(o) /\ FileInv(o) /\ Unresolved(o) /\ ~Alive(row[o].writer)
      /\ agent[a].pc = "idle" /\ OwnedJournal(o)
  BY DEF BoardInv, ResolveBegin
<1>2. agent \in [Agents -> Process] /\ agent[a] \in Process /\ board \in Bytes
      /\ x \in PCs /\ 0 \in 0..2
  BY <1>1 DEF TypeOK, PCs
<1>3. UNCHANGED <<board, sidecars, archive, row, left>>
  BY DEF ResolveBegin
<1>4. agent' = [agent EXCEPT ![a] = m]
  BY Zenon DEF ResolveBegin
<1>20. x = IF journal = o THEN "archiving" ELSE "registering"
  OBVIOUS
<1> HIDE DEF x
<1>5. m \in Process
  BY <1>2, Zenon DEF Process
<1>6. m.pc = x /\ m.op = o /\ m.mode = "resolve" /\ m.i = 0 /\ m.seen = board
  BY <1>2, SMT DEF Process
<1> HIDE DEF m
<1>7. /\ agent' \in [Agents -> Process] /\ \A b \in Agents \ {a} : agent'[b] = agent[b]
      /\ agent'[a].pc = x /\ agent'[a].op = o /\ agent'[a].mode = "resolve"
      /\ agent'[a].i = 0 /\ agent'[a].seen = board
  BY <1>2, <1>4, <1>5, <1>6
<1>8. TypeOK'
  BY <1>1, <1>3, <1>7 DEF TypeOK, sidecars
<1>9. \A b \in Agents : Live(b) => agent[b].op # o
  <2>1. \A b \in Agents : Live(b) => agent[b].mode # "resolve"
    BY DEF ResolveBegin, Alive, Live
  <2>2. \A b \in Agents : Live(b) => Alive(b)
    BY DEF Alive, Live
  <2> QED BY <1>1, <2>1, <2>2, LiveRow
<1>10. Alone'
  BY <1>7, <1>9 DEF BoardInv, Alone, Live
<1>11. row[o].writer \in Agents /\ row[o].writer # a
  BY <1>1 DEF RowInv, Unresolved, Alive
<1>12. /\ board = row[o].base => left[o] \in {"untouched", "restored"}
       /\ board = o => left[o] \in {"saved", "verified"}
  BY <1>1 DEF FileInv, Touched, TypeOK
<1>13. /\ journal = o => Holding(o)
       /\ journal # o => lock # o
  BY <1>1, ByteFacts DEF OwnedJournal, Holding
<1>14. AgentInv(a)'
  <2>1. Unresolved(agent[a].op)' /\ ~Alive(row[agent[a].op].writer)'
    BY <1>1, <1>3, <1>7, <1>11 DEF Unresolved, Alive
  <2>2. Holding(o) => Holding(agent[a].op)'
    BY <1>3, <1>7 DEF Holding, sidecars
  <2>3. ResolverAt(a)'
    <3>1. CASE journal = o
      BY <1>3, <1>7, <1>11, <1>12, <1>13, <1>20, <2>1, <2>2, <3>1
         DEF ResolverAt, sidecars
    <3>2. CASE journal # o
      BY <1>3, <1>7, <1>11, <1>12, <1>13, <1>20, <2>1, <2>2, <3>2
         DEF ResolverAt, sidecars
    <3> QED BY <3>1, <3>2
  <2> QED BY <1>7, <1>20, <2>3 DEF AgentInv
<1>15. ASSUME NEW b \in Agents \ {a} PROVE AgentInv(b)'
  <2>1. CASE ~Live(b)
    BY <1>7, <2>1 DEF AgentInv, Live, BoardInv
  <2>2. CASE Live(b)
    <3>0. PICK p \in Ops : p = agent[b].op
      BY <2>2, LiveRow
    <3>1. agent'[b] = agent[b] /\ agent[b].mode # "resolve"
      BY <1>7, <2>2 DEF ResolveBegin, Alive, Live
    <3>2. agent[b].pc = "journaling" => BasePast(agent[b].op)'
      <4>1. agent[b].pc = "journaling" => BasePast(p)
        BY <2>2, <3>0, AtStep DEF WriterAt, ResolverAt
      <4>2. BasePast(p) => BasePast(p)'
        BY <1>3 DEF BasePast
      <4>3. BasePast(p)' => BasePast(agent[b].op)'
        BY <3>0, <3>1
      <4> QED BY <4>1, <4>2, <4>3
    <3> QED BY <1>3, <2>2, <3>0, <3>1, <3>2, Untouched
  <2> QED BY <2>1, <2>2
<1>16. ASSUME NEW p \in Ops PROVE RowInv(p)' /\ FileInv(p)'
  BY <1>3 DEF BoardInv, RowInv, FileInv, Holding, Kept, BasePast, sidecars
<1> QED BY <1>8, <1>10, <1>14, <1>15, <1>16 DEF BoardInv

\* An outside editor saves.
LEMMA EditStep ==
    ASSUME BoardInv, NEW e \in Edits, Edit(e)
    PROVE  BoardInv'
<1>1. /\ UNCHANGED <<sidecars, archive, row, agent, left>> /\ board' = e
      /\ \A o \in Ops : row[o].base # e
  BY DEF Edit
<1>2. TypeOK'
  BY <1>1 DEF BoardInv, TypeOK, Bytes, sidecars
<1>3. Alone'
  BY <1>1 DEF BoardInv, Alone, Live
<1>4. ASSUME NEW b \in Agents PROVE AgentInv(b)'
  <2>1. CASE ~Live(b)
    BY <1>1, <2>1 DEF AgentInv, Live, BoardInv
  <2>2. CASE Live(b)
    <3>0. PICK p \in Ops : p = agent[b].op
      BY <2>2, LiveRow
    <3>1. agent[b].mode = "resolve" => ~Alive(row[agent[b].op].writer)'
      BY <1>1, <2>2, LiveRow DEF Alive
    <3>2. agent[b].pc = "journaling" => BasePast(agent[b].op)'
      <4>1. agent[b].pc = "journaling" => BasePast(p)
        BY <2>2, <3>0, AtStep DEF WriterAt, ResolverAt
      <4>2. BasePast(p) => BasePast(p)'
        BY <1>1 DEF BasePast
      <4>3. BasePast(p)' => BasePast(agent[b].op)'
        BY <1>1, <3>0
      <4> QED BY <4>1, <4>2, <4>3
    <3>3. ~EditorRaces => agent[b].pc \notin {"writing", "filling", "restoring"}
      BY DEF Edit
    <3> QED BY <1>1, <2>2, <3>0, <3>1, <3>2, <3>3, Untouched
  <2> QED BY <2>1, <2>2
<1>5. ASSUME NEW o \in Ops PROVE RowInv(o)' /\ FileInv(o)'
  <2>1. RowInv(o) /\ FileInv(o)
    BY DEF BoardInv
  <2>2. board' # o /\ board' # Torn(o)
    BY <1>1, ByteFacts
  <2>3. RowInv(o)'
    BY <1>1, <2>1 DEF RowInv, sidecars
  <2>4. FileInv(o)'
    BY <1>1, <2>1, <2>2 DEF FileInv, Holding, Kept, BasePast, sidecars
  <2> QED BY <2>3, <2>4
<1> QED BY <1>2, <1>3, <1>4, <1>5 DEF BoardInv

-----------------------------------------------------------------------------
(* The theorems.  All of them suppose that operation resolve runs in one    *)
(* process at a time, as the run board_write does.                          *)

\* Nothing has been planned and nothing is on disk but the file.
LEMMA BoardInit == Init => BoardInv
<1> SUFFICES ASSUME Init PROVE BoardInv
  OBVIOUS
<1>1. TypeOK
  <2>1. board \in Bytes /\ backup \in Bytes \union {None} /\ lock \in Ops \union {None}
        /\ journal \in Ops \union {None} /\ archive \subseteq Ops \X Bytes
        /\ left \in [Ops -> {"untouched", "torn", "saved", "verified", "restored"}]
    BY DEF Init, Bytes
  <2>2. row \in [Ops -> Row]
    BY DEF Init, Row
  <2>3. agent \in [Agents -> Process]
    <3> DEFINE m == [pc |-> "idle", op |-> None, mode |-> "commit", i |-> 0,
                     noChange |-> FALSE, seen |-> None]
    <3>1. 0 \in 0..2
      OBVIOUS
    <3>2. m \in Process
      BY <3>1, Zenon DEF Process, PCs
    <3>3. agent = [a \in Agents |-> m]
      BY Zenon DEF Init
    <3> HIDE DEF m
    <3> QED BY <3>2, <3>3
  <2> QED BY <2>1, <2>2, <2>3 DEF TypeOK
<1>2. \A a \in Agents : agent[a].pc = "idle" /\ agent[a].op = None
                        /\ agent[a].mode = "commit"
  BY DEF Init
<1>3. Alone /\ \A a \in Agents : AgentInv(a)
  BY <1>2 DEF Alone, AgentInv, Live
<1>4. ASSUME NEW o \in Ops PROVE RowInv(o) /\ FileInv(o)
  <2>1. /\ row[o].status = "new" /\ row[o].base = None /\ row[o].outcome = None
        /\ row[o].resolution = None /\ left[o] = "untouched"
        /\ lock = None /\ journal = None /\ board = Old
        /\ \A p \in Ops : row[p].base = None
    BY DEF Init
  <2>2. RowInv(o)
    BY <2>1, ByteFacts DEF RowInv, Outcomes
  <2>3. FileInv(o)
    BY <2>1, ByteFacts DEF FileInv, Holding, Touched
  <2> QED BY <2>2, <2>3
<1> QED BY <1>1, <1>3, <1>4 DEF BoardInv

\* Every step preserves the invariant.
LEMMA BoardNext ==
    ASSUME OneResolver, BoardInv, [Next]_vars
    PROVE  BoardInv'
<1>1. CASE \E a \in Agents : Step(a) \/ Crash(a)
  BY <1>1, OwnStep, Others
<1>2. CASE \E a \in Agents, o \in Ops : Confirm(a, o) \/ ResolveBegin(a, o)
  BY <1>2, ConfirmStep, ResolveBeginStep
<1>3. CASE \E o \in Ops : Plan(o)
  BY <1>3, PlanStep
<1>4. CASE \E e \in Edits : Edit(e)
  BY <1>4, EditStep
<1>5. CASE UNCHANGED vars
  <2>1. UNCHANGED <<board, sidecars, archive, row, agent, left>>
    BY <1>5 DEF vars
  <2>2. TypeOK' /\ Alone'
    BY <2>1 DEF BoardInv, TypeOK, Alone, Live, sidecars
  <2>3. ASSUME NEW a \in Agents PROVE AgentInv(a)'
    <3>1. AgentInv(a)
      BY DEF BoardInv
    <3>2. WriterAt(a) => WriterAt(a)'
      BY <2>1 DEF WriterAt, Holding, BasePast, Undone, sidecars
    <3>3. ResolverAt(a) => ResolverAt(a)'
      BY <2>1 DEF ResolverAt, Holding, Kept, Alive, Unresolved, sidecars
    <3> QED BY <2>1, <3>1, <3>2, <3>3 DEF AgentInv, Live
  <2>4. ASSUME NEW o \in Ops PROVE RowInv(o)' /\ FileInv(o)'
    BY <2>1 DEF BoardInv, RowInv, FileInv, Holding, Kept, BasePast, sidecars
  <2> QED BY <2>2, <2>3, <2>4 DEF BoardInv
<1> QED BY <1>1, <1>2, <1>3, <1>4, <1>5 DEF Next

\* The inductive invariant holds at every step of every save of the file, of
\* every restore, cleanup, crash and resolve.
THEOREM BoardInvariant == ASSUME OneResolver PROVE Spec => []BoardInv
  BY BoardInit, BoardNext, PTL DEF Spec

\* Rows, sidecars and processes stay in their sets, for every number of
\* operations, processes and state directories.
THEOREM BoardTypes == ASSUME OneResolver PROVE Spec => []TypeOK
<1>1. BoardInv => TypeOK
  BY DEF BoardInv
<1> QED BY <1>1, BoardInvariant, PTL

\* Bytes that were torn or never verified can be undone: their baseline is in an
\* owned backup or archived, whatever fails and whoever dies in a save, a
\* restore, a cleanup or a resolve.
THEOREM BaselinesRecoverable == ASSUME OneResolver PROVE Spec => []BaselineRecoverable
<1>1. BoardInv => BaselineRecoverable
  BY DEF BoardInv, FileInv, BaselineRecoverable, Holding, Kept
<1> QED BY <1>1, BoardInvariant, PTL

\* A lock of an operation that has touched the file is never without its
\* journal: an interrupted cleanup stays visible.
THEOREM CleanupsVisible == ASSUME OneResolver PROVE Spec => []CleanupVisible
<1>1. BoardInv => CleanupVisible
  BY DEF BoardInv, FileInv, CleanupVisible
<1> QED BY <1>1, BoardInvariant, PTL

\* Receipts and resolutions agree with what was done to the file, whether the
\* outside editor may save between a check and its write or not.
THEOREM RecordedTrue == ASSUME OneResolver PROVE Spec => []RecordedOutcomeTrue
<1>1. BoardInv => RecordedOutcomeTrue
  BY DEF BoardInv, RowInv, RecordedOutcomeTrue
<1> QED BY <1>1, BoardInvariant, PTL

\* What is closed owns no sidecar: a finished and a resolved operation leave
\* neither lock nor journal behind, and a waiting plan, whose undo may have
\* failed half-way, has no journal and has not touched the file.
THEOREM ClosedAreClean == ASSUME OneResolver PROVE Spec => []ClosedLeavesNothing
<1>1. BoardInv => ClosedLeavesNothing
  BY DEF BoardInv, RowInv, ClosedLeavesNothing
<1> QED BY <1>1, BoardInvariant, PTL

\* An operation that operation resolve refuses for ever is decided: it is
\* untouched, verified or restored, or its baseline was archived.
THEOREM RefusedAreDecided == ASSUME OneResolver PROVE Spec => []UnattributedIsDecided
<1>1. BoardInv => UnattributedIsDecided
  <2> SUFFICES ASSUME BoardInv, NEW o \in Ops, ~OwnedJournal(o),
                      left[o] \notin {"untouched", "verified", "restored"}
               PROVE  Kept(o)
    BY DEF UnattributedIsDecided, Kept
  <2>1. left[o] \in {"torn", "saved"} /\ FileInv(o)
    BY DEF BoardInv, TypeOK
  <2> QED BY <2>1 DEF FileInv, OwnedJournal, Holding
<1> QED BY <1>1, BoardInvariant, PTL

\* Saves and restores happen under the own lock and journal only.
THEOREM SavesLocked == ASSUME OneResolver PROVE Spec => SavesUnderOwnLock
<1>1. ASSUME BoardInv, [Next]_vars, NEW o \in Ops, left'[o] # left[o]
      PROVE  lock = o /\ journal = o
  <2>1. CASE \E a \in Agents : Step(a) \/ Crash(a)
    <3>1. PICK a \in Agents : Frame(a)
      BY <1>1, <2>1, OwnStep DEF Own
    <3> QED BY <1>1, <3>1 DEF Frame
  <2>2. CASE ~\E a \in Agents : Step(a) \/ Crash(a)
    <3>1. left' = left
      BY <1>1, <2>2 DEF Next, Confirm, ResolveBegin, Plan, Edit, vars
    <3> QED BY <1>1, <3>1
  <2> QED BY <2>1, <2>2
<1>2. BoardInv /\ [Next]_vars =>
        [\A o \in Ops :
           left'[o] # left[o] /\ left'[o] \in {"torn", "saved", "restored"} =>
               lock = o /\ journal = o]_vars
  BY <1>1
<1> QED BY <1>2, BoardInvariant, PTL DEF Spec, SavesUnderOwnLock

\* Bytes of an outside editor are replaced only by an operation that was planned
\* on them, when no editor saves between a check and the write behind it.
THEOREM EditsKept == ASSUME OneResolver, ~EditorRaces PROVE Spec => EditsSurvive
<1>1. ASSUME BoardInv, Next, board' # board, board \in Edits, board' \notin Edits
      PROVE  \E o \in Ops : row[o].base = board /\ board' \in {o, Torn(o)}
  <2>1. PICK a \in Agents : Write(a) \/ Fill(a) \/ Restore(a)
    <3>1. \A e \in Edits : ~Edit(e)
      BY <1>1 DEF Edit
    <3>2. /\ \A o \in Ops : ~Plan(o)
          /\ \A a \in Agents, o \in Ops : ~Confirm(a, o) /\ ~ResolveBegin(a, o)
      BY <1>1 DEF Plan, Confirm, ResolveBegin
    <3>3. PICK a \in Agents : Step(a) \/ Crash(a)
      BY <1>1, <3>1, <3>2 DEF Next
    <3>4. Write(a) \/ Fill(a) \/ Restore(a)
      BY <1>1, <3>3
         DEF Step, Crash, ArmCheck, ArmLock, ArmBackup, ArmJournal, ArmFails, UndoBackup,
             UndoLock, UndoFails, Recheck, Verify, Fails, Rollback, Restored, Cleanup, Finish,
             Undispatch, Archive, Drop, DropFails, Register, Rejected
    <3> QED BY <3>4
  <2> DEFINE o == agent[a].op
  <2>2. Live(a) /\ o \in Ops /\ WriterAt(a)
    <3>1. Live(a)
      BY <2>1 DEF Live, Write, Fill, Restore
    <3> QED BY <1>1, <2>1, <3>1, AtStep DEF ResolverAt, Write, Fill, Restore
  <2>3. CASE Write(a)
    <3>1. board = row[o].base
      BY <2>2, <2>3 DEF Write, WriterAt
    <3>2. board' \in {o, Torn(o)}
      BY <2>3 DEF Write
    <3> QED BY <2>2, <3>1, <3>2
  <2>4. CASE Fill(a)
    <3>1. board = Torn(o)
      BY <2>2, <2>4 DEF Fill, WriterAt
    <3> QED BY <1>1, <2>2, <3>1, ByteFacts
  <2>5. CASE Restore(a)
    <3>1. board = agent[a].seen /\ agent[a].seen \in {row[o].base, o}
      BY <2>2, <2>5 DEF Restore, WriterAt
    <3>2. agent[a].seen # row[o].base
      BY <1>1, <2>5 DEF Restore
    <3> QED BY <1>1, <2>2, <3>1, <3>2, ByteFacts
  <2> QED BY <2>1, <2>3, <2>4, <2>5
<1>2. BoardInv /\ [Next]_vars =>
        [board' # board /\ board \in Edits /\ board' \notin Edits =>
           \E o \in Ops : row[o].base = board /\ board' \in {o, Torn(o)}]_vars
  BY <1>1
<1> QED BY <1>2, BoardInvariant, PTL DEF Spec, EditsSurvive
=============================================================================
