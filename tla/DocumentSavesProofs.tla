------------------------ MODULE DocumentSavesProofs ------------------------
(***************************************************************************)
(* DocumentTransaction implements SetSaves while one resolution runs at a  *)
(* time: with its locks, journal and checkpoint, the many file accesses of *)
(* an operation are the few steps of an abstract set save, and every other *)
(* step changes nothing there.                                             *)
(***************************************************************************)
EXTENDS DocumentProofs

-----------------------------------------------------------------------------
(* What an operation decides on is still there, except where an editor has  *)
(* come in.                                                                 *)

\* The preparation of an archive is bound to what the documents are.
Prepared(o) ==
    /\ observed[o] \in [Files(o) -> Bytes]
    /\ \A d \in Files(o) : Seen(d, observed[o][d])

SeenAt(a) == agent[a].pc = "archiving" => Prepared(agent[a].op)

SaveInv ==
    /\ SetInv
    /\ \A a \in Agents : SeenAt(a)

LEMMA SaveInit == OneResolver /\ Init => SaveInv
<1> SUFFICES ASSUME OneResolver, Init PROVE SaveInv
  OBVIOUS
<1>1. \A a \in Agents : agent[a].pc = "idle"
  BY SMT DEF Init
<1> QED BY <1>1, SetInit DEF SaveInv, SeenAt

\* The other processes: nobody writes the documents they hold.
LEMMA SeenOthers ==
    ASSUME SaveInv, NEW a \in Agents, Working(a), NEW b \in Agents \ {a}
    PROVE  SeenAt(b)'
<1>1. /\ agent'[b] = agent[b] /\ Live(a) /\ Typed /\ SeenAt(b) /\ SetAt(b) /\ SetInv
  BY Others DEF SaveInv, SetInv, WholeInv, Attended, Live
<1>2. CASE agent[b].pc = "archiving"
  <2> SUFFICES ASSUME NEW o \in Ops, o = agent[b].op, o # agent[a].op
               PROVE  Prepared(agent[b].op)'
    BY <1>1, <1>2, Sole, AtStep DEF SeenAt, Live
  <2>1. Prepared(o) /\ Holding(o)
    BY <1>1, <1>2 DEF SeenAt, SetAt
  <2>2. observed'[o] = observed[o]
    BY <1>1, OwnRecords
  <2>3. ASSUME NEW d \in Files(o) PROVE doc'[d] = doc[d]
    <3>1. d \in Docs /\ lock[d] = o
      BY <2>1, ConstantFacts DEF Holding, Members
    <3> QED BY <1>1, <3>1, OwnDocuments
  <2> QED BY <1>1, <2>1, <2>2, <2>3 DEF Prepared, Seen, Files
<1>3. CASE agent[b].pc # "archiving"
  BY <1>1, <1>3 DEF SeenAt
<1> QED BY <1>2, <1>3

\* The process itself.
LEMMA SeenOwn ==
    ASSUME SaveInv, NEW a \in Agents, Working(a)
    PROVE  SeenAt(a)'
<1> SUFFICES ASSUME NEW o \in Ops, o = agent[a].op, agent'[a].pc = "archiving"
             PROVE  SeenAt(a)'
  BY Others, AtStep DEF SaveInv, SetInv, WholeInv, Attended, SeenAt
<1>1. /\ agent \in [Agents -> Process] /\ agent'[a].op = o
      /\ observed \in [Ops -> Readings] /\ SeenAt(a) /\ TypeOK
  BY Others DEF SaveInv, SetInv, WholeInv, Attended, Typed, TypeOK
<1>2. ASSUME NEW x \in PCs \ {"archiving"}, NEW m, Moved(a, x, m) PROVE FALSE
  BY <1>2 DEF Moved
<1>3. ASSUME NEW x \in PCs \ {"archiving"}, Goto(a, x) \/ \E i : GotoAt(a, x, i) PROVE FALSE
  BY <1>1, <1>2, <1>3, Moves
<1>4. ~Raise(a)
  BY <1>1, <1>2, RaiseMoves DEF PCs
<1>5. ~Arming(a)
  BY <1>1, <1>2, ArmMovesTo DEF PCs, ArmPCs
<1>6. ~GuardCheckpoints(a) /\ ~GuardLocks(a)
  BY <1>3 DEF GuardCheckpoints, GuardLocks, PCs
<1>7. ~Save(a) /\ ~Verify(a) /\ ~SaveFails(a)
  BY <1>3 DEF Save, Verify, SaveFails, PCs
<1>8. ~Rollback(a) /\ ~Restore(a) /\ ~Restored(a) /\ ~RestoreFails(a)
  <2>1. ~Rollback(a)
    BY <1>1, <1>2, <1>4, RollbackMoves DEF PCs
  <2> QED BY <1>3, <1>4, <2>1 DEF Restore, Restored, RestoreFails, PCs
<1>9. ~Checkpoint(a) /\ ~Intend(a) /\ ~Acknowledge(a)
  BY <1>1, <1>2, <1>4, CleanupMoves DEF PCs
<1>10. ~Unlink(a) /\ ~CleanupFails(a)
  BY <1>3, <1>4 DEF Unlink, CleanupFails, PCs
<1>11. ~Cleaned(a)
  <2>1. agent[a].pc = "deleting" => agent[a].mode \in {"commit", "rollback", "resolve"}
    BY AtStep DEF SaveInv, SetInv, WholeInv, Attended
  <2> QED BY <1>3, <2>1 DEF Cleaned, PCs
<1>12. ~Undispatch(a) /\ ~Finish(a) /\ ~Resolve(a) /\ ~ResolveRefused(a) /\ ~Crash(a)
  BY <1>3 DEF Undispatch, Finish, Resolve, ResolveRefused, Crash, PCs
<1>13. CASE CleanupBegin(a)
  <2>1. doc' = doc /\ observed' = [observed EXCEPT ![o] = Current(o)]
    <3>1. doc' = doc
      BY <1>13 DEF CleanupBegin
    <3> QED BY <1>1, <1>2, <1>4, <1>13, <3>1, CleanupMoves DEF PCs
  <2>2. observed'[o] = Current(o) /\ Current(o) \in [Files(o) -> Bytes]
    BY <1>1, <2>1, CurrentTyped
  <2>3. Prepared(agent[a].op)'
    BY <1>1, <2>1, <2>2 DEF Prepared, Seen, Current, Files
  <2> QED BY <2>3 DEF SeenAt
<1>14. CASE PublishArchive(a)
  <2>1. UNCHANGED <<doc, observed, agent>>
    BY <1>14 DEF PublishArchive
  <2> QED BY <1>1, <2>1 DEF SeenAt, Prepared, Seen, Files
<1> QED BY <1>5, <1>6, <1>7, <1>8, <1>9, <1>10, <1>11, <1>12, <1>13, <1>14
        DEF Working, Step, Arming

\* A step that is not of a process: an editor may have come in.
LEMMA SeenFrame ==
    ASSUME SaveInv, NEW b \in Agents, agent'[b] = agent[b], observed' = observed,
           \A d \in Docs : doc'[d] \in Edits \union {doc[d]}
    PROVE  SeenAt(b)'
<1>1. CASE agent[b].pc = "archiving"
  <2> SUFFICES ASSUME NEW o \in Ops, o = agent[b].op
               PROVE  Prepared(agent[b].op)'
    BY <1>1, AtStep DEF SeenAt, SaveInv, SetInv, WholeInv, Attended
  <2>1. Prepared(o) /\ Files(o) \subseteq Docs
    BY <1>1, ConstantFacts DEF SeenAt, SaveInv
  <2>2. \A d \in Files(o) : doc'[d] \in Edits \union {observed[o][d]}
    BY <2>1 DEF Prepared, Seen
  <2> QED BY <2>1, <2>2 DEF Prepared, Seen, Files
<1>2. CASE agent[b].pc # "archiving"
  BY <1>2 DEF SeenAt
<1> QED BY <1>1, <1>2

\* Starting a process, deleting a row, and an editor.
LEMMA SaveRest ==
    ASSUME SaveInv, OneResolver,
           \/ \E a \in Agents, o \in Ops : Confirm(a, o) \/ ResolveBegin(a, o)
           \/ \E o \in Ops : Prune(o)
           \/ \E d \in Docs, e \in Edits : Edit(d, e)
    PROVE  SaveInv'
<1>1. /\ SetInv' /\ agent \in [Agents -> Process] /\ doc \in [Docs -> Bytes]
      /\ observed' = observed
  BY SetRest
  DEF SaveInv, SetInv, WholeInv, Attended, Typed, TypeOK, Confirm, ResolveBegin, Prune, Edit,
      proofVars
<1>2. \A d \in Docs : doc'[d] \in Edits \union {doc[d]}
  BY <1>1 DEF Confirm, ResolveBegin, Prune, Edit
<1>3. ASSUME NEW a \in Agents, NEW o \in Ops, Confirm(a, o) \/ ResolveBegin(a, o)
      PROVE  SaveInv'
  <2>1. /\ agent'[a].pc \in {"confirmed", "closing"}
        /\ \A b \in Agents \ {a} : agent'[b] = agent[b]
    <3>1. ASSUME Confirm(a, o)
          PROVE  agent'[a].pc = "confirmed" /\ \A b \in Agents \ {a} : agent'[b] = agent[b]
      <4>1. agent' = [agent EXCEPT ![a] = [@ EXCEPT !.pc = "confirmed", !.op = o,
                                                    !.mode = "commit"]]
        BY <3>1 DEF Confirm
      <4> QED BY <1>1, <4>1, SMT DEF Process
    <3>2. ASSUME ResolveBegin(a, o)
          PROVE  agent'[a].pc = "closing" /\ \A b \in Agents \ {a} : agent'[b] = agent[b]
      <4>1. agent' = [agent EXCEPT ![a] = [@ EXCEPT !.pc = "closing", !.op = o,
                                                    !.mode = "resolve",
                                                    !.seen = Current(o)]]
        BY <3>2 DEF ResolveBegin
      <4> QED BY <1>1, <4>1, SMT DEF Process
    <3> QED BY <1>3, <3>1, <3>2
  <2>2. SeenAt(a)'
    BY <2>1 DEF SeenAt
  <2> QED BY <1>1, <1>2, <2>1, <2>2, SeenFrame DEF SaveInv
<1>4. CASE agent' = agent
  BY <1>1, <1>2, <1>4, SeenFrame DEF SaveInv
<1> QED BY <1>3, <1>4 DEF Prune, Edit

LEMMA SaveNext == OneResolver /\ SaveInv /\ [Next]_vars => SaveInv'
<1>1. ASSUME OneResolver, SaveInv, UNCHANGED vars PROVE SaveInv'
  <2>1. SetInv' /\ UNCHANGED <<doc, observed, agent>>
    BY <1>1, SetNext DEF SaveInv, vars, proofVars
  <2> QED BY <1>1, <2>1, SeenFrame DEF SaveInv
<1>2. ASSUME SaveInv, NEW a \in Agents, Working(a) PROVE SaveInv'
  BY <1>2, SetWorking, SeenOwn, SeenOthers DEF SaveInv
<1>3. ASSUME OneResolver, SaveInv, Next PROVE SaveInv'
  BY <1>2, <1>3, SaveRest DEF Next, Working
<1> QED BY <1>1, <1>3

LEMMA SaveAlways == OneResolver => (Spec => []SaveInv)
<1>1. SUFFICES ASSUME OneResolver PROVE Spec => []SaveInv
  OBVIOUS
<1>2. Init => SaveInv
  BY <1>1, SaveInit
<1>3. SaveInv /\ [Next]_vars => SaveInv'
  BY <1>1, SaveNext
<1> QED BY <1>2, <1>3, PTL DEF Spec

-----------------------------------------------------------------------------
(* From one operation to the functions of SetSaves.                         *)

\* SetSaves sees no change of x.
Same(x) ==
    /\ SavePhase(x)' = SavePhase(x)
    /\ HeldBase(x)' = HeldBase(x)
    /\ Decision(x)' = Decision(x)
    /\ Final(x)' = Final(x)

LEMMA SavesStutter ==
    ASSUME doc' = doc, \A x \in Ops : Same(x)
    PROVE  UNCHANGED Saves!vars
<1>1. [o \in Ops |-> SavePhase(o)]' = [o \in Ops |-> SavePhase(o)]
  BY Zenon DEF Same
<1>2. [o \in Ops |-> HeldBase(o)]' = [o \in Ops |-> HeldBase(o)]
  BY Zenon DEF Same
<1>3. [o \in Ops |-> Decision(o)]' = [o \in Ops |-> Decision(o)]
  BY Zenon DEF Same
<1>4. [o \in Ops |-> Final(o)]' = [o \in Ops |-> Final(o)]
  BY Zenon DEF Same
<1> QED BY <1>1, <1>2, <1>3, <1>4, Zenon DEF Saves!vars

\* A change of one operation is an update of those functions there.
LEMMA SavesUpdate ==
    ASSUME NEW o \in Ops, \A x \in Ops \ {o} : Same(x)
    PROVE  /\ \A p : SavePhase(o)' = p =>
                 [x \in Ops |-> SavePhase(x)]' =
                     [[x \in Ops |-> SavePhase(x)] EXCEPT ![o] = p]
           /\ \A b : HeldBase(o)' = b =>
                 [x \in Ops |-> HeldBase(x)]' =
                     [[x \in Ops |-> HeldBase(x)] EXCEPT ![o] = b]
           /\ \A b : Decision(o)' = b =>
                 [x \in Ops |-> Decision(x)]' =
                     [[x \in Ops |-> Decision(x)] EXCEPT ![o] = b]
           /\ \A b : Final(o)' = b =>
                 [x \in Ops |-> Final(x)]' = [[x \in Ops |-> Final(x)] EXCEPT ![o] = b]
<1>1. \A p : SavePhase(o)' = p =>
         [x \in Ops |-> SavePhase(x)]' = [[x \in Ops |-> SavePhase(x)] EXCEPT ![o] = p]
  BY Zenon DEF Same
<1>2. \A b : HeldBase(o)' = b =>
         [x \in Ops |-> HeldBase(x)]' = [[x \in Ops |-> HeldBase(x)] EXCEPT ![o] = b]
  BY Zenon DEF Same
<1>3. \A b : Decision(o)' = b =>
         [x \in Ops |-> Decision(x)]' = [[x \in Ops |-> Decision(x)] EXCEPT ![o] = b]
  BY Zenon DEF Same
<1>4. \A b : Final(o)' = b =>
         [x \in Ops |-> Final(x)]' = [[x \in Ops |-> Final(x)] EXCEPT ![o] = b]
  BY Zenon DEF Same
<1> QED BY <1>1, <1>2, <1>3, <1>4

\* What SetSaves sees of one operation.
LEMMA SameRecord ==
    ASSUME NEW o \in Ops,
           Decided(o)' <=> Decided(o),
           journal'[PrimaryOf[o]] = o <=> journal[PrimaryOf[o]] = o,
           SavePhase(o) # "waiting" => row'[o].baseline = row[o].baseline,
           Decided(o) => observed'[o] = observed[o],
           Final(o)' <=> Final(o)
    PROVE  Same(o)
<1>1. SavePhase(o)' = SavePhase(o)
  BY DEF SavePhase
<1>2. HeldBase(o)' = HeldBase(o)
  BY <1>1 DEF HeldBase, Baseline
<1>3. Decision(o)' = Decision(o)
  BY DEF Decision
<1>4. Final(o)' = Final(o)
  BY Zenon DEF Final
<1> QED BY <1>1, <1>2, <1>3, <1>4 DEF Same

-----------------------------------------------------------------------------
(* The steps.                                                               *)

LEMMA SavesInit == Init => Saves!Init
<1> SUFFICES ASSUME Init PROVE Saves!Init
  OBVIOUS
<1>1. doc \in [Docs -> Bytes \ Ops]
  BY ConstantFacts DEF Init, Bytes
<1>2. \A o \in Ops : /\ ckpt[o].phase = "none" /\ journal[PrimaryOf[o]] # o
                     /\ row[o].status = "planned"
  BY ConstantFacts, SMT DEF Init
<1>3. \A o \in Ops : /\ SavePhase(o) = "waiting" /\ HeldBase(o) = <<>>
                     /\ Decision(o) = <<>> /\ Final(o) = FALSE
  BY <1>2 DEF SavePhase, HeldBase, Decision, Decided, Final
<1> QED BY <1>1, <1>3, Zenon DEF Saves!Init

\* A process is not seen to change another operation.
LEMMA OtherSame ==
    ASSUME SaveInv, NEW a \in Agents, Working(a), NEW x \in Ops, x # agent[a].op
    PROVE  Same(x)
<1>1. /\ row'[x] = row[x] /\ ckpt'[x] = ckpt[x] /\ observed'[x] = observed[x]
  BY OwnRecords DEF SaveInv, SetInv, WholeInv, Attended
<1>2. journal'[PrimaryOf[x]] = x <=> journal[PrimaryOf[x]] = x
  BY ConstantFacts, OwnSidecars DEF SaveInv
<1> QED BY <1>1, <1>2, SameRecord DEF Decided, Final

\* The set is held from the journal of arm to the checkpoint of cleanup.
LEMMA HoldingPhase ==
    ASSUME NEW o \in Ops
    PROVE  Holding(o) => SavePhase(o) = "holding"
  BY DEF Holding, SavePhase, Decided

LEMMA ReadingsOf ==
    ASSUME NEW o \in Ops, NEW bytes \in [Files(o) -> Bytes],
           \A d \in Files(o) : Seen(d, bytes[d])
    PROVE  bytes \in Saves!Readings(o)
  BY Zenon DEF Saves!Readings, Seen

\* arm's journal is Hold: nobody else can have a lock in the set.
LEMMA SavesHold ==
    ASSUME SaveInv, SaveInv', NEW a \in Agents, NEW o \in Ops, o = agent[a].op,
           ArmJournal(a), journal' # journal
    PROVE  Saves!Hold(o)
<1>1. /\ journal' = [journal EXCEPT ![PrimaryOf[o]] = o]
      /\ GotoAt(a, "saving", 1)
      /\ UNCHANGED <<doc, lock, backup, archive, observed, ckpt, row>>
      /\ agent[a].i > Len(FilesOf[o]) /\ agent[a].pc = "arming"
  BY DEF ArmJournal, proofVars
<1>2. /\ Typed /\ agent \in [Agents -> Process] /\ agent[a].i \in Nat
      /\ journal \in [Docs -> Ops \union {None}] /\ PrimaryOf[o] \in Docs
      /\ Working(a)
  BY <1>1, AtStep, ConstantFacts
  DEF SaveInv, SetInv, WholeInv, Attended, Typed, TypeOK, Working, Step
<1>3. /\ Writer(a) /\ agent[a].mode = "commit"
      /\ ckpt[o].phase = "none" /\ journal[PrimaryOf[o]] # o
      /\ ArmedUpTo(o, agent[a].i)
  BY <1>1
  DEF SaveInv, SetInv, SetAt, WholeInv, WholeAt, Attended, ModeAt, Writer, Live, EarlyPCs,
      ArmPCs, UndecidedPCs
<1>4. /\ agent'[a].pc = "saving" /\ agent'[a].op = o /\ agent'[a].mode = "commit"
  BY <1>1, <1>2, <1>3, Moves DEF Moved
<1>5. Holding(o)'
  <2>1. Holding(agent[a].op)'
    BY <1>4 DEF SaveInv, SetInv, SetAt, Writer, Live, HoldsSet
  <2> QED BY <1>4, <2>1
<1>6. SavePhase(o) = "waiting" /\ ~Decided(o)
  BY <1>3 DEF SavePhase, Decided
<1>7. SavePhase(o)' = "holding" /\ ~Decided(o)'
  BY <1>5 DEF Holding, SavePhase, Decided
<1>8. ASSUME NEW p \in Ops \ {o}, SavePhase(p) = "holding"
      PROVE  Members(p) \cap Members(o) = {}
  <2>1. Holding(p)
    BY <1>8 DEF SavePhase, Decided, SaveInv, SetInv, SetOf
  <2>2. \A d \in Members(o) : lock[d] = o
    BY <1>1, <1>5 DEF Holding
  <2> QED BY <2>1, <2>2 DEF Holding
<1>9. Baseline(o) \in Saves!Readings(o)
  <2>1. Baseline(o) \in [Files(o) -> Bytes]
    BY <1>2, <1>3 DEF Typed, Bound, HasBase, Baseline, Writer, Live
  <2>2. \A j \in DOMAIN FilesOf[o] : j < agent[a].i
    BY <1>1, <1>2, ConstantFacts, SMT
  <2>3. \A d \in Files(o) : Seen(d, Baseline(o)[d])
    BY <1>3, <2>2 DEF ArmedUpTo, Files
  <2> QED BY <2>1, <2>3, ReadingsOf
<1>10. HeldBase(o)' = Baseline(o)
  BY <1>1, <1>7 DEF HeldBase, Baseline
<1>11. Decision(o)' = Decision(o) /\ Final(o)' = Final(o)
  BY <1>1, <1>6, <1>7 DEF Decision, Final
<1>12. \A x \in Ops \ {o} : Same(x)
  BY <1>2, OtherSame
<1>13. [x \in Ops |-> Decision(x)]' = [x \in Ops |-> Decision(x)]
  BY <1>11, <1>12, Zenon DEF Same
<1>14. [x \in Ops |-> Final(x)]' = [x \in Ops |-> Final(x)]
  BY <1>11, <1>12, Zenon DEF Same
<1>15. [x \in Ops |-> SavePhase(x)]' = [[x \in Ops |-> SavePhase(x)] EXCEPT ![o] = "holding"]
  BY <1>7, <1>12, SavesUpdate
<1>16. [x \in Ops |-> HeldBase(x)]' = [[x \in Ops |-> HeldBase(x)] EXCEPT ![o] = Baseline(o)]
  BY <1>10, <1>12, SavesUpdate
<1> QED BY <1>1, <1>6, <1>8, <1>9, <1>13, <1>14, <1>15, <1>16, Zenon DEF Saves!Hold

\* A save of one document, over its old bytes, is Save.
LEMMA SavesSave ==
    ASSUME SaveInv, SaveInv', NEW a \in Agents, NEW o \in Ops, o = agent[a].op,
           Save(a) \/ Restore(a), doc' # doc
    PROVE  \E d \in Files(o) : \/ Save(a) /\ Saves!Save(o, d)
                               \/ Restore(a) /\ Saves!Restore(o, d)
<1> DEFINE f == FilesOf[o][agent[a].i]
<1>1. /\ UNCHANGED <<lock, journal, backup, archive, observed, ckpt, row>>
      /\ Working(a) /\ Typed
  BY DEF Save, Restore, sidecarVars, proofVars, Working, Step, SaveInv, SetInv, WholeInv,
         Attended
<1>2. \A x \in Ops : Same(x)
  BY <1>1, SameRecord DEF Decided, Final
<1>3. Writer(a) /\ HoldsSet(a)
  BY DEF SaveInv, SetInv, WholeInv, Attended, ModeAt, EarlyPCs, Save, Restore, Writer, Live,
         HoldsSet
<1>4. SavePhase(o) = "holding" /\ HeldBase(o) = Baseline(o)
  BY <1>3, HoldingPhase DEF HeldBase, SaveInv, SetInv, SetAt
<1>5. f \in Files(o)
  <2>1. agent[a].i \in Nat /\ agent[a].i > 0 /\ agent[a].i <= Len(FilesOf[o])
    BY <1>1, AtStep DEF Save, Restore, Typed, Busy, BusyAt
  <2>2. agent[a].i \in DOMAIN FilesOf[o]
    BY <2>1, ConstantFacts, SMT
  <2> QED BY <2>2 DEF Files
<1>6. [x \in Ops |-> SavePhase(x)]' = [x \in Ops |-> SavePhase(x)]
  BY <1>2, Zenon DEF Same
<1>7. [x \in Ops |-> HeldBase(x)]' = [x \in Ops |-> HeldBase(x)]
  BY <1>2, Zenon DEF Same
<1>8. [x \in Ops |-> Decision(x)]' = [x \in Ops |-> Decision(x)]
  BY <1>2, Zenon DEF Same
<1>9. [x \in Ops |-> Final(x)]' = [x \in Ops |-> Final(x)]
  BY <1>2, Zenon DEF Same
<1>10. CASE Save(a)
  <2>1. doc[f] = Baseline(o)[f] /\ doc' = [doc EXCEPT ![f] = o]
    BY <1>10 DEF Save
  <2> HIDE DEF f
  <2>2. Saves!Save(o, f)
    BY <1>4, <1>5, <1>6, <1>7, <1>8, <1>9, <2>1 DEF Saves!Save
  <2> QED BY <1>5, <1>10, <2>2
<1>11. CASE Restore(a)
  <2>1. doc' = [doc EXCEPT ![f] = Baseline(o)[f]]
    BY <1>11 DEF Restore
  <2> HIDE DEF f
  <2>2. Saves!Restore(o, f)
    BY <1>4, <1>5, <1>6, <1>7, <1>8, <1>9, <2>1 DEF Saves!Restore
  <2> QED BY <1>5, <1>11, <2>2
<1> QED BY <1>10, <1>11

\* The checkpoint is Decide.
LEMMA SavesDecide ==
    ASSUME SaveInv, SaveInv', NEW a \in Agents, NEW o \in Ops, o = agent[a].op,
           Checkpoint(a)
    PROVE  Saves!Decide(o)
<1>1. /\ UNCHANGED <<doc, lock, journal, backup, archive, observed, row>>
      /\ Working(a) /\ Typed /\ agent[a].pc = "archiving"
  BY DEF Checkpoint, sidecarVars, Working, Step, SaveInv, SetInv, WholeInv, Attended
<1>2. Decided(o)'
  <2> DEFINE now == [i \in DOMAIN CleanupPaths(o) |-> Holder(o, CleanupPaths(o)[i])]
             r == [phase |-> "cleaning", cursor |-> 0, pending |-> FALSE, held |-> now]
  <2>1. ckpt' = [ckpt EXCEPT ![o] = r] /\ r.phase = "cleaning"
    BY Zenon DEF Checkpoint, Persist
  <2>2. ckpt \in [Ops -> Progress]
    BY <1>1 DEF Typed, TypeOK
  <2> HIDE DEF r
  <2> QED BY <2>1, <2>2 DEF Decided
<1>3. \A x \in Ops \ {o} : Same(x)
  BY <1>1, OtherSame
<1>4. Prepared(o) /\ Holding(o)
  BY <1>1 DEF SaveInv, SeenAt, SetInv, SetAt
<1>5. SavePhase(o) = "holding" /\ SavePhase(o)' = "decided"
  BY <1>2, <1>4, HoldingPhase DEF SavePhase
<1>6. HeldBase(o)' = HeldBase(o) /\ Final(o)' = Final(o)
  BY <1>1, <1>5 DEF HeldBase, Baseline, Final
<1>7. Decision(o)' = observed[o]
  BY <1>1, <1>2 DEF Decision
<1>8. observed[o] \in Saves!Readings(o)
  BY <1>4, ReadingsOf DEF Prepared
<1>9. [x \in Ops |-> HeldBase(x)]' = [x \in Ops |-> HeldBase(x)]
  BY <1>3, <1>6, Zenon DEF Same
<1>10. [x \in Ops |-> Final(x)]' = [x \in Ops |-> Final(x)]
  BY <1>3, <1>6, Zenon DEF Same
<1>11. [x \in Ops |-> SavePhase(x)]' = [[x \in Ops |-> SavePhase(x)] EXCEPT ![o] = "decided"]
  BY <1>3, <1>5, SavesUpdate
<1>12. [x \in Ops |-> Decision(x)]' = [[x \in Ops |-> Decision(x)] EXCEPT ![o] = observed[o]]
  BY <1>3, <1>7, SavesUpdate
<1> QED BY <1>1, <1>5, <1>8, <1>9, <1>10, <1>11, <1>12, Zenon DEF Saves!Decide

\* A receipt that says completed or restored is Report.
LEMMA SavesReport ==
    ASSUME SaveInv, SaveInv', NEW a \in Agents, NEW o \in Ops, o = agent[a].op,
           Finish(a)
    PROVE  Saves!Report(o) \/ UNCHANGED Saves!vars
<1>1. /\ UNCHANGED <<doc, lock, journal, backup, archive, observed, ckpt>>
      /\ Working(a) /\ Typed /\ row \in [Ops -> Row]
  BY DEF Finish, sidecarVars, proofVars, Working, Step, SaveInv, SetInv, WholeInv, Attended,
         Typed, TypeOK
<1>2. \A x \in Ops \ {o} : Same(x)
  BY <1>1, OtherSame
<1>3. /\ row'[o].resolution = row[o].resolution /\ row'[o].baseline = row[o].baseline
      /\ agent[a].pc = "uncertain" => row'[o].status = "unknown"
      /\ agent[a].pc # "uncertain" => row'[o].status = "finished"
  BY <1>1, SMT DEF Finish, Row
<1>4. row[o].status = "dispatched" /\ ~row[o].resolution
  <2>1. Live(a) /\ agent[a].mode \in {"commit", "rollback", "resolve"}
    BY <1>1, AtStep DEF Finish, Live
  <2>2. Writer(a)
    BY <2>1 DEF Finish, SaveInv, SetInv, WholeInv, Attended, ModeAt, Writer
  <2> QED BY <2>2 DEF SaveInv, SetInv, WholeInv, Attended, AttendedBy, OpenRow
<1>5. ~Final(o)
  BY <1>4 DEF Final
<1>6. CASE agent[a].pc = "uncertain"
  <2>1. Same(o)
    BY <1>1, <1>3, <1>5, <1>6, SameRecord DEF Final, Decided
  <2> QED BY <1>1, <1>2, <2>1, SavesStutter
<1>7. CASE agent[a].pc \in {"completed", "restored"}
  <2>1. /\ Decided(o) /\ observed[o] \in {Intended(o), Baseline(o)}
    BY <1>7 DEF SaveInv, SetInv, WholeInv, WholeAt, Attended, ModeAt, DecidedOn, DecidedPCs,
                Writer, Live, Decided
  <2>2. SavePhase(o) = "decided" /\ HeldBase(o) = Baseline(o) /\ Decision(o) = observed[o]
    BY <2>1 DEF SavePhase, HeldBase, Decision
  <2>3. Final(o)' = TRUE
    BY <1>3, <1>4, <1>7 DEF Final
  <2>4. SavePhase(o)' = SavePhase(o) /\ HeldBase(o)' = HeldBase(o) /\ Decision(o)' = Decision(o)
    BY <1>1, <1>3 DEF SavePhase, HeldBase, Decision, Decided, Baseline
  <2>5. [x \in Ops |-> SavePhase(x)]' = [x \in Ops |-> SavePhase(x)]
    BY <1>2, <2>4, Zenon DEF Same
  <2>6. [x \in Ops |-> HeldBase(x)]' = [x \in Ops |-> HeldBase(x)]
    BY <1>2, <2>4, Zenon DEF Same
  <2>7. [x \in Ops |-> Decision(x)]' = [x \in Ops |-> Decision(x)]
    BY <1>2, <2>4, Zenon DEF Same
  <2>8. [x \in Ops |-> Final(x)]' = [[x \in Ops |-> Final(x)] EXCEPT ![o] = TRUE]
    BY <1>2, <2>3, SavesUpdate
  <2>9. Decision(o) \in {Saves!Intended(o), HeldBase(o)}
    BY <2>1, <2>2 DEF Saves!Intended, Intended
  <2> QED BY <1>1, <1>5, <2>2, <2>5, <2>6, <2>7, <2>8, <2>9, Zenon DEF Saves!Report
<1> QED BY <1>6, <1>7 DEF Finish

\* All other steps of a process change nothing there.
LEMMA SavesQuiet ==
    ASSUME SaveInv, SaveInv', NEW a \in Agents, Working(a),
           doc' = doc, ~Checkpoint(a), ~Finish(a), ArmJournal(a) => journal' = journal
    PROVE  UNCHANGED Saves!vars
<1> SUFFICES ASSUME NEW o \in Ops, o = agent[a].op
             PROVE  UNCHANGED Saves!vars
  BY Others, AtStep DEF SaveInv, SetInv, WholeInv, Attended
<1>1. /\ Typed /\ row \in [Ops -> Row] /\ ckpt \in [Ops -> Progress] /\ Live(a)
      /\ SetInv /\ WholeAt(a)
  BY Others DEF SaveInv, SetInv, WholeInv, Attended, Typed, TypeOK, Live
<1>2. row'[o].baseline = row[o].baseline /\ (Decided(o) => Decided(o)')
  BY <1>1, OwnRecords DEF Decided
<1>3. Decided(o)' <=> Decided(o)
  <2>1. CASE Intend(a) \/ Acknowledge(a) \/ Cleaned(a)
    BY <1>1, <1>2, <2>1 DEF Intend, Acknowledge, Cleaned, WholeAt, DecidedPCs, Decided
  <2>2. CASE ~(Intend(a) \/ Acknowledge(a) \/ Cleaned(a))
    BY <1>1, <2>2, Changes DEF Decided
  <2> QED BY <2>1, <2>2
<1>4. Final(o)' <=> Final(o)
  <2>1. CASE ~Storing(a)
    BY <1>1, <2>1, OwnRecords DEF Final
  <2>2. CASE Undispatch(a)
    <3>1. row'[o].status = "planned" /\ row[o].status = "dispatched"
      BY <1>1, <2>2, StoreRows
      DEF Undispatch, SetInv, WholeInv, Attended, AttendedBy, Writer
    <3> QED BY <3>1 DEF Final
  <2>3. CASE Resolve(a)
    <3>1. row' = row \/ (Unresolved(o) /\ row'[o].status = "unknown")
      BY <1>1, <2>3, StoreRows
    <3> QED BY <3>1 DEF Final, Unresolved
  <2> QED BY <2>1, <2>2, <2>3 DEF Storing
<1>5. Decided(o) => observed' = observed
  BY <1>1, Changes, CleanupMoves DEF Typed, TypeOK, Decided
<1>6. ~Decided(o) => (journal'[PrimaryOf[o]] = o <=> journal[PrimaryOf[o]] = o)
  <2> SUFFICES ASSUME ~Decided(o) PROVE journal' = journal
    OBVIOUS
  <2>1. ~Unlink(a)
    BY <1>1 DEF Unlink, WholeAt, DecidedPCs, Decided
  <2>2. ArmUndo(a) => journal' = journal
    BY <1>1, <2>1, OwnRemoval DEF Remove
  <2>3. CASE ArmPrimary(a) \/ ArmLock(a) \/ ArmBackup(a) \/ ArmFails(a) \/ UndoFails(a)
    BY <2>3 DEF ArmPrimary, ArmLock, ArmBackup, ArmFails, UndoFails, sidecarVars
  <2> QED BY <1>1, <2>1, <2>2, <2>3, Changes DEF Arming, sidecarVars
<1>7. Same(o)
  <2>1. CASE Decided(o)
    <3>1. SavePhase(o)' = SavePhase(o)
      BY <1>3, <2>1 DEF SavePhase
    <3>2. HeldBase(o)' = HeldBase(o)
      BY <1>2, <3>1 DEF HeldBase, Baseline
    <3>3. Decision(o)' = Decision(o)
      BY <1>3, <1>5, <2>1 DEF Decision
    <3>4. Final(o)' = Final(o)
      BY <1>4, Zenon DEF Final
    <3> QED BY <3>1, <3>2, <3>3, <3>4 DEF Same
  <2>2. CASE ~Decided(o)
    BY <1>2, <1>3, <1>4, <1>6, <2>2, SameRecord
  <2> QED BY <2>1, <2>2
<1> QED BY <1>7, OtherSame, SavesStutter

\* A new process, a deleted row, an editor.
LEMMA SavesOutside ==
    ASSUME SaveInv, SaveInv',
           \/ \E a \in Agents, o \in Ops : Confirm(a, o) \/ ResolveBegin(a, o)
           \/ \E o \in Ops : Prune(o)
           \/ \E d \in Docs, e \in Edits : Edit(d, e)
    PROVE  (\E d \in Docs : Saves!Edit(d)) \/ UNCHANGED Saves!vars
<1>1. /\ Typed /\ row \in [Ops -> Row]
      /\ UNCHANGED <<lock, journal, backup, archive, observed, ckpt>>
  BY DEF Confirm, ResolveBegin, Prune, Edit, sidecarVars, proofVars, SaveInv, SetInv,
         WholeInv, Attended, Typed, TypeOK
<1>2. ASSUME NEW x \in Ops, row'[x] = row[x] PROVE Same(x)
  BY <1>1, <1>2, SameRecord DEF Decided, Final
<1>3. ASSUME NEW a \in Agents, NEW o \in Ops, Confirm(a, o)
      PROVE  UNCHANGED Saves!vars
  <2>0. /\ row' = [row EXCEPT ![o] = [@ EXCEPT !.status = "dispatched",
                                               !.writer = a,
                                               !.baseline = Current(o)]]
        /\ row[o].status = "planned" /\ doc' = doc
    BY <1>3 DEF Confirm
  <2>1. /\ row'[o].status = "dispatched"
        /\ \A x \in Ops \ {o} : row'[x] = row[x]
    BY <1>1, <2>0, SMT DEF Row
  <2>2. SavePhase(o) = "waiting"
    BY <2>0 DEF SaveInv, SetInv, SetOf, WholeInv, WholeOf, SavePhase, Decided
  <2>3. Same(o)
    BY <1>1, <2>0, <2>1, <2>2, SameRecord DEF Decided, Final
  <2> QED BY <1>2, <2>0, <2>1, <2>3, SavesStutter
<1>4. ASSUME NEW a \in Agents, NEW o \in Ops, ResolveBegin(a, o)
      PROVE  UNCHANGED Saves!vars
  <2>1. row' = row /\ doc' = doc
    BY <1>4 DEF ResolveBegin
  <2> QED BY <1>2, <2>1, SavesStutter
<1>5. ASSUME NEW o \in Ops, Prune(o) PROVE UNCHANGED Saves!vars
  <2>1. /\ row'[o].status = "pruned" /\ row'[o].baseline = row[o].baseline
        /\ row'[o].resolution = row[o].resolution
        /\ \A x \in Ops \ {o} : row'[x] = row[x]
        /\ doc' = doc /\ (row[o].status = "finished" \/ row[o].resolution)
    BY <1>1, <1>5, SMT DEF Prune, Row
  <2>2. Same(o)
    BY <1>1, <2>1, SameRecord DEF Decided, Final
  <2> QED BY <1>2, <2>1, <2>2, SavesStutter
<1>6. ASSUME NEW d \in Docs, NEW e \in Edits, Edit(d, e)
      PROVE  Saves!Edit(d)
  <2>1. row' = row /\ doc' = [doc EXCEPT ![d] = e]
    BY <1>6 DEF Edit
  <2>2. \A x \in Ops : Same(x)
    BY <1>2, <2>1
  <2>3. [x \in Ops |-> SavePhase(x)]' = [x \in Ops |-> SavePhase(x)]
    BY <2>2, Zenon DEF Same
  <2>4. [x \in Ops |-> HeldBase(x)]' = [x \in Ops |-> HeldBase(x)]
    BY <2>2, Zenon DEF Same
  <2>5. [x \in Ops |-> Decision(x)]' = [x \in Ops |-> Decision(x)]
    BY <2>2, Zenon DEF Same
  <2>6. [x \in Ops |-> Final(x)]' = [x \in Ops |-> Final(x)]
    BY <2>2, Zenon DEF Same
  <2> QED BY <2>1, <2>3, <2>4, <2>5, <2>6, Zenon DEF Saves!Edit
<1> QED BY <1>3, <1>4, <1>5, <1>6

LEMMA SavesStep ==
    ASSUME SaveInv, SaveInv', [Next]_vars
    PROVE  [Saves!Next]_(Saves!vars)
<1>1. CASE UNCHANGED vars
  <2>1. UNCHANGED <<doc, lock, journal, backup, archive, observed, ckpt, row, agent>>
    BY <1>1 DEF vars, sidecarVars, proofVars
  <2>2. \A x \in Ops : Same(x)
    BY <2>1, SameRecord DEF Decided, Final
  <2> QED BY <2>1, <2>2, SavesStutter
<1>2. ASSUME NEW a \in Agents, Working(a)
      PROVE  Saves!Next \/ UNCHANGED Saves!vars
  <2>1. PICK o \in Ops : o = agent[a].op
    BY <1>2, Others, AtStep DEF SaveInv, SetInv, WholeInv, Attended
  <2>2. CASE ArmJournal(a) /\ journal' # journal
    BY <2>1, <2>2, SavesHold, Zenon DEF Saves!Next
  <2>3. CASE (Save(a) \/ Restore(a)) /\ doc' # doc
    <3>1. \E d \in Files(o) : Saves!Save(o, d) \/ Saves!Restore(o, d)
      BY <2>1, <2>3, SavesSave
    <3> QED BY <3>1, Zenon DEF Saves!Next
  <2>4. CASE Checkpoint(a)
    BY <2>1, <2>4, SavesDecide, Zenon DEF Saves!Next
  <2>5. CASE Finish(a)
    BY <2>1, <2>5, SavesReport, Zenon DEF Saves!Next
  <2>6. doc' = doc \/ Save(a) \/ Restore(a)
    BY <1>2, Changes DEF SaveInv, SetInv, WholeInv, Attended
  <2> QED BY <1>2, <2>2, <2>3, <2>4, <2>5, <2>6, SavesQuiet
<1>3. CASE \/ \E a \in Agents, o \in Ops : Confirm(a, o) \/ ResolveBegin(a, o)
           \/ \E o \in Ops : Prune(o)
           \/ \E d \in Docs, e \in Edits : Edit(d, e)
  BY <1>3, SavesOutside, Zenon DEF Saves!Next
<1> QED BY <1>1, <1>2, <1>3 DEF Next, Working

\* While one resolution runs at a time, every behaviour of the transactions,
\* their processes, resolves and editors is one of the abstract set saves.
THEOREM SetSavesImplemented == OneResolver => (Spec => ImplementsSetSaves)
<1>1. SaveInv /\ SaveInv' /\ [Next]_vars => [Saves!Next]_(Saves!vars)
  BY SavesStep
<1> QED BY <1>1, SavesInit, SaveAlways, PTL DEF Spec, ImplementsSetSaves, Saves!Spec

=============================================================================
