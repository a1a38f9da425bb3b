----------------------- MODULE DocumentCleanupProofs -----------------------
(***************************************************************************)
(* The deletions of DocumentTransaction: what is left of an operation, and *)
(* that an interrupted cleanup can always be resumed.  The first holds for *)
(* overlapping sets too, the second needs sets that do not overlap; both   *)
(* need that only one resolution runs at a time.                           *)
(***************************************************************************)
EXTENDS DocumentProofs

-----------------------------------------------------------------------------
(* What is left of an operation.                                            *)

Present(o, path) == Holder(o, path) = o

\* Where an operation puts its sidecars, whatever its baseline.
Places(o) ==
    ({"backup"} \X Files(o)) \union ({"lock"} \X Members(o))
    \union {<<"journal", PrimaryOf[o]>>}

\* No sidecar is left; they lie where the operation puts them; the first n paths
\* of its cleanup are gone.
Clear(o)    == \A p \in Paths : ~Present(o, p)
InPlace(o)  == \A p \in Paths : Present(o, p) => p \in Places(o)
Swept(o, n) == \A i \in 1..n : ~Present(o, CleanupPaths(o)[i])

PathCount(o) == Len(CleanupPaths(o))

\* What a failed undo of arm leaves: no backup without the target's lock, which
\* stops the next arm before it makes anything.
Waits(o) == \A d \in Docs : <<o, d>> \in backup => lock[PrimaryOf[o]] = o

\* A backup is of a document that existed.
Backed(o) == \A d \in Docs : <<o, d>> \in backup => Baseline(o)[d] # Absent

Closed(o) == row[o].status = "finished" \/ row[o].resolution

\* A closed operation has no sidecar, and a checkpoint claims no deletion that
\* has not happened.
LeftOf(o) ==
    /\ InPlace(o)
    /\ row[o].status = "planned" => Waits(o)
    /\ Closed(o) => Clear(o)
    /\ journal[PrimaryOf[o]] = o \/ ckpt[o].phase # "none" => Backed(o)
    /\ ckpt[o].phase # "none" =>
          ckpt[o].cursor <= PathCount(o) /\ Swept(o, ckpt[o].cursor)

\* The same for the cursor in memory; arm knows its backups, and after a cleanup
\* there is no sidecar.
LeftAt(a) ==
    LET o == agent[a].op IN
    /\ Writer(a) /\ agent[a].pc \in EarlyPCs \union {"refused"} => Waits(o)
    /\ Writer(a) /\ agent[a].pc \in ArmPCs =>
          /\ Backed(o)
          /\ \A d \in Docs : <<o, d>> \in backup => <<"backup", d>> \in agent[a].made
    /\ agent[a].pc = "deleting" => agent[a].i <= PathCount(o) /\ Swept(o, agent[a].i)
    /\ agent[a].pc = "unlinking" => agent[a].i < PathCount(o) /\ Swept(o, agent[a].i)
    /\ agent[a].pc = "unlinked" => /\ agent[a].i < PathCount(o)
                                   /\ Swept(o, agent[a].i + 1)
    /\ agent[a].pc \in {"completed", "restored", "resolved"} => Clear(o)

CleanInv ==
    /\ SetInv
    /\ \A o \in Ops : LeftOf(o)
    /\ \A a \in Agents : LeftAt(a)

\* Where arm makes sidecars.
MakingPCs == {"unlocked", "arming", "checked"}

\* A path the cleanup lists is a sidecar of the operation.
LEMMA SidecarPaths ==
    ASSUME NEW o \in Ops
    PROVE  /\ Sidecars(o) \subseteq Paths
           /\ PathCount(o) \in Nat
           /\ DOMAIN CleanupPaths(o) = 1..PathCount(o)
           /\ \A i \in 1..PathCount(o) : CleanupPaths(o)[i] \in Sidecars(o)
<1>1. Members(o) \subseteq Docs /\ Files(o) \subseteq Docs /\ PrimaryOf[o] \in Docs
  BY ConstantFacts
<1>2. Sidecars(o) \subseteq Paths
  BY <1>1 DEF Sidecars, Paths, HadFiles
<1>3. \A i \in 1..PathCount(o) : CleanupPaths(o)[i] \in Sidecars(o)
  BY PathsCover, ElementOfSeq DEF PathCount
<1>4. PathCount(o) \in Nat /\ DOMAIN CleanupPaths(o) = 1..PathCount(o)
  BY PathsCover, LenProperties DEF PathCount
<1> QED BY <1>2, <1>3, <1>4

\* A cleanup that has gone through its paths has left nothing.
LEMMA SweptClears ==
    ASSUME NEW o \in Ops, InPlace(o), Backed(o), Swept(o, PathCount(o))
    PROVE  Clear(o)
<1> SUFFICES ASSUME NEW p \in Paths, Present(o, p) PROVE FALSE
  BY DEF Clear
<1>1. p \in Sidecars(o)
  <2>1. p \in Places(o) /\ p[2] \in Docs /\ p[1] \in {"backup", "lock", "journal"}
        /\ p = <<p[1], p[2]>>
    BY DEF InPlace, Paths
  <2>2. CASE p[1] = "backup"
    <3>1. p[2] \in Files(o)
      BY <2>1, <2>2 DEF Places
    <3>2. <<o, p[2]>> \in backup \/ o = None
      BY <2>2 DEF Present, Holder
    <3>3. Baseline(o)[p[2]] # Absent
      BY <2>1, <3>2, ConstantFacts DEF Backed
    <3> QED BY <2>1, <2>2, <3>1, <3>3 DEF Sidecars, HadFiles
  <2> QED BY <2>1, <2>2 DEF Places, Sidecars
<1>2. PICK i \in 1..PathCount(o) : CleanupPaths(o)[i] = p
  BY <1>1, PathsCover DEF PathCount
<1> QED BY <1>2 DEF Swept

\* A path of an operation is no longer one than its baseline.
LEMMA PathsStay ==
    ASSUME NEW o \in Ops, Baseline(o)' = Baseline(o)
    PROVE  /\ CleanupPaths(o)' = CleanupPaths(o) /\ PathCount(o)' = PathCount(o)
           /\ Sidecars(o)' = Sidecars(o)
<1>1. HadBytes(o)' = HadBytes(o)
  BY DEF HadBytes
<1>2. CleanupPaths(o)' = CleanupPaths(o)
  BY <1>1 DEF CleanupPaths, Tagged, Files
<1>3. Sidecars(o)' = Sidecars(o)
  BY DEF Sidecars, HadFiles, Members, Files
<1> QED BY <1>2, <1>3 DEF PathCount

\* What sidecars say is what is present.
LEMMA PresentFacts ==
    ASSUME SetInv, NEW o \in Ops
    PROVE  \A d \in Docs : /\ Present(o, <<"lock", d>>) <=> lock[d] = o
                           /\ Present(o, <<"journal", d>>) <=> journal[d] = o
                           /\ Present(o, <<"backup", d>>) <=> <<o, d>> \in backup
                           /\ {"backup", "lock", "journal"} \X {d} \subseteq Paths
  BY ConstantFacts DEF Present, Holder, Paths

\* A removal makes nothing appear.
LEMMA RemovalKeeps ==
    ASSUME SetInv, NEW w \in Ops, NEW path \in Paths, Remove(w, path),
           NEW o \in Ops, NEW p \in Paths, Present(o, p)'
    PROVE  Present(o, p)
<1>1. /\ p[2] \in Docs /\ p[1] \in {"backup", "lock", "journal"}
      /\ path[2] \in Docs /\ path[1] \in {"backup", "lock", "journal"}
      /\ lock \in [Docs -> Ops \union {None}] /\ journal \in [Docs -> Ops \union {None}]
      /\ None \notin Ops
  BY ConstantFacts DEF Paths, SetInv, WholeInv, Attended, Typed, TypeOK
<1>2. /\ lock'[p[2]] = o => lock[p[2]] = o
      /\ journal'[p[2]] = o => journal[p[2]] = o
      /\ backup' \subseteq backup
  BY <1>1 DEF Remove
<1>3. CASE p[1] = "lock"
  BY <1>1, <1>2, <1>3 DEF Present, Holder
<1>4. CASE p[1] = "journal"
  BY <1>1, <1>2, <1>4 DEF Present, Holder
<1>5. CASE p[1] = "backup"
  BY <1>1, <1>2, <1>5 DEF Present, Holder
<1> QED BY <1>1, <1>3, <1>4, <1>5

\* Only arm makes sidecars, and only of the operation of its process.
LEMMA NoneAppears ==
    ASSUME SetInv, NEW a \in Agents, Working(a), NEW o \in Ops,
           o # agent[a].op \/ agent[a].pc \notin MakingPCs,
           NEW p \in Paths, Present(o, p)'
    PROVE  Present(o, p)
<1>1. /\ p[2] \in Docs /\ p[1] \in {"backup", "lock", "journal"} /\ None \notin Ops
      /\ Typed /\ agent \in [Agents -> Process] /\ agent[a].op \in Ops
  BY ConstantFacts, Others, AtStep
  DEF Paths, SetInv, WholeInv, Attended, Typed, TypeOK
<1>2. CASE o # agent[a].op
  <2>1. /\ lock'[p[2]] = o <=> lock[p[2]] = o
        /\ journal'[p[2]] = o <=> journal[p[2]] = o
        /\ <<o, p[2]>> \in backup' <=> <<o, p[2]>> \in backup
    BY <1>1, <1>2, OwnSidecars
  <2>2. CASE p[1] = "lock"
    BY <2>1, <2>2 DEF Present, Holder
  <2>3. CASE p[1] = "journal"
    BY <2>1, <2>3 DEF Present, Holder
  <2>4. CASE p[1] = "backup"
    BY <1>1, <2>1, <2>4 DEF Present, Holder
  <2> QED BY <1>1, <2>2, <2>3, <2>4
<1>3. CASE UNCHANGED sidecarVars
  BY <1>1, <1>3 DEF sidecarVars, Present, Holder
<1>4. CASE ArmUndo(a) \/ Unlink(a)
  <2>1. UNCHANGED sidecarVars \/ \E path \in Paths : Remove(agent[a].op, path)
    BY <1>1, <1>4, OwnRemoval
  <2> QED BY <1>1, <1>3, <2>1, RemovalKeeps
<1>5. CASE agent[a].pc \notin MakingPCs
  <2>1. ~ArmPrimary(a) /\ ~ArmLock(a) /\ ~ArmBackup(a) /\ ~ArmJournal(a)
    BY <1>5 DEF MakingPCs, ArmPrimary, ArmLock, ArmBackup, ArmJournal
  <2>2. ArmFails(a) \/ UndoFails(a) => UNCHANGED sidecarVars
    BY DEF ArmFails, UndoFails
  <2> QED BY <1>1, <1>3, <1>4, <2>1, <2>2, Changes DEF Arming
<1> QED BY <1>2, <1>5

\* A process that has made a decision, or works on another operation, makes no
\* sidecar of this one.
LEMMA SweepKept ==
    ASSUME SetInv, NEW a \in Agents, Working(a), NEW o \in Ops,
           \/ o # agent[a].op
           \/ agent[a].pc \notin MakingPCs
           \/ ckpt[o].phase # "none"
    PROVE  /\ Clear(o) => Clear(o)'
           /\ InPlace(o) => InPlace(o)'
           /\ \A n \in Nat : n <= PathCount(o) /\ Swept(o, n) => Swept(o, n)'
           /\ PathCount(o)' = PathCount(o)
<1>1. Baseline(o)' = Baseline(o)
  BY OwnRecords DEF Baseline, SetInv, WholeInv, Attended
<1>2. o # agent[a].op \/ agent[a].pc \notin MakingPCs
  <2> SUFFICES ASSUME o = agent[a].op, agent[a].pc \in MakingPCs PROVE ckpt[o].phase = "none"
    OBVIOUS
  <2>1. Writer(a)
    BY DEF SetInv, WholeInv, Attended, ModeAt, EarlyPCs, ArmPCs, MakingPCs, Writer, Live
  <2> QED BY <2>1 DEF SetInv, WholeInv, WholeAt, UndecidedPCs, EarlyPCs, ArmPCs, MakingPCs
<1>3. \A p \in Paths : Present(o, p)' => Present(o, p)
  BY <1>2, NoneAppears
<1>4. CleanupPaths(o)' = CleanupPaths(o) /\ PathCount(o)' = PathCount(o)
  BY <1>1, PathsStay
<1>5. ASSUME NEW n \in Nat, n <= PathCount(o), Swept(o, n) PROVE Swept(o, n)'
  <2> SUFFICES ASSUME NEW i \in 1..n, Present(o, CleanupPaths(o)[i])' PROVE FALSE
    BY DEF Swept
  <2>1. i \in 1..PathCount(o) /\ CleanupPaths(o)[i] \in Paths
    BY <1>5, SidecarPaths
  <2>2. PICK p \in Paths : p = CleanupPaths(o)[i]
    BY <2>1
  <2>3. Present(o, p)'
    BY <1>4, <2>2 DEF Present, Holder
  <2> QED BY <1>3, <1>5, <2>2, <2>3 DEF Swept
<1>6. InPlace(o) => InPlace(o)'
  BY <1>3 DEF InPlace, Places, Members, Files, Paths
<1>7. Clear(o) => Clear(o)'
  BY <1>3 DEF Clear, Paths
<1> QED BY <1>4, <1>5, <1>6, <1>7

\* At the start nothing has a sidecar and no cleanup is under way.
LEMMA CleanInit == OneResolver /\ Init => CleanInv
<1> SUFFICES ASSUME OneResolver, Init PROVE CleanInv
  OBVIOUS
<1>1. \A a \in Agents : agent[a].pc = "idle"
  BY SMT DEF Init
<1>2. ASSUME NEW o \in Ops PROVE Clear(o) /\ Waits(o) /\ Backed(o) /\ ckpt[o].phase = "none"
  <2>1. /\ \A d \in Docs : lock[d] # o /\ journal[d] # o /\ <<o, d>> \notin backup
        /\ ckpt[o].phase = "none"
    BY <1>2, ConstantFacts, SMT DEF Init
  <2> QED BY <2>1, ConstantFacts DEF Clear, Present, Holder, Paths, Waits, Backed
<1>3. \A o \in Ops : LeftOf(o)
  BY <1>2 DEF LeftOf, InPlace, Clear
<1> QED BY <1>1, <1>3, SetInit DEF CleanInv, LeftAt, Writer, Live, ArmPCs


\* How a process moves the cursor of the checkpoint, and what it records there.
Recorded(o, n, held) == ckpt'[o].cursor = n /\ ckpt'[o].held = held

LEMMA CheckpointCursor ==
    ASSUME Typed, NEW a \in Agents, Working(a), NEW o \in Ops, o = agent[a].op
    PROVE  \/ /\ ckpt'[o] = ckpt[o]
              /\ ~Checkpoint(a) /\ ~Acknowledge(a) /\ ~Cleaned(a)
              /\ Intend(a) => Raise(a) \/ agent[a].pending
           \/ /\ Checkpoint(a) /\ ~ckpt'[o].pending
              /\ Recorded(o, 0, [i \in DOMAIN CleanupPaths(o) |->
                                    Holder(o, CleanupPaths(o)[i])])
           \/ Intend(a) /\ Recorded(o, agent[a].i, agent[a].held) /\ ckpt'[o].pending
           \/ /\ Acknowledge(a) /\ ~ckpt'[o].pending
              /\ Recorded(o, agent[a].i + 1, agent[a].held)
           \/ Cleaned(a) /\ Recorded(o, agent[a].i, agent[a].held) /\ ~ckpt'[o].pending
<1> DEFINE now == [i \in DOMAIN CleanupPaths(o) |-> Holder(o, CleanupPaths(o)[i])]
<1> HIDE DEF now
<1>1. ckpt \in [Ops -> Progress]
  BY DEF Typed, TypeOK
<1>2. CASE ~(Checkpoint(a) \/ Intend(a) \/ Acknowledge(a) \/ Cleaned(a))
  BY <1>2, Changes
<1>3. CASE Checkpoint(a) \/ Intend(a) \/ Acknowledge(a) \/ Cleaned(a)
  <2> DEFINE r(p, n, h) == [phase |-> p, cursor |-> n, pending |-> FALSE, held |-> h]
             s(n, h) == [phase |-> "cleaning", cursor |-> n, pending |-> TRUE, held |-> h]
  <2>1. /\ Checkpoint(a) => ckpt' = [ckpt EXCEPT ![o] = r("cleaning", 0, now)]
        /\ Acknowledge(a) => ckpt' = [ckpt EXCEPT ![o] =
                                r("cleaning", agent[a].i + 1, agent[a].held)]
        /\ Intend(a) => \/ ckpt' = ckpt /\ (Raise(a) \/ agent[a].pending)
                        \/ ckpt' = [ckpt EXCEPT ![o] =
                                s(agent[a].i, agent[a].held)]
        /\ Cleaned(a) => ckpt' = [ckpt EXCEPT ![o] =
                                r("cleaned", agent[a].i, agent[a].held)]
    BY Zenon DEF Checkpoint, Acknowledge, Intend, Cleaned, Persist, now
  <2>2. \A p, n, h : /\ r(p, n, h).cursor = n /\ r(p, n, h).held = h
                     /\ s(n, h).cursor = n /\ s(n, h).held = h
    BY SMT
  <2>3. \A p, n, h : s(n, h).pending /\ ~r(p, n, h).pending
    BY SMT
  <2> HIDE DEF r, s
  <2>4. ASSUME NEW q, ckpt' = [ckpt EXCEPT ![o] = q] PROVE ckpt'[o] = q
    BY <1>1, <2>4
  <2>5. CASE Checkpoint(a)
    <3>1. ckpt'[o] = r("cleaning", 0, now)
      BY <2>1, <2>4, <2>5
    <3>2. Recorded(o, 0, now)
      BY <2>2, <3>1 DEF Recorded
    <3> QED BY <2>3, <2>5, <3>1, <3>2, Zenon DEF now
  <2>6. CASE Acknowledge(a)
    <3>1. ckpt'[o] = r("cleaning", agent[a].i + 1, agent[a].held)
      BY <2>1, <2>4, <2>6
    <3>2. Recorded(o, agent[a].i + 1, agent[a].held)
      BY <2>2, <3>1 DEF Recorded
    <3> QED BY <2>3, <2>6, <3>1, <3>2, Zenon
  <2>7. CASE Cleaned(a)
    <3>1. ckpt'[o] = r("cleaned", agent[a].i, agent[a].held)
      BY <2>1, <2>4, <2>7
    <3>2. Recorded(o, agent[a].i, agent[a].held)
      BY <2>2, <3>1 DEF Recorded
    <3> QED BY <2>3, <2>7, <3>1, <3>2, Zenon
  <2>8. CASE Intend(a)
    <3>1. ~Checkpoint(a) /\ ~Acknowledge(a) /\ ~Cleaned(a)
      <4>1. agent[a].i \in Nat /\ agent[a].pc = "deleting"
        BY <2>8, AtStep DEF Intend
      <4>2. agent[a].i < Len(CleanupPaths(o))
        BY <2>8 DEF Intend
      <4>3. agent[a].i # Len(CleanupPaths(o))
        <5>1. Len(CleanupPaths(o)) \in Nat
          BY PathsCover
        <5> QED BY <4>1, <4>2, <5>1
      <4> QED BY <4>1, <4>3 DEF Checkpoint, Acknowledge, Cleaned
    <3>2. CASE ckpt' = ckpt /\ (Raise(a) \/ agent[a].pending)
      BY <2>8, <3>1, <3>2, Zenon
    <3>3. CASE ckpt' = [ckpt EXCEPT ![o] = s(agent[a].i, agent[a].held)]
      <4>1. ckpt'[o] = s(agent[a].i, agent[a].held)
        BY <2>4, <3>3
      <4>2. Recorded(o, agent[a].i, agent[a].held)
        BY <2>2, <4>1 DEF Recorded
      <4> QED BY <2>3, <2>8, <4>1, <4>2, Zenon
    <3> QED BY <2>1, <2>8, <3>2, <3>3, Zenon
  <2> QED BY <1>3, <2>5, <2>6, <2>7, <2>8
<1> QED BY <1>2, <1>3

\* The other processes: nothing they have deleted comes back.
LEMMA LeftOthers ==
    ASSUME CleanInv, NEW a \in Agents, Working(a), NEW b \in Agents \ {a}
    PROVE  LeftAt(b)'
<1>1. /\ agent'[b] = agent[b] /\ Live(a) /\ Typed /\ SetInv /\ LeftAt(b) /\ SetAt(b)
      /\ WholeAt(b)
  BY Others DEF CleanInv, SetInv, WholeInv, Attended, Live
<1>2. CASE ~Live(b)
  BY <1>1, <1>2 DEF LeftAt, Writer, Live
<1>3. CASE Live(b)
  <2> SUFFICES ASSUME NEW o \in Ops, o = agent[b].op
               PROVE  LeftAt(b)'
    BY <1>1, <1>3, AtStep DEF Live
  <2>1. agent[b].i \in Nat /\ o # agent[a].op /\ PrimaryOf[o] \in Docs
    BY <1>1, <1>3, AtStep, Sole, ConstantFacts DEF Live
  <2>2. /\ Clear(o) => Clear(o)'
        /\ \A n \in Nat : n <= PathCount(o) /\ Swept(o, n) => Swept(o, n)'
        /\ PathCount(o)' = PathCount(o) /\ PathCount(o) \in Nat
    BY <1>1, <2>1, SweepKept, SidecarPaths
  <2>3. /\ Waits(o) => Waits(o)'
        /\ Backed(o) => Backed(o)'
        /\ \A d \in Docs : <<o, d>> \in backup' <=> <<o, d>> \in backup
    <3>1. \A d \in Docs : /\ lock'[d] = o <=> lock[d] = o
                          /\ <<o, d>> \in backup' <=> <<o, d>> \in backup
      BY <1>1, <2>1, OwnSidecars
    <3>2. Baseline(o)' = Baseline(o)
      BY <1>1, OwnRecords DEF Baseline
    <3> QED BY <2>1, <3>1, <3>2 DEF Waits, Backed
  <2>4. CASE agent[b].pc \notin DecidedPCs
    BY <1>1, <2>3, <2>4 DEF LeftAt, DecidedPCs, Writer, Live, Waits, Backed
  <2>5. CASE agent[b].pc \in DecidedPCs
    <3>0. agent[b].pc \notin EarlyPCs \union {"refused"}
      BY <2>5 DEF DecidedPCs, EarlyPCs, ArmPCs
    <3>3. CASE agent[b].pc = "deleting"
      <4>1. agent[b].i <= PathCount(o) /\ Swept(o, agent[b].i)
        BY <1>1, <3>3 DEF LeftAt
      <4>2. Swept(agent[b].op, agent[b].i)' /\ agent[b].i <= PathCount(o)'
        BY <1>1, <2>1, <2>2, <4>1
      <4> QED BY <1>1, <3>0, <3>3, <4>2 DEF LeftAt, EarlyPCs
    <3>4. CASE agent[b].pc = "unlinking"
      <4>1. agent[b].i < PathCount(o) /\ Swept(o, agent[b].i)
        BY <1>1, <3>4 DEF LeftAt
      <4>2. Swept(agent[b].op, agent[b].i)' /\ agent[b].i < PathCount(o)'
        BY <1>1, <2>1, <2>2, <4>1
      <4> QED BY <1>1, <3>0, <3>4, <4>2 DEF LeftAt, EarlyPCs
    <3>5. CASE agent[b].pc = "unlinked"
      <4>1. agent[b].i < PathCount(o) /\ Swept(o, agent[b].i + 1)
        BY <1>1, <3>5 DEF LeftAt
      <4>2. agent[b].i + 1 \in Nat /\ agent[b].i + 1 <= PathCount(o)
        BY <2>1, <2>2, <4>1
      <4>3. Swept(agent[b].op, agent[b].i + 1)' /\ agent[b].i < PathCount(o)'
        BY <1>1, <2>2, <4>1, <4>2
      <4> QED BY <1>1, <3>0, <3>5, <4>3 DEF LeftAt, EarlyPCs
    <3>6. CASE agent[b].pc \in {"completed", "restored", "resolved"}
      <4>1. Clear(o)
        BY <1>1, <3>6 DEF LeftAt
      <4>2. Clear(agent[b].op)'
        BY <1>1, <2>2, <4>1
      <4> QED BY <1>1, <3>0, <3>6, <4>2 DEF LeftAt, EarlyPCs
    <3> QED BY <2>5, <3>3, <3>4, <3>5, <3>6 DEF DecidedPCs
  <2> QED BY <2>4, <2>5
<1> QED BY <1>2, <1>3

\* Unlink leaves no sidecar at its path.
LEMMA Unlinked ==
    ASSUME SetInv, NEW a \in Agents, Unlink(a), NEW o \in Ops, o = agent[a].op,
           NEW p \in Paths, p = CleanupPaths(o)[agent[a].i + 1]
    PROVE  ~Present(o, p)'
<1>1. /\ p[2] \in Docs /\ p[1] \in {"backup", "lock", "journal"}
      /\ lock \in [Docs -> Ops \union {None}] /\ journal \in [Docs -> Ops \union {None}]
      /\ None \notin Ops
  BY ConstantFacts DEF Paths, SetInv, WholeInv, Attended, Typed, TypeOK
<1>2. \/ Holder(o, p) = None /\ UNCHANGED sidecarVars
      \/ Remove(o, p)
  BY DEF Unlink
<1>3. CASE p[1] = "lock"
  BY <1>1, <1>2, <1>3 DEF Present, Holder, Remove, sidecarVars
<1>4. CASE p[1] = "journal"
  BY <1>1, <1>2, <1>4 DEF Present, Holder, Remove, sidecarVars
<1>5. CASE p[1] = "backup"
  <2>1. Present(o, p)' <=> <<o, p[2]>> \in backup'
    BY <1>1, <1>5 DEF Present, Holder
  <2>2. Holder(o, p) = None => <<o, p[2]>> \notin backup
    BY <1>1, <1>5 DEF Holder
  <2> QED BY <1>1, <1>2, <1>5, <2>1, <2>2 DEF Remove, sidecarVars
<1> QED BY <1>1, <1>3, <1>4, <1>5

\* A process adds a backup only in arm, of a document that existed, and lists it.
LEMMA BackupsMade ==
    ASSUME SetInv, NEW a \in Agents, Working(a), NEW o \in Ops, o = agent[a].op,
           NEW d \in Docs, <<o, d>> \in backup', <<o, d>> \notin backup
    PROVE  /\ ArmBackup(a) /\ Baseline(o)[d] # Absent /\ lock' = lock
           /\ <<"backup", d>> \in agent'[a].made
           /\ lock[PrimaryOf[o]] = o
           /\ agent'[a].pc = "arming"
<1>1. /\ Typed /\ agent \in [Agents -> Process] /\ SetAt(a) /\ ModeAt(a) /\ Live(a)
  BY Others DEF SetInv, WholeInv, Attended, Typed, TypeOK, Live
<1>2. ~(ArmUndo(a) \/ Unlink(a))
  <2> SUFFICES ASSUME ArmUndo(a) \/ Unlink(a) PROVE FALSE
    OBVIOUS
  <2>1. UNCHANGED sidecarVars \/ \E path \in Paths : Remove(o, path)
    BY OwnRemoval
  <2> QED BY <2>1 DEF Remove, sidecarVars
<1>3. ArmBackup(a)
  BY <1>1, <1>2, Changes
  DEF Arming, ArmPrimary, ArmLock, ArmJournal, ArmFails, UndoFails, sidecarVars
<1>4. PICK e : e = FilesOf[o][agent[a].i]
  OBVIOUS
<1>5. /\ Baseline(o)[e] # Absent /\ backup' = backup \union {<<o, e>>} /\ lock' = lock
      /\ GotoMade(a, "arming", agent[a].i + 1, agent[a].made \union {<<"backup", e>>})
  <2>1. Typed /\ ArmBackup(a) /\ o = agent[a].op /\ e = FilesOf[o][agent[a].i]
    BY <1>1, <1>3, <1>4
  <2>2. \/ UNCHANGED <<backup, spoilt>>
        \/ /\ Baseline(o)[e] # Absent /\ backup' = backup \union {<<o, e>>}
           /\ GotoMade(a, "arming", agent[a].i + 1, agent[a].made \union {<<"backup", e>>})
    BY <2>1, ArmBackupCases
  <2> QED BY <1>3, <2>2 DEF ArmBackup
<1>6. e = d
  BY <1>5
<1>7. agent'[a].pc = "arming" /\ agent'[a].made = agent[a].made \union {<<"backup", d>>}
  BY <1>1, <1>5, <1>6, Moves DEF Moved
<1>8. lock[PrimaryOf[o]] = o
  BY <1>1, <1>3 DEF ArmBackup, SetAt, Writer, ModeAt, EarlyPCs, ArmPCs, ArmedUpTo
<1> QED BY <1>3, <1>5, <1>6, <1>7, <1>8

\* Backups stay of documents that existed.
LEMMA BackedStays ==
    ASSUME SetInv, NEW a \in Agents, Working(a), NEW o \in Ops, o = agent[a].op, Backed(o)
    PROVE  Backed(o)'
<1>1. Baseline(o)' = Baseline(o)
  BY OwnRecords DEF Baseline, SetInv, WholeInv, Attended
<1> QED BY <1>1, BackupsMade DEF Backed

\* The undo of arm deletes the target's lock only when no backup is left.
LEMMA UndoLast ==
    ASSUME CleanInv, NEW a \in Agents, ArmUndo(a), NEW o \in Ops, o = agent[a].op,
           NEW d \in Docs, <<o, d>> \in backup
    PROVE  /\ lock'[PrimaryOf[o]] = lock[PrimaryOf[o]]
           /\ <<o, d>> \in backup' => <<"backup", d>> \in agent'[a].made
<1>1. /\ Typed /\ agent \in [Agents -> Process] /\ InPlace(o) /\ LeftAt(a) /\ Writer(a)
      /\ lock \in [Docs -> Ops \union {None}] /\ PrimaryOf[o] \in Docs
      /\ Len(FilesOf[o]) \in Nat /\ None \notin Ops
      /\ Files(o) = {FilesOf[o][i] : i \in 1..Len(FilesOf[o])}
  <2>1. Typed /\ ModeAt(a) /\ agent[a].pc = "undoing" /\ InPlace(o) /\ LeftAt(a)
    BY DEF CleanInv, LeftOf, SetInv, WholeInv, Attended, ArmUndo
  <2> QED BY <2>1, ConstantFacts DEF Files, Typed, TypeOK, ModeAt, EarlyPCs, ArmPCs, Writer, Live
<1>2. <<"backup", d>> \in agent[a].made
  BY <1>1 DEF ArmUndo, LeftAt, ArmPCs
<1>3. PICK k \in 1..Len(FilesOf[o]) : FilesOf[o][k] = d
  <2>1. <<"backup", d>> \in Paths /\ Present(o, <<"backup", d>>)
    BY DEF Paths, Present, Holder
  <2>2. d \in Files(o)
    BY <1>1, <2>1 DEF InPlace, Places
  <2> QED BY <1>1, <2>2
<1>4. PICK n \in DOMAIN UndoOrder(o), x \in {"refused", "undoing"} :
          /\ UndoOrder(o)[n] \in agent[a].made
          /\ \A m \in 1..(n - 1) : UndoOrder(o)[m] \notin agent[a].made
          /\ Remove(o, UndoOrder(o)[n])
          /\ GotoMade(a, x, agent[a].i, agent[a].made \ {UndoOrder(o)[n]})
  <2>1. Typed /\ ArmUndo(a) /\ o = agent[a].op
    BY <1>1
  <2> QED BY <2>1, ArmUndoCases
<1>5. k \in DOMAIN UndoOrder(o) /\ UndoOrder(o)[k] = <<"backup", d>>
  BY <1>3, UndoPaths
<1>6. n \in 1..(2 * Len(FilesOf[o]) + 1) /\ n <= k
  <2>1. n \in 1..(2 * Len(FilesOf[o]) + 1)
    BY <1>4, UndoPaths
  <2>2. k \notin 1..(n - 1)
    BY <1>2, <1>4, <1>5
  <2> QED BY <1>1, <2>1, <2>2
<1>7. PICK path : path = UndoOrder(o)[n]
  OBVIOUS
<1>8. path = <<"backup", FilesOf[o][n]>>
  <2>1. n \in 1..Len(FilesOf[o])
    BY <1>1, <1>6
  <2> QED BY <1>7, <2>1, UndoPaths
<1>9. lock' = lock /\ backup' = backup \ {<<o, FilesOf[o][n]>>}
  BY <1>4, <1>7, <1>8 DEF Remove
<1>10. agent'[a].made = agent[a].made \ {path}
  BY <1>1, <1>4, <1>7, Moves
<1> QED BY <1>2, <1>8, <1>9, <1>10

\* The guard and arm: what they may leave behind, and what they know of it.
LEMMA ArmLeft ==
    ASSUME CleanInv, NEW a \in Agents, GuardCheckpoints(a) \/ GuardLocks(a) \/ Arming(a),
           NEW o \in Ops, o = agent[a].op
    PROVE  /\ agent'[a].pc # "saving" => Waits(o)'
           /\ agent'[a].pc \in ArmPCs \union {"saving"} => Backed(o)'
           /\ agent'[a].pc \in ArmPCs => \A d \in Docs :
                 <<o, d>> \in backup' => <<"backup", d>> \in agent'[a].made
<1>1. Working(a)
  BY DEF Working, Step, Arming
<1>2. /\ Typed /\ agent \in [Agents -> Process] /\ SetInv /\ LeftAt(a) /\ ModeAt(a)
      /\ agent[a].pc \in EarlyPCs
      /\ lock \in [Docs -> Ops \union {None}] /\ PrimaryOf[o] \in Docs /\ None \notin Ops
  <2>1. Typed /\ SetInv /\ LeftAt(a) /\ ModeAt(a)
    BY DEF CleanInv, SetInv, WholeInv, Attended
  <2>2. agent[a].pc \in EarlyPCs
    BY DEF GuardCheckpoints, GuardLocks, Arming, ArmPrimary, ArmLock, ArmBackup,
           ArmJournal, ArmFails, ArmUndo, UndoFails, EarlyPCs, ArmPCs
  <2> QED BY <2>1, <2>2, ConstantFacts DEF Typed, TypeOK
<1>3. Writer(a) /\ Waits(o)
  BY <1>2 DEF ModeAt, LeftAt, Writer, Live, EarlyPCs, ArmPCs
<1>4. ASSUME NEW d \in Docs, <<o, d>> \in backup' PROVE lock'[PrimaryOf[o]] = o
  <2>1. CASE <<o, d>> \notin backup
    BY <1>1, <1>2, <1>4, <2>1, BackupsMade
  <2>2. CASE <<o, d>> \in backup
    <3>1. lock[PrimaryOf[o]] = o
      BY <1>3, <2>2 DEF Waits
    <3>2. CASE ArmUndo(a)
      BY <2>2, <3>1, <3>2, UndoLast
    <3>3. CASE ArmLock(a)
      <4>1. PICK e : e = FilesOf[o][agent[a].i]
        OBVIOUS
      <4>2. \/ lock' = lock
            \/ e \in Docs /\ e # PrimaryOf[o] /\ lock' = [lock EXCEPT ![e] = o]
        <5>1. Typed /\ ArmLock(a) /\ o = agent[a].op /\ e = FilesOf[o][agent[a].i]
          BY <1>2, <3>3, <4>1
        <5>2. e \in Docs
          BY <5>1, ArmLockCases
        <5>3. \/ UNCHANGED lock
              \/ lock' = IF e = PrimaryOf[o] THEN lock ELSE [lock EXCEPT ![e] = o]
          BY <5>1 DEF ArmLock
        <5> QED BY <5>2, <5>3
      <4> QED BY <1>2, <3>1, <4>2
    <3>4. CASE ArmPrimary(a)
      BY <1>2, <3>1, <3>4 DEF ArmPrimary
    <3>5. CASE ~ArmUndo(a) /\ ~ArmLock(a) /\ ~ArmPrimary(a)
      <4>1. lock' = lock
        BY <3>5 DEF GuardCheckpoints, GuardLocks, Arming, ArmBackup, ArmJournal,
                    ArmFails, UndoFails, sidecarVars
      <4> QED BY <3>1, <4>1
    <3> QED BY <3>2, <3>3, <3>4, <3>5
  <2> QED BY <2>1, <2>2
<1>5. Waits(o)'
  BY <1>4 DEF Waits
<1>6. ASSUME ArmPrimary(a), agent'[a].pc # "refused"
      PROVE  \A d \in Docs : <<o, d>> \notin backup'
  <2>1. ~Taken(PrimaryOf[o]) /\ backup' = backup
    BY <1>2, <1>6, Moves DEF ArmPrimary, Moved
  <2> QED BY <1>2, <1>3, <2>1 DEF Taken, Waits
<1>7. CASE ArmPrimary(a)
  BY <1>5, <1>6, <1>7 DEF Backed, ArmPCs
<1>8. CASE GuardCheckpoints(a) \/ GuardLocks(a)
  <2>1. agent'[a].pc \in {"guarded", "unlocked", "refused"}
    BY <1>2, <1>8, Moves DEF GuardCheckpoints, GuardLocks, Moved
  <2> QED BY <1>5, <2>1 DEF ArmPCs
<1>9. CASE ~ArmPrimary(a) /\ Arming(a)
  <2>1. agent[a].pc \in ArmPCs
    BY <1>9 DEF Arming, ArmLock, ArmBackup, ArmJournal, ArmFails, ArmUndo, UndoFails, ArmPCs
  <2>2. Backed(o) /\ \A d \in Docs : <<o, d>> \in backup => <<"backup", d>> \in agent[a].made
    BY <1>2, <1>3, <2>1 DEF LeftAt
  <2>3. Backed(o)'
    BY <1>1, <1>2, <2>2, BackedStays
  <2>4. ASSUME NEW d \in Docs, <<o, d>> \in backup' PROVE <<"backup", d>> \in agent'[a].made
    <3>1. CASE <<o, d>> \notin backup
      BY <1>1, <1>2, <2>4, <3>1, BackupsMade
    <3>2. CASE <<o, d>> \in backup /\ ArmUndo(a)
      BY <2>4, <3>2, UndoLast
    <3>3. CASE <<o, d>> \in backup /\ ~ArmUndo(a)
      <4>1. agent[a].made \subseteq agent'[a].made
        <5>1. CASE ArmLock(a)
          <6>1. PICK e : e = FilesOf[o][agent[a].i]
            OBVIOUS
          <6>2. \/ Goto(a, "undoing")
                \/ \E x \in {"checked", "undoing"} :
                      GotoMade(a, x, agent[a].i, agent[a].made \union {<<"lock", e>>})
            BY <1>2, <5>1, <6>1, ArmLockCases
          <6>3. CASE Goto(a, "undoing")
            BY <1>2, <6>3, Moves DEF KeepsMade
          <6>4. ASSUME NEW x, NEW made, GotoMade(a, x, agent[a].i, made)
                PROVE  agent'[a].made = made
            BY <1>2, <6>4, Moves
          <6> QED BY <6>2, <6>3, <6>4
        <5>2. CASE ArmBackup(a)
          <6>1. PICK e : e = FilesOf[o][agent[a].i]
            OBVIOUS
          <6>2. \/ Goto(a, "undoing") \/ GotoAt(a, "arming", agent[a].i + 1)
                \/ GotoMade(a, "arming", agent[a].i + 1,
                            agent[a].made \union {<<"backup", e>>})
            BY <1>2, <5>2, <6>1, ArmBackupCases
          <6>3. CASE Goto(a, "undoing") \/ GotoAt(a, "arming", agent[a].i + 1)
            BY <1>2, <6>3, Moves DEF KeepsMade
          <6>4. ASSUME NEW x, NEW n, NEW made, GotoMade(a, x, n, made)
                PROVE  agent'[a].made = made
            BY <1>2, <6>4, Moves
          <6> QED BY <6>2, <6>3, <6>4
        <5>3. CASE ArmJournal(a) \/ ArmFails(a) \/ UndoFails(a)
          <6>1. \E x : Goto(a, x) \/ GotoAt(a, x, 1)
            BY <5>3 DEF ArmJournal, ArmFails, UndoFails
          <6> QED BY <1>2, <6>1, Moves DEF KeepsMade
        <5> QED BY <1>9, <3>3, <5>1, <5>2, <5>3 DEF Arming
      <4> QED BY <2>2, <3>3, <4>1
    <3> QED BY <3>1, <3>2, <3>3
  <2> QED BY <1>5, <2>3, <2>4
<1> QED BY <1>7, <1>8, <1>9

\* The process itself: it knows what it has deleted.
LEMMA LeftOwn ==
    ASSUME CleanInv, NEW a \in Agents, Working(a)
    PROVE  LeftAt(a)'
<1> SUFFICES ASSUME NEW o \in Ops, o = agent[a].op
             PROVE  LeftAt(a)'
  BY Others, AtStep DEF CleanInv, SetInv, WholeInv, Attended
<1>1. /\ agent \in [Agents -> Process] /\ agent'[a].op = o /\ agent[a].i \in Nat
      /\ SetInv /\ Typed /\ LeftAt(a) /\ LeftOf(o) /\ SetAt(a) /\ ModeAt(a) /\ Live(a)
      /\ agent[a].mode = "resolve" <=> agent'[a].mode = "resolve"
      /\ agent[a].mode \in {"commit", "rollback", "resolve"}
      /\ PathCount(o) \in Nat
  BY Others, AtStep, SidecarPaths DEF CleanInv, SetInv, WholeInv, Attended, Typed, TypeOK, Live
<1>2. ASSUME agent'[a].pc \notin EarlyPCs \union {"refused", "deleting", "unlinking",
                                          "unlinked", "completed", "restored", "resolved"}
      PROVE  LeftAt(a)'
  BY <1>2 DEF LeftAt, EarlyPCs
<1>3. ASSUME NEW x, NEW i, Goto(a, x) \/ GotoAt(a, x, i),
             x \in {"saving", "failing", "restoring", "closing", "archiving", "uncertain",
                    "exited"}
      PROVE  LeftAt(a)'
  <2>1. agent'[a].pc = x
    BY <1>1, <1>3, Moves DEF Moved
  <2> QED BY <1>2, <1>3, <2>1 DEF EarlyPCs, ArmPCs
<1>4. ASSUME NEW x, Goto(a, x) PROVE agent'[a].pc = x /\ agent'[a].i = agent[a].i
  BY <1>1, <1>4, Moves DEF Moved
<1>6. ASSUME Raise(a) PROVE LeftAt(a)'
  <2>1. \/ agent[a].mode = "resolve" /\ Moved(a, "refused", agent[a].mode)
        \/ Moved(a, "uncertain", agent[a].mode)
    BY <1>1, <1>6, RaiseMoves
  <2>2. CASE agent[a].mode = "resolve" /\ Moved(a, "refused", agent[a].mode)
    BY <1>1, <2>2 DEF LeftAt, Writer, Moved, ArmPCs
  <2>3. CASE Moved(a, "uncertain", agent[a].mode)
    BY <1>2, <2>3 DEF Moved, EarlyPCs, ArmPCs
  <2> QED BY <2>1, <2>2, <2>3
<1>7. CASE GuardCheckpoints(a) \/ GuardLocks(a) \/ Arming(a)
  <2>1. agent'[a].pc \in EarlyPCs \union {"refused", "saving"}
    <3>1. CASE Arming(a)
      BY <1>1, <3>1, ArmMovesTo DEF Moved, EarlyPCs
    <3>2. CASE GuardCheckpoints(a) \/ GuardLocks(a)
      BY <1>4, <3>2 DEF GuardCheckpoints, GuardLocks, EarlyPCs
    <3> QED BY <1>7, <3>1, <3>2
  <2>2. /\ agent'[a].pc # "saving" => Waits(o)'
        /\ agent'[a].pc \in ArmPCs => Backed(o)'
        /\ agent'[a].pc \in ArmPCs => \A d \in Docs :
              <<o, d>> \in backup' => <<"backup", d>> \in agent'[a].made
    BY <1>7, ArmLeft
  <2>3. /\ agent'[a].pc # "saving" => Waits(agent[a].op)'
        /\ agent'[a].pc \in ArmPCs => Backed(agent[a].op)'
    BY <1>1, <2>2 DEF Waits, Backed, Baseline
  <2>4. CASE agent'[a].pc = "saving"
    BY <1>2, <2>4 DEF EarlyPCs, ArmPCs
  <2>5. CASE agent'[a].pc # "saving"
    BY <1>1, <2>1, <2>2, <2>3, <2>5 DEF LeftAt, EarlyPCs, ArmPCs
  <2> QED BY <2>4, <2>5
<1>11. CASE \/ Save(a) \/ Verify(a) \/ SaveFails(a) \/ Rollback(a) \/ Restore(a)
            \/ Restored(a) \/ RestoreFails(a)
  <2>1. CASE Save(a) \/ Verify(a) \/ SaveFails(a)
    BY <1>3, <2>1 DEF Save, Verify, SaveFails
  <2>2. CASE Rollback(a)
    <3>1. Raise(a) \/ Moved(a, "restoring", "rollback")
      BY <1>1, <2>2, RollbackMoves
    <3> QED BY <1>2, <1>6, <3>1 DEF Moved, EarlyPCs, ArmPCs
  <2>3. CASE Restore(a) \/ Restored(a) \/ RestoreFails(a)
    BY <1>3, <1>6, <2>3 DEF Restore, Restored, RestoreFails
  <2> QED BY <1>11, <2>1, <2>2, <2>3
<1>12. ASSUME agent[a].pc \notin MakingPCs
       PROVE  /\ Clear(o) => Clear(o)'
              /\ \A n \in Nat : n <= PathCount(o) /\ Swept(o, n) => Swept(o, n)'
              /\ PathCount(o)' = PathCount(o)
  BY <1>1, <1>12, SweepKept
<1>13. CASE CleanupBegin(a)
  <2>1. CASE Raise(a)
    BY <1>6, <2>1
  <2>2. CASE Goto(a, "archiving")
    BY <1>3, <2>2
  <2>3. CASE /\ ckpt[o].phase # "none"
             /\ Moved(a, "deleting", agent[a].mode)
             /\ agent'[a].i = ckpt[o].cursor
    <3>1. /\ ckpt[o].cursor \in Nat /\ ckpt[o].cursor <= PathCount(o)
          /\ Swept(o, ckpt[o].cursor)
      BY <1>1, <2>3 DEF LeftOf, Typed, TypeOK, Progress
    <3>2. PICK n \in Nat : n = ckpt[o].cursor
      BY <3>1
    <3>3. agent[a].pc \notin MakingPCs
      BY <1>13 DEF CleanupBegin, MakingPCs
    <3>4. Swept(agent[a].op, n)' /\ n <= PathCount(agent[a].op)'
      BY <1>1, <1>12, <3>1, <3>2, <3>3 DEF MakingPCs
    <3> QED BY <1>1, <2>3, <3>2, <3>4 DEF LeftAt, Moved, EarlyPCs, ArmPCs
  <2> QED BY <1>1, <1>13, <2>1, <2>2, <2>3, CleanupMoves
<1>14. CASE PublishArchive(a)
  <2>1. agent'[a].pc = "archiving"
    BY <1>14 DEF PublishArchive
  <2> QED BY <1>2, <2>1 DEF EarlyPCs, ArmPCs
<1>15. CASE Checkpoint(a)
  <2>1. agent'[a].pc = "deleting" /\ agent'[a].i = 0
    BY <1>1, <1>15, CleanupMoves DEF Moved
  <2>2. agent[a].pc \notin MakingPCs
    BY <1>15 DEF Checkpoint, MakingPCs
  <2>3. Swept(agent[a].op, 0)' /\ 0 <= PathCount(agent[a].op)'
    BY <1>1, <1>12, <2>2 DEF Swept
  <2> QED BY <1>1, <2>1, <2>3 DEF LeftAt, EarlyPCs, ArmPCs
<1>16. CASE Intend(a)
  <2>1. CASE Raise(a)
    BY <1>6, <2>1
  <2>2. CASE Moved(a, "unlinking", agent[a].mode) /\ agent'[a].i = agent[a].i
    <3>1. agent[a].pc = "deleting" /\ agent[a].i < PathCount(o)
      BY <1>16 DEF Intend, PathCount
    <3>2. Swept(o, agent[a].i)
      BY <1>1, <3>1 DEF LeftAt
    <3>3. PICK n \in Nat : n = agent[a].i
      BY <1>1
    <3>4. Swept(agent[a].op, n)' /\ n < PathCount(agent[a].op)'
      BY <1>1, <1>12, <3>1, <3>2, <3>3 DEF MakingPCs
    <3> QED BY <1>1, <2>2, <3>3, <3>4 DEF LeftAt, Moved, EarlyPCs, ArmPCs
  <2> QED BY <1>1, <1>16, <2>1, <2>2, CleanupMoves
<1>17. CASE Unlink(a)
  <2>1. /\ agent'[a].pc = "unlinked" /\ agent'[a].i = agent[a].i
        /\ agent[a].pc = "unlinking"
    BY <1>4, <1>17 DEF Unlink
  <2>2. agent[a].i < PathCount(o) /\ Swept(o, agent[a].i)
    BY <1>1, <2>1 DEF LeftAt
  <2>3. PICK n \in Nat : n = agent[a].i
    BY <1>1
  <2>4. /\ Swept(o, n)' /\ n < PathCount(o) /\ PathCount(o)' = PathCount(o)
        /\ n + 1 \in 1..PathCount(o)
    BY <1>1, <1>12, <2>1, <2>2, <2>3 DEF MakingPCs
  <2>5. PICK p \in Paths : p = CleanupPaths(o)[n + 1]
    BY <2>4, SidecarPaths
  <2>6. ~Present(o, p)'
    BY <1>1, <1>17, <2>3, <2>5, Unlinked
  <2>7. CleanupPaths(o)' = CleanupPaths(o)
    BY <1>1, OwnRecords, PathsStay DEF Baseline
  <2>8. ASSUME NEW k \in 1..(n + 1) PROVE ~Present(o, CleanupPaths(o)[k])'
    <3>1. k \in 1..n \/ k = n + 1
      OBVIOUS
    <3>2. CASE k \in 1..n
      BY <2>4, <3>2 DEF Swept
    <3>3. CASE k = n + 1
      <4>1. (CleanupPaths(o)[k])' = p
        BY <2>5, <2>7, <3>3
      <4> QED BY <2>6, <4>1 DEF Present
    <3> QED BY <3>1, <3>2, <3>3
  <2>9. Swept(agent[a].op, n + 1)' /\ n < PathCount(agent[a].op)'
    BY <1>1, <2>4, <2>8 DEF Swept
  <2> QED BY <1>1, <2>1, <2>3, <2>9 DEF LeftAt, EarlyPCs, ArmPCs
<1>18. CASE Acknowledge(a)
  <2>1. /\ agent'[a].pc = "deleting" /\ agent'[a].i = agent[a].i + 1
        /\ agent[a].pc = "unlinked"
    BY <1>1, <1>18, CleanupMoves DEF Moved, Acknowledge
  <2>2. agent[a].i < PathCount(o) /\ Swept(o, agent[a].i + 1)
    BY <1>1, <2>1 DEF LeftAt
  <2>3. PICK n \in Nat : n = agent[a].i + 1
    BY <1>1
  <2>4. Swept(agent[a].op, n)' /\ n <= PathCount(agent[a].op)'
    BY <1>1, <1>12, <2>1, <2>2, <2>3 DEF MakingPCs
  <2> QED BY <1>1, <2>1, <2>3, <2>4 DEF LeftAt, EarlyPCs, ArmPCs
<1>19. CASE Cleaned(a)
  <2>1. agent[a].pc = "deleting" /\ agent[a].i = PathCount(o)
    BY <1>19 DEF Cleaned, PathCount
  <2>2. Clear(o)
    <3>1. ckpt[o].phase # "none"
      BY <1>1, <2>1 DEF CleanInv, SetInv, WholeInv, WholeAt, DecidedPCs
    <3>2. InPlace(o) /\ Backed(o) /\ Swept(o, PathCount(o))
      BY <1>1, <2>1, <3>1 DEF LeftAt, LeftOf
    <3> QED BY <3>2, SweptClears
  <2>3. Clear(agent[a].op)'
    BY <1>1, <1>12, <2>1, <2>2 DEF MakingPCs
  <2>4. agent'[a].pc \in {"completed", "restored", "resolved"}
    BY <1>1, <1>4, <1>19 DEF Cleaned
  <2> QED BY <1>1, <2>3, <2>4 DEF LeftAt, EarlyPCs, ArmPCs
<1>20. CASE CleanupFails(a)
  BY <1>6, <1>20 DEF CleanupFails
<1>21. CASE \/ Undispatch(a) \/ Finish(a) \/ Resolve(a) \/ ResolveRefused(a) \/ Crash(a)
  BY <1>3, <1>21 DEF Undispatch, Finish, Resolve, ResolveRefused, Crash
<1> QED BY <1>7, <1>11, <1>13, <1>14, <1>15, <1>16, <1>17, <1>18, <1>19,
           <1>20, <1>21 DEF Working, Step, Arming


\* What arm makes is where its operation puts its sidecars.
LEMMA ArmInPlace ==
    ASSUME CleanInv, NEW a \in Agents, Arming(a), NEW o \in Ops, o = agent[a].op
    PROVE  InPlace(o)'
<1>1. /\ lock \in [Docs -> Ops \union {None}] /\ journal \in [Docs -> Ops \union {None}]
      /\ None \notin Ops /\ InPlace(o) /\ PrimaryOf[o] \in Docs /\ Working(a) /\ SetInv
      /\ Typed /\ agent[a].pc \notin {"idle", "exited"}
  <2>1. Working(a) /\ SetInv /\ Typed /\ InPlace(o)
    BY DEF Working, Step, Arming, CleanInv, LeftOf, SetInv, WholeInv, Attended
  <2> QED BY <2>1, Others, ConstantFacts
          DEF CleanInv, SetInv, WholeInv, Attended, Typed, TypeOK
<1>2. ASSUME NEW p \in Paths, Present(o, p)', ~Present(o, p) PROVE p \in Places(o)
  <2>0. p[1] \in {"backup", "lock", "journal"} /\ p[2] \in Docs /\ p = <<p[1], p[2]>>
    BY DEF Paths
  <2>1. agent[a].pc \in MakingPCs
    BY <1>1, <1>2, NoneAppears
  <2>2. CASE ArmPrimary(a)
    <3>1. p[1] = "lock" /\ p[2] = PrimaryOf[o]
      <4>1. /\ journal' = journal /\ backup' = backup
            /\ lock' = lock \/ lock' = [lock EXCEPT ![PrimaryOf[o]] = o]
        BY <2>2 DEF ArmPrimary
      <4> QED BY <1>1, <1>2, <2>0, <4>1 DEF Present, Holder
    <3> QED BY <2>0, <3>1 DEF Places, Members
  <2>3. CASE ArmLock(a)
    <3>1. PICK d : d = FilesOf[o][agent[a].i]
      OBVIOUS
    <3>2. Typed /\ ArmLock(a) /\ o = agent[a].op /\ d = FilesOf[o][agent[a].i]
      BY <1>1, <2>3, <3>1
    <3>3. d \in Files(o) /\ d \in Docs
      BY <3>2, ArmLockCases
    <3>4. /\ journal' = journal /\ backup' = backup
          /\ lock' = lock \/ lock' = [lock EXCEPT ![d] = o]
      BY <3>2 DEF ArmLock
    <3>5. p[1] = "lock" /\ p[2] = d
      BY <1>1, <1>2, <2>0, <3>3, <3>4 DEF Present, Holder
    <3> QED BY <2>0, <3>3, <3>5 DEF Places, Members
  <2>4. CASE ArmBackup(a)
    <3>1. lock' = lock /\ journal' = journal
      BY <2>4 DEF ArmBackup
    <3>2. p[1] = "backup" /\ <<o, p[2]>> \in backup' /\ <<o, p[2]>> \notin backup
      BY <1>1, <1>2, <2>0, <3>1 DEF Present, Holder
    <3>3. p[2] \in Files(o)
      <4>1. PICK d : d = FilesOf[o][agent[a].i]
        OBVIOUS
      <4>2. Typed /\ ArmBackup(a) /\ o = agent[a].op /\ d = FilesOf[o][agent[a].i]
        BY <1>1, <2>4, <4>1
      <4>3. d \in Files(o)
        BY <4>2, ArmBackupCases
      <4>4. backup' = backup \/ backup' = backup \union {<<o, d>>}
        BY <4>2 DEF ArmBackup
      <4> QED BY <3>2, <4>3, <4>4
    <3> QED BY <2>0, <3>2, <3>3 DEF Places
  <2>5. CASE ArmJournal(a)
    <3>1. p[1] = "journal" /\ p[2] = PrimaryOf[o]
      <4>1. /\ lock' = lock /\ backup' = backup
            /\ journal' = journal \/ journal' = [journal EXCEPT ![PrimaryOf[o]] = o]
        BY <2>5 DEF ArmJournal
      <4> QED BY <1>1, <1>2, <2>0, <4>1 DEF Present, Holder
    <3> QED BY <2>0, <3>1 DEF Places
  <2>6. CASE ArmFails(a) \/ ArmUndo(a) \/ UndoFails(a)
    <3>1. ~ArmUndo(a) /\ ~UndoFails(a)
      BY <2>1 DEF ArmUndo, UndoFails, MakingPCs
    <3>2. UNCHANGED sidecarVars
      BY <2>6, <3>1 DEF ArmFails
    <3> QED BY <1>2, <3>2 DEF sidecarVars, Present, Holder
  <2> QED BY <2>2, <2>3, <2>4, <2>5, <2>6 DEF Arming
<1> QED BY <1>1, <1>2 DEF InPlace, Places, Members, Files, Paths

\* The operations of other processes are as they were.
LEMMA LeftOfOthers ==
    ASSUME CleanInv, NEW a \in Agents, Working(a), NEW o \in Ops, o # agent[a].op
    PROVE  LeftOf(o)'
<1>1. /\ row'[o] = row[o] /\ ckpt'[o] = ckpt[o] /\ LeftOf(o) /\ SetInv
      /\ ckpt[o].cursor \in Nat /\ PrimaryOf[o] \in Docs
  BY OwnRecords, ConstantFacts
  DEF CleanInv, SetInv, WholeInv, Attended, Typed, TypeOK, Progress
<1>2. /\ Clear(o) => Clear(o)'
      /\ InPlace(o) => InPlace(o)'
      /\ \A n \in Nat : n <= PathCount(o) /\ Swept(o, n) => Swept(o, n)'
      /\ PathCount(o)' = PathCount(o)
  BY <1>1, SweepKept
<1>3. ASSUME ckpt'[o].phase # "none"
      PROVE  ckpt'[o].cursor <= PathCount(o)' /\ Swept(o, ckpt[o].cursor)'
  <2>1. PICK n \in Nat : n = ckpt[o].cursor
    BY <1>1
  <2>2. Swept(o, n)' /\ n <= PathCount(o)'
    BY <1>1, <1>2, <1>3, <2>1 DEF LeftOf
  <2> QED BY <1>1, <2>1, <2>2 DEF Swept
<1>4. /\ Waits(o) => Waits(o)'
      /\ Backed(o) => Backed(o)'
      /\ journal'[PrimaryOf[o]] = o <=> journal[PrimaryOf[o]] = o
  <2>1. \A d \in Docs : /\ lock'[d] = o <=> lock[d] = o
                        /\ journal'[d] = o <=> journal[d] = o
                        /\ <<o, d>> \in backup' <=> <<o, d>> \in backup
    BY <1>1, OwnSidecars
  <2> QED BY <1>1, <2>1 DEF Waits, Backed, Baseline
<1> QED BY <1>1, <1>2, <1>3, <1>4 DEF LeftOf, Closed

\* The operation a process works on.
LEMMA LeftOfOwn ==
    ASSUME CleanInv, NEW a \in Agents, Working(a), NEW o \in Ops, o = agent[a].op
    PROVE  LeftOf(o)'
<1>1. /\ row \in [Ops -> Row] /\ ckpt \in [Ops -> Progress]
      /\ agent[a].i \in Nat /\ SetInv /\ WholeInv /\ Attended /\ Typed
      /\ LeftAt(a) /\ LeftOf(o) /\ SetAt(a)
      /\ ModeAt(a) /\ Live(a) /\ AttendedBy(a) /\ OpenRow(o)
      /\ PathCount(o) \in Nat /\ ckpt[o].cursor \in Nat
      /\ agent[a].mode \in {"commit", "rollback", "resolve"}
  BY Others, AtStep, SidecarPaths
  DEF CleanInv, SetInv, WholeInv, Attended, Typed, TypeOK, Live, Progress
<1>2. /\ row'[o].baseline = row[o].baseline
      /\ ~Storing(a) => row'[o] = row[o]
      /\ ckpt[o].phase # "none" => ckpt'[o].phase # "none"
  BY <1>1, OwnRecords
<1>3. /\ CleanupPaths(o)' = CleanupPaths(o) /\ PathCount(o)' = PathCount(o)
  BY <1>2, PathsStay DEF Baseline
<1>4. ASSUME agent[a].pc \notin MakingPCs \/ ckpt[o].phase # "none"
      PROVE  /\ Clear(o) => Clear(o)'
             /\ InPlace(o) => InPlace(o)'
             /\ \A n \in Nat : n <= PathCount(o) /\ Swept(o, n) => Swept(o, n)'
  BY <1>1, <1>4, SweepKept
<1>5. InPlace(o)'
  <2>1. CASE Arming(a)
    BY <2>1, ArmInPlace
  <2>2. CASE ~Arming(a)
    <3>1. agent[a].pc \notin MakingPCs \/ Crash(a)
      BY <2>2
      DEF Working, Step, Arming, GuardCheckpoints, GuardLocks, Save, Verify, SaveFails,
          Rollback, Restore, Restored, RestoreFails, CleanupBegin, PublishArchive,
          Checkpoint, Intend, Unlink, Acknowledge, Cleaned, CleanupFails, Undispatch,
          Finish, Resolve, ResolveRefused, MakingPCs
    <3>2. CASE agent[a].pc \notin MakingPCs
      BY <1>1, <1>4, <3>2 DEF LeftOf
    <3>3. CASE Crash(a)
      <4>1. UNCHANGED <<lock, journal, backup>>
        BY <3>3 DEF Crash, sidecarVars
      <4> QED BY <1>1, <4>1 DEF LeftOf, InPlace, Present, Holder, Places, Members, Files,
                                Paths
    <3> QED BY <3>1, <3>2, <3>3
  <2> QED BY <2>1, <2>2
<1>6. ASSUME Closed(o)' PROVE Clear(o)'
  <2>1. CASE Closed(o)
    <3>1. Clear(o)
      BY <1>1, <2>1 DEF LeftOf
    <3>2. ~Writer(a)
      BY <1>1, <2>1 DEF Closed, AttendedBy, OpenRow
    <3>3. agent[a].pc \notin MakingPCs
      BY <1>1, <3>2 DEF ModeAt, EarlyPCs, ArmPCs, MakingPCs, Writer
    <3> QED BY <1>4, <3>1, <3>3
  <2>2. CASE ~Closed(o)
    <3>1. Storing(a)
      BY <1>2, <1>6, <2>2 DEF Closed
    <3>2. ~Undispatch(a)
      <4> SUFFICES ASSUME Undispatch(a) PROVE FALSE
        OBVIOUS
      <4>1. row'[o].status = "planned" /\ row'[o].resolution = row[o].resolution
        BY <1>1, StoreRows
      <4> QED BY <1>6, <2>2, <4>1 DEF Closed
    <3>3. CASE Finish(a)
      <4>1. agent[a].pc \in {"completed", "restored"}
        <5>1. /\ row'[o].status = IF agent[a].pc = "uncertain" THEN "unknown" ELSE "finished"
              /\ row'[o].resolution = row[o].resolution
          BY <1>1, <3>3, StoreRows
        <5> QED BY <1>6, <2>2, <3>3, <5>1 DEF Finish, Closed
      <4>2. Clear(o)
        BY <1>1, <4>1 DEF LeftAt
      <4> QED BY <1>4, <4>1, <4>2 DEF MakingPCs
    <3>4. CASE Resolve(a)
      <4>1. Clear(o) /\ agent[a].pc = "resolved"
        BY <1>1, <3>4 DEF Resolve, LeftAt
      <4> QED BY <1>4, <4>1 DEF MakingPCs
    <3> QED BY <3>1, <3>2, <3>3, <3>4 DEF Storing
  <2> QED BY <2>1, <2>2
<1>7. ASSUME ckpt'[o].phase # "none"
      PROVE  ckpt'[o].cursor <= PathCount(o)' /\ Swept(o, ckpt[o].cursor)'
  <2>1. ASSUME NEW n \in Nat, ckpt'[o].cursor = n, n <= PathCount(o), Swept(o, n),
               agent[a].pc \notin MakingPCs \/ ckpt[o].phase # "none"
        PROVE  ckpt'[o].cursor <= PathCount(o)' /\ Swept(o, ckpt[o].cursor)'
    <3>1. Swept(o, n)'
      BY <1>4, <2>1
    <3> QED BY <1>3, <2>1, <3>1 DEF Swept
  <2>2. CASE ckpt'[o] = ckpt[o]
    <3>1. ckpt[o].phase # "none" /\ ckpt[o].cursor <= PathCount(o) /\ Swept(o, ckpt[o].cursor)
      BY <1>1, <1>7, <2>2 DEF LeftOf
    <3> QED BY <1>1, <2>1, <2>2, <3>1
  <2>3. CASE Checkpoint(a) /\ ckpt'[o].cursor = 0
    <3>1. agent[a].pc \notin MakingPCs /\ Swept(o, 0) /\ 0 <= PathCount(o)
      BY <1>1, <2>3 DEF Checkpoint, Swept, MakingPCs
    <3> QED BY <2>1, <2>3, <3>1
  <2>4. CASE Intend(a) /\ ckpt'[o].cursor = agent[a].i
    <3>1. agent[a].pc = "deleting" /\ Swept(o, agent[a].i) /\ agent[a].i <= PathCount(o)
      BY <1>1, <2>4 DEF Intend, LeftAt
    <3> QED BY <1>1, <2>1, <2>4, <3>1 DEF MakingPCs, Recorded
  <2>5. CASE Acknowledge(a) /\ ckpt'[o].cursor = agent[a].i + 1
    <3>1. /\ agent[a].pc = "unlinked" /\ Swept(o, agent[a].i + 1)
          /\ agent[a].i + 1 <= PathCount(o) /\ agent[a].i + 1 \in Nat
      BY <1>1, <2>5 DEF Acknowledge, LeftAt
    <3> QED BY <2>1, <2>5, <3>1 DEF MakingPCs, Recorded
  <2>6. CASE Cleaned(a) /\ ckpt'[o].cursor = agent[a].i
    <3>1. agent[a].pc = "deleting" /\ Swept(o, agent[a].i) /\ agent[a].i <= PathCount(o)
      BY <1>1, <2>6 DEF Cleaned, LeftAt
    <3> QED BY <1>1, <2>1, <2>6, <3>1 DEF MakingPCs, Recorded
  <2> QED BY <1>1, <2>2, <2>3, <2>4, <2>5, <2>6, CheckpointCursor DEF Recorded
<1>8. ASSUME row'[o].status = "planned" PROVE Waits(o)'
  <2>1. Undispatch(a)
    BY <1>1, <1>8, StoredBy
  <2>2. Waits(o)
    BY <1>1, <2>1 DEF Undispatch, LeftAt, Writer
  <2>3. lock' = lock /\ backup' = backup
    BY <2>1 DEF Undispatch, sidecarVars
  <2> QED BY <2>2, <2>3 DEF Waits
<1>9. ASSUME journal'[PrimaryOf[o]] = o \/ ckpt'[o].phase # "none" PROVE Backed(o)'
  <2>1. CASE journal[PrimaryOf[o]] = o \/ ckpt[o].phase # "none"
    BY <1>1, <2>1, BackedStays DEF LeftOf
  <2>2. CASE journal[PrimaryOf[o]] # o /\ ckpt[o].phase = "none"
    <3>1. CASE journal'[PrimaryOf[o]] = o
      <4>1. PrimaryOf[o] \in Docs /\ None \notin Ops
        BY ConstantFacts
      <4>2. agent'[a].pc = "saving"
        BY <1>1, <2>2, <3>1, <4>1, JournalStep
      <4>3. Arming(a)
        <5>1. ~Unlink(a)
          <6> SUFFICES ASSUME Unlink(a) PROVE FALSE
            OBVIOUS
          <6>1. agent'[a].pc = "unlinked"
            BY <1>1, Moves DEF Unlink, Moved, Typed, TypeOK
          <6> QED BY <4>2, <6>1
        <5> QED BY <1>1, <2>2, <3>1, <5>1, Changes DEF sidecarVars
      <4> QED BY <4>2, <4>3, ArmLeft
    <3>2. CASE ckpt'[o].phase # "none"
      <4>1. Checkpoint(a)
        <5>1. agent[a].pc \in DecidedPCs => ckpt[o].phase # "none"
          BY <1>1 DEF WholeInv, WholeAt
        <5>2. ckpt' # ckpt
          BY <2>2, <3>2
        <5> QED BY <1>1, <2>2, <5>1, <5>2, Changes
                DEF Intend, Acknowledge, Cleaned, DecidedPCs
      <4>2. Holding(o)
        BY <1>1, <4>1 DEF Checkpoint, SetAt
      <4> QED BY <2>2, <4>2 DEF Holding
    <3> QED BY <1>9, <3>1, <3>2
  <2> QED BY <2>1, <2>2
<1> QED BY <1>5, <1>6, <1>7, <1>8, <1>9 DEF LeftOf, Closed

\* A step of a working process.
LEMMA CleanWorking ==
    ASSUME CleanInv, NEW a \in Agents, Working(a)
    PROVE  CleanInv'
<1>1. SetInv'
  BY SetWorking DEF CleanInv
<1>2. \A o \in Ops : LeftOf(o)'
  BY LeftOfOwn, LeftOfOthers
<1>3. \A b \in Agents : LeftAt(b)'
  BY LeftOwn, LeftOthers
<1> QED BY <1>1, <1>2, <1>3 DEF CleanInv

\* What is left of an operation whose sidecars, checkpoint and baseline stay.
LEMMA LeftStays ==
    ASSUME UNCHANGED <<lock, journal, backup, ckpt>>, NEW o \in Ops,
           Baseline(o)' = Baseline(o)
    PROVE  /\ Clear(o)' <=> Clear(o)
           /\ InPlace(o)' <=> InPlace(o)
           /\ PathCount(o)' = PathCount(o)
           /\ \A n : Swept(o, n)' <=> Swept(o, n)
           /\ Waits(o)' <=> Waits(o)
           /\ Backed(o)' <=> Backed(o)
           /\ /\ LeftOf(o) /\ (Closed(o)' => Closed(o))
              /\ row'[o].status = "planned" => row[o].status = "planned"
              => LeftOf(o)'
<1>1. /\ CleanupPaths(o)' = CleanupPaths(o) /\ PathCount(o)' = PathCount(o)
      /\ Sidecars(o)' = Sidecars(o)
  BY PathsStay
<1>2. \A p : Present(o, p)' <=> Present(o, p)
  BY DEF Present, Holder
<1>3. /\ Clear(o)' <=> Clear(o)
      /\ InPlace(o)' <=> InPlace(o)
  BY <1>1, <1>2 DEF Clear, InPlace, Paths, Places, Members, Files
<1>4. \A n : Swept(o, n)' <=> Swept(o, n)
  BY <1>1, <1>2 DEF Swept, Present, Holder
<1>5. /\ Waits(o)' <=> Waits(o)
      /\ Backed(o)' <=> Backed(o)
  BY DEF Waits, Backed
<1>6. ASSUME LeftOf(o), Closed(o)' => Closed(o),
             row'[o].status = "planned" => row[o].status = "planned"
      PROVE  LeftOf(o)'
  BY <1>1, <1>3, <1>4, <1>5, <1>6 DEF LeftOf
<1> QED BY <1>1, <1>3, <1>4, <1>5, <1>6

\* The same for a process that stays.
LEMMA LeftStaysAt ==
    ASSUME UNCHANGED <<lock, journal, backup, ckpt>>, NEW b \in Agents,
           agent'[b] = agent[b], LeftAt(b),
           Live(b) => agent[b].op \in Ops /\ Baseline(agent[b].op)' = Baseline(agent[b].op)
    PROVE  LeftAt(b)'
<1>1. CASE ~Live(b)
  BY <1>1 DEF LeftAt, Writer, Live
<1>2. CASE Live(b)
  <2>1. PICK o \in Ops : o = agent[b].op
    BY <1>2
  <2>2. /\ Clear(o)' <=> Clear(o)
        /\ PathCount(o)' = PathCount(o)
        /\ \A n : Swept(o, n)' <=> Swept(o, n)
        /\ Waits(o)' <=> Waits(o)
        /\ Backed(o)' <=> Backed(o)
    <3>1. Baseline(o)' = Baseline(o)
      BY <1>2, <2>1 DEF Baseline
    <3> QED BY <3>1, LeftStays
  <2>3. agent'[b].op = o
    BY <2>1
  <2>4. /\ Clear(o) => Clear(agent[b].op)'
        /\ Waits(o) => Waits(agent[b].op)'
        /\ Backed(o) => Backed(agent[b].op)'
    BY <2>2, <2>3
  <2>5. PathCount(agent[b].op)' = PathCount(o)
    BY <2>2, <2>3
  <2>6. \A n : Swept(o, n) => Swept(agent[b].op, n)'
    BY <2>2, <2>3
  <2>7. /\ Swept(o, agent[b].i) => Swept(agent[b].op, agent[b].i)'
        /\ Swept(o, agent[b].i + 1) => Swept(agent[b].op, agent[b].i + 1)'
    BY <2>6
  <2> QED BY <2>1, <2>4, <2>5, <2>7 DEF LeftAt, Writer, Live
<1> QED BY <1>1, <1>2

\* A step that starts a process, deletes a row or edits a document.
LEMMA CleanRest ==
    ASSUME CleanInv, OneResolver,
           \/ \E a \in Agents, o \in Ops : Confirm(a, o) \/ ResolveBegin(a, o)
           \/ \E o \in Ops : Prune(o)
           \/ \E d \in Docs, e \in Edits : Edit(d, e)
    PROVE  CleanInv'
<1>1. SetInv' /\ SetInv /\ WholeInv /\ Attended /\ Typed
  BY SetRest DEF CleanInv, SetInv, WholeInv, Attended
<1>2. row \in [Ops -> Row] /\ agent \in [Agents -> Process]
  BY <1>1 DEF Typed, TypeOK
<1>3. UNCHANGED <<lock, journal, backup, ckpt>>
  BY DEF Confirm, ResolveBegin, Prune, Edit, sidecarVars, proofVars
<1>4. ASSUME NEW a \in Agents, NEW o \in Ops, Confirm(a, o) PROVE CleanInv'
  <2>0. /\ row' = [row EXCEPT ![o] = [@ EXCEPT !.status = "dispatched",
                                               !.writer = a,
                                               !.baseline = Current(o)]]
        /\ agent' = [agent EXCEPT ![a] = [@ EXCEPT !.pc = "confirmed",
                                                   !.op = o, !.mode = "commit"]]
        /\ row[o].status = "planned"
    BY <1>4 DEF Confirm
  <2>1. /\ agent'[a].pc = "confirmed" /\ agent'[a].op = o
        /\ \A b \in Agents \ {a} : agent'[b] = agent[b]
    BY <1>2, <2>0, SMT DEF Process
  <2>2. \A x \in Ops \ {o} : row'[x] = row[x]
    BY <1>2, <2>0
  <2>3. /\ InPlace(o) /\ Waits(o) /\ journal[PrimaryOf[o]] # o
        /\ ckpt[o].phase = "none" /\ ~row[o].resolution
    BY <1>1, <2>0 DEF CleanInv, LeftOf, SetInv, SetOf, WholeInv, WholeOf, Attended, OpenRow
  <2>4. InPlace(o)' /\ Waits(o)'
    BY <1>3, <2>3 DEF InPlace, Waits, Present, Holder, Places, Members, Files, Paths
  <2>5. LeftOf(o)'
    <3>1. row'[o].status = "dispatched"
      BY <1>2, <2>0, SMT DEF Row
    <3>2. ~row'[o].resolution
      BY <1>2, <2>0, <2>3, Zenon DEF Row
    <3> QED BY <1>3, <2>3, <2>4, <3>1, <3>2 DEF LeftOf, Closed
  <2>6. LeftAt(a)'
    <3>1. Waits(agent[a].op)'
      BY <2>1, <2>4 DEF Waits
    <3> QED BY <2>1, <3>1 DEF LeftAt, ArmPCs
  <2>7. ASSUME NEW x \in Ops \ {o} PROVE LeftOf(x)'
    <3>1. /\ Baseline(x)' = Baseline(x) /\ (Closed(x)' => Closed(x)) /\ LeftOf(x)
          /\ row'[x].status = "planned" => row[x].status = "planned"
      BY <2>2 DEF Baseline, Closed, CleanInv
    <3> QED BY <1>3, <3>1, LeftStays
  <2>8. ASSUME NEW b \in Agents \ {a} PROVE LeftAt(b)'
    <3>1. Live(b) => agent[b].op # o /\ agent[b].op \in Ops
      BY <1>1, <2>0, AtStep DEF Attended, AttendedBy, Writer, Resolver, Live
    <3>2. Live(b) => Baseline(agent[b].op)' = Baseline(agent[b].op)
      BY <2>1, <2>2, <3>1 DEF Baseline
    <3>3. LeftAt(b) /\ agent'[b] = agent[b] /\ b \in Agents
      BY <2>1 DEF CleanInv
    <3> QED BY <1>3, <3>1, <3>2, <3>3, LeftStaysAt
  <2>9. \A x \in Ops : LeftOf(x)'
    BY <2>5, <2>7
  <2>10. \A b \in Agents : LeftAt(b)'
    BY <2>6, <2>8
  <2> QED BY <1>1, <2>9, <2>10 DEF CleanInv
<1>5. ASSUME NEW a \in Agents, NEW o \in Ops, ResolveBegin(a, o) PROVE CleanInv'
  <2>0. agent' = [agent EXCEPT ![a] = [@ EXCEPT !.pc = "closing", !.op = o,
                                                !.mode = "resolve",
                                                !.seen = Current(o)]]
        /\ row' = row
    BY <1>5 DEF ResolveBegin
  <2>1. /\ agent'[a].pc = "closing"
        /\ \A b \in Agents \ {a} : agent'[b] = agent[b]
    BY <1>2, <2>0, SMT DEF Process
  <2>2. LeftAt(a)'
    BY <2>1 DEF LeftAt, EarlyPCs, ArmPCs
  <2>3. ASSUME NEW b \in Agents \ {a} PROVE LeftAt(b)'
    <3>1. Live(b) => agent[b].op \in Ops /\ Baseline(agent[b].op)' = Baseline(agent[b].op)
      BY <1>1, <2>0, <2>1, AtStep DEF Live, Baseline
    <3>2. LeftAt(b) /\ agent'[b] = agent[b] /\ b \in Agents
      BY <2>1 DEF CleanInv
    <3> QED BY <1>3, <3>1, <3>2, LeftStaysAt
  <2>4. ASSUME NEW x \in Ops PROVE LeftOf(x)'
    <3>1. /\ Baseline(x)' = Baseline(x) /\ (Closed(x)' => Closed(x)) /\ LeftOf(x)
          /\ row'[x].status = "planned" => row[x].status = "planned"
      BY <2>0 DEF Baseline, Closed, CleanInv
    <3> QED BY <1>3, <3>1, LeftStays
  <2>5. \A b \in Agents : LeftAt(b)'
    BY <2>2, <2>3
  <2> QED BY <1>1, <2>4, <2>5 DEF CleanInv
<1>6. ASSUME NEW o \in Ops, Prune(o) PROVE CleanInv'
  <2>1. /\ row'[o].baseline = row[o].baseline
        /\ row'[o].resolution <=> row[o].resolution
        /\ row'[o].status = "pruned"
        /\ \A x \in Ops \ {o} : row'[x] = row[x]
        /\ agent' = agent
    BY <1>2, <1>6, SMT DEF Prune, Row
  <2>2. ASSUME NEW x \in Ops PROVE Baseline(x)' = Baseline(x) /\ LeftOf(x)'
    <3>1. /\ Baseline(x)' = Baseline(x) /\ (Closed(x)' => Closed(x)) /\ LeftOf(x)
          /\ row'[x].status = "planned" => row[x].status = "planned"
      BY <2>1 DEF Baseline, Closed, CleanInv
    <3> QED BY <1>3, <3>1, LeftStays
  <2>3. ASSUME NEW b \in Agents PROVE LeftAt(b)'
    <3>1. Live(b) => agent[b].op \in Ops
      BY <1>1, AtStep DEF Live
    <3>2. Live(b) => Baseline(agent[b].op)' = Baseline(agent[b].op)
      BY <2>1, <2>2, <3>1 DEF Baseline
    <3>3. LeftAt(b) /\ agent'[b] = agent[b]
      BY <2>1 DEF CleanInv
    <3> QED BY <1>3, <3>1, <3>2, <3>3, LeftStaysAt
  <2> QED BY <1>1, <2>2, <2>3 DEF CleanInv
<1>7. ASSUME NEW d \in Docs, NEW e \in Edits, Edit(d, e) PROVE CleanInv'
  <2>1. row' = row /\ agent' = agent
    BY <1>7 DEF Edit
  <2>2. ASSUME NEW x \in Ops PROVE LeftOf(x)'
    <3>1. /\ Baseline(x)' = Baseline(x) /\ (Closed(x)' => Closed(x)) /\ LeftOf(x)
          /\ row'[x].status = "planned" => row[x].status = "planned"
      BY <2>1 DEF Baseline, Closed, CleanInv
    <3> QED BY <1>3, <3>1, LeftStays
  <2>3. ASSUME NEW b \in Agents PROVE LeftAt(b)'
    <3>1. Live(b) => agent[b].op \in Ops /\ Baseline(agent[b].op)' = Baseline(agent[b].op)
      BY <1>1, <2>1, AtStep DEF Live, Baseline
    <3>2. LeftAt(b) /\ agent'[b] = agent[b]
      BY <2>1 DEF CleanInv
    <3> QED BY <1>3, <3>1, <3>2, LeftStaysAt
  <2> QED BY <1>1, <2>2, <2>3 DEF CleanInv
<1> QED BY <1>4, <1>5, <1>6, <1>7

\* Every step preserves the invariant of the deletions.
LEMMA CleanNext == OneResolver /\ CleanInv /\ [Next]_vars => CleanInv'
<1> SUFFICES ASSUME OneResolver PROVE CleanInv /\ [Next]_vars => CleanInv'
  OBVIOUS
<1>1. ASSUME CleanInv, UNCHANGED vars PROVE CleanInv'
  <2>1. SetInv'
    BY <1>1, SetNext DEF CleanInv
  <2>2. UNCHANGED <<lock, journal, backup, ckpt, row, agent>>
    BY <1>1 DEF vars, sidecarVars, proofVars
  <2>3. ASSUME NEW x \in Ops PROVE LeftOf(x)'
    <3>1. /\ Baseline(x)' = Baseline(x) /\ (Closed(x)' => Closed(x)) /\ LeftOf(x)
          /\ row'[x].status = "planned" => row[x].status = "planned"
      BY <1>1, <2>2 DEF Baseline, Closed, CleanInv
    <3> QED BY <2>2, <3>1, LeftStays
  <2>4. ASSUME NEW b \in Agents PROVE LeftAt(b)'
    <3>1. Live(b) => agent[b].op \in Ops /\ Baseline(agent[b].op)' = Baseline(agent[b].op)
      BY <1>1, <2>2, AtStep DEF Live, Baseline, CleanInv, SetInv, WholeInv, Attended
    <3>2. LeftAt(b) /\ agent'[b] = agent[b]
      BY <1>1, <2>2 DEF CleanInv
    <3> QED BY <2>2, <3>1, <3>2, LeftStaysAt
  <2> QED BY <2>1, <2>3, <2>4 DEF CleanInv
<1>2. ASSUME CleanInv, Next PROVE CleanInv'
  BY <1>2, CleanWorking, CleanRest DEF Next, Working
<1> QED BY <1>1, <1>2

\* The deletions of every behaviour: what the theorem below rests on.
LEMMA CleanAlways == OneResolver => (Spec => []CleanInv)
<1> SUFFICES ASSUME OneResolver PROVE Spec => []CleanInv
  OBVIOUS
<1>1. Init => CleanInv
  BY CleanInit
<1>2. CleanInv /\ [Next]_vars => CleanInv'
  BY CleanNext
<1> QED BY <1>1, <1>2, PTL DEF Spec

\* A finished and a resolved operation have no lock, journal or backup, also after
\* an undo of arm that failed: the cleanup lists every sidecar arm can have made,
\* in any attempt, and only a whole cleanup is recorded.
THEOREM NothingLeft == OneResolver => (Spec => []ClosedLeavesNothing)
<1> SUFFICES ASSUME OneResolver PROVE Spec => []ClosedLeavesNothing
  OBVIOUS
<1>1. CleanInv => ClosedLeavesNothing
  <2> SUFFICES ASSUME CleanInv, NEW o \in Ops, Closed(o), NEW d \in Docs
               PROVE  lock[d] # o /\ journal[d] # o /\ <<o, d>> \notin backup
    BY DEF ClosedLeavesNothing, Closed
  <2>1. Clear(o)
    BY DEF CleanInv, LeftOf
  <2>2. /\ <<"lock", d>> \in Paths /\ <<"journal", d>> \in Paths
        /\ <<"backup", d>> \in Paths
    BY DEF Paths
  <2> QED BY <2>1, <2>2 DEF Clear, Present, Holder
<1>2. Spec => []CleanInv
  BY CleanAlways
<1> QED BY <1>1, <1>2, PTL
-----------------------------------------------------------------------------
(* Resuming: sets that do not overlap, one resolution at a time.            *)

\* A plan has one row per document.
DistinctRows == \A o \in Ops : IsInjective(FilesOf[o])

\* No document is a member of two sets.
Apart == \A o, x \in Ops : o # x => Members(o) \cap Members(x) = {}

OneToOne(s) == \A i, k \in 1..Len(s) : s[i] = s[k] => i = k

\* A concatenation of lists without repetition and without a common member
\* repeats nothing.
LEMMA JoinedOneToOne ==
    ASSUME NEW T, NEW U, NEW s \in Seq(T), NEW t \in Seq(U), T \cap U = {},
           OneToOne(s), OneToOne(t)
    PROVE  s \o t \in Seq(T \union U) /\ OneToOne(s \o t)
<1>1. s \in Seq(T \union U) /\ t \in Seq(T \union U)
  BY SeqMonotonic
<1>2. /\ s \o t \in Seq(T \union U) /\ Len(s \o t) = Len(s) + Len(t)
      /\ Len(s) \in Nat /\ Len(t) \in Nat
      /\ \A i \in 1..(Len(s) + Len(t)) :
            (s \o t)[i] = IF i <= Len(s) THEN s[i] ELSE t[i - Len(s)]
  BY <1>1, ConcatProperties, LenProperties
<1>3. ASSUME NEW i \in 1..(Len(s) + Len(t)), NEW k \in 1..(Len(s) + Len(t)),
             (s \o t)[i] = (s \o t)[k]
      PROVE  i = k
  <2>1. \A j \in 1..(Len(s) + Len(t)) :
            /\ j <= Len(s) => j \in 1..Len(s)
            /\ ~(j <= Len(s)) => j - Len(s) \in 1..Len(t)
    BY <1>2
  <2>2. /\ i <= Len(s) => s[i] \in T /\ (s \o t)[i] = s[i]
        /\ k <= Len(s) => s[k] \in T /\ (s \o t)[k] = s[k]
        /\ ~(i <= Len(s)) => t[i - Len(s)] \in U /\ (s \o t)[i] = t[i - Len(s)]
        /\ ~(k <= Len(s)) => t[k - Len(s)] \in U /\ (s \o t)[k] = t[k - Len(s)]
    BY <1>2, <2>1, ElementOfSeq
  <2>3. CASE i <= Len(s) /\ k <= Len(s)
    BY <1>3, <2>1, <2>2, <2>3 DEF OneToOne
  <2>4. CASE ~(i <= Len(s)) /\ ~(k <= Len(s))
    <3>1. i - Len(s) = k - Len(s)
      BY <1>3, <2>1, <2>2, <2>4 DEF OneToOne
    <3> QED BY <1>2, <3>1
  <2>5. i <= Len(s) <=> k <= Len(s)
    BY <1>3, <2>2
  <2> QED BY <2>3, <2>4, <2>5
<1> QED BY <1>2, <1>3 DEF OneToOne

\* "each destructive boundary has one identity": no path is listed twice.
LEMMA PathsDistinct ==
    ASSUME DistinctRows, NEW o \in Ops
    PROVE  OneToOne(CleanupPaths(o))
<1> DEFINE A == Tagged("backup", HadBytes(o))
           B == Tagged("lock", FilesOf[o])
           C == IF PrimaryOf[o] \in Files(o) THEN <<>> ELSE <<<<"lock", PrimaryOf[o]>>>>
           D == <<<<"journal", PrimaryOf[o]>>>>
           TA == {"backup"} \X HadFiles(o)
           TB == {"lock"} \X Files(o)
           TC == IF PrimaryOf[o] \in Files(o) THEN {} ELSE {<<"lock", PrimaryOf[o]>>}
           TD == {<<"journal", PrimaryOf[o]>>}
<1>1. /\ FilesOf[o] \in Seq(Docs) /\ DOMAIN FilesOf[o] = 1..Len(FilesOf[o])
      /\ Len(FilesOf[o]) \in Nat
  BY ConstantFacts
<1>2. FilesOf[o] \in Seq(Files(o))
  <2>1. FilesOf[o] \in [1..Len(FilesOf[o]) -> Files(o)]
    BY <1>1, LenProperties DEF Files
  <2> QED BY <1>1, <2>1, SeqDef
<1>3. A \in Seq(TA) /\ OneToOne(A)
  <2>0. HadBytes(o) \in Seq(HadFiles(o))
    BY HadPaths
  <2>1. \A k, l \in 1..Len(HadBytes(o)) : HadBytes(o)[k] = HadBytes(o)[l] => k = l
    BY HadPaths DEF DistinctRows
  <2>2. /\ A \in Seq(TA) /\ Len(A) = Len(HadBytes(o))
        /\ \A i \in 1..Len(HadBytes(o)) : A[i] = <<"backup", HadBytes(o)[i]>>
    BY <2>0, TaggedRows
  <2> HIDE DEF A
  <2> QED BY <2>1, <2>2 DEF OneToOne
<1>4. B \in Seq(TB) /\ OneToOne(B)
  <2>1. \A k, l \in 1..Len(FilesOf[o]) : FilesOf[o][k] = FilesOf[o][l] => k = l
    BY <1>1 DEF DistinctRows, IsInjective
  <2>2. /\ B \in Seq(TB) /\ Len(B) = Len(FilesOf[o])
        /\ \A i \in 1..Len(FilesOf[o]) : B[i] = <<"lock", FilesOf[o][i]>>
    BY <1>2, TaggedRows
  <2> HIDE DEF B
  <2> QED BY <2>1, <2>2 DEF OneToOne
<1>5. C \in Seq(TC) /\ OneToOne(C)
  <2>1. CASE PrimaryOf[o] \in Files(o)
    BY <2>1, EmptySeq DEF OneToOne
  <2>2. CASE PrimaryOf[o] \notin Files(o)
    BY <2>2 DEF OneToOne
  <2> QED BY <2>1, <2>2
<1>6. D \in Seq(TD) /\ OneToOne(D)
  BY DEF OneToOne
<1>7. TA \cap TB = {} /\ (TA \union TB) \cap TC = {} /\ ((TA \union TB) \union TC) \cap TD = {}
  OBVIOUS
<1>8. CleanupPaths(o) = ((A \o B) \o C) \o D
  BY DEF CleanupPaths
<1> HIDE DEF A, B, C, D, TA, TB, TC, TD
<1>9. A \o B \in Seq(TA \union TB) /\ OneToOne(A \o B)
  BY <1>3, <1>4, <1>7, JoinedOneToOne
<1>10. /\ (A \o B) \o C \in Seq((TA \union TB) \union TC)
       /\ OneToOne((A \o B) \o C)
  BY <1>5, <1>7, <1>9, JoinedOneToOne
<1>11. OneToOne(((A \o B) \o C) \o D)
  BY <1>6, <1>7, <1>10, JoinedOneToOne
<1> QED BY <1>8, <1>11

\* It has written nothing before its journal.
WrittenOf(o) == Written(o) => journal[PrimaryOf[o]] = o \/ ckpt[o].phase # "none"

\* What an archive preparation is bound to is still there, except where an
\* editor has come in.
Bounded(o) == observed[o] # <<>> \/ ckpt[o].phase # "none"
AsBound(o, d) == \/ doc[d] = observed[o][d]
                 \/ doc[d] \in Edits /\ doc[d] # Baseline(o)[d]
BoundOf(o) ==
    /\ row[o].status = "planned" => observed[o] = <<>>
    /\ Bounded(o) => /\ observed[o] \in [Files(o) -> Bytes]
                     /\ \A d \in Files(o) : AsBound(o, d)

\* A checkpoint claims no deletion too few, and recorded the own sidecars.
AllOwn(o, held) == \A i \in 1..PathCount(o) : held[i] = o
Unswept(o, n) == \A i \in 1..PathCount(o) : i > n => Present(o, CleanupPaths(o)[i])
UnsweptOf(o) ==
    ckpt[o].phase # "none" =>
        /\ AllOwn(o, ckpt[o].held)
        /\ Unswept(o, ckpt[o].cursor + 1)
        /\ ~ckpt[o].pending => Unswept(o, ckpt[o].cursor)

ResumeOf(o) == WrittenOf(o) /\ BoundOf(o) /\ UnsweptOf(o)

BeforePCs == EarlyPCs \union {"refused", "saving", "failing", "restoring"}

\* A process that may still write has bound nothing; one that deletes knows its
\* checkpoint.
ResumeAt(a) ==
    LET o == agent[a].op IN
    /\ Writer(a) /\ agent[a].pc \in BeforePCs => observed[o] = <<>>
    /\ agent[a].pc = "archiving" => /\ ckpt[o].phase = "none"
                                    /\ observed[o] \in [Files(o) -> Bytes]
    /\ agent[a].pc = "deleting" => /\ ckpt[o].cursor = agent[a].i
                                   /\ ckpt[o].pending = agent[a].pending
    /\ agent[a].pc \in {"unlinking", "unlinked"} =>
          ckpt[o].cursor = agent[a].i /\ ckpt[o].pending
    /\ agent[a].pc \in {"deleting", "unlinking", "unlinked"} =>
          ckpt[o].held = agent[a].held

ResumeInv ==
    /\ CleanInv
    /\ \A o \in Ops : ResumeOf(o)
    /\ \A a \in Agents : ResumeAt(a)

\* The invariants this one contains.
LEMMA ResumeHas ==
    ASSUME ResumeInv
    PROVE  /\ CleanInv /\ SetInv /\ WholeInv /\ Attended /\ Typed /\ OnlyResolver
           /\ \A o \in Ops : WrittenOf(o) /\ BoundOf(o) /\ UnsweptOf(o) /\ LeftOf(o)
                             /\ SetOf(o) /\ WholeOf(o)
           /\ \A a \in Agents : ResumeAt(a) /\ LeftAt(a) /\ SetAt(a) /\ WholeAt(a)
                                /\ ModeAt(a) /\ AttendedBy(a)
  BY DEF ResumeInv, ResumeOf, CleanInv, SetInv, WholeInv, Attended

\* At the start nothing is written, bound or under cleanup.
LEMMA ResumeInit == OneResolver /\ Init => ResumeInv
<1> SUFFICES ASSUME OneResolver, Init PROVE ResumeInv
  OBVIOUS
<1>1. \A a \in Agents : agent[a].pc = "idle"
  BY SMT DEF Init
<1>2. ASSUME NEW o \in Ops
      PROVE  /\ row[o].baseline = <<>> /\ observed[o] = <<>> /\ ckpt[o].phase = "none"
             /\ \A d \in Docs : doc[d] # o
  BY ConstantFacts, SMT DEF Init
<1>3. \A o \in Ops : DOMAIN Baseline(o) = {}
  BY <1>2, SMT DEF Baseline
<1>4. \A o \in Ops : ResumeOf(o)
  BY <1>2, <1>3 DEF ResumeOf, WrittenOf, Written, BoundOf, Bounded, UnsweptOf
<1> QED BY <1>1, <1>4, CleanInit DEF ResumeInv, ResumeAt, Writer, Live

\* A process that has bound an archive has no document left to write.
LEMMA WritesBefore ==
    ASSUME ResumeInv, NEW a \in Agents, Working(a), NEW d \in Docs, doc'[d] # doc[d]
    PROVE  /\ d \in Files(agent[a].op) /\ Holding(agent[a].op)
           /\ observed[agent[a].op] = <<>> /\ observed' = observed /\ ckpt' = ckpt
           /\ doc'[d] \in {agent[a].op, Baseline(agent[a].op)[d]}
<1>1. SetAt(a) /\ ResumeAt(a) /\ Attended
  BY ResumeHas
<1>2. /\ Save(a) \/ Restore(a)
      /\ d \in Files(agent[a].op)
      /\ Writer(a) /\ HoldsSet(a)
      /\ doc'[d] \in {agent[a].op, Baseline(agent[a].op)[d]}
  BY <1>1, OwnWrites
<1>3. agent[a].pc \in BeforePCs /\ observed' = observed /\ ckpt' = ckpt
  BY <1>2 DEF Save, Restore, BeforePCs, proofVars
<1> QED BY <1>1, <1>2, <1>3 DEF SetAt, ResumeAt

\* Only a process that holds the set writes the bytes of its operation.
LEMMA WrittenWorking ==
    ASSUME ResumeInv, NEW a \in Agents, Working(a), NEW o \in Ops
    PROVE  WrittenOf(o)'
<1>1. /\ SetInv /\ Typed /\ WrittenOf(o) /\ agent[a].op \in Ops /\ PrimaryOf[o] \in Docs
      /\ Attended /\ agent[a].pc # "idle"
  BY ResumeHas, Others, AtStep, ConstantFacts
<1>2. \A x \in Ops : Baseline(x)' = Baseline(x)
  BY <1>1, OwnRecords DEF Baseline
<1>3. ASSUME Written(o)', ~Written(o) PROVE journal[PrimaryOf[o]] = o
  <2>1. PICK d \in Docs : doc'[d] = o /\ doc[d] # o
    BY <1>2, <1>3 DEF Written
  <2>2. /\ d \in Files(agent[a].op) /\ Holding(agent[a].op)
        /\ doc'[d] \in {agent[a].op, Baseline(agent[a].op)[d]}
    BY <2>1, WritesBefore
  <2>3. Baseline(agent[a].op) \in [Files(agent[a].op) -> Bytes]
    BY <1>1, AtStep
  <2>4. Baseline(agent[a].op)[d] # o
    BY <1>1, <1>3, <2>2, <2>3 DEF Written
  <2> QED BY <2>1, <2>2, <2>4 DEF Holding
<1>4. CASE ckpt[o].phase # "none"
  BY <1>1, <1>4, OwnRecords DEF WrittenOf
<1>5. CASE ckpt[o].phase = "none" /\ journal[PrimaryOf[o]] = o
  <2>1. Holding(o)
    BY <1>1, <1>5 DEF SetInv, SetOf
  <2>2. ckpt'[o].phase = "none" => Holding(o)'
    BY <1>1, <2>1, HoldingKept
  <2> QED BY <2>2 DEF Holding, WrittenOf
<1>6. CASE ckpt[o].phase = "none" /\ journal[PrimaryOf[o]] # o
  <2>1. Written(o)' => Written(o)
    BY <1>3, <1>6
  <2> QED BY <1>1, <1>6, <2>1 DEF WrittenOf
<1> QED BY <1>4, <1>5, <1>6

\* The operations of other processes: nobody else writes their documents.
LEMMA BoundOfOthers ==
    ASSUME Apart, ResumeInv, NEW a \in Agents, Working(a), NEW o \in Ops,
           o # agent[a].op
    PROVE  BoundOf(o)'
<1>1. /\ row'[o] = row[o] /\ ckpt'[o] = ckpt[o] /\ observed'[o] = observed[o]
      /\ BoundOf(o) /\ agent[a].op \in Ops /\ Files(o) \subseteq Docs
  BY ResumeHas, OwnRecords, Others, AtStep, ConstantFacts
<1>2. Files(o) \cap Files(agent[a].op) = {}
  BY <1>1 DEF Apart, Members
<1>3. \A d \in Files(o) : doc'[d] = doc[d]
  BY <1>1, <1>2, WritesBefore
<1> QED BY <1>1, <1>3 DEF BoundOf, Bounded, AsBound, Baseline, Files

\* The operation a process works on.
LEMMA BoundOfOwn ==
    ASSUME ResumeInv, NEW a \in Agents, Working(a), NEW o \in Ops, o = agent[a].op
    PROVE  BoundOf(o)'
<1>1. /\ SetInv /\ Typed /\ BoundOf(o) /\ ResumeAt(a) /\ Attended /\ WholeAt(a)
      /\ Files(o) \subseteq Docs /\ Baseline(o)' = Baseline(o)
      /\ ModeAt(a) /\ AttendedBy(a) /\ agent[a].pc \notin {"idle", "exited"}
      /\ agent[a].mode \in {"commit", "rollback", "resolve"}
      /\ observed \in [Ops -> Readings]
  BY ResumeHas, OwnRecords, Others, AtStep, ConstantFacts DEF Baseline, Typed, TypeOK
<1>2. ASSUME row'[o].status = "planned" PROVE observed'[o] = <<>>
  <2>1. Undispatch(a)
    BY <1>1, <1>2, StoredBy
  <2>2. Writer(a) /\ agent[a].pc \in BeforePCs /\ observed' = observed
    BY <1>1, <2>1 DEF Undispatch, Writer, Live, BeforePCs, proofVars
  <2> QED BY <1>1, <2>2 DEF ResumeAt
<1>3. ASSUME Bounded(o)'
      PROVE  /\ observed'[o] \in [Files(o) -> Bytes]
             /\ \A d \in Files(o) : AsBound(o, d)'
  <2>1. CASE observed'[o] # observed[o]
    <3>1. CleanupBegin(a)
      BY <1>1, <2>1, Changes
    <3>2. observed' = [observed EXCEPT ![o] = Current(o)] /\ doc' = doc
      BY <2>1, <3>1 DEF CleanupBegin
    <3>3. observed'[o] = Current(o)
      BY <1>1, <3>2
    <3>4. Current(o) \in [Files(o) -> Bytes]
      BY <1>1, CurrentTyped DEF Typed
    <3> QED BY <3>2, <3>3, <3>4 DEF AsBound, Current
  <2>2. CASE observed'[o] = observed[o] /\ Bounded(o)
    <3>1. \A d \in Files(o) : doc'[d] = doc[d]
      <4>1. ASSUME NEW d \in Files(o), doc'[d] # doc[d] PROVE FALSE
        <5>1. Holding(o) /\ observed[o] = <<>>
          BY <1>1, <4>1, WritesBefore
        <5> QED BY <2>2, <5>1 DEF Holding, Bounded
      <4> QED BY <4>1
    <3> QED BY <1>1, <2>2, <3>1 DEF BoundOf, AsBound
  <2>3. CASE observed'[o] = observed[o] /\ ~Bounded(o)
    <3>1. ckpt[o].phase = "none" /\ ckpt'[o].phase # "none" /\ observed[o] = <<>>
      BY <1>3, <2>3 DEF Bounded
    <3>2. Checkpoint(a)
      <4>1. ~Intend(a) /\ ~Acknowledge(a) /\ ~Cleaned(a)
        BY <1>1, <3>1 DEF Intend, Acknowledge, Cleaned, WholeAt, DecidedPCs, Live
      <4> QED BY <1>1, <3>1, <4>1, Changes
    <3>3. observed[o] \in [Files(o) -> Bytes]
      BY <1>1, <3>2 DEF ResumeAt, Checkpoint
    <3>4. Files(o) = {}
      BY <3>1, <3>3, SMT
    <3> QED BY <2>3, <3>3, <3>4
  <2> QED BY <2>1, <2>2, <2>3
<1> QED BY <1>2, <1>3 DEF BoundOf, Files

\* What the guard, arm and a rollback need: nothing is bound yet.
LEMMA BeforeWorking ==
    ASSUME ResumeInv, NEW a \in Agents, Working(a), Writer(a)',
           agent'[a].pc \in BeforePCs
    PROVE  Writer(a) /\ agent[a].pc \in BeforePCs /\ observed' = observed
<1>1. /\ agent \in [Agents -> Process] /\ ModeAt(a) /\ Typed
      /\ agent[a].pc \notin {"idle", "exited"}
      /\ agent[a].mode \in {"commit", "rollback", "resolve"}
      /\ agent[a].mode = "resolve" <=> agent'[a].mode = "resolve"
  BY ResumeHas, Others, AtStep DEF Typed, TypeOK
<1>2. Writer(a)
  BY <1>1 DEF Writer, Live
<1>3. ~Raise(a)
  <2>1. ASSUME Raise(a), agent'[a].pc = "uncertain" PROVE FALSE
    BY <2>1 DEF BeforePCs, EarlyPCs, ArmPCs
  <2> QED BY <1>1, <1>2, <2>1, RaiseMoves DEF Moved, Writer
<1>4. ASSUME NEW x, Goto(a, x) PROVE agent'[a].pc = x
  BY <1>1, <1>4, Moves DEF Moved
<1>5. ~CleanupBegin(a) /\ ~Checkpoint(a) /\ ~Intend(a) /\ ~Acknowledge(a)
  BY <1>1, <1>3, <1>4, CleanupMoves DEF Moved, BeforePCs, EarlyPCs, ArmPCs
<1>6. ~PublishArchive(a) /\ ~Unlink(a) /\ ~Cleaned(a) /\ ~CleanupFails(a)
  BY <1>1, <1>3, <1>4
  DEF PublishArchive, Unlink, Cleaned, CleanupFails, BeforePCs, EarlyPCs, ArmPCs
<1>7. /\ ~Undispatch(a) /\ ~Finish(a) /\ ~Resolve(a) /\ ~ResolveRefused(a) /\ ~Crash(a)
  BY <1>1, Ends DEF BeforePCs, EarlyPCs, ArmPCs
<1>8. CASE GuardCheckpoints(a) \/ GuardLocks(a) \/ Arming(a)
  BY <1>2, <1>8
  DEF GuardCheckpoints, GuardLocks, Arming, ArmPrimary, ArmLock, ArmBackup, ArmJournal,
      ArmFails, ArmUndo, UndoFails, BeforePCs, EarlyPCs, ArmPCs, proofVars
<1>9. CASE \/ Save(a) \/ Verify(a) \/ SaveFails(a) \/ Rollback(a)
           \/ Restore(a) \/ Restored(a) \/ RestoreFails(a)
  BY <1>2, <1>9
  DEF Save, Verify, SaveFails, Rollback, Restore, Restored, RestoreFails, BeforePCs,
      proofVars
<1> QED BY <1>5, <1>6, <1>7, <1>8, <1>9 DEF Working, Step, Arming

\* The sidecars of the operations of other processes stay.
LEMMA UnsweptOfOthers ==
    ASSUME ResumeInv, NEW a \in Agents, Working(a), NEW o \in Ops, o # agent[a].op
    PROVE  UnsweptOf(o)'
<1>1. /\ row'[o] = row[o] /\ ckpt'[o] = ckpt[o] /\ UnsweptOf(o) /\ SetInv /\ Typed
  BY ResumeHas, OwnRecords
<1>2. CleanupPaths(o)' = CleanupPaths(o) /\ PathCount(o)' = PathCount(o)
  BY <1>1, PathsStay DEF Baseline
<1>3. ASSUME NEW i \in 1..PathCount(o), Present(o, CleanupPaths(o)[i])
      PROVE  Present(o, CleanupPaths(o)[i])'
  <2>1. PICK p \in Paths : p = CleanupPaths(o)[i]
    BY SidecarPaths
  <2>2. p[2] \in Docs /\ p[1] \in {"backup", "lock", "journal"} /\ None \notin Ops
    BY ConstantFacts DEF Paths
  <2>3. Present(o, p)
    BY <1>3, <2>1
  <2>4. /\ lock'[p[2]] = o <=> lock[p[2]] = o
        /\ journal'[p[2]] = o <=> journal[p[2]] = o
        /\ <<o, p[2]>> \in backup' <=> <<o, p[2]>> \in backup
    BY <1>1, <2>2, OwnSidecars
  <2>5. Present(o, p)'
    BY <2>2, <2>3, <2>4 DEF Present, Holder
  <2> QED BY <1>2, <2>1, <2>5 DEF Present, Holder
<1> QED BY <1>1, <1>2, <1>3 DEF UnsweptOf, Unswept, AllOwn

\* An operation that holds its set has all sidecars a cleanup deletes.
LEMMA HoldingPresent ==
    ASSUME NEW o \in Ops, Holding(o), NEW i \in 1..PathCount(o)
    PROVE  Present(o, CleanupPaths(o)[i])
<1>1. PICK p \in Sidecars(o) : p = CleanupPaths(o)[i]
  BY SidecarPaths
<1>2. Present(o, p)
  <2>1. CASE p \in {"backup"} \X HadFiles(o)
    <3>1. p[1] = "backup" /\ p[2] \in HadFiles(o)
      BY <2>1
    <3> QED BY <3>1 DEF HadFiles, Holding, Kept, Present, Holder
  <2>2. CASE p \in {"lock"} \X Members(o)
    <3>1. p[1] = "lock" /\ p[2] \in Members(o)
      BY <2>2
    <3> QED BY <3>1 DEF Holding, Present, Holder
  <2>3. CASE p = <<"journal", PrimaryOf[o]>>
    BY <2>3 DEF Holding, Present, Holder
  <2> QED BY <2>1, <2>2, <2>3 DEF Sidecars
<1> QED BY <1>1, <1>2

\* A deletion deletes its path and no other one.
LEMMA UnlinkOne ==
    ASSUME DistinctRows, ResumeInv, NEW a \in Agents, Unlink(a),
           NEW o \in Ops, o = agent[a].op,
           NEW i \in 1..PathCount(o), i # agent[a].i + 1,
           Present(o, CleanupPaths(o)[i])
    PROVE  Present(o, CleanupPaths(o)[i])'
<1>1. agent[a].i \in Nat /\ agent[a].i + 1 \in 1..PathCount(o)
  <2>1. agent[a].pc = "unlinking" /\ agent[a].i \in Nat
    BY ResumeHas, AtStep DEF Unlink
  <2>2. agent[a].i < PathCount(o) /\ PathCount(o) \in Nat
    BY <2>1, ResumeHas, SidecarPaths DEF LeftAt
  <2> QED BY <2>1, <2>2
<1>2. PICK n \in 1..PathCount(o) : n = agent[a].i + 1
  BY <1>1
<1>3. PICK p \in Paths, q \in Paths : p = CleanupPaths(o)[i] /\ q = CleanupPaths(o)[n]
  BY SidecarPaths
<1>4. p # q
  <2>1. OneToOne(CleanupPaths(o))
    BY PathsDistinct
  <2> QED BY <1>2, <1>3, <2>1 DEF OneToOne, PathCount
<1>5. UNCHANGED sidecarVars \/ Remove(o, q)
  BY <1>2, <1>3 DEF Unlink
<1>6. /\ p[2] \in Docs /\ p[1] \in {"backup", "lock", "journal"}
      /\ p = <<p[1], p[2]>> /\ q = <<q[1], q[2]>>
  BY DEF Paths
<1>7. p[1] # q[1] \/ p[2] # q[2]
  BY <1>4, <1>6
<1>8. /\ lock \in [Docs -> Ops \union {None}] /\ journal \in [Docs -> Ops \union {None}]
      /\ row' = row /\ Present(o, p) /\ None \notin Ops
  BY <1>3, ResumeHas, ConstantFacts DEF Typed, TypeOK, Unlink
<1>9. Present(o, p)'
  <2>1. CASE UNCHANGED sidecarVars
    BY <1>8, <2>1 DEF sidecarVars, Present, Holder
  <2>2. CASE Remove(o, q) /\ p[1] = "lock"
    BY <1>6, <1>7, <1>8, <2>2 DEF Remove, Present, Holder
  <2>3. CASE Remove(o, q) /\ p[1] = "journal"
    BY <1>6, <1>7, <1>8, <2>3 DEF Remove, Present, Holder
  <2>4. CASE Remove(o, q) /\ p[1] = "backup"
    BY <1>6, <1>7, <1>8, <2>4 DEF Remove, Present, Holder
  <2> QED BY <1>5, <1>6, <2>1, <2>2, <2>3, <2>4
<1>10. CleanupPaths(o)' = CleanupPaths(o)
  BY <1>8, PathsStay DEF Baseline
<1> QED BY <1>3, <1>9, <1>10 DEF Present, Holder

\* Without a deletion, a process that has decided leaves the sidecars alone.
LEMMA DecidedLeaves ==
    ASSUME ResumeInv, NEW a \in Agents, Working(a), ~Unlink(a),
           ckpt[agent[a].op].phase # "none"
    PROVE  UNCHANGED sidecarVars
<1>1. Typed /\ ModeAt(a) /\ WholeAt(a) /\ agent[a].pc \notin {"idle", "exited"}
      /\ agent[a].mode \in {"commit", "rollback", "resolve"}
  BY ResumeHas, Others, AtStep
<1>2. agent[a].pc \notin EarlyPCs
  BY <1>1 DEF WholeAt, ModeAt, Writer, Live, UndecidedPCs
<1>3. ~Arming(a)
  BY <1>2 DEF Arming, ArmPrimary, ArmLock, ArmBackup, ArmJournal, ArmFails, ArmUndo,
              UndoFails, EarlyPCs, ArmPCs
<1> QED BY <1>1, <1>3, Changes

\* The operation a process works on: its checkpoint records the own sidecars.
LEMMA RecordsOwn ==
    ASSUME ResumeInv, NEW a \in Agents, Working(a), NEW o \in Ops, o = agent[a].op,
           ckpt'[o].phase # "none"
    PROVE  AllOwn(o, ckpt[o].held)'
<1>1. /\ SetInv /\ Typed /\ UnsweptOf(o) /\ ResumeAt(a) /\ SetAt(a) /\ WholeAt(a)
      /\ PathCount(o) \in Nat /\ DOMAIN CleanupPaths(o) = 1..PathCount(o)
      /\ agent[a].pc \notin {"idle", "exited"} /\ Baseline(o)' = Baseline(o)
  BY ResumeHas, OwnRecords, Others, SidecarPaths DEF Baseline
<1>2. PathCount(o)' = PathCount(o)
  BY <1>1, PathsStay
<1>3. PICK held : held = ckpt'[o].held
  OBVIOUS
<1> SUFFICES \A i \in 1..PathCount(o) : held[i] = o
  BY <1>2, <1>3 DEF AllOwn
<1>4. CASE ckpt'[o] = ckpt[o]
  BY <1>1, <1>3, <1>4 DEF UnsweptOf, AllOwn
<1>5. ASSUME agent[a].pc \in {"deleting", "unlinking", "unlinked"}, held = agent[a].held
      PROVE  \A i \in 1..PathCount(o) : held[i] = o
  <2>1. ckpt[o].phase # "none" /\ ckpt[o].held = held
    BY <1>1, <1>5 DEF ResumeAt, WholeAt, DecidedPCs, Live
  <2> QED BY <1>1, <2>1 DEF UnsweptOf, AllOwn
<1>6. CASE Intend(a) \/ Acknowledge(a) \/ Cleaned(a)
  <2>1. agent[a].pc \in {"deleting", "unlinking", "unlinked"}
    BY <1>6 DEF Intend, Acknowledge, Cleaned
  <2>2. ~Checkpoint(a)
    BY <2>1 DEF Checkpoint
  <2>3. ckpt'[o] = ckpt[o] \/ held = agent[a].held
    BY <1>1, <1>3, <2>2, CheckpointCursor DEF Recorded
  <2> QED BY <1>4, <1>5, <2>1, <2>3
<1>7. CASE Checkpoint(a)
  <2>1. Holding(o)
    BY <1>1, <1>7 DEF Checkpoint, SetAt
  <2>2. held = [i \in DOMAIN CleanupPaths(o) |-> Holder(o, CleanupPaths(o)[i])]
    <3>1. ~Intend(a) /\ ~Acknowledge(a) /\ ~Cleaned(a)
      BY <1>7 DEF Checkpoint, Intend, Acknowledge, Cleaned
    <3> QED BY <1>1, <1>3, <1>7, <3>1, CheckpointCursor DEF Recorded
  <2>3. ASSUME NEW i \in 1..PathCount(o) PROVE held[i] = o
    <3>1. Present(o, CleanupPaths(o)[i])
      BY <2>1, HoldingPresent
    <3> QED BY <1>1, <2>2, <3>1 DEF Present
  <2> QED BY <2>3
<1>8. ckpt'[o] = ckpt[o] \/ Checkpoint(a) \/ Intend(a) \/ Acknowledge(a) \/ Cleaned(a)
  BY <1>1, CheckpointCursor
<1> QED BY <1>4, <1>6, <1>7, <1>8

\* The operation a process works on: what its cleanup has not reached is there.
LEMMA UnsweptOfOwn ==
    ASSUME DistinctRows, ResumeInv, NEW a \in Agents, Working(a),
           NEW o \in Ops, o = agent[a].op
    PROVE  UnsweptOf(o)'
<1>1. /\ SetInv /\ Typed /\ UnsweptOf(o) /\ ResumeAt(a) /\ SetAt(a) /\ WholeAt(a)
      /\ agent[a].pc \notin {"idle", "exited"}
      /\ Baseline(o)' = Baseline(o) /\ PathCount(o) \in Nat
      /\ agent[a].i \in Nat /\ ckpt[o].cursor \in Nat
  BY ResumeHas, OwnRecords, Others, AtStep, SidecarPaths DEF Baseline, Typed, TypeOK, Progress
<1>2. CleanupPaths(o)' = CleanupPaths(o) /\ PathCount(o)' = PathCount(o)
  BY <1>1, PathsStay
<1>3. ASSUME NEW m \in Nat, NEW n \in Nat, m <= n, Unswept(o, m), ckpt[o].phase # "none",
             Unlink(a) => agent[a].i + 1 <= n
      PROVE  Unswept(o, n)'
  <2> SUFFICES ASSUME NEW i \in 1..PathCount(o), i > n
               PROVE  Present(o, CleanupPaths(o)[i])'
    BY <1>2 DEF Unswept
  <2>1. Present(o, CleanupPaths(o)[i])
    BY <1>1, <1>3 DEF Unswept
  <2>2. CASE Unlink(a)
    <3>1. i # agent[a].i + 1
      BY <1>1, <1>3, <2>2
    <3> QED BY <2>1, <2>2, <3>1, UnlinkOne
  <2>3. CASE ~Unlink(a)
    <3>1. UNCHANGED sidecarVars
      BY <1>1, <1>3, <2>3, DecidedLeaves
    <3> QED BY <1>2, <2>1, <3>1 DEF Present, Holder, sidecarVars
  <2> QED BY <2>2, <2>3
<1> SUFFICES ASSUME ckpt'[o].phase # "none"
             PROVE  /\ Unswept(o, ckpt[o].cursor + 1)'
                    /\ ~ckpt'[o].pending => Unswept(o, ckpt[o].cursor)'
  BY RecordsOwn DEF UnsweptOf
<1>4. ASSUME NEW n \in Nat, ckpt'[o].cursor = n, Unswept(o, n)'
      PROVE  /\ Unswept(o, ckpt[o].cursor + 1)'
             /\ Unswept(o, ckpt[o].cursor)'
  BY <1>2, <1>4 DEF Unswept
<1>5. ASSUME NEW n \in Nat, ckpt'[o].cursor = n, Unswept(o, n + 1)', ckpt'[o].pending
      PROVE  /\ Unswept(o, ckpt[o].cursor + 1)'
             /\ ~ckpt'[o].pending => Unswept(o, ckpt[o].cursor)'
  BY <1>5 DEF Unswept
<1>6. CASE ckpt'[o] = ckpt[o]
  <2>1. ckpt[o].phase # "none"
    BY <1>6
  <2>2. CASE ckpt[o].pending
    <3>1. PICK n \in Nat : n = ckpt[o].cursor
      BY <1>1
    <3>2. Unlink(a) => agent[a].i + 1 <= n + 1
      BY <1>1, <3>1 DEF Unlink, ResumeAt
    <3>3. Unswept(o, n + 1)
      BY <1>1, <2>1, <3>1 DEF UnsweptOf
    <3>4. Unswept(o, n + 1)'
      BY <1>3, <2>1, <3>2, <3>3
    <3> QED BY <1>5, <1>6, <2>2, <3>1, <3>4
  <2>3. CASE ~ckpt[o].pending
    <3>1. PICK n \in Nat : n = ckpt[o].cursor
      BY <1>1
    <3>2. ~Unlink(a)
      BY <1>1, <2>3 DEF Unlink, ResumeAt
    <3>3. Unswept(o, n)
      BY <1>1, <2>1, <2>3, <3>1 DEF UnsweptOf
    <3>4. Unswept(o, n)'
      BY <1>3, <2>1, <3>2, <3>3
    <3> QED BY <1>4, <1>6, <3>1, <3>4
  <2> QED BY <2>2, <2>3
<1>7. CASE Checkpoint(a) /\ ckpt'[o].cursor = 0
  <2>1. Holding(o)
    BY <1>1, <1>7 DEF Checkpoint, SetAt
  <2>2. UNCHANGED sidecarVars
    BY <1>7 DEF Checkpoint
  <2>3. ASSUME NEW i \in 1..PathCount(o) PROVE Present(o, CleanupPaths(o)[i])'
    <3>1. Present(o, CleanupPaths(o)[i])
      BY <2>1, HoldingPresent
    <3> QED BY <1>2, <2>2, <3>1 DEF Present, Holder, sidecarVars
  <2>4. Unswept(o, 0)'
    BY <1>2, <2>3 DEF Unswept
  <2> QED BY <1>4, <1>7, <2>4
<1>8. CASE Intend(a) /\ ckpt'[o].cursor = agent[a].i /\ ckpt'[o].pending
  <2>1. ~Unlink(a) /\ ckpt[o].phase # "none" /\ ckpt[o].cursor = agent[a].i
    BY <1>1, <1>8 DEF Intend, Unlink, ResumeAt, WholeAt, DecidedPCs, Live
  <2>2. PICK n \in Nat : n = agent[a].i
    BY <1>1
  <2>3. Unswept(o, n + 1)
    BY <1>1, <2>1, <2>2 DEF UnsweptOf
  <2>4. Unswept(o, n + 1)'
    BY <1>3, <2>1, <2>3
  <2> QED BY <1>5, <1>8, <2>2, <2>4
<1>9. CASE Acknowledge(a) /\ ckpt'[o].cursor = agent[a].i + 1
  <2>1. ~Unlink(a) /\ ckpt[o].phase # "none" /\ ckpt[o].cursor = agent[a].i
    BY <1>1, <1>9 DEF Acknowledge, Unlink, ResumeAt, WholeAt, DecidedPCs, Live
  <2>2. PICK n \in Nat : n = agent[a].i + 1
    BY <1>1
  <2>3. Unswept(o, n)
    BY <1>1, <2>1, <2>2 DEF UnsweptOf
  <2>4. Unswept(o, n)'
    BY <1>3, <2>1, <2>3
  <2> QED BY <1>4, <1>9, <2>2, <2>4
<1>10. CASE Cleaned(a) /\ ckpt'[o].cursor = agent[a].i
  <2>1. PICK n \in Nat : n = agent[a].i
    BY <1>1
  <2>2. Unswept(o, n)'
    BY <1>2, <1>10, <2>1 DEF Cleaned, Unswept, PathCount
  <2> QED BY <1>4, <1>10, <2>1, <2>2
<1> QED BY <1>1, <1>6, <1>7, <1>8, <1>9, <1>10, CheckpointCursor DEF Recorded

\* The other processes work on other operations.
LEMMA ResumeOthers ==
    ASSUME ResumeInv, NEW a \in Agents, Working(a), NEW b \in Agents \ {a}
    PROVE  ResumeAt(b)'
<1>1. /\ agent'[b] = agent[b] /\ Typed /\ SetInv /\ ResumeAt(b) /\ Live(a)
  BY ResumeHas, Others DEF Live
<1>2. CASE ~Live(b)
  BY <1>1, <1>2 DEF ResumeAt, Writer, Live
<1>3. CASE Live(b)
  <2>1. PICK o \in Ops : o = agent[b].op
    BY <1>1, <1>3, AtStep DEF Live
  <2>2. o # agent[a].op
    BY <1>1, <1>3, <2>1, Sole
  <2>3. ckpt'[o] = ckpt[o] /\ observed'[o] = observed[o]
    BY <1>1, <2>2, OwnRecords
  <2> QED BY <1>1, <2>1, <2>3 DEF ResumeAt, Writer, Live, Files
<1> QED BY <1>2, <1>3

\* The process itself.
LEMMA ResumeOwn ==
    ASSUME ResumeInv, NEW a \in Agents, Working(a)
    PROVE  ResumeAt(a)'
<1> SUFFICES ASSUME NEW o \in Ops, o = agent[a].op
             PROVE  ResumeAt(a)'
  BY ResumeHas, Others, AtStep
<1>1. /\ agent \in [Agents -> Process] /\ agent'[a].op = o /\ Typed /\ ResumeAt(a)
      /\ agent[a].i \in Nat /\ ckpt \in [Ops -> Progress] /\ TypeOK
      /\ observed \in [Ops -> Readings] /\ agent[a].pc # "idle"
  BY ResumeHas, Others, AtStep DEF Typed, TypeOK
<1>2. Writer(a)' /\ agent'[a].pc \in BeforePCs => observed'[o] = <<>>
  <2>1. ASSUME Writer(a)', agent'[a].pc \in BeforePCs PROVE observed'[o] = <<>>
    <3>1. Writer(a) /\ agent[a].pc \in BeforePCs /\ observed' = observed
      BY <2>1, BeforeWorking
    <3> QED BY <1>1, <3>1 DEF ResumeAt
  <2> QED BY <2>1
<1>3. ASSUME agent'[a].pc \notin {"archiving", "deleting", "unlinking", "unlinked"}
      PROVE  ResumeAt(a)'
  BY <1>1, <1>2, <1>3 DEF ResumeAt
<1>4. ASSUME NEW x, Goto(a, x)
      PROVE  /\ agent'[a].pc = x /\ agent'[a].i = agent[a].i
             /\ agent'[a].pending = agent[a].pending /\ agent'[a].held = agent[a].held
  BY <1>1, <1>4, Moves DEF Moved, KeepsRest
<1>5. ASSUME NEW x, NEW i, GotoAt(a, x, i) PROVE agent'[a].pc = x
  BY <1>1, <1>5, Moves DEF Moved
<1>6. ASSUME Raise(a) PROVE ResumeAt(a)'
  BY <1>1, <1>3, <1>6, RaiseMoves DEF Moved
<1>7. CASE GuardCheckpoints(a) \/ GuardLocks(a) \/ Arming(a)
  <2>1. CASE GuardCheckpoints(a) \/ GuardLocks(a)
    BY <1>3, <1>4, <2>1 DEF GuardCheckpoints, GuardLocks
  <2>2. CASE Arming(a)
    BY <1>1, <1>3, <2>2, ArmMovesTo DEF Moved, ArmPCs
  <2> QED BY <1>7, <2>1, <2>2
<1>8. CASE \/ Save(a) \/ Verify(a) \/ SaveFails(a) \/ Rollback(a) \/ Restore(a)
           \/ Restored(a) \/ RestoreFails(a)
  <2>1. CASE Save(a) \/ Verify(a) \/ SaveFails(a)
    BY <1>3, <1>4, <1>5, <2>1 DEF Save, Verify, SaveFails
  <2>2. CASE Rollback(a)
    BY <1>1, <1>3, <1>6, <2>2, RollbackMoves DEF Moved
  <2>3. CASE Restore(a) \/ Restored(a) \/ RestoreFails(a)
    BY <1>3, <1>4, <1>5, <1>6, <2>3 DEF Restore, Restored, RestoreFails
  <2> QED BY <1>8, <2>1, <2>2, <2>3
<1>9. CASE CleanupBegin(a)
  <2>1. ckpt' = ckpt
    BY <1>9 DEF CleanupBegin
  <2>2. CASE Raise(a)
    BY <1>6, <2>2
  <2>3. CASE /\ Goto(a, "archiving") /\ ckpt[o].phase = "none"
             /\ observed' = [observed EXCEPT ![o] = Current(o)]
    <3>1. agent'[a].pc = "archiving"
      BY <1>4, <2>3
    <3>2. observed'[o] \in [Files(o) -> Bytes]
      BY <1>1, <2>3, CurrentTyped
    <3> QED BY <1>1, <1>2, <2>1, <2>3, <3>1, <3>2 DEF ResumeAt, Files, Bytes
  <2>4. CASE /\ Moved(a, "deleting", agent[a].mode)
             /\ agent'[a].i = ckpt[o].cursor /\ agent'[a].pending = ckpt[o].pending
             /\ agent'[a].held = ckpt[o].held
    <3>1. agent'[a].pc = "deleting"
      BY <2>4 DEF Moved
    <3> QED BY <1>1, <1>2, <2>1, <2>4, <3>1 DEF ResumeAt
  <2> QED BY <1>1, <1>9, <2>2, <2>3, <2>4, CleanupMoves
<1>10. CASE PublishArchive(a)
  <2>1. /\ agent'[a].pc = "archiving" /\ agent[a].pc = "archiving" /\ ckpt' = ckpt
        /\ observed' = observed
    BY <1>10 DEF PublishArchive
  <2> QED BY <1>1, <1>2, <2>1 DEF ResumeAt, Files, Bytes
<1>11. CASE Checkpoint(a) \/ Acknowledge(a)
  <2>1. agent'[a].pc = "deleting" /\ agent'[a].pending = FALSE
    BY <1>1, <1>11, CleanupMoves DEF Moved
  <2>2. /\ Checkpoint(a) =>
              /\ agent'[a].i = 0
              /\ agent'[a].held = [i \in DOMAIN CleanupPaths(o) |->
                                      Holder(o, CleanupPaths(o)[i])]
        /\ Acknowledge(a) => agent'[a].i = agent[a].i + 1 /\ agent'[a].held = agent[a].held
    BY <1>1, CleanupMoves
  <2>3. ~(Checkpoint(a) /\ Acknowledge(a)) /\ ~Intend(a) /\ ~Cleaned(a)
    BY <1>11 DEF Checkpoint, Acknowledge, Intend, Cleaned
  <2>4. /\ ckpt'[o].cursor = agent'[a].i /\ ~ckpt'[o].pending
        /\ ckpt'[o].held = agent'[a].held
    BY <1>1, <1>11, <2>2, <2>3, CheckpointCursor DEF Recorded
  <2>5. ckpt'[o].pending = agent'[a].pending
    <3>1. ckpt'[o].pending \in BOOLEAN
      <4>1. ckpt' \in [Ops -> Progress]
        BY ResumeHas, SetWorking DEF SetInv, WholeInv, Attended, Typed, TypeOK
      <4> QED BY <4>1 DEF Progress
    <3> QED BY <2>1, <2>4, <3>1
  <2> QED BY <1>1, <1>2, <2>1, <2>4, <2>5 DEF ResumeAt
<1>12. CASE Intend(a)
  <2>1. CASE Raise(a)
    BY <1>6, <2>1
  <2>2. CASE /\ Moved(a, "unlinking", agent[a].mode) /\ agent'[a].i = agent[a].i
             /\ agent'[a].held = agent[a].held
    <3>1. agent'[a].pc = "unlinking" /\ agent[a].pc = "deleting" /\ ~Raise(a)
      BY <1>1, <1>12, <2>2, RaiseMoves DEF Moved, Intend
    <3>2. /\ ckpt[o].cursor = agent[a].i /\ ckpt[o].pending = agent[a].pending
          /\ ckpt[o].held = agent[a].held
      BY <1>1, <3>1 DEF ResumeAt
    <3>3. ~Checkpoint(a) /\ ~Acknowledge(a) /\ ~Cleaned(a)
      <4>1. agent[a].i < PathCount(o) /\ PathCount(o) \in Nat
        BY <1>12, SidecarPaths DEF Intend, PathCount
      <4>2. agent[a].i # Len(CleanupPaths(agent[a].op))
        BY <1>1, <4>1 DEF PathCount
      <4> QED BY <1>12, <4>2 DEF Intend, Checkpoint, Acknowledge, Cleaned
    <3>4. /\ ckpt'[o].cursor = agent'[a].i /\ ckpt'[o].pending
          /\ ckpt'[o].held = agent'[a].held
      BY <1>1, <1>12, <2>2, <3>1, <3>2, <3>3, CheckpointCursor DEF Recorded
    <3> QED BY <1>1, <1>2, <3>1, <3>4 DEF ResumeAt
  <2> QED BY <1>1, <1>12, <2>1, <2>2, CleanupMoves
<1>13. CASE Unlink(a)
  <2>1. /\ agent'[a].pc = "unlinked" /\ agent'[a].i = agent[a].i /\ ckpt' = ckpt
        /\ agent'[a].held = agent[a].held /\ agent[a].pc = "unlinking"
    BY <1>4, <1>13 DEF Unlink, proofVars
  <2> QED BY <1>1, <1>2, <2>1 DEF ResumeAt
<1>14. CASE Cleaned(a)
  <2>1. agent[a].mode \in {"commit", "rollback", "resolve"}
    BY <1>1, AtStep
  <2>2. agent'[a].pc \in {"completed", "restored", "resolved"}
    BY <1>4, <1>14, <2>1 DEF Cleaned
  <2> QED BY <1>3, <2>2
<1>15. CASE CleanupFails(a)
  BY <1>6, <1>15 DEF CleanupFails
<1>16. CASE \/ Undispatch(a) \/ Finish(a) \/ Resolve(a) \/ ResolveRefused(a) \/ Crash(a)
  BY <1>1, <1>3, <1>16, Ends
<1> QED BY <1>7, <1>8, <1>9, <1>10, <1>11, <1>12, <1>13, <1>14, <1>15, <1>16
        DEF Working, Step, Arming

\* A step of a working process.
LEMMA ResumeWorking ==
    ASSUME Apart, DistinctRows, ResumeInv, NEW a \in Agents, Working(a)
    PROVE  ResumeInv'
<1>1. CleanInv'
  BY CleanWorking DEF ResumeInv
<1>2. ASSUME NEW o \in Ops PROVE ResumeOf(o)'
  <2>1. WrittenOf(o)'
    BY WrittenWorking
  <2>2. BoundOf(o)'
    BY BoundOfOwn, BoundOfOthers
  <2>3. UnsweptOf(o)'
    BY UnsweptOfOwn, UnsweptOfOthers
  <2> QED BY <2>1, <2>2, <2>3 DEF ResumeOf
<1>3. \A b \in Agents : ResumeAt(b)'
  BY ResumeOwn, ResumeOthers
<1> QED BY <1>1, <1>2, <1>3 DEF ResumeInv

\* What a step that is not one of a working process may change of a row, a
\* document and the checks of a start.
LEMMA RestChanges ==
    ASSUME OneResolver, Attended,
           \/ \E a \in Agents, o \in Ops : Confirm(a, o) \/ ResolveBegin(a, o)
           \/ \E o \in Ops : Prune(o)
           \/ \E d \in Docs, e \in Edits : Edit(d, e)
           \/ UNCHANGED vars
    PROVE  /\ UNCHANGED <<lock, journal, backup, spoilt, archive, observed, ckpt>>
           /\ \A x \in Ops :
                 \/ Baseline(x)' = Baseline(x)
                    /\ (row'[x].status = "planned" => row[x].status = "planned")
                 \/ /\ row[x].status = "planned" /\ row'[x].status # "planned"
                    /\ Baseline(x)' = Current(x)
           /\ \A d \in Docs :
                 \/ doc'[d] = doc[d]
                 \/ /\ doc'[d] \in Edits
                    /\ \A o \in Ops :
                          d \in DOMAIN Baseline(o) => Baseline(o)[d] # doc'[d]
           /\ \/ agent' = agent
              \/ \E a \in Agents :
                    /\ \A b \in Agents \ {a} : agent'[b] = agent[b]
                    /\ \/ /\ agent'[a].pc = "confirmed" /\ agent'[a].mode = "commit"
                          /\ agent'[a].op \in Ops
                          /\ row[agent'[a].op].status = "planned"
                       \/ /\ agent'[a].pc = "closing" /\ agent'[a].mode = "resolve"
                          /\ \A b \in Agents : ~Resolver(b)
<1>1. /\ row \in [Ops -> Row] /\ agent \in [Agents -> Process] /\ doc \in [Docs -> Bytes]
  BY DEF Attended, Typed, TypeOK
<1>2. UNCHANGED <<lock, journal, backup, spoilt, archive, observed, ckpt>>
  BY DEF Confirm, ResolveBegin, Prune, Edit, vars, sidecarVars, proofVars
<1>3. ASSUME NEW a \in Agents, NEW o \in Ops, Confirm(a, o)
      PROVE  /\ row'[o].status = "dispatched" /\ row'[o].baseline = Current(o)
             /\ row[o].status = "planned" /\ doc' = doc
             /\ \A x \in Ops \ {o} : row'[x] = row[x]
             /\ agent'[a].pc = "confirmed" /\ agent'[a].mode = "commit" /\ agent'[a].op = o
             /\ \A b \in Agents \ {a} : agent'[b] = agent[b]
  <2> DEFINE r == [row[o] EXCEPT !.status = "dispatched", !.writer = a,
                                 !.baseline = Current(o)]
             q == [agent[a] EXCEPT !.pc = "confirmed", !.op = o, !.mode = "commit"]
  <2>1. r.status = "dispatched" /\ r.baseline = Current(o)
    BY <1>1, SMT DEF Row
  <2>2. q.pc = "confirmed" /\ q.op = o /\ q.mode = "commit"
    BY <1>1, SMT DEF Process
  <2>3. /\ row' = [row EXCEPT ![o] = r] /\ agent' = [agent EXCEPT ![a] = q]
        /\ row[o].status = "planned" /\ doc' = doc
    BY <1>3, Zenon DEF Confirm
  <2> HIDE DEF r, q
  <2> QED BY <1>1, <2>1, <2>2, <2>3
<1>4. ASSUME NEW a \in Agents, NEW o \in Ops, ResolveBegin(a, o)
      PROVE  /\ row' = row /\ doc' = doc
             /\ agent'[a].pc = "closing" /\ agent'[a].mode = "resolve"
             /\ \A b \in Agents \ {a} : agent'[b] = agent[b]
             /\ \A b \in Agents : ~Resolver(b)
  <2> DEFINE q == [agent[a] EXCEPT !.pc = "closing", !.op = o, !.mode = "resolve",
                                   !.seen = Current(o)]
  <2>1. q.pc = "closing" /\ q.mode = "resolve"
    BY <1>1, SMT DEF Process
  <2>2. /\ agent' = [agent EXCEPT ![a] = q] /\ row' = row /\ doc' = doc
        /\ \A b \in Agents : Alive(b) => agent[b].mode # "resolve"
    BY <1>4, Zenon DEF ResolveBegin
  <2>3. \A b \in Agents : ~Resolver(b)
    BY <2>2 DEF Alive, Resolver, Live
  <2> HIDE DEF q
  <2> QED BY <1>1, <2>1, <2>2, <2>3
<1>5. ASSUME NEW o \in Ops, Prune(o)
      PROVE  /\ row'[o].status # "planned" /\ row'[o].baseline = row[o].baseline
             /\ \A x \in Ops \ {o} : row'[x] = row[x]
             /\ doc' = doc /\ agent' = agent
  BY <1>1, <1>5, SMT DEF Prune, Row
<1>6. ASSUME NEW d \in Docs, NEW e \in Edits, Edit(d, e)
      PROVE  /\ row' = row /\ agent' = agent
             /\ doc'[d] = e /\ \A c \in Docs \ {d} : doc'[c] = doc[c]
             /\ \A o \in Ops : d \in DOMAIN Baseline(o) => Baseline(o)[d] # e
  BY <1>1, <1>6 DEF Edit
<1>7. CASE \E a \in Agents, o \in Ops : Confirm(a, o)
  <2>1. PICK a \in Agents, o \in Ops : Confirm(a, o)
    BY <1>7
  <2>2. /\ \A x \in Ops \ {o} : row'[x] = row[x]
        /\ row'[o].status = "dispatched" /\ row'[o].baseline = Current(o)
        /\ row[o].status = "planned" /\ doc' = doc
    BY <1>3, <2>1
  <2>3. \A x \in Ops :
            \/ Baseline(x)' = Baseline(x)
               /\ (row'[x].status = "planned" => row[x].status = "planned")
            \/ /\ row[x].status = "planned" /\ row'[x].status # "planned"
               /\ Baseline(x)' = Current(x)
    BY <2>2 DEF Baseline
  <2>4. /\ agent'[a].pc = "confirmed" /\ agent'[a].mode = "commit" /\ agent'[a].op = o
        /\ \A b \in Agents \ {a} : agent'[b] = agent[b]
    BY <1>3, <2>1
  <2> QED BY <1>2, <2>2, <2>3, <2>4
<1>8. CASE \E a \in Agents, o \in Ops : ResolveBegin(a, o)
  <2>1. PICK a \in Agents, o \in Ops : ResolveBegin(a, o)
    BY <1>8
  <2> QED BY <1>2, <1>4, <2>1 DEF Baseline
<1>9. CASE \E o \in Ops : Prune(o)
  <2>1. PICK o \in Ops : Prune(o)
    BY <1>9
  <2>2. \A x \in Ops : /\ Baseline(x)' = Baseline(x)
                       /\ row'[x].status = "planned" => row[x].status = "planned"
    BY <1>5, <2>1 DEF Baseline
  <2> QED BY <1>2, <1>5, <2>1, <2>2
<1>10. CASE \E d \in Docs, e \in Edits : Edit(d, e)
  BY <1>2, <1>6, <1>10 DEF Baseline
<1>11. CASE UNCHANGED vars
  BY <1>2, <1>11 DEF vars, Baseline
<1> QED BY <1>7, <1>8, <1>9, <1>10, <1>11

\* A start, a deleted row, an editor: the editor's bytes are new.
LEMMA ResumeRest ==
    ASSUME OneResolver, ResumeInv,
           \/ \E a \in Agents, o \in Ops : Confirm(a, o) \/ ResolveBegin(a, o)
           \/ \E o \in Ops : Prune(o)
           \/ \E d \in Docs, e \in Edits : Edit(d, e)
           \/ UNCHANGED vars
    PROVE  ResumeInv'
<1>1. CleanInv'
  <2>1. [Next]_vars
    BY DEF Next
  <2> QED BY <2>1, CleanNext DEF ResumeInv
<1>2. Attended /\ SetInv /\ Typed
  BY ResumeHas
<1>3. UNCHANGED <<lock, journal, backup, spoilt, archive, observed, ckpt>>
  BY <1>2, RestChanges
<1>4. \A x \in Ops :
          \/ Baseline(x)' = Baseline(x)
             /\ (row'[x].status = "planned" => row[x].status = "planned")
          \/ /\ row[x].status = "planned" /\ row'[x].status # "planned"
             /\ Baseline(x)' = Current(x)
  BY <1>2, RestChanges
<1>5. \A d \in Docs :
          \/ doc'[d] = doc[d]
          \/ /\ doc'[d] \in Edits
             /\ \A o \in Ops : d \in DOMAIN Baseline(o) => Baseline(o)[d] # doc'[d]
  BY <1>2, RestChanges
<1>6. \/ agent' = agent
      \/ \E a \in Agents :
            /\ \A b \in Agents \ {a} : agent'[b] = agent[b]
            /\ \/ /\ agent'[a].pc = "confirmed" /\ agent'[a].mode = "commit"
                  /\ agent'[a].op \in Ops
                  /\ row[agent'[a].op].status = "planned"
               \/ /\ agent'[a].pc = "closing" /\ agent'[a].mode = "resolve"
                  /\ \A b \in Agents : ~Resolver(b)
  BY <1>2, RestChanges
<1>7. ASSUME NEW o \in Ops
      PROVE  /\ WrittenOf(o) /\ BoundOf(o) /\ UnsweptOf(o) /\ Files(o) \subseteq Docs
             /\ row[o].status = "planned" => ~Bounded(o)
             /\ row[o].status # "planned" =>
                   Baseline(o)' = Baseline(o) /\ DOMAIN Baseline(o) = Files(o)
  <2>1. WrittenOf(o) /\ BoundOf(o) /\ UnsweptOf(o) /\ Files(o) \subseteq Docs
    BY ResumeHas, ConstantFacts
  <2>2. row[o].status = "planned" => ~Bounded(o)
    BY ResumeHas, <2>1 DEF WholeOf, BoundOf, Bounded
  <2>3. row[o].status # "planned" => Baseline(o) \in [Files(o) -> Bytes]
    BY <1>2 DEF Typed, Bound, HasBase, Baseline
  <2> QED BY <1>4, <2>1, <2>2, <2>3
<1>8. ASSUME NEW o \in Ops PROVE WrittenOf(o)'
  <2>1. ASSUME NEW d \in Docs, doc'[d] = o PROVE Written(o)
    BY <1>5, <2>1, ConstantFacts DEF Written
  <2>2. ASSUME NEW x \in Ops, NEW d \in DOMAIN Baseline(x)', Baseline(x)'[d] = o
        PROVE  Written(o)
    <3>1. CASE Baseline(x)' = Baseline(x)
      BY <2>2, <3>1 DEF Written
    <3>2. CASE Baseline(x)' = Current(x)
      <4>1. d \in Files(x) /\ doc[d] = o
        BY <2>2, <3>2 DEF Current
      <4> QED BY <4>1, ConstantFacts DEF Written
    <3> QED BY <1>4, <3>1, <3>2
  <2>3. Written(o)' => Written(o)
    BY <2>1, <2>2 DEF Written
  <2> QED BY <1>3, <1>7, <2>3 DEF WrittenOf
<1>9. ASSUME NEW o \in Ops PROVE BoundOf(o)'
  <2>1. ASSUME Bounded(o), NEW d \in Files(o) PROVE AsBound(o, d)'
    <3>1. /\ AsBound(o, d) /\ Baseline(o)' = Baseline(o) /\ d \in DOMAIN Baseline(o)
          /\ d \in Docs
      BY <1>7, <2>1 DEF BoundOf
    <3>2. CASE doc'[d] = doc[d]
      BY <1>3, <3>1, <3>2 DEF AsBound
    <3>3. CASE doc'[d] \in Edits /\ Baseline(o)[d] # doc'[d]
      BY <3>1, <3>3 DEF AsBound
    <3> QED BY <1>5, <3>1, <3>2, <3>3
  <2>2. row'[o].status = "planned" => row[o].status = "planned"
    BY <1>4
  <2>3. Bounded(o)' => Bounded(o)
    BY <1>3 DEF Bounded
  <2> QED BY <1>3, <1>7, <2>1, <2>2, <2>3 DEF BoundOf, Files
<1>10. ASSUME NEW o \in Ops PROVE UnsweptOf(o)'
  <2>1. CASE ckpt[o].phase = "none"
    BY <1>3, <2>1 DEF UnsweptOf
  <2>2. CASE ckpt[o].phase # "none"
    <3>1. Baseline(o)' = Baseline(o)
      BY <1>7, <2>2 DEF Bounded
    <3>2. CleanupPaths(o)' = CleanupPaths(o) /\ PathCount(o)' = PathCount(o)
      BY <3>1, PathsStay
    <3> QED BY <1>3, <1>7, <3>2 DEF UnsweptOf, Unswept, AllOwn, Present, Holder
  <2> QED BY <2>1, <2>2
<1>11. ASSUME NEW b \in Agents, agent'[b] = agent[b] PROVE ResumeAt(b)'
  <2>1. ResumeAt(b)
    BY DEF ResumeInv
  <2> QED BY <1>3, <1>11, <2>1 DEF ResumeAt, Writer, Live, Files, Bytes
<1>12. \A b \in Agents : ResumeAt(b)'
  <2>1. CASE agent' = agent
    BY <1>11, <2>1
  <2>2. ASSUME NEW a \in Agents, \A b \in Agents \ {a} : agent'[b] = agent[b],
               agent'[a].pc = "confirmed", agent'[a].mode = "commit",
               agent'[a].op \in Ops, row[agent'[a].op].status = "planned"
        PROVE  \A b \in Agents : ResumeAt(b)'
    <3>1. observed'[agent'[a].op] = <<>>
      BY <1>3, <1>7, <2>2 DEF Bounded
    <3>2. ResumeAt(a)'
      BY <2>2, <3>1 DEF ResumeAt
    <3> QED BY <1>11, <2>2, <3>2
  <2>3. ASSUME NEW a \in Agents, \A b \in Agents \ {a} : agent'[b] = agent[b],
               agent'[a].pc = "closing", agent'[a].mode = "resolve",
               \A b \in Agents : ~Resolver(b)
        PROVE  \A b \in Agents : ResumeAt(b)'
    <3>1. ResumeAt(a)'
      BY <2>3 DEF ResumeAt, Writer, Live
    <3> QED BY <1>11, <2>3, <3>1
  <2> QED BY <1>6, <2>1, <2>2, <2>3
<1> QED BY <1>1, <1>8, <1>9, <1>10, <1>12 DEF ResumeInv, ResumeOf

\* Without overlap, a sidecar that is not the operation's own is not there.
LEMMA OwnOrGone ==
    ASSUME Apart, ResumeInv, NEW o \in Ops, NEW p \in Sidecars(o), ~Present(o, p)
    PROVE  Holder(o, p) = None
<1>1. /\ lock \in [Docs -> Ops \union {None}] /\ journal \in [Docs -> Ops \union {None}]
      /\ p \in Paths /\ \A x \in Ops : InPlace(x)
  BY SidecarPaths, ResumeHas DEF LeftOf, Typed, TypeOK
<1>2. p[1] \in {"backup", "lock", "journal"} /\ p[2] \in Docs /\ p = <<p[1], p[2]>>
  BY <1>1 DEF Paths
<1>3. CASE p[1] = "backup"
  BY <1>3 DEF Present, Holder
<1>4. ASSUME NEW x \in Ops \ {o}, p[1] # "backup", Present(x, p) PROVE FALSE
  <2>1. p \in Places(x)
    BY <1>1, <1>4 DEF InPlace
  <2>2. p[2] \in Members(o) /\ p[2] \in Members(x)
    BY <1>2, <1>4, <2>1 DEF Sidecars, Places, Members
  <2> QED BY <2>2 DEF Apart
<1>5. CASE p[1] = "lock"
  BY <1>1, <1>2, <1>4, <1>5 DEF Present, Holder
<1>6. CASE p[1] = "journal"
  BY <1>1, <1>2, <1>4, <1>6 DEF Present, Holder
<1> QED BY <1>2, <1>3, <1>5, <1>6

\* What is on disk of an operation that is armed or decided passes attribution,
\* also while a process works on it, unless an editor has changed the set.
LEMMA ResumeOwned ==
    ASSUME Apart, ResumeInv, NEW o \in Ops,
           journal[PrimaryOf[o]] = o \/ ckpt[o].phase # "none",
           \A d \in DOMAIN Baseline(o) : doc[d] \in Edits => doc[d] = Baseline(o)[d]
    PROVE  Owned(o)
<1>1. /\ SetOf(o) /\ Typed /\ BoundOf(o) /\ UnsweptOf(o) /\ LeftOf(o) /\ WholeOf(o)
      /\ PathCount(o) \in Nat /\ ckpt[o].cursor \in Nat
      /\ DOMAIN CleanupPaths(o) = 1..PathCount(o)
  BY SidecarPaths, ResumeHas DEF Typed, TypeOK, Progress
<1>2. DOMAIN Baseline(o) = Files(o)
  <2>1. row[o].status # "planned"
    BY <1>1 DEF SetOf, WholeOf
  <2>2. Baseline(o) \in [Files(o) -> Bytes]
    BY <1>1, <2>1 DEF Typed, Bound, HasBase, Baseline
  <2> QED BY <2>2
<1>3. Bounded(o) => Current(o) = observed[o]
  <2>1. ASSUME Bounded(o) PROVE Current(o) = observed[o]
    <3>1. /\ observed[o] \in [Files(o) -> Bytes]
          /\ \A d \in Files(o) : doc[d] = observed[o][d]
      BY <1>1, <1>2, <2>1 DEF BoundOf, AsBound
    <3> QED BY <3>1 DEF Current
  <2> QED BY <2>1
<1>4. CASE ckpt[o].phase # "none"
  <2>1. Current(o) = observed[o] /\ Archived(o)
    BY <1>1, <1>3, <1>4 DEF Bounded, WholeOf
  <2>2. ASSUME NEW i \in 1..PathCount(o)
        PROVE  IF i <= ckpt[o].cursor THEN Holder(o, CleanupPaths(o)[i]) = None
               ELSE \/ Holder(o, CleanupPaths(o)[i]) = ckpt[o].held[i]
                    \/ /\ i = ckpt[o].cursor + 1 /\ ckpt[o].pending
                       /\ Holder(o, CleanupPaths(o)[i]) = None
    <3>1. PICK p \in Sidecars(o) : p = CleanupPaths(o)[i]
      BY SidecarPaths
    <3>2. Present(o, p) \/ Holder(o, p) = None
      BY OwnOrGone
    <3>0. Present(o, p) => Holder(o, CleanupPaths(o)[i]) = ckpt[o].held[i]
      BY <1>1, <1>4, <3>1 DEF UnsweptOf, AllOwn, Present
    <3>3. CASE i <= ckpt[o].cursor
      <4>1. ~Present(o, p)
        <5>1. i \in 1..ckpt[o].cursor
          BY <1>1, <3>3
        <5> QED BY <1>1, <1>4, <3>1, <5>1 DEF LeftOf, Swept
      <4> QED BY <3>1, <3>2, <3>3, <4>1
    <3>4. CASE ~(i <= ckpt[o].cursor)
      <4>0. i > ckpt[o].cursor
        BY <1>1, <3>4
      <4>1. CASE ckpt[o].pending /\ i = ckpt[o].cursor + 1
        BY <1>1, <3>0, <3>1, <3>2, <3>4, <4>1
      <4>2. CASE ckpt[o].pending /\ i # ckpt[o].cursor + 1
        <5>1. i > ckpt[o].cursor + 1
          BY <1>1, <4>0, <4>2
        <5>2. Present(o, p)
          BY <1>1, <1>4, <3>1, <5>1 DEF UnsweptOf, Unswept
        <5> QED BY <3>0, <3>4, <5>2
      <4>3. CASE ~ckpt[o].pending
        <5>1. Present(o, p)
          BY <1>1, <1>4, <3>1, <4>0, <4>3 DEF UnsweptOf, Unswept
        <5> QED BY <3>0, <3>4, <5>1
      <4> QED BY <4>1, <4>2, <4>3
    <3> QED BY <3>3, <3>4
  <2> QED BY <1>1, <1>4, <2>1, <2>2 DEF Owned
<1>5. CASE ckpt[o].phase = "none"
  <2>1. Holding(o)
    BY <1>1, <1>5 DEF SetOf
  <2>2. BackedUp(o)
    BY <1>2, <2>1 DEF Holding, Kept, BackedUp
  <2>3. observed[o] # <<>> => observed[o] = Current(o)
    BY <1>3 DEF Bounded
  <2> QED BY <1>5, <2>1, <2>2, <2>3 DEF Owned, Holding
<1> QED BY <1>4, <1>5

\* "A process interruption can therefore resume at any backup, lock or journal
\* deletion, including during resolve itself", for plans with one row per
\* document whose sets do not overlap, and one resolution at a time.
THEOREM CleanupsResume ==
    OneResolver /\ Apart /\ DistinctRows => (Spec => []CleanupResumes)
<1> SUFFICES ASSUME OneResolver, Apart, DistinctRows
             PROVE  Spec => []CleanupResumes
  OBVIOUS
<1>1. ResumeInv /\ [Next]_vars => ResumeInv'
  BY ResumeWorking, ResumeRest DEF Next, Working
<1>2. ResumeInv => CleanupResumes
  <2> SUFFICES ASSUME ResumeInv, NEW o \in Ops,
                      \/ journal[PrimaryOf[o]] = o \/ ckpt[o].phase # "none"
                      \/ \E d \in Docs : doc[d] = o,
                      \A d \in DOMAIN Baseline(o) :
                          doc[d] \in Edits => doc[d] = Baseline(o)[d]
               PROVE  Owned(o)
    BY DEF CleanupResumes
  <2>1. journal[PrimaryOf[o]] = o \/ ckpt[o].phase # "none"
    BY ResumeHas DEF WrittenOf, Written
  <2> QED BY <2>1, ResumeOwned
<1>3. Init => ResumeInv
  BY ResumeInit
<1> QED BY <1>1, <1>2, <1>3, PTL DEF Spec

=============================================================================
