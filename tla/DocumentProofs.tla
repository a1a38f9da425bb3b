--------------------------- MODULE DocumentProofs ---------------------------
(***************************************************************************)
(* Proofs about DocumentTransaction for every number of operations,        *)
(* processes and documents and every overlap of document sets: type        *)
(* correctness, exclusion of overlapping sets, the old bytes of a set are  *)
(* kept, no torn set is recorded as final, an editor's bytes survive, and  *)
(* a plan that waits is untouched.  Two resolvers of one operation can     *)
(* delete a lock that a third process has just made, so exclusion,         *)
(* baselines and ownership of deletions need OneResolver; the rest does    *)
(* not.                                                                    *)
(***************************************************************************)
EXTENDS DocumentTransaction, FiniteSetTheorems, SequenceTheorems, TLAPS

-----------------------------------------------------------------------------
(* Facts about the constants.                                               *)

LEMMA ConstantFacts ==
    /\ \A o \in Ops : /\ FilesOf[o] \in Seq(Docs)
                      /\ Len(FilesOf[o]) \in Nat
                      /\ DOMAIN FilesOf[o] = 1..Len(FilesOf[o])
                      /\ PrimaryOf[o] \in Docs
                      /\ Files(o) \subseteq Docs
                      /\ Members(o) \subseteq Docs
    /\ Old \notin Ops \union Edits /\ Absent \notin Ops \union Edits
    /\ None \notin Ops /\ None \notin Agents
    /\ Ops \cap Edits = {}
<1>1. ASSUME NEW o \in Ops
      PROVE  /\ FilesOf[o] \in Seq(Docs)
             /\ Len(FilesOf[o]) \in Nat
             /\ DOMAIN FilesOf[o] = 1..Len(FilesOf[o])
             /\ PrimaryOf[o] \in Docs
  BY DocumentConstants, SMT DEF DocumentConstants
<1>2. ASSUME NEW o \in Ops
      PROVE  Files(o) \subseteq Docs
  BY <1>1, SMT DEF Files
<1> QED BY <1>1, <1>2, DocumentConstants DEF DocumentConstants, Members
-----------------------------------------------------------------------------
(* The paths of a cleanup.                                                  *)

\* The documents of an operation that existed when it was confirmed.
HadFiles(o) == {d \in Files(o) : Baseline(o)[d] # Absent}

\* Every sidecar an operation may have.
Sidecars(o) ==
    ({"backup"} \X HadFiles(o)) \union ({"lock"} \X Members(o))
    \union {<<"journal", PrimaryOf[o]>>}

\* Its rank numbers the members of a finite set of naturals from 1.
LEMMA Ranks ==
    ASSUME NEW S \in SUBSET Nat, IsFiniteSet(S)
    PROVE  LET R == [i \in S |-> Cardinality({j \in S : j <= i})] IN
           /\ Cardinality(S) \in Nat
           /\ R \in Injection(S, 1..Cardinality(S))
           /\ R \in Surjection(S, 1..Cardinality(S))
<1> DEFINE Upto(i) == {j \in S : j <= i}
           n == Cardinality(S)
           R == [i \in S |-> Cardinality(Upto(i))]
<1>1. n \in Nat
  BY FS_CardinalityType
<1>2. ASSUME NEW i \in S
      PROVE  /\ IsFiniteSet(Upto(i)) /\ i \in Upto(i)
             /\ Cardinality(Upto(i)) \in 1..n
  <2>1. Upto(i) \in SUBSET S /\ i \in Upto(i)
    OBVIOUS
  <2>2. /\ IsFiniteSet(Upto(i)) /\ Cardinality(Upto(i)) \in Nat
        /\ Cardinality(Upto(i)) <= n
    BY <2>1, FS_Subset, FS_CardinalityType
  <2>3. Cardinality(Upto(i)) # 0
    BY <2>1, <2>2, FS_EmptySet
  <2> QED BY <1>1, <2>1, <2>2, <2>3
<1>3. ASSUME NEW i \in S, NEW k \in S, i < k
      PROVE  R[i] # R[k]
  <2>1. Upto(i) \in SUBSET Upto(k) /\ k \in Upto(k) /\ k \notin Upto(i)
    <3>1. \A j \in S : j \in Nat /\ (j <= i => j <= k)
      BY <1>3
    <3>2. k <= k /\ ~(k <= i)
      BY <1>3, <3>1
    <3> QED BY <3>1, <3>2
  <2>2. Cardinality(Upto(i)) # Cardinality(Upto(k))
    BY <1>2, <2>1, FS_Subset
  <2> QED BY <2>2
<1>4. R \in Injection(S, 1..n)
  <2>1. R \in [S -> 1..n]
    BY <1>2
  <2>2. ASSUME NEW i \in S, NEW k \in S, R[i] = R[k] PROVE i = k
    <3>1. i < k \/ k < i \/ i = k
      OBVIOUS
    <3> HIDE DEF R
    <3> QED BY <1>3, <2>2, <3>1
  <2> HIDE DEF R
  <2> QED BY <2>1, <2>2 DEF Injection, IsInjective
<1>5. IsFiniteSet(1..n) /\ Cardinality(1..n) = n
  BY <1>1, FS_Interval
<1> HIDE DEF R
<1>6. R \in Surjection(S, 1..n)
  BY <1>4, <1>5, FS_Injection
<1> QED BY <1>1, <1>4, <1>6 DEF R

\* HadBytes lists the rows whose document existed, each of them once.
LEMMA HadPaths ==
    ASSUME NEW o \in Ops
    PROVE  /\ HadBytes(o) \in Seq(HadFiles(o))
           /\ \A d \in HadFiles(o) : \E k \in 1..Len(HadBytes(o)) : HadBytes(o)[k] = d
           /\ IsInjective(FilesOf[o]) =>
                 \A k, l \in 1..Len(HadBytes(o)) :
                    HadBytes(o)[k] = HadBytes(o)[l] => k = l
<1> DEFINE F == FilesOf[o]
           had == {i \in DOMAIN F : Baseline(o)[F[i]] # Absent}
           n == Cardinality(had)
           R == [i \in had |-> Cardinality({j \in had : j <= i})]
           Row1(k) == CHOOSE i \in had : Cardinality({j \in had : j <= i}) = k
<1>1. /\ Len(F) \in Nat /\ DOMAIN F = 1..Len(F)
      /\ Files(o) = {F[i] : i \in DOMAIN F}
  BY ConstantFacts DEF Files
<1>2. had \in SUBSET Nat /\ IsFiniteSet(had)
  <2>1. IsFiniteSet(DOMAIN F)
    BY <1>1, FS_Interval
  <2> QED BY <1>1, <2>1, FS_Subset
<1>3. n \in Nat /\ R \in Injection(had, 1..n) /\ R \in Surjection(had, 1..n)
  BY <1>2, Ranks
<1>4. ASSUME NEW k \in 1..n PROVE Row1(k) \in had /\ R[Row1(k)] = k
  <2>1. \E i \in had : R[i] = k
    BY <1>3 DEF Surjection
  <2> QED BY <2>1
<1>5. HadBytes(o) = [k \in 1..n |-> F[Row1(k)]]
  BY DEF HadBytes
<1>6. \A i \in had : F[i] \in HadFiles(o)
  BY <1>1 DEF HadFiles
<1>7. HadBytes(o) \in [1..n -> HadFiles(o)]
  <2> HIDE DEF had, Row1
  <2> QED BY <1>4, <1>5, <1>6
<1>8. HadBytes(o) \in Seq(HadFiles(o)) /\ Len(HadBytes(o)) = n
  <2> HIDE DEF n
  <2> QED BY <1>3, <1>7, SeqDef, LenProperties
<1>9. ASSUME NEW d \in HadFiles(o) PROVE \E k \in 1..n : HadBytes(o)[k] = d
  <2>1. PICK i \in had : F[i] = d
    BY <1>1, <1>9 DEF HadFiles
  <2>2. R[i] \in 1..n
    BY <1>3 DEF Injection
  <2>3. Row1(R[i]) = i
    <3>1. Row1(R[i]) \in had /\ R[Row1(R[i])] = R[i]
      BY <1>4, <2>2
    <3> HIDE DEF R, Row1, had
    <3> QED BY <1>3, <3>1 DEF Injection, IsInjective
  <2> HIDE DEF R, Row1, had
  <2> QED BY <1>5, <2>1, <2>2, <2>3
<1>10. ASSUME IsInjective(F), NEW k \in 1..n, NEW l \in 1..n,
              HadBytes(o)[k] = HadBytes(o)[l]
       PROVE  k = l
  <2>1. F[Row1(k)] = F[Row1(l)]
    <3> HIDE DEF Row1
    <3> QED BY <1>5, <1>10
  <2>2. Row1(k) \in DOMAIN F /\ Row1(l) \in DOMAIN F
    BY <1>4
  <2>3. Row1(k) = Row1(l)
    <3> HIDE DEF Row1
    <3> QED BY <1>10, <2>1, <2>2 DEF IsInjective
  <2> HIDE DEF R, Row1
  <2> QED BY <1>4, <2>3
<1> QED BY <1>8, <1>9, <1>10

\* The paths of one kind: one path for every row of a sequence of rows.
LEMMA TaggedRows ==
    ASSUME NEW T, NEW ds \in Seq(T), NEW kind
    PROVE  /\ Tagged(kind, ds) \in Seq({kind} \X T)
           /\ Len(Tagged(kind, ds)) = Len(ds) /\ Len(ds) \in Nat
           /\ \A i \in 1..Len(ds) : Tagged(kind, ds)[i] = <<kind, ds[i]>>
<1>1. Len(ds) \in Nat /\ ds \in [1..Len(ds) -> T] /\ DOMAIN ds = 1..Len(ds)
  BY LenProperties
<1>2. Tagged(kind, ds) = [i \in 1..Len(ds) |-> <<kind, ds[i]>>]
  BY <1>1 DEF Tagged
<1>3. Tagged(kind, ds) \in [1..Len(ds) -> {kind} \X T]
  BY <1>1, <1>2
<1>4. Tagged(kind, ds) \in Seq({kind} \X T)
  BY <1>1, <1>3, SeqDef
<1>5. Len(Tagged(kind, ds)) = Len(ds)
  BY <1>1, <1>3, <1>4, LenProperties
<1> QED BY <1>1, <1>2, <1>4, <1>5

\* A path of a concatenation is in one of its parts.
LEMMA Joined ==
    ASSUME NEW T, NEW s \in Seq(T), NEW t \in Seq(T)
    PROVE  /\ s \o t \in Seq(T) /\ Len(s \o t) = Len(s) + Len(t)
           /\ Len(s) \in Nat /\ Len(t) \in Nat
           /\ \A i \in 1..Len(s) : (s \o t)[i] = s[i]
           /\ \A i \in 1..Len(t) : (s \o t)[Len(s) + i] = t[i]
<1>1. Len(s) \in Nat /\ Len(t) \in Nat
  BY LenProperties
<1>2. /\ s \o t \in Seq(T) /\ Len(s \o t) = Len(s) + Len(t)
      /\ \A i \in 1..(Len(s) + Len(t)) :
            (s \o t)[i] = IF i <= Len(s) THEN s[i] ELSE t[i - Len(s)]
  BY ConcatProperties
<1>3. ASSUME NEW i \in 1..Len(s) PROVE (s \o t)[i] = s[i]
  <2>1. i \in 1..(Len(s) + Len(t)) /\ i <= Len(s)
    BY <1>1
  <2> QED BY <1>2, <2>1
<1>4. ASSUME NEW i \in 1..Len(t) PROVE (s \o t)[Len(s) + i] = t[i]
  <2>1. /\ Len(s) + i \in 1..(Len(s) + Len(t)) /\ ~(Len(s) + i <= Len(s))
        /\ (Len(s) + i) - Len(s) = i
    BY <1>1
  <2> QED BY <1>2, <2>1
<1> QED BY <1>1, <1>2, <1>3, <1>4

\* cleanup_paths lists the sidecars of the operation, each at least once, and
\* the journal last.
LEMMA PathsCover ==
    ASSUME NEW o \in Ops
    PROVE  /\ CleanupPaths(o) \in Seq(Sidecars(o))
           /\ Len(CleanupPaths(o)) \in Nat
           /\ \A p \in Sidecars(o) :
                 \E i \in 1..Len(CleanupPaths(o)) : CleanupPaths(o)[i] = p
<1> DEFINE T == Sidecars(o)
           A == Tagged("backup", HadBytes(o))
           B == Tagged("lock", FilesOf[o])
           C == IF PrimaryOf[o] \in Files(o) THEN <<>> ELSE <<<<"lock", PrimaryOf[o]>>>>
           D == <<<<"journal", PrimaryOf[o]>>>>
<1>1. /\ FilesOf[o] \in Seq(Docs) /\ DOMAIN FilesOf[o] = 1..Len(FilesOf[o])
      /\ Len(FilesOf[o]) \in Nat
  BY ConstantFacts
<1>2. FilesOf[o] \in Seq(Files(o))
  <2>1. FilesOf[o] \in [1..Len(FilesOf[o]) -> Files(o)]
    BY <1>1, LenProperties DEF Files
  <2> QED BY <1>1, <2>1, SeqDef
<1>3. /\ {"backup"} \X HadFiles(o) \subseteq T /\ {"lock"} \X Files(o) \subseteq T
      /\ <<"lock", PrimaryOf[o]>> \in T /\ <<"journal", PrimaryOf[o]>> \in T
  BY DEF Sidecars, Members
<1>4. A \in Seq(T) /\ \A d \in HadFiles(o) : \E i \in 1..Len(A) : A[i] = <<"backup", d>>
  <2>0. HadBytes(o) \in Seq(HadFiles(o))
    BY HadPaths
  <2>1. /\ A \in Seq({"backup"} \X HadFiles(o)) /\ Len(A) = Len(HadBytes(o))
        /\ \A i \in 1..Len(HadBytes(o)) : A[i] = <<"backup", HadBytes(o)[i]>>
    BY <2>0, TaggedRows
  <2>2. A \in Seq(T)
    BY <1>3, <2>1, SeqMonotonic
  <2>3. ASSUME NEW d \in HadFiles(o) PROVE \E i \in 1..Len(A) : A[i] = <<"backup", d>>
    <3>1. PICK k \in 1..Len(HadBytes(o)) : HadBytes(o)[k] = d
      BY HadPaths
    <3> HIDE DEF A
    <3> QED BY <2>1, <3>1
  <2> QED BY <2>2, <2>3
<1>5. B \in Seq(T) /\ \A d \in Files(o) : \E i \in 1..Len(B) : B[i] = <<"lock", d>>
  <2>1. B \in Seq({"lock"} \X Files(o)) /\ Len(B) = Len(FilesOf[o])
    BY <1>2, TaggedRows
  <2>2. B \in Seq(T)
    BY <1>3, <2>1, SeqMonotonic
  <2>3. ASSUME NEW d \in Files(o) PROVE \E i \in 1..Len(B) : B[i] = <<"lock", d>>
    <3>1. PICK k \in 1..Len(FilesOf[o]) : FilesOf[o][k] = d
      BY <1>1 DEF Files
    <3>2. B[k] = <<"lock", FilesOf[o][k]>>
      BY <1>2, TaggedRows
    <3> HIDE DEF B
    <3> QED BY <2>1, <3>1, <3>2
  <2> QED BY <2>2, <2>3
<1>6. /\ C \in Seq(T)
      /\ PrimaryOf[o] \notin Files(o) => 1 \in 1..Len(C) /\ C[1] = <<"lock", PrimaryOf[o]>>
  <2>1. CASE PrimaryOf[o] \in Files(o)
    BY <2>1, EmptySeq
  <2>2. CASE PrimaryOf[o] \notin Files(o)
    BY <1>3, <2>2
  <2> QED BY <2>1, <2>2
<1>7. D \in Seq(T) /\ 1 \in 1..Len(D) /\ D[1] = <<"journal", PrimaryOf[o]>>
  BY <1>3
<1>8. CleanupPaths(o) = ((A \o B) \o C) \o D
  BY DEF CleanupPaths
<1> HIDE DEF A, B, C, D
<1>9. /\ A \o B \in Seq(T) /\ (A \o B) \o C \in Seq(T)
      /\ ((A \o B) \o C) \o D \in Seq(T)
  BY <1>4, <1>5, <1>6, <1>7, Joined
<1> DEFINE Has(s, p) == \E i \in 1..Len(s) : s[i] = p
<1>10. ASSUME NEW s \in Seq(T), NEW t \in Seq(T), NEW p, Has(s, p) \/ Has(t, p)
       PROVE  Has(s \o t, p)
  <2>1. CASE Has(s, p)
    <3>1. PICK i \in 1..Len(s) : s[i] = p
      BY <2>1
    <3>2. (s \o t)[i] = p /\ i \in 1..Len(s \o t)
      BY <3>1, Joined
    <3> QED BY <3>2
  <2>2. CASE Has(t, p)
    <3>1. PICK i \in 1..Len(t) : t[i] = p
      BY <2>2
    <3>2. (s \o t)[Len(s) + i] = p /\ Len(s) + i \in 1..Len(s \o t)
      BY <3>1, Joined
    <3> QED BY <3>2
  <2> HIDE DEF Has
  <2> QED BY <1>10, <2>1, <2>2
<1>11. ASSUME NEW p \in T
       PROVE  Has(CleanupPaths(o), p)
  <2>1. Has(A, p) \/ Has(B, p) \/ Has(C, p) \/ Has(D, p)
    <3>1. \/ \E d \in HadFiles(o) : p = <<"backup", d>>
          \/ \E d \in Files(o) : p = <<"lock", d>>
          \/ PrimaryOf[o] \notin Files(o) /\ p = <<"lock", PrimaryOf[o]>>
          \/ p = <<"journal", PrimaryOf[o]>>
      BY DEF Sidecars, Members
    <3> QED BY <1>4, <1>5, <1>6, <1>7, <3>1
  <2> HIDE DEF Has
  <2>2. Has(A, p) \/ Has(B, p) => Has(A \o B, p)
    BY <1>4, <1>5, <1>10
  <2>3. Has(A \o B, p) \/ Has(C, p) => Has((A \o B) \o C, p)
    BY <1>6, <1>9, <1>10
  <2>4. Has((A \o B) \o C, p) \/ Has(D, p) => Has(((A \o B) \o C) \o D, p)
    BY <1>7, <1>9, <1>10
  <2> QED BY <1>8, <2>1, <2>2, <2>3, <2>4
<1>12. Len(CleanupPaths(o)) \in Nat
  BY <1>8, <1>9, LenProperties
<1> QED BY <1>8, <1>9, <1>11, <1>12

-----------------------------------------------------------------------------
(* Type correctness.                                                        *)

ArmPCs == {"arming", "checked", "undoing"}

\* A process that has left its start has an operation and a mode, and its
\* position is in the plan where it is used as one.
BusyAt(a) ==
    agent[a].pc # "idle" =>
        /\ agent[a].op \in Ops
        /\ agent[a].mode # "none"
        /\ agent[a].pc \in {"arming", "checked", "saving"} => agent[a].i > 0
        /\ agent[a].pc \in {"restoring", "checked"} =>
              agent[a].i <= Len(FilesOf[agent[a].op])
Busy == \A a \in Agents : BusyAt(a)

\* An operation that was confirmed has its baseline.
HasBase(o) == row[o].baseline \in [Files(o) -> Bytes]
Bound ==
    /\ \A o \in Ops : row[o].status # "planned" \/ row[o].resolution => HasBase(o)
    /\ \A a \in Agents : agent[a].pc # "idle" => HasBase(agent[a].op)

Typed == TypeOK /\ Busy /\ Bound

LEMMA EmptyReading == <<>> \in Readings
  BY DEF Readings

LEMMA EmptyHeld == <<>> \in Seq(Ops \union {None})
  OBVIOUS

LEMMA TypedInit == Init => Typed
<1> SUFFICES ASSUME Init PROVE Typed
  OBVIOUS
<1>1. doc \in [Docs -> Bytes]
  BY DEF Init, Bytes
<1>2. row \in [Ops -> Row]
  BY EmptyReading, SMT DEF Init, Row
<1>3. agent \in [Agents -> Process]
  <2> DEFINE r == [pc |-> "idle", op |-> None, mode |-> "none", i |-> 0,
                   pending |-> FALSE, seen |-> <<>>, made |-> {}, held |-> <<>>]
  <2>1. r \in Process
    BY EmptyReading, EmptyHeld DEF Process, PCs
  <2> HIDE DEF r
  <2>2. agent = [a \in Agents |-> r]
    BY DEF Init, r
  <2> QED BY <2>1, <2>2
<1>4. ckpt \in [Ops -> Progress]
  BY EmptyHeld DEF Init, Progress
<1>5. observed \in [Ops -> Readings]
  BY EmptyReading DEF Init
<1>6. \A o \in Ops : observed[o] = <<>> /\ row[o].baseline = <<>>
  BY SMT DEF Init
<1>7. Busy /\ Bound
  BY SMT DEF Init, Busy, BusyAt, Bound
<1> QED BY <1>1, <1>2, <1>3, <1>4, <1>5, <1>6, <1>7 DEF Init, Typed, TypeOK

\* One process, row or checkpoint is replaced.
LEMMA Replaced ==
    /\ \A a \in Agents, r \in Process :
          agent \in [Agents -> Process] =>
              [agent EXCEPT ![a] = r] \in [Agents -> Process]
    /\ \A o \in Ops, r \in Row :
          row \in [Ops -> Row] => [row EXCEPT ![o] = r] \in [Ops -> Row]
    /\ \A o \in Ops, r \in Progress :
          ckpt \in [Ops -> Progress] => [ckpt EXCEPT ![o] = r] \in [Ops -> Progress]
  OBVIOUS

\* A process is at x with mode m; its operation and all others are unchanged.
Moved(a, x, m) ==
    /\ agent'[a].pc = x /\ agent'[a].op = agent[a].op /\ agent'[a].mode = m
    /\ \A c \in Agents \ {a} : agent'[c] = agent[c]

\* What arm, rollback and cleanup have in memory.
KeepsMade(a) == agent'[a].made = agent[a].made
KeepsRest(a) ==
    /\ agent'[a].seen = agent[a].seen /\ agent'[a].pending = agent[a].pending
    /\ agent'[a].held = agent[a].held

LEMMA Moves ==
    ASSUME agent \in [Agents -> Process], NEW a \in Agents, NEW x, NEW i, NEW made
    PROVE  /\ Goto(a, x) => /\ Moved(a, x, agent[a].mode) /\ agent'[a].i = agent[a].i
                            /\ KeepsMade(a) /\ KeepsRest(a)
           /\ GotoAt(a, x, i) => /\ Moved(a, x, agent[a].mode) /\ agent'[a].i = i
                                 /\ KeepsMade(a) /\ KeepsRest(a)
           /\ GotoMade(a, x, i, made) =>
                 /\ Moved(a, x, agent[a].mode) /\ agent'[a].i = i
                 /\ agent'[a].made = made /\ KeepsRest(a)
<1> DEFINE q == [agent[a] EXCEPT !.pc = x]
           r == [agent[a] EXCEPT !.pc = x, !.i = i]
           s == [agent[a] EXCEPT !.pc = x, !.i = i, !.made = made]
<1>1. /\ q.pc = x /\ q.op = agent[a].op /\ q.mode = agent[a].mode /\ q.i = agent[a].i
      /\ r.pc = x /\ r.op = agent[a].op /\ r.mode = agent[a].mode /\ r.i = i
      /\ s.pc = x /\ s.op = agent[a].op /\ s.mode = agent[a].mode /\ s.i = i
      /\ q.made = agent[a].made /\ r.made = agent[a].made /\ s.made = made
  BY SMT DEF Process
<1>2. /\ q.seen = agent[a].seen /\ q.held = agent[a].held
      /\ r.seen = agent[a].seen /\ r.held = agent[a].held
      /\ s.seen = agent[a].seen /\ s.held = agent[a].held
  BY SMT DEF Process
<1>3. /\ q.pending = agent[a].pending /\ r.pending = agent[a].pending
      /\ s.pending = agent[a].pending
  BY Zenon DEF Process
<1>4. /\ Goto(a, x) => agent' = [agent EXCEPT ![a] = q]
      /\ GotoAt(a, x, i) => agent' = [agent EXCEPT ![a] = r]
      /\ GotoMade(a, x, i, made) => agent' = [agent EXCEPT ![a] = s]
  BY Zenon DEF Goto, GotoAt, GotoMade
<1> HIDE DEF q, r, s
<1> QED BY <1>1, <1>2, <1>3, <1>4 DEF Moved, KeepsMade, KeepsRest

\* arm and its undo.
Arming(a) == \/ ArmPrimary(a) \/ ArmLock(a) \/ ArmBackup(a) \/ ArmJournal(a)
             \/ ArmFails(a) \/ ArmUndo(a) \/ UndoFails(a)

\* Where arm moves its process.
LEMMA ArmMovesTo ==
    ASSUME agent \in [Agents -> Process], NEW a \in Agents, Arming(a)
    PROVE  /\ agent[a].pc \in {"unlocked"} \union ArmPCs
           /\ \E x \in ArmPCs \union {"refused", "saving"} :
                 /\ Moved(a, x, agent[a].mode)
                 /\ x = "saving" => ArmJournal(a) /\ journal[PrimaryOf[agent[a].op]] = None
           /\ UNCHANGED <<doc, archive, observed, ckpt, row>>
<1> DEFINE Goes(x) == /\ Moved(a, x, agent[a].mode)
                      /\ x \in ArmPCs \union {"refused"}
<1>1. ASSUME NEW x \in {"refused", "arming", "checked", "undoing"},
             \/ Goto(a, x) \/ (\E i : GotoAt(a, x, i))
             \/ (\E i, made : GotoMade(a, x, i, made))
      PROVE  Goes(x)
  BY <1>1, Moves DEF ArmPCs
<1>2. CASE ArmPrimary(a)
  BY <1>1, <1>2 DEF ArmPrimary, proofVars, ArmPCs
<1>3. CASE ArmLock(a)
  BY <1>1, <1>3 DEF ArmLock, proofVars, ArmPCs
<1>4. CASE ArmBackup(a)
  <2> DEFINE d == FilesOf[agent[a].op][agent[a].i]
             o == agent[a].op
  <2>1. /\ agent[a].pc = "checked" /\ UNCHANGED <<doc, archive, observed, ckpt, row>>
        /\ \/ GotoAt(a, "arming", agent[a].i + 1) \/ Goto(a, "undoing")
           \/ GotoMade(a, "arming", agent[a].i + 1, agent[a].made \union {<<"backup", d>>})
    BY <1>4 DEF ArmBackup, proofVars
  <2> HIDE DEF d
  <2> QED BY <1>1, <2>1 DEF ArmPCs
<1>5. CASE ArmJournal(a)
  <2>1. CASE journal[PrimaryOf[agent[a].op]] # None
    BY <1>1, <1>5, <2>1 DEF ArmJournal, proofVars, ArmPCs
  <2>2. CASE journal[PrimaryOf[agent[a].op]] = None
    <3>1. GotoAt(a, "saving", 1)
      BY <1>5, <2>2 DEF ArmJournal
    <3> QED BY <1>5, <2>2, <3>1, Moves DEF ArmJournal, proofVars, ArmPCs
  <2> QED BY <2>1, <2>2
<1>6. CASE ArmFails(a) \/ UndoFails(a)
  BY <1>1, <1>6 DEF ArmFails, UndoFails, proofVars, ArmPCs
<1>7. CASE ArmUndo(a)
  <2>1. PICK x, i, made : x \in {"refused", "undoing"} /\ GotoMade(a, x, i, made)
    <3>1. \E made : GotoMade(a, "refused", agent[a].i, made)
                    \/ GotoMade(a, "undoing", agent[a].i, made)
      BY <1>7, Zenon DEF ArmUndo
    <3> QED BY <3>1
  <2>2. agent[a].pc = "undoing" /\ UNCHANGED <<doc, archive, observed, ckpt, row>>
    BY <1>7 DEF ArmUndo, proofVars
  <2> QED BY <1>1, <2>1, <2>2 DEF ArmPCs
<1> QED BY <1>2, <1>3, <1>4, <1>5, <1>6, <1>7 DEF Arming

\* Where a cleanup moves its process, and what it has in memory then.
LEMMA CleanupMoves ==
    ASSUME agent \in [Agents -> Process], NEW a \in Agents
    PROVE  /\ Checkpoint(a) =>
                 /\ Moved(a, "deleting", agent[a].mode)
                 /\ agent'[a].i = 0 /\ agent'[a].pending = FALSE
                 /\ agent'[a].held = [i \in DOMAIN CleanupPaths(agent[a].op) |->
                                         Holder(agent[a].op, CleanupPaths(agent[a].op)[i])]
           /\ Acknowledge(a) =>
                 /\ Moved(a, "deleting", agent[a].mode)
                 /\ agent'[a].i = agent[a].i + 1 /\ agent'[a].pending = FALSE
                 /\ agent'[a].held = agent[a].held
           /\ Intend(a) => \/ Raise(a) /\ ckpt' = ckpt /\ ~Owned(agent[a].op)
                           \/ /\ Moved(a, "unlinking", agent[a].mode)
                              /\ Owned(agent[a].op)
                              /\ agent'[a].i = agent[a].i
                              /\ agent'[a].held = agent[a].held
           /\ CleanupBegin(a) =>
                 \/ Raise(a) /\ observed' = observed
                 \/ /\ Goto(a, "archiving") /\ Decidable(a)
                    /\ ckpt[agent[a].op].phase = "none"
                    /\ observed' = [observed EXCEPT ![agent[a].op] = Current(agent[a].op)]
                 \/ /\ ckpt[agent[a].op].phase # "none"
                    /\ observed' = observed /\ Decidable(a)
                    /\ Moved(a, "deleting", agent[a].mode)
                    /\ agent'[a].i = ckpt[agent[a].op].cursor
                    /\ agent'[a].pending = ckpt[agent[a].op].pending
                    /\ agent'[a].held = ckpt[agent[a].op].held
<1> DEFINE Q(y, i, b, h) == [agent[a] EXCEPT !.pc = y, !.i = i, !.pending = b, !.held = h]
           P(y, i, b) == [agent[a] EXCEPT !.pc = y, !.i = i, !.pending = b]
           R(y, b) == [agent[a] EXCEPT !.pc = y, !.pending = b]
           now == [i \in DOMAIN CleanupPaths(agent[a].op) |->
                      Holder(agent[a].op, CleanupPaths(agent[a].op)[i])]
<1>1. ASSUME NEW y, NEW i, NEW b, NEW h, agent' = [agent EXCEPT ![a] = Q(y, i, b, h)]
      PROVE  /\ Moved(a, y, agent[a].mode)
             /\ agent'[a].i = i /\ agent'[a].pending = b /\ agent'[a].held = h
  <2> DEFINE r == Q(y, i, b, h)
  <2>1. /\ r.pc = y /\ r.op = agent[a].op /\ r.mode = agent[a].mode
        /\ r.i = i /\ r.held = h
    BY SMT DEF Process
  <2>2. r.pending = b
    BY Zenon DEF Process
  <2>3. agent' = [agent EXCEPT ![a] = r]
    BY <1>1
  <2> HIDE DEF r
  <2> QED BY <2>1, <2>2, <2>3 DEF Moved
<1>2. ASSUME NEW y, NEW i, NEW b, agent' = [agent EXCEPT ![a] = P(y, i, b)]
      PROVE  /\ Moved(a, y, agent[a].mode)
             /\ agent'[a].i = i /\ agent'[a].pending = b /\ agent'[a].held = agent[a].held
  <2> DEFINE r == P(y, i, b)
  <2>1. /\ r.pc = y /\ r.op = agent[a].op /\ r.mode = agent[a].mode
        /\ r.i = i /\ r.held = agent[a].held
    BY SMT DEF Process
  <2>2. r.pending = b
    BY Zenon DEF Process
  <2>3. agent' = [agent EXCEPT ![a] = r]
    BY <1>2
  <2> HIDE DEF r
  <2> QED BY <2>1, <2>2, <2>3 DEF Moved
<1>3. ASSUME NEW y, NEW b, agent' = [agent EXCEPT ![a] = R(y, b)]
      PROVE  /\ Moved(a, y, agent[a].mode)
             /\ agent'[a].i = agent[a].i /\ agent'[a].held = agent[a].held
  <2> DEFINE r == R(y, b)
  <2>1. /\ r.pc = y /\ r.op = agent[a].op /\ r.mode = agent[a].mode
        /\ r.i = agent[a].i /\ r.held = agent[a].held
    BY SMT DEF Process
  <2>2. agent' = [agent EXCEPT ![a] = r]
    BY <1>3
  <2> HIDE DEF r
  <2> QED BY <2>1, <2>2 DEF Moved
<1>4. Checkpoint(a) => agent' = [agent EXCEPT ![a] = Q("deleting", 0, FALSE, now)]
  BY Zenon DEF Checkpoint
<1>5. Acknowledge(a) =>
          agent' = [agent EXCEPT ![a] = P("deleting", agent[a].i + 1, FALSE)]
  BY Zenon DEF Acknowledge
<1>6. Intend(a) => \/ Raise(a) /\ ckpt' = ckpt /\ ~Owned(agent[a].op)
                   \/ /\ Owned(agent[a].op)
                      /\ agent' = [agent EXCEPT ![a] = R("unlinking", TRUE)]
  BY Zenon DEF Intend
<1>7. CleanupBegin(a) =>
          \/ Raise(a) /\ observed' = observed
          \/ /\ Goto(a, "archiving") /\ ckpt[agent[a].op].phase = "none"
             /\ Decidable(a)
             /\ observed' = [observed EXCEPT ![agent[a].op] = Current(agent[a].op)]
          \/ /\ ckpt[agent[a].op].phase # "none" /\ observed' = observed /\ Decidable(a)
             /\ agent' = [agent EXCEPT ![a] = Q("deleting", ckpt[agent[a].op].cursor,
                                                ckpt[agent[a].op].pending,
                                                ckpt[agent[a].op].held)]
  BY Zenon DEF CleanupBegin
<1> HIDE DEF P, Q, R, now
<1>8. Checkpoint(a) => /\ Moved(a, "deleting", agent[a].mode)
                       /\ agent'[a].i = 0 /\ agent'[a].pending = FALSE
                       /\ agent'[a].held = now
  BY <1>1, <1>4
<1>9. Acknowledge(a) => /\ Moved(a, "deleting", agent[a].mode)
                        /\ agent'[a].i = agent[a].i + 1 /\ agent'[a].pending = FALSE
                        /\ agent'[a].held = agent[a].held
  BY <1>2, <1>5
<1>10. Intend(a) => \/ Raise(a) /\ ckpt' = ckpt /\ ~Owned(agent[a].op)
                    \/ /\ Moved(a, "unlinking", agent[a].mode)
                       /\ Owned(agent[a].op)
                       /\ agent'[a].i = agent[a].i /\ agent'[a].held = agent[a].held
  BY <1>3, <1>6
<1>11. CleanupBegin(a) =>
          \/ Raise(a) /\ observed' = observed
          \/ /\ Goto(a, "archiving") /\ Decidable(a)
             /\ ckpt[agent[a].op].phase = "none"
             /\ observed' = [observed EXCEPT ![agent[a].op] = Current(agent[a].op)]
          \/ /\ ckpt[agent[a].op].phase # "none"
             /\ observed' = observed /\ Decidable(a)
             /\ Moved(a, "deleting", agent[a].mode)
             /\ agent'[a].i = ckpt[agent[a].op].cursor
             /\ agent'[a].pending = ckpt[agent[a].op].pending
             /\ agent'[a].held = ckpt[agent[a].op].held
  <2> DEFINE c == ckpt[agent[a].op]
             r == Q("deleting", c.cursor, c.pending, c.held)
  <2>1. /\ r.pc = "deleting" /\ r.op = agent[a].op /\ r.mode = agent[a].mode
        /\ r.i = c.cursor /\ r.held = c.held
    BY SMT DEF Process, Q
  <2>2. r.pending = c.pending
    BY Zenon DEF Process, Q
  <2>3. agent' = [agent EXCEPT ![a] = r] =>
            /\ Moved(a, "deleting", agent[a].mode)
            /\ agent'[a].i = c.cursor /\ agent'[a].held = c.held
            /\ agent'[a] = r
    <3> HIDE DEF r
    <3> QED BY <2>1 DEF Moved
  <2>4. agent' = [agent EXCEPT ![a] = r] => agent'[a].pending = c.pending
    BY <2>2, <2>3, Zenon
  <2> QED BY <1>7, <2>3, <2>4, Zenon
<1> QED BY <1>8, <1>9, <1>10, <1>11, Zenon DEF now

\* Where a rollback moves its process, and what it has read then.
LEMMA RollbackMoves ==
    ASSUME agent \in [Agents -> Process], NEW a \in Agents, Rollback(a)
    PROVE  \/ Raise(a)
           \/ /\ \A d \in Files(agent[a].op) :
                     doc[d] \in {Baseline(agent[a].op)[d], agent[a].op}
              /\ ckpt[agent[a].op].phase = "none" /\ Owned(agent[a].op)
              /\ Moved(a, "restoring", "rollback")
              /\ agent'[a].i = Len(FilesOf[agent[a].op])
              /\ agent'[a].seen = Current(agent[a].op)
<1> DEFINE r == [agent[a] EXCEPT !.pc = "restoring", !.mode = "rollback",
                                 !.i = Len(FilesOf[agent[a].op]),
                                 !.seen = Current(agent[a].op)]
<1>1. /\ r.pc = "restoring" /\ r.op = agent[a].op /\ r.mode = "rollback"
      /\ r.i = Len(FilesOf[agent[a].op]) /\ r.seen = Current(agent[a].op)
  BY SMT DEF Process
<1>2. \/ Raise(a)
      \/ /\ \A d \in Files(agent[a].op) :
                doc[d] \in {Baseline(agent[a].op)[d], agent[a].op}
         /\ ckpt[agent[a].op].phase = "none" /\ Owned(agent[a].op)
         /\ agent' = [agent EXCEPT ![a] = r]
  BY Zenon DEF Rollback
<1> HIDE DEF r
<1> QED BY <1>1, <1>2 DEF Moved

\* Where an exception moves its process.
LEMMA RaiseMoves ==
    ASSUME agent \in [Agents -> Process], NEW a \in Agents, Raise(a)
    PROVE  \/ agent[a].mode = "resolve" /\ Moved(a, "refused", agent[a].mode)
           \/ agent[a].mode # "resolve" /\ Moved(a, "uncertain", agent[a].mode)
  BY Moves DEF Raise

\* What the store steps do to the row of their process.
LEMMA StoreRows ==
    ASSUME row \in [Ops -> Row], NEW a \in Agents, agent[a].op \in Ops
    PROVE  LET o == agent[a].op IN
           /\ Undispatch(a) => /\ row'[o].status = "planned"
                               /\ row'[o].baseline = row[o].baseline
                               /\ row'[o].receipt = row[o].receipt
                               /\ row'[o].resolution = row[o].resolution
           /\ Finish(a) => /\ row'[o].status = IF agent[a].pc = "uncertain"
                                               THEN "unknown" ELSE "finished"
                           /\ row'[o].baseline = row[o].baseline
                           /\ row'[o].writer = row[o].writer
                           /\ row'[o].resolution = row[o].resolution
           /\ Resolve(a) => \/ row' = row
                            \/ /\ Unresolved(o)
                               /\ row'[o].status = "unknown"
                               /\ row'[o].baseline = row[o].baseline
                               /\ row'[o].writer = row[o].writer
                               /\ row'[o].receipt = row[o].receipt
           /\ Undispatch(a) \/ Finish(a) \/ Resolve(a) =>
                 \A x \in Ops \ {o} : row'[x] = row[x]
<1> DEFINE o == agent[a].op
           s == IF agent[a].pc = "uncertain" THEN "unknown" ELSE "finished"
           u == [row[o] EXCEPT !.status = "planned", !.writer = None]
           f == [row[o] EXCEPT !.status = s, !.receipt = TRUE]
           v == [row[o] EXCEPT !.status = "unknown", !.resolution = TRUE]
<1>0. row[o] \in Row
  OBVIOUS
<1>1. /\ u.status = "planned" /\ f.status = s /\ v.status = "unknown"
      /\ u.baseline = row[o].baseline /\ f.baseline = row[o].baseline
      /\ v.baseline = row[o].baseline
      /\ f.writer = row[o].writer /\ v.writer = row[o].writer
  <2> HIDE DEF s, o
  <2> QED BY <1>0, Zenon DEF Row
<1>2. /\ u.receipt = row[o].receipt /\ u.resolution = row[o].resolution
      /\ f.resolution = row[o].resolution /\ v.receipt = row[o].receipt
  <2> HIDE DEF s, o
  <2> QED BY <1>0, Zenon DEF Row
<1>3. /\ Undispatch(a) => row' = [row EXCEPT ![o] = u]
      /\ Finish(a) => row' = [row EXCEPT ![o] = f]
      /\ Resolve(a) => row' = row \/ (Unresolved(o) /\ row' = [row EXCEPT ![o] = v])
  <2>1. Undispatch(a) => row' = [row EXCEPT ![o] = u]
    BY Zenon DEF Undispatch
  <2>2. Finish(a) => row' = [row EXCEPT ![o] = f]
    BY Zenon DEF Finish
  <2>3. Resolve(a) => row' = row \/ (Unresolved(o) /\ row' = [row EXCEPT ![o] = v])
    <3>1. Resolve(a) /\ Unresolved(o) => row' = [row EXCEPT ![o] = v]
      BY Zenon DEF Resolve
    <3>2. Resolve(a) /\ ~Unresolved(o) => row' = row
      BY Zenon DEF Resolve
    <3> QED BY <3>1, <3>2
  <2> QED BY <2>1, <2>2, <2>3
<1>4. /\ Undispatch(a) => row'[o] = u
      /\ Finish(a) => row'[o] = f
      /\ Resolve(a) => row' = row \/ (Unresolved(o) /\ row'[o] = v)
      /\ Undispatch(a) \/ Finish(a) \/ Resolve(a) =>
            \A x \in Ops \ {o} : row'[x] = row[x]
  <2> HIDE DEF u, f, v
  <2> QED BY <1>3
<1> HIDE DEF u, f, v
<1> QED BY <1>1, <1>2, <1>4, Zenon

\* Updates of the status of a row.
LEMMA RowTyped ==
    ASSUME NEW f \in [Ops -> Row], NEW o \in Ops
    PROVE  \A x \in {"planned", "dispatched", "unknown", "finished", "pruned"} :
              [f EXCEPT ![o].status = x] \in [Ops -> Row]
  BY SMT DEF Row

\* Reading the documents of an operation.
LEMMA CurrentTyped ==
    ASSUME TypeOK, NEW o \in Ops
    PROVE  Current(o) \in [Files(o) -> Bytes] /\ Current(o) \in Readings
<1>1. \A d \in Files(o) : doc[d] \in Bytes
  BY ConstantFacts DEF TypeOK
<1>2. Current(o) \in [Files(o) -> Bytes]
  BY <1>1 DEF Current
<1> QED BY <1>2 DEF Readings

\* A busy process moves on.
LEMMA MovedTyped ==
    ASSUME Typed, NEW a \in Agents, agent[a].pc # "idle",
           NEW r \in Process, agent' = [agent EXCEPT ![a] = r],
           r.pc # "idle", r.op = agent[a].op, BusyAt(a)'
    PROVE  /\ agent' \in [Agents -> Process]
           /\ Busy'
           /\ UNCHANGED row => Bound'
<1>1. agent \in [Agents -> Process]
  BY DEF Typed, TypeOK
<1>2. agent' \in [Agents -> Process]
  BY <1>1, Replaced
<1>3. agent'[a] = r /\ \A c \in Agents \ {a} : agent'[c] = agent[c]
  BY <1>1
<1>4. Busy'
  BY <1>3 DEF Typed, Busy, BusyAt
<1>5. UNCHANGED row => Bound'
  <2>1. \A c \in Agents : /\ agent'[c].op = agent[c].op
                          /\ agent'[c].pc # "idle" <=> agent[c].pc # "idle"
    BY <1>3
  <2> QED BY <2>1 DEF Typed, Bound, HasBase
<1> QED BY <1>2, <1>4, <1>5

\* The same for the ways the code moves it.
LEMMA GotoTyped ==
    ASSUME Typed, NEW a \in Agents, agent[a].pc # "idle",
           NEW x \in PCs \ {"idle"}, NEW i \in Nat, NEW made \in SUBSET Paths,
           Goto(a, x) \/ GotoAt(a, x, i) \/ GotoMade(a, x, i, made),
           x \in {"arming", "checked", "saving", "restoring"} => BusyAt(a)'
    PROVE  /\ agent' \in [Agents -> Process]
           /\ Busy'
           /\ UNCHANGED row => Bound'
<1> DEFINE p == agent[a]
<1>1. agent \in [Agents -> Process] /\ p \in Process
  BY DEF Typed, TypeOK
<1>2. PICK r \in {[p EXCEPT !.pc = x], [p EXCEPT !.pc = x, !.i = i],
                  [p EXCEPT !.pc = x, !.i = i, !.made = made]} :
         agent' = [agent EXCEPT ![a] = r]
  BY <1>1, Zenon DEF Goto, GotoAt, GotoMade
<1>3. /\ [p EXCEPT !.pc = x] \in Process
      /\ [p EXCEPT !.pc = x, !.i = i] \in Process
      /\ [p EXCEPT !.pc = x, !.i = i, !.made = made] \in Process
  BY <1>1, Zenon DEF Process
<1>4. r \in Process
  BY <1>3
<1>5. Moved(a, x, agent[a].mode)
  BY <1>1, Moves
<1>6. r.pc = x /\ r.op = agent[a].op
  <2> HIDE DEF p
  <2>1. agent'[a] = r
    BY <1>1, <1>2
  <2> QED BY <1>5, <2>1 DEF Moved
<1>7. BusyAt(a)'
  <2>1. CASE x \in {"arming", "checked", "saving", "restoring"}
    BY <2>1
  <2>2. CASE x \notin {"arming", "checked", "saving", "restoring"}
    BY <1>5, <2>2 DEF Moved, BusyAt, Typed, Busy
  <2> QED BY <2>1, <2>2
<1> QED BY <1>2, <1>4, <1>6, <1>7, MovedTyped

\* Moves without a position.
LEMMA PlainTyped ==
    ASSUME Typed, NEW a \in Agents, agent[a].pc # "idle",
           \E x \in PCs \ {"idle", "arming", "checked", "saving", "restoring"} :
               Goto(a, x)
    PROVE  /\ agent' \in [Agents -> Process]
           /\ Busy'
           /\ UNCHANGED row => Bound'
<1>1. PICK x \in PCs \ {"idle", "arming", "checked", "saving", "restoring"} : Goto(a, x)
  OBVIOUS
<1>2. 0 \in Nat /\ {} \in SUBSET Paths
  OBVIOUS
<1> QED BY <1>1, <1>2, GotoTyped

\* What Typed says of the process that takes a step.
LEMMA AtStep ==
    ASSUME Typed, NEW a \in Agents, agent[a].pc # "idle"
    PROVE  /\ agent[a].op \in Ops
           /\ agent[a].i \in Nat
           /\ agent[a].pending \in BOOLEAN
           /\ agent[a].made \in SUBSET Paths
           /\ agent[a].held \in Seq(Ops \union {None})
           /\ Baseline(agent[a].op) \in [Files(agent[a].op) -> Bytes]
           /\ agent[a].mode \in {"commit", "rollback", "resolve"}
           /\ agent[a].seen \in Readings
<1>1. agent[a] \in Process
  BY DEF Typed, TypeOK
<1>2. /\ agent[a].pending \in BOOLEAN /\ agent[a].made \in SUBSET Paths
      /\ agent[a].held \in Seq(Ops \union {None})
      /\ agent[a].i \in Nat /\ agent[a].seen \in Readings
      /\ agent[a].mode \in {"none", "commit", "rollback", "resolve"}
  BY <1>1, Zenon DEF Process
<1>3. agent[a].op \in Ops /\ agent[a].mode # "none"
  BY DEF Typed, Busy, BusyAt
<1>4. Baseline(agent[a].op) \in [Files(agent[a].op) -> Bytes]
  BY DEF Typed, Bound, HasBase, Baseline
<1> QED BY <1>2, <1>3, <1>4

\* Where Raise sends a process.
LEMMA RaiseGoes ==
    ASSUME NEW a, Raise(a)
    PROVE  \E x \in {"refused", "uncertain"} : Goto(a, x)
  BY DEF Raise


\* The row that arm is at.
LEMMA ArmRow ==
    ASSUME Typed, NEW a \in Agents, agent[a].pc \in {"arming", "checked", "saving"},
           agent[a].i <= Len(FilesOf[agent[a].op])
    PROVE  /\ agent[a].i \in DOMAIN FilesOf[agent[a].op]
           /\ FilesOf[agent[a].op][agent[a].i] \in Files(agent[a].op)
           /\ FilesOf[agent[a].op][agent[a].i] \in Docs
<1>1. agent[a].op \in Ops /\ agent[a].i \in Nat /\ agent[a].i > 0
  BY AtStep DEF Typed, Busy, BusyAt
<1> QED BY <1>1, ConstantFacts DEF Files

\* A move to a position in the plan.
LEMMA PlacedTyped ==
    ASSUME Typed, NEW a \in Agents, agent[a].pc # "idle",
           NEW x \in PCs \ {"idle"}, NEW i \in Nat, NEW made \in SUBSET Paths,
           GotoAt(a, x, i) \/ GotoMade(a, x, i, made),
           x \in {"arming", "checked", "saving"} => i > 0,
           x \in {"restoring", "checked"} => i <= Len(FilesOf[agent[a].op])
    PROVE  /\ agent' \in [Agents -> Process]
           /\ Busy'
           /\ UNCHANGED row => Bound'
<1>1. /\ agent \in [Agents -> Process] /\ agent[a].op \in Ops
      /\ agent[a].mode # "none"
  BY AtStep DEF Typed, TypeOK
<1>2. /\ agent'[a].pc = x /\ agent'[a].op = agent[a].op
      /\ agent'[a].mode = agent[a].mode /\ agent'[a].i = i
  <2>1. \/ GotoAt(a, x, i) /\ Moved(a, x, agent[a].mode) /\ agent'[a].i = i
        \/ GotoMade(a, x, i, made) /\ Moved(a, x, agent[a].mode) /\ agent'[a].i = i
    BY <1>1, Moves, Zenon
  <2> QED BY <2>1 DEF Moved
<1>3. BusyAt(a)'
  BY <1>1, <1>2, Zenon DEF BusyAt
<1> QED BY <1>3, GotoTyped

\* What the steps of arm do to the sidecars.
LEMMA ArmLockCases ==
    ASSUME Typed, NEW a \in Agents, ArmLock(a), NEW o, o = agent[a].op,
           NEW d, d = FilesOf[o][agent[a].i]
    PROVE  /\ agent[a].i \in DOMAIN FilesOf[o] /\ d \in Files(o) /\ d \in Docs
           /\ UNCHANGED <<journal, backup, spoilt>>
           /\ \/ Goto(a, "undoing") /\ UNCHANGED lock
              \/ /\ d # PrimaryOf[o] => ~Taken(d)
                 /\ lock' = IF d = PrimaryOf[o] THEN lock ELSE [lock EXCEPT ![d] = o]
                 /\ \E x \in {"checked", "undoing"} :
                       /\ GotoMade(a, x, agent[a].i, agent[a].made \union {<<"lock", d>>})
                       /\ x = "checked" => doc[d] = Baseline(o)[d]
<1>1. agent[a].i \in DOMAIN FilesOf[o] /\ d \in Files(o) /\ d \in Docs
  BY ArmRow DEF ArmLock
<1>2. CASE d # PrimaryOf[o] /\ Taken(d)
  BY <1>1, <1>2 DEF ArmLock
<1>3. CASE ~(d # PrimaryOf[o] /\ Taken(d))
  <2>1. /\ lock' = IF d = PrimaryOf[o] THEN lock ELSE [lock EXCEPT ![d] = o]
        /\ GotoMade(a, IF doc[d] = Baseline(o)[d] THEN "checked" ELSE "undoing",
                    agent[a].i, agent[a].made \union {<<"lock", d>>})
    BY <1>3 DEF ArmLock
  <2> QED BY <1>1, <1>3, <2>1 DEF ArmLock
<1> QED BY <1>2, <1>3

LEMMA ArmBackupCases ==
    ASSUME Typed, NEW a \in Agents, ArmBackup(a), NEW o, o = agent[a].op,
           NEW d, d = FilesOf[o][agent[a].i]
    PROVE  /\ agent[a].i \in DOMAIN FilesOf[o] /\ d \in Files(o) /\ d \in Docs
           /\ UNCHANGED <<lock, journal>>
           /\ \/ Goto(a, "undoing") /\ UNCHANGED <<backup, spoilt>>
              \/ /\ Baseline(o)[d] = Absent /\ UNCHANGED <<backup, spoilt>>
                 /\ GotoAt(a, "arming", agent[a].i + 1)
              \/ /\ Baseline(o)[d] # Absent /\ <<o, d>> \notin backup
                 /\ backup' = backup \union {<<o, d>>}
                 /\ spoilt' = IF doc[d] = Baseline(o)[d] THEN spoilt
                              ELSE spoilt \union {<<o, d>>}
                 /\ GotoMade(a, "arming", agent[a].i + 1,
                             agent[a].made \union {<<"backup", d>>})
<1>1. agent[a].i <= Len(FilesOf[o])
  BY AtStep DEF ArmBackup, Typed, Busy, BusyAt
<1> QED BY <1>1, ArmRow DEF ArmBackup

\* The next sidecar of an undo is one that arm has made.
LEMMA ArmUndoCases ==
    ASSUME Typed, NEW a \in Agents, ArmUndo(a), NEW o, o = agent[a].op
    PROVE  \E n \in DOMAIN UndoOrder(o), x \in {"refused", "undoing"} :
               /\ UndoOrder(o)[n] \in agent[a].made
               /\ \A m \in 1..(n - 1) : UndoOrder(o)[m] \notin agent[a].made
               /\ Remove(o, UndoOrder(o)[n])
               /\ GotoMade(a, x, agent[a].i, agent[a].made \ {UndoOrder(o)[n]})
  BY DEF ArmUndo

\* The guard, arm, and the undo of arm.
LEMMA TypedArm ==
    ASSUME Typed, NEW a \in Agents, GuardCheckpoints(a) \/ GuardLocks(a) \/ Arming(a)
    PROVE  Typed'
<1>0. agent[a].pc # "idle"
  BY DEF GuardCheckpoints, GuardLocks, Arming, ArmPrimary, ArmLock, ArmBackup, ArmJournal,
         ArmFails, ArmUndo, UndoFails
<1> SUFFICES ASSUME NEW o \in Ops, o = agent[a].op
             PROVE  Typed'
  BY <1>0, AtStep
<1>1. /\ agent[a].i \in Nat /\ agent \in [Agents -> Process]
      /\ agent[a].made \in SUBSET Paths
      /\ agent[a].mode # "none" /\ PrimaryOf[o] \in Docs
  BY <1>0, AtStep, ConstantFacts DEF Typed, TypeOK
<1>2. CASE GuardCheckpoints(a) \/ GuardLocks(a) \/ ArmFails(a) \/ UndoFails(a)
  <2>1. agent' \in [Agents -> Process] /\ Busy' /\ Bound'
    BY <1>0, <1>2, PlainTyped DEF GuardCheckpoints, GuardLocks, ArmFails, UndoFails, PCs
  <2> QED BY <1>2, <2>1 DEF GuardCheckpoints, GuardLocks, ArmFails, UndoFails, Typed,
                            TypeOK, sidecarVars, proofVars
<1>4. ASSUME NEW x, Goto(a, x), x \in {"undoing", "refused"}
      PROVE  agent' \in [Agents -> Process] /\ Busy' /\ (UNCHANGED row => Bound')
  <2>1. x \in PCs \ {"idle", "arming", "checked", "saving", "restoring"}
    BY <1>4 DEF PCs
  <2> QED BY <1>0, <1>4, <2>1, PlainTyped
<1>5. /\ {"arming", "checked", "saving", "undoing", "refused"} \subseteq PCs \ {"idle"}
      /\ {} \in SUBSET Paths
  BY DEF PCs
<1>7. ASSUME NEW x \in {"arming", "checked", "saving", "undoing", "refused"},
             NEW i \in Nat, NEW made \in SUBSET Paths,
             GotoAt(a, x, i) \/ GotoMade(a, x, i, made),
             x \in {"arming", "checked", "saving"} => i > 0,
             x = "checked" => i <= Len(FilesOf[o])
      PROVE  agent' \in [Agents -> Process] /\ Busy' /\ (UNCHANGED row => Bound')
  <2>1. /\ x \in PCs \ {"idle"}
        /\ x \in {"restoring", "checked"} => i <= Len(FilesOf[agent[a].op])
    BY <1>5, <1>7
  <2> QED BY <1>0, <1>7, <2>1, PlacedTyped
<1>6. CASE ArmPrimary(a)
  <2>0. UNCHANGED <<doc, journal, backup, spoilt, proofVars, row>>
    BY <1>6 DEF ArmPrimary
  <2>1. CASE Goto(a, "refused") /\ UNCHANGED lock
    BY <1>4, <2>0, <2>1 DEF Typed, TypeOK, proofVars
  <2>2. CASE /\ lock' = [lock EXCEPT ![PrimaryOf[o]] = o]
             /\ GotoMade(a, "arming", 1, {<<"lock", PrimaryOf[o]>>})
    <3>1. {<<"lock", PrimaryOf[o]>>} \in SUBSET Paths /\ 1 \in Nat /\ 1 > 0
      BY <1>1 DEF Paths
    <3>2. agent' \in [Agents -> Process] /\ Busy' /\ (UNCHANGED row => Bound')
      BY <1>7, <2>2, <3>1
    <3>3. lock' \in [Docs -> Ops \union {None}]
      BY <2>2 DEF Typed, TypeOK
    <3> QED BY <2>0, <3>2, <3>3 DEF Typed, TypeOK, proofVars
  <2> QED BY <1>6, <2>1, <2>2 DEF ArmPrimary
<1>8. CASE ArmLock(a)
  <2> DEFINE d == FilesOf[o][agent[a].i]
  <2>0. UNCHANGED <<doc, journal, backup, spoilt, proofVars, row>>
    BY <1>8 DEF ArmLock
  <2>1. CASE Goto(a, "undoing") /\ UNCHANGED lock
    BY <1>4, <2>0, <2>1 DEF Typed, TypeOK, proofVars
  <2>2. CASE /\ lock' = IF d = PrimaryOf[o] THEN lock ELSE [lock EXCEPT ![d] = o]
             /\ \E x \in {"checked", "undoing"} :
                   GotoMade(a, x, agent[a].i, agent[a].made \union {<<"lock", d>>})
    <3>1. /\ d \in Docs /\ agent[a].i > 0 /\ agent[a].i <= Len(FilesOf[o])
      BY <1>0, <1>8, ArmLockCases DEF ArmLock, Typed, Busy, BusyAt
    <3>2. agent[a].made \union {<<"lock", d>>} \in SUBSET Paths
      BY <1>1, <3>1 DEF Paths
    <3>3. agent' \in [Agents -> Process] /\ Busy' /\ (UNCHANGED row => Bound')
      <4> DEFINE made == agent[a].made \union {<<"lock", d>>}
      <4>1. PICK x \in {"checked", "undoing"} : GotoMade(a, x, agent[a].i, made)
        BY <2>2
      <4> HIDE DEF made
      <4> QED BY <1>1, <1>7, <3>1, <3>2, <4>1 DEF made
    <3>4. lock' \in [Docs -> Ops \union {None}]
      BY <2>2, <3>1 DEF Typed, TypeOK
    <3> QED BY <2>0, <3>3, <3>4 DEF Typed, TypeOK, proofVars
  <2> QED BY <1>8, <2>1, <2>2, ArmLockCases
<1>9. CASE ArmBackup(a)
  <2> SUFFICES ASSUME NEW d, d = FilesOf[o][agent[a].i] PROVE Typed'
    OBVIOUS
  <2>0. UNCHANGED <<doc, lock, journal, proofVars, row>>
    BY <1>9 DEF ArmBackup
  <2>1. CASE Goto(a, "undoing") /\ UNCHANGED <<backup, spoilt>>
    BY <1>4, <2>0, <2>1 DEF Typed, TypeOK, proofVars
  <2>2. CASE /\ UNCHANGED <<backup, spoilt>>
             /\ GotoAt(a, "arming", agent[a].i + 1)
    <3>1. agent[a].i + 1 \in Nat /\ agent[a].i + 1 > 0 /\ {} \in SUBSET Paths
      BY <1>1
    <3>2. agent' \in [Agents -> Process] /\ Busy' /\ (UNCHANGED row => Bound')
      BY <1>7, <2>2, <3>1
    <3> QED BY <2>0, <2>2, <3>2 DEF Typed, TypeOK, proofVars
  <2>3. CASE /\ backup' = backup \union {<<o, d>>}
             /\ spoilt' = IF doc[d] = Baseline(o)[d] THEN spoilt
                          ELSE spoilt \union {<<o, d>>}
             /\ GotoMade(a, "arming", agent[a].i + 1,
                         agent[a].made \union {<<"backup", d>>})
    <3>0. d \in Docs
      BY <1>9, ArmBackupCases
    <3>1. agent[a].i + 1 \in Nat /\ agent[a].i + 1 > 0
      BY <1>1
    <3>2. agent[a].made \union {<<"backup", d>>} \in SUBSET Paths
      BY <1>1, <3>0 DEF Paths
    <3>3. agent' \in [Agents -> Process] /\ Busy' /\ (UNCHANGED row => Bound')
      BY <1>7, <2>3, <3>1, <3>2
    <3>4. backup' \subseteq Ops \X Docs /\ spoilt' \subseteq Ops \X Docs
      BY <2>3, <3>0 DEF Typed, TypeOK
    <3> QED BY <2>0, <3>3, <3>4 DEF Typed, TypeOK, proofVars
  <2>4. \/ Goto(a, "undoing") /\ UNCHANGED <<backup, spoilt>>
        \/ UNCHANGED <<backup, spoilt>> /\ GotoAt(a, "arming", agent[a].i + 1)
        \/ /\ backup' = backup \union {<<o, d>>}
           /\ spoilt' = IF doc[d] = Baseline(o)[d] THEN spoilt
                        ELSE spoilt \union {<<o, d>>}
           /\ GotoMade(a, "arming", agent[a].i + 1,
                       agent[a].made \union {<<"backup", d>>})
    BY <1>9, Zenon DEF ArmBackup
  <2> QED BY <2>1, <2>2, <2>3, <2>4, Zenon
<1>10. CASE ArmJournal(a)
  <2>0. UNCHANGED <<doc, lock, backup, spoilt, proofVars, row>>
    BY <1>10 DEF ArmJournal
  <2>1. CASE Goto(a, "undoing") /\ UNCHANGED journal
    BY <1>4, <2>0, <2>1 DEF Typed, TypeOK, proofVars
  <2>2. CASE /\ journal' = [journal EXCEPT ![PrimaryOf[o]] = o]
             /\ GotoAt(a, "saving", 1)
    <3>1. 1 \in Nat /\ 1 > 0 /\ {} \in SUBSET Paths
      OBVIOUS
    <3>2. agent' \in [Agents -> Process] /\ Busy' /\ (UNCHANGED row => Bound')
      BY <1>7, <2>2, <3>1
    <3>3. journal' \in [Docs -> Ops \union {None}]
      BY <2>2 DEF Typed, TypeOK
    <3> QED BY <2>0, <3>2, <3>3 DEF Typed, TypeOK, proofVars
  <2> QED BY <1>10, <2>1, <2>2 DEF ArmJournal
<1>11. CASE ArmUndo(a)
  <2>1. PICK n \in DOMAIN UndoOrder(o), x \in {"refused", "undoing"} :
               /\ Remove(o, UndoOrder(o)[n])
               /\ GotoMade(a, x, agent[a].i, agent[a].made \ {UndoOrder(o)[n]})
    BY <1>11, ArmUndoCases
  <2> DEFINE path == UndoOrder(o)[n]
             made == agent[a].made \ {path}
  <2>2. agent' \in [Agents -> Process] /\ Busy' /\ (UNCHANGED row => Bound')
    <3>1. made \in SUBSET Paths
      BY <1>1
    <3> HIDE DEF made
    <3> QED BY <1>1, <1>7, <2>1, <3>1 DEF made
  <2>3. /\ lock' \in [Docs -> Ops \union {None}]
        /\ journal' \in [Docs -> Ops \union {None}]
        /\ backup' \subseteq Ops \X Docs /\ spoilt' \subseteq Ops \X Docs
    <3> HIDE DEF path
    <3>1. Remove(o, path)
      BY <2>1 DEF path
    <3> QED BY <3>1 DEF Remove, Typed, TypeOK
  <2> QED BY <1>11, <2>2, <2>3 DEF ArmUndo, Typed, TypeOK, proofVars
<1> QED BY <1>2, <1>6, <1>8, <1>9, <1>10, <1>11 DEF Arming

\* Save, verify, restore.
LEMMA TypedSave ==
    ASSUME Typed, NEW a \in Agents,
           \/ Save(a) \/ Verify(a) \/ SaveFails(a) \/ Rollback(a)
           \/ Restore(a) \/ Restored(a) \/ RestoreFails(a)
    PROVE  Typed'
<1>0. agent[a].pc # "idle"
  BY DEF Save, Verify, SaveFails, Rollback, Restore, Restored, RestoreFails
<1> SUFFICES ASSUME NEW o \in Ops, o = agent[a].op
             PROVE  Typed'
  BY <1>0, AtStep
<1>1. /\ agent[a].i \in Nat /\ agent \in [Agents -> Process]
      /\ Baseline(o) \in [Files(o) -> Bytes]
      /\ doc \in [Docs -> Bytes] /\ Files(o) \subseteq Docs
  BY <1>0, AtStep, ConstantFacts DEF Typed, TypeOK
<1>2. "saving" \in PCs \ {"idle"} /\ "restoring" \in PCs \ {"idle"} /\ {} \in SUBSET Paths
  BY DEF PCs
<1>3. CASE Save(a) /\ GotoAt(a, "saving", agent[a].i + 1)
  <2>1. agent[a].i + 1 \in Nat /\ agent[a].i + 1 > 0
    BY <1>1
  <2>2. agent' \in [Agents -> Process] /\ Busy' /\ Bound'
    BY <1>0, <1>2, <1>3, <2>1, PlacedTyped DEF Save
  <2>3. doc' \in [Docs -> Bytes]
    BY <1>1, <1>3 DEF Save, Bytes
  <2> QED BY <1>3, <2>2, <2>3 DEF Save, Typed, TypeOK, sidecarVars, proofVars
<1>4. CASE Rollback(a)
  <2> DEFINE r == [agent[a] EXCEPT !.pc = "restoring", !.mode = "rollback",
                                   !.i = Len(FilesOf[o]), !.seen = Current(o)]
  <2>1. CASE Raise(a)
    <3>1. agent' \in [Agents -> Process] /\ Busy' /\ Bound'
      BY <1>0, <1>4, <2>1, RaiseGoes, PlainTyped DEF Rollback, PCs
    <3> QED BY <1>4, <3>1 DEF Rollback, Typed, TypeOK, sidecarVars, proofVars
  <2>2. CASE agent' = [agent EXCEPT ![a] = r]
    <3>1. Len(FilesOf[o]) \in Nat /\ Current(o) \in Readings /\ agent[a] \in Process
      BY <1>1, ConstantFacts, CurrentTyped DEF Typed
    <3>2. r \in Process
      BY <3>1, Zenon DEF Process, PCs
    <3>3. /\ r.pc = "restoring" /\ r.op = o /\ r.mode = "rollback"
          /\ r.i = Len(FilesOf[o])
      BY <3>1, SMT DEF Process
    <3> HIDE DEF r
    <3>4. agent'[a] = r
      BY <1>1, <2>2
    <3>5. BusyAt(a)'
      BY <3>1, <3>3, <3>4 DEF BusyAt
    <3>6. agent' \in [Agents -> Process] /\ Busy' /\ Bound'
      BY <1>0, <1>4, <2>2, <3>2, <3>3, <3>5, MovedTyped DEF Rollback
    <3> QED BY <1>4, <3>6 DEF Rollback, Typed, TypeOK, sidecarVars, proofVars
  <2> QED BY <1>4, <2>1, <2>2 DEF Rollback
<1>5. CASE Restore(a)
  <2> DEFINE d == FilesOf[o][agent[a].i]
  <2>1. /\ agent[a].i - 1 \in Nat /\ agent[a].i \in DOMAIN FilesOf[o]
        /\ agent[a].i - 1 <= Len(FilesOf[o])
    BY <1>0, <1>1, <1>5, ConstantFacts, SMT DEF Restore, Typed, Busy, BusyAt
  <2>2. agent' \in [Agents -> Process] /\ Busy' /\ Bound'
    BY <1>0, <1>2, <1>5, <2>1, PlacedTyped DEF Restore
  <2>3. d \in Files(o)
    BY <2>1 DEF Files
  <2>4. doc' \in [Docs -> Bytes]
    BY <1>1, <1>5, <2>3 DEF Restore
  <2> QED BY <1>5, <2>2, <2>4 DEF Restore, Typed, TypeOK, sidecarVars, proofVars
<1>6. CASE \/ Save(a) /\ ~GotoAt(a, "saving", agent[a].i + 1)
           \/ Verify(a) \/ SaveFails(a) \/ Restored(a) \/ RestoreFails(a)
  <2>1. \E x \in PCs \ {"idle", "arming", "checked", "saving", "restoring"} : Goto(a, x)
    BY <1>6, RaiseGoes DEF Save, Verify, SaveFails, Restored, RestoreFails, PCs
  <2>2. UNCHANGED <<doc, sidecarVars, proofVars, row>>
    BY <1>6 DEF Save, Verify, SaveFails, Restored, RestoreFails
  <2> QED BY <1>0, <2>1, <2>2, PlainTyped DEF Typed, TypeOK, sidecarVars, proofVars
<1> QED BY <1>3, <1>4, <1>5, <1>6

\* What a path of a cleanup list holds.
LEMMA HeldTyped ==
    ASSUME Typed, NEW o \in Ops
    PROVE  [i \in DOMAIN CleanupPaths(o) |-> Holder(o, CleanupPaths(o)[i])]
              \in Seq(Ops \union {None})
<1>1. /\ CleanupPaths(o) \in Seq(Sidecars(o)) /\ Len(CleanupPaths(o)) \in Nat
      /\ DOMAIN CleanupPaths(o) = 1..Len(CleanupPaths(o))
  BY PathsCover, LenProperties
<1>2. ASSUME NEW i \in DOMAIN CleanupPaths(o)
      PROVE  Holder(o, CleanupPaths(o)[i]) \in Ops \union {None}
  <2>1. CleanupPaths(o)[i] \in Sidecars(o)
    BY <1>1, <1>2, ElementOfSeq
  <2>2. CleanupPaths(o)[i] \in Paths
    BY <2>1, ConstantFacts DEF Sidecars, Paths, HadFiles
  <2> QED BY <2>2 DEF Holder, Paths, Typed, TypeOK
<1> DEFINE now == [i \in DOMAIN CleanupPaths(o) |-> Holder(o, CleanupPaths(o)[i])]
<1>3. now \in [1..Len(CleanupPaths(o)) -> Ops \union {None}]
  BY <1>1, <1>2
<1> QED BY <1>1, <1>3, SeqDef

\* cleanup.
LEMMA TypedCleanup ==
    ASSUME Typed, NEW a \in Agents,
           \/ CleanupBegin(a) \/ PublishArchive(a) \/ Checkpoint(a) \/ Intend(a)
           \/ Unlink(a) \/ Acknowledge(a) \/ Cleaned(a) \/ CleanupFails(a)
    PROVE  Typed'
<1>0. agent[a].pc # "idle"
  BY DEF CleanupBegin, PublishArchive, Checkpoint, Intend, Unlink, Acknowledge, Cleaned,
         CleanupFails
<1> SUFFICES ASSUME NEW o \in Ops, o = agent[a].op
             PROVE  Typed'
  BY <1>0, AtStep
<1>1. /\ agent[a].i \in Nat /\ agent[a].pending \in BOOLEAN
      /\ agent[a].held \in Seq(Ops \union {None})
      /\ agent[a].mode \in {"commit", "rollback", "resolve"}
      /\ agent \in [Agents -> Process] /\ ckpt \in [Ops -> Progress]
      /\ agent[a] \in Process /\ agent[a].i + 1 \in Nat
  BY <1>0, AtStep DEF Typed, TypeOK
<1>2. /\ ckpt[o].cursor \in Nat /\ ckpt[o].pending \in BOOLEAN
      /\ ckpt[o].held \in Seq(Ops \union {None})
  BY <1>1, Zenon DEF Progress
\* A process in the cleanup, with any progress in memory.
<1>3. ASSUME NEW y \in {"deleting", "unlinking"}, NEW r \in Process,
             r.pc = y, r.op = o, r.mode = agent[a].mode,
             agent' = [agent EXCEPT ![a] = r], UNCHANGED row
      PROVE  agent' \in [Agents -> Process] /\ Busy' /\ Bound'
  <2>1. agent'[a] = r
    BY <1>1, <1>3
  <2>2. BusyAt(a)'
    BY <1>1, <1>3, <2>1 DEF BusyAt
  <2> QED BY <1>0, <1>3, <2>2, MovedTyped
<1>4. ASSUME NEW y \in {"deleting", "unlinking"}, NEW i \in Nat, NEW b \in BOOLEAN,
             NEW h \in Seq(Ops \union {None}),
             \/ agent' = [agent EXCEPT ![a] = [@ EXCEPT !.pc = y, !.i = i, !.pending = b,
                                                        !.held = h]]
             \/ agent' = [agent EXCEPT ![a] = [@ EXCEPT !.pc = y, !.i = i, !.pending = b]]
             \/ agent' = [agent EXCEPT ![a] = [@ EXCEPT !.pc = y, !.pending = b]],
             UNCHANGED row
      PROVE  agent' \in [Agents -> Process] /\ Busy' /\ Bound'
  <2> DEFINE q == [agent[a] EXCEPT !.pc = y, !.i = i, !.pending = b, !.held = h]
             s == [agent[a] EXCEPT !.pc = y, !.i = i, !.pending = b]
             t == [agent[a] EXCEPT !.pc = y, !.pending = b]
  <2>1. /\ q.pc = y /\ q.op = o /\ q.mode = agent[a].mode
        /\ s.pc = y /\ s.op = o /\ s.mode = agent[a].mode
        /\ t.pc = y /\ t.op = o /\ t.mode = agent[a].mode
    BY <1>1, SMT DEF Process
  <2>2. y \in PCs
    BY DEF PCs
  <2>3. q \in Process /\ s \in Process /\ t \in Process
    BY <1>1, <2>2, Zenon DEF Process
  <2>4. \/ agent' = [agent EXCEPT ![a] = q]
        \/ agent' = [agent EXCEPT ![a] = s]
        \/ agent' = [agent EXCEPT ![a] = t]
    BY <1>4, Zenon
  <2> HIDE DEF q, s, t
  <2> QED BY <1>3, <1>4, <2>1, <2>3, <2>4
\* A checkpoint is written.
<1>5. ASSUME NEW phase \in {"cleaning", "cleaned"}, NEW i \in Nat, NEW b \in BOOLEAN,
             NEW h \in Seq(Ops \union {None}), Persist(a, phase, i, b, h)
      PROVE  ckpt' \in [Ops -> Progress]
  <2> DEFINE r == [phase |-> phase, cursor |-> i, pending |-> b, held |-> h]
  <2>1. r \in Progress
    BY DEF Progress
  <2>2. ckpt' = [ckpt EXCEPT ![o] = r]
    BY <1>5 DEF Persist
  <2> HIDE DEF r
  <2> QED BY <1>1, <2>1, <2>2, Replaced
<1>6. CASE CleanupBegin(a)
  <2>0. UNCHANGED <<doc, sidecarVars, archive, ckpt, row>>
    BY <1>6 DEF CleanupBegin
  <2>1. CASE Raise(a) /\ UNCHANGED observed
    <3>1. agent' \in [Agents -> Process] /\ Busy' /\ Bound'
      BY <1>0, <2>0, <2>1, RaiseGoes, PlainTyped DEF PCs
    <3> QED BY <2>0, <2>1, <3>1 DEF Typed, TypeOK, sidecarVars
  <2>2. CASE observed' = [observed EXCEPT ![o] = Current(o)] /\ Goto(a, "archiving")
    <3>1. /\ observed' \in [Ops -> Readings]
          /\ \A x \in Ops : observed'[x] \in {<<>>} \union [Files(x) -> Bytes]
      BY <2>2, CurrentTyped DEF Typed, TypeOK
    <3>2. agent' \in [Agents -> Process] /\ Busy' /\ Bound'
      BY <1>0, <2>0, <2>2, PlainTyped DEF PCs
    <3> QED BY <2>0, <3>1, <3>2 DEF Typed, TypeOK, sidecarVars
  <2>3. CASE /\ agent' = [agent EXCEPT ![a] =
                            [@ EXCEPT !.pc = "deleting", !.i = ckpt[o].cursor,
                                      !.pending = ckpt[o].pending, !.held = ckpt[o].held]]
             /\ UNCHANGED observed
    <3>1. agent' \in [Agents -> Process] /\ Busy' /\ Bound'
      BY <1>2, <1>4, <2>0, <2>3
    <3> QED BY <2>0, <2>3, <3>1 DEF Typed, TypeOK, sidecarVars
  <2> QED BY <1>6, <2>1, <2>2, <2>3 DEF CleanupBegin
<1>7. CASE PublishArchive(a)
  <2>1. archive' \subseteq Ops \X Docs
    BY <1>7, ConstantFacts DEF PublishArchive, Typed, TypeOK
  <2> QED BY <1>7, <2>1 DEF PublishArchive, Typed, TypeOK, Busy, BusyAt, Bound, HasBase,
                            sidecarVars
<1>8. CASE Checkpoint(a)
  <2> DEFINE now == [i \in DOMAIN CleanupPaths(o) |-> Holder(o, CleanupPaths(o)[i])]
  <2>1. now \in Seq(Ops \union {None})
    BY HeldTyped
  <2>2. /\ UNCHANGED <<doc, sidecarVars, archive, observed, row>>
        /\ Persist(a, "cleaning", 0, FALSE, now)
        /\ agent' = [agent EXCEPT ![a] = [@ EXCEPT !.pc = "deleting", !.i = 0,
                                                   !.pending = FALSE, !.held = now]]
    BY <1>8 DEF Checkpoint
  <2> HIDE DEF now
  <2>3. ckpt' \in [Ops -> Progress]
    BY <1>5, <2>1, <2>2
  <2>4. agent' \in [Agents -> Process] /\ Busy' /\ Bound'
    BY <1>4, <2>1, <2>2
  <2> QED BY <2>2, <2>3, <2>4 DEF Typed, TypeOK, sidecarVars
<1>9. CASE Intend(a) /\ ~Owned(o)
  <2>1. agent' \in [Agents -> Process] /\ Busy' /\ Bound'
    BY <1>0, <1>9, RaiseGoes, PlainTyped DEF Intend, PCs
  <2> QED BY <1>9, <2>1 DEF Intend, Typed, TypeOK, sidecarVars
<1>10. CASE Intend(a) /\ Owned(o)
  <2>1. /\ UNCHANGED <<doc, sidecarVars, archive, observed, row>>
        /\ UNCHANGED ckpt \/ Persist(a, "cleaning", agent[a].i, TRUE, agent[a].held)
        /\ agent' = [agent EXCEPT ![a] = [@ EXCEPT !.pc = "unlinking", !.pending = TRUE]]
    BY <1>10 DEF Intend
  <2>2. ckpt' \in [Ops -> Progress]
    BY <1>1, <1>5, <2>1
  <2>3. agent' \in [Agents -> Process] /\ Busy' /\ Bound'
    BY <1>1, <1>4, <2>1
  <2> QED BY <2>1, <2>2, <2>3 DEF Typed, TypeOK, sidecarVars
<1>11. CASE Unlink(a)
  <2>1. agent' \in [Agents -> Process] /\ Busy' /\ Bound'
    BY <1>0, <1>11, PlainTyped DEF Unlink, PCs
  <2>2. PICK path : Remove(o, path) \/ UNCHANGED sidecarVars
    BY <1>11 DEF Unlink
  <2>3. /\ lock' \in [Docs -> Ops \union {None}]
        /\ journal' \in [Docs -> Ops \union {None}]
        /\ backup' \subseteq Ops \X Docs /\ spoilt' \subseteq Ops \X Docs
    BY <2>2 DEF Remove, sidecarVars, Typed, TypeOK
  <2> QED BY <1>11, <2>1, <2>3 DEF Unlink, Typed, TypeOK, proofVars
<1>12. CASE Acknowledge(a)
  <2>1. /\ UNCHANGED <<doc, sidecarVars, archive, observed, row>>
        /\ Persist(a, "cleaning", agent[a].i + 1, FALSE, agent[a].held)
        /\ agent' = [agent EXCEPT ![a] = [@ EXCEPT !.pc = "deleting",
                                                   !.i = agent[a].i + 1,
                                                   !.pending = FALSE]]
    BY <1>12, Zenon DEF Acknowledge
  <2>2. ckpt' \in [Ops -> Progress]
    BY <1>1, <1>5, <2>1
  <2>3. agent' \in [Agents -> Process] /\ Busy' /\ Bound'
    BY <1>1, <1>4, <2>1
  <2> QED BY <2>1, <2>2, <2>3 DEF Typed, TypeOK, sidecarVars
<1>13. CASE Cleaned(a)
  <2>1. ckpt' \in [Ops -> Progress]
    BY <1>1, <1>5, <1>13 DEF Cleaned
  <2>2. agent' \in [Agents -> Process] /\ Busy' /\ Bound'
    BY <1>0, <1>1, <1>13, PlainTyped DEF Cleaned, PCs
  <2> QED BY <1>13, <2>1, <2>2 DEF Cleaned, Typed, TypeOK, sidecarVars
<1>14. CASE CleanupFails(a)
  <2>1. agent' \in [Agents -> Process] /\ Busy' /\ Bound'
    BY <1>0, <1>14, RaiseGoes, PlainTyped DEF CleanupFails, PCs
  <2> QED BY <1>14, <2>1 DEF CleanupFails, Typed, TypeOK, sidecarVars, proofVars
<1> QED BY <1>6, <1>7, <1>8, <1>9, <1>10, <1>11, <1>12, <1>13, <1>14

\* The store, resolve and the environment.
LEMMA TypedRest ==
    ASSUME Typed,
           \/ \E a \in Agents :
                 \/ Undispatch(a) \/ Finish(a) \/ Resolve(a) \/ ResolveRefused(a)
                 \/ Crash(a) \/ \E o \in Ops : Confirm(a, o) \/ ResolveBegin(a, o)
           \/ \E o \in Ops : Prune(o)
           \/ \E d \in Docs, e \in Edits : Edit(d, e)
    PROVE  Typed'
<1>1. agent \in [Agents -> Process] /\ row \in [Ops -> Row]
  BY DEF Typed, TypeOK
<1>2. ASSUME NEW a \in Agents, agent[a].pc # "idle", Goto(a, "exited"),
             UNCHANGED <<doc, sidecarVars, proofVars>>,
             row' \in [Ops -> Row],
             \A o \in Ops : /\ row'[o].baseline = row[o].baseline
                            /\ \/ o = agent[a].op
                               \/ row'[o] = row[o]
      PROVE  Typed'
  <2>1. agent' \in [Agents -> Process] /\ Busy'
    BY <1>2, PlainTyped DEF PCs
  <2>2. \A c \in Agents : /\ agent'[c].op = agent[c].op
                          /\ agent'[c].pc # "idle" <=> agent[c].pc # "idle"
    BY <1>1, <1>2, SMT DEF Goto, Process
  <2>3. agent[a].op \in Ops /\ HasBase(agent[a].op)
    BY <1>2 DEF Typed, Busy, BusyAt, Bound
  <2>4. Bound'
    <3>1. \A x \in Ops : HasBase(x)' <=> HasBase(x)
      BY <1>2 DEF HasBase
    <3>2. \A c \in Agents : agent[c].pc # "idle" => agent[c].op \in Ops
      BY DEF Typed, Busy, BusyAt
    <3>3. \A x \in Ops \ {agent[a].op} : row'[x] = row[x]
      BY <1>2
    <3> QED BY <2>2, <2>3, <3>1, <3>2, <3>3 DEF Typed, Bound
  <2> QED BY <1>2, <2>1, <2>4 DEF Typed, TypeOK, sidecarVars, proofVars
<1>3. ASSUME NEW a \in Agents, Undispatch(a) PROVE Typed'
  <2> SUFFICES ASSUME NEW o \in Ops, o = agent[a].op PROVE Typed'
    BY <1>3, AtStep DEF Undispatch
  <2> DEFINE r == [row[o] EXCEPT !.status = "planned", !.writer = None]
  <2>1. r \in Row /\ r.baseline = row[o].baseline
    BY <1>1, Zenon DEF Row
  <2>2. row' = [row EXCEPT ![o] = r]
    BY <1>3 DEF Undispatch
  <2>3. row' \in [Ops -> Row]
    BY <1>1, <2>1, <2>2, Replaced
  <2>4. \A x \in Ops : /\ row'[x].baseline = row[x].baseline
                       /\ x # o => row'[x] = row[x]
    BY <1>1, <2>1, <2>2
  <2> QED BY <1>2, <1>3, <2>3, <2>4 DEF Undispatch
<1>4. ASSUME NEW a \in Agents, Finish(a) PROVE Typed'
  <2> SUFFICES ASSUME NEW o \in Ops, o = agent[a].op PROVE Typed'
    BY <1>4, AtStep DEF Finish
  <2> DEFINE x == IF agent[a].pc = "uncertain" THEN "unknown" ELSE "finished"
             r == [row[o] EXCEPT !.status = x, !.receipt = TRUE]
  <2>1. r \in Row /\ r.baseline = row[o].baseline
    <3>1. x \in {"unknown", "finished"} /\ row[o] \in Row
      BY <1>1
    <3> HIDE DEF x
    <3> QED BY <3>1, Zenon DEF Row
  <2>2. row' = [row EXCEPT ![o] = r]
    BY <1>4 DEF Finish
  <2>3. row' \in [Ops -> Row]
    BY <1>1, <2>1, <2>2, Replaced
  <2>4. \A y \in Ops : /\ row'[y].baseline = row[y].baseline
                       /\ y # o => row'[y] = row[y]
    BY <1>1, <2>1, <2>2
  <2> QED BY <1>2, <1>4, <2>3, <2>4 DEF Finish
<1>5. ASSUME NEW a \in Agents, Resolve(a) PROVE Typed'
  <2> SUFFICES ASSUME NEW o \in Ops, o = agent[a].op PROVE Typed'
    BY <1>5, AtStep DEF Resolve
  <2> DEFINE r == [row[o] EXCEPT !.status = "unknown", !.resolution = TRUE]
  <2>1. r \in Row /\ r.baseline = row[o].baseline
    BY <1>1, Zenon DEF Row
  <2>2. row' \in {row, [row EXCEPT ![o] = r]}
    BY <1>5 DEF Resolve
  <2>3. row' \in [Ops -> Row]
    BY <1>1, <2>1, <2>2, Replaced
  <2>4. \A y \in Ops : /\ row'[y].baseline = row[y].baseline
                       /\ y # o => row'[y] = row[y]
    BY <1>1, <2>1, <2>2
  <2> QED BY <1>2, <1>5, <2>3, <2>4 DEF Resolve
<1>6. ASSUME NEW a \in Agents, ResolveRefused(a) \/ Crash(a) PROVE Typed'
  BY <1>1, <1>2, <1>6 DEF ResolveRefused, Crash
<1>7. ASSUME NEW a \in Agents, NEW o \in Ops, Confirm(a, o) PROVE Typed'
  <2> DEFINE r == [row[o] EXCEPT !.status = "dispatched", !.writer = a,
                                 !.baseline = Current(o)]
             q == [agent[a] EXCEPT !.pc = "confirmed", !.op = o, !.mode = "commit"]
  <2>1. Current(o) \in Readings /\ Current(o) \in [Files(o) -> Bytes]
    BY CurrentTyped DEF Typed
  <2>2. r \in Row /\ r.baseline = Current(o)
    BY <1>1, <2>1, Zenon DEF Row
  <2>3. row' = [row EXCEPT ![o] = r] /\ agent' = [agent EXCEPT ![a] = q]
    BY <1>7 DEF Confirm
  <2>4. row' \in [Ops -> Row]
    BY <1>1, <2>2, <2>3, Replaced
  <2>5. q \in Process
    BY <1>1, Zenon DEF Process, PCs
  <2>6. q.pc = "confirmed" /\ q.op = o /\ q.mode = "commit"
    BY <1>1, SMT DEF Process
  <2>7. agent' \in [Agents -> Process]
    BY <1>1, <2>3, <2>5, Replaced
  <2>8. /\ agent'[a].pc = "confirmed" /\ agent'[a].op = o /\ agent'[a].mode = "commit"
        /\ \A c \in Agents \ {a} : agent'[c] = agent[c]
    BY <1>1, <2>3, <2>6
  <2>9. /\ row'[o].baseline = Current(o)
        /\ \A x \in Ops \ {o} : row'[x] = row[x]
    BY <1>1, <2>2, <2>3
  <2>10. Busy'
    BY <2>8 DEF Typed, Busy, BusyAt
  <2>11. Bound'
    <3>1. HasBase(o)'
      BY <2>1, <2>9 DEF HasBase
    <3>2. \A x \in Ops \ {o} : HasBase(x)' <=> HasBase(x)
      BY <2>9 DEF HasBase
    <3>3. \A c \in Agents \ {a} : agent[c].pc # "idle" => agent[c].op \in Ops
      BY DEF Typed, Busy, BusyAt
    <3> QED BY <2>8, <2>9, <3>1, <3>2, <3>3 DEF Typed, Bound
  <2>12. UNCHANGED <<doc, lock, journal, backup, spoilt, archive, observed, ckpt>>
    BY <1>7 DEF Confirm, sidecarVars, proofVars
  <2>13. \A x \in Ops : {observed'[x], row'[x].baseline}
                          \subseteq {<<>>} \union [Files(x) -> Bytes]
    BY <2>1, <2>9, <2>12 DEF Typed, TypeOK
  <2>14. TypeOK'
    BY <2>4, <2>7, <2>12, <2>13 DEF Typed, TypeOK
  <2> QED BY <2>10, <2>11, <2>14 DEF Typed
<1>8. ASSUME NEW a \in Agents, NEW o \in Ops, ResolveBegin(a, o) PROVE Typed'
  <2> DEFINE q == [agent[a] EXCEPT !.pc = "closing", !.op = o, !.mode = "resolve",
                                   !.seen = Current(o)]
  <2>1. Current(o) \in Readings
    BY CurrentTyped DEF Typed
  <2>2. q \in Process
    BY <1>1, <2>1, Zenon DEF Process, PCs
  <2>3. q.pc = "closing" /\ q.op = o /\ q.mode = "resolve"
    BY <1>1, SMT DEF Process
  <2>4. agent' = [agent EXCEPT ![a] = q] /\ agent' \in [Agents -> Process]
    BY <1>1, <1>8, <2>2, Replaced DEF ResolveBegin
  <2>5. /\ agent'[a].pc = "closing" /\ agent'[a].op = o /\ agent'[a].mode = "resolve"
        /\ \A c \in Agents \ {a} : agent'[c] = agent[c]
    BY <1>1, <2>3, <2>4
  <2>6. Busy'
    BY <2>5 DEF Typed, Busy, BusyAt
  <2>7. HasBase(o)
    BY <1>8 DEF ResolveBegin, Unresolved, Typed, Bound
  <2>8. Bound'
    BY <1>8, <2>5, <2>7 DEF ResolveBegin, Typed, Bound, HasBase
  <2> QED BY <1>8, <2>4, <2>6, <2>8 DEF ResolveBegin, Typed, TypeOK, sidecarVars,
                                        proofVars
<1>9. ASSUME NEW o \in Ops, Prune(o) PROVE Typed'
  <2>1. row' \in [Ops -> Row]
    BY <1>1, <1>9, RowTyped DEF Prune
  <2>2. \A x \in Ops : /\ row'[x].baseline = row[x].baseline
                       /\ x # o => row'[x] = row[x]
    BY <1>1, <1>9, SMT DEF Prune, Row
  <2>3. HasBase(o)
    BY <1>9 DEF Prune, Typed, Bound
  <2>4. Bound'
    <3>1. \A x \in Ops : HasBase(x)' <=> HasBase(x)
      BY <2>2 DEF HasBase
    <3>2. \A c \in Agents : agent[c].pc # "idle" => agent[c].op \in Ops
      BY DEF Typed, Busy, BusyAt
    <3> QED BY <1>9, <2>2, <2>3, <3>1, <3>2 DEF Prune, Typed, Bound
  <2> QED BY <1>9, <2>1, <2>2, <2>4 DEF Prune, Typed, TypeOK, Busy, BusyAt,
                                        sidecarVars, proofVars
<1>10. ASSUME NEW d \in Docs, NEW e \in Edits, Edit(d, e) PROVE Typed'
  BY <1>10 DEF Edit, Bytes, Typed, TypeOK, Busy, BusyAt, Bound, HasBase, sidecarVars,
               proofVars
<1> QED BY <1>3, <1>4, <1>5, <1>6, <1>7, <1>8, <1>9, <1>10

LEMMA TypedNext == Typed /\ [Next]_vars => Typed'
<1>1. ASSUME Typed, UNCHANGED vars PROVE Typed'
  BY <1>1 DEF vars, sidecarVars, proofVars, Typed, TypeOK, Busy, BusyAt, Bound, HasBase
<1>2. ASSUME Typed, Next PROVE Typed'
  BY <1>2, TypedArm, TypedSave, TypedCleanup, TypedRest DEF Next, Step, Arming
<1> QED BY <1>1, <1>2

\* Documents, sidecars, checkpoints, rows and processes stay well typed, and a
\* decision or a baseline is about the documents of its own operation.
THEOREM DocumentTypes == Spec => []TypeOK
<1>1. Spec => []Typed
  BY TypedInit, TypedNext, PTL DEF Spec
<1> QED BY <1>1, PTL DEF Typed

-----------------------------------------------------------------------------
(* Who works on an operation.                                               *)

Live(a)     == agent[a].pc \notin {"idle", "exited"}
Writer(a)   == Live(a) /\ agent[a].mode \in {"commit", "rollback"}
Resolver(a) == Live(a) /\ agent[a].mode = "resolve"

EarlyPCs   == {"confirmed", "guarded", "unlocked"} \union ArmPCs

\* The mode a process can be in where it is.
ModeAt(a) ==
    /\ agent[a].pc \in EarlyPCs \union {"saving", "failing", "completed"} =>
          agent[a].mode = "commit"
    /\ agent[a].pc \in {"restoring", "restored"} => agent[a].mode = "rollback"
    /\ agent[a].pc = "resolved" => agent[a].mode = "resolve"
    /\ agent[a].pc = "uncertain" => agent[a].mode # "resolve"
    /\ agent[a].pc = "refused" => agent[a].mode # "rollback"

\* A writer's row is its own and open; a resolver's writer is gone.
AttendedBy(a) ==
    /\ Writer(a) => /\ row[agent[a].op].status = "dispatched"
                    /\ row[agent[a].op].writer = a
    /\ Resolver(a) => /\ row[agent[a].op].status \in {"dispatched", "unknown", "pruned"}
                      /\ row[agent[a].op].writer \in Agents
                      /\ agent[row[agent[a].op].writer].pc = "exited"

\* A row that waits or is being worked on has no resolution.
OpenRow(o) ==
    row[o].status \in {"planned", "dispatched"} => ~row[o].resolution

Attended ==
    /\ Typed
    /\ \A a \in Agents : ModeAt(a) /\ AttendedBy(a)
    /\ \A o \in Ops : OpenRow(o)

\* A writer is the only process on its operation.
LEMMA Alone ==
    ASSUME Attended, NEW a \in Agents, Writer(a),
           NEW b \in Agents \ {a}, Live(b)
    PROVE  agent[b].op # agent[a].op
<1>1. agent[b].mode \in {"commit", "rollback", "resolve"}
  BY AtStep DEF Attended, Live
<1> QED BY <1>1 DEF Attended, AttendedBy, Writer, Resolver, Live

Working(a) == Step(a) \/ Crash(a)

\* A step of a process moves no other process and keeps its operation.
LEMMA Others ==
    ASSUME Typed, NEW a \in Agents, Working(a), ModeAt(a)
    PROVE  /\ agent[a].pc \notin {"idle", "exited"}
           /\ agent'[a].pc # "idle"
           /\ agent'[a].op = agent[a].op
           /\ \A b \in Agents \ {a} : agent'[b] = agent[b]
           /\ agent[a].mode = "resolve" <=> agent'[a].mode = "resolve"
<1>1. agent \in [Agents -> Process]
  BY DEF Typed, TypeOK
<1>2. ASSUME NEW x, Goto(a, x)
      PROVE  Moved(a, x, agent[a].mode)
  BY <1>1, <1>2, Moves
<1>3. ASSUME NEW x, NEW i, GotoAt(a, x, i)
      PROVE  Moved(a, x, agent[a].mode)
  BY <1>1, <1>3, Moves
<1>4. Raise(a) => \/ Moved(a, "refused", agent[a].mode)
                  \/ Moved(a, "uncertain", agent[a].mode)
  BY <1>1, RaiseMoves
<1>5. CASE GuardCheckpoints(a) \/ GuardLocks(a)
  BY <1>2, <1>5 DEF GuardCheckpoints, GuardLocks, Moved
<1>6. CASE Arming(a)
  BY <1>1, <1>6, ArmMovesTo DEF ArmPCs, Moved
<1>7. CASE Save(a) \/ Verify(a) \/ SaveFails(a)
  BY <1>2, <1>3, <1>7 DEF Save, Verify, SaveFails, Moved
<1>8. CASE Rollback(a)
  <2>1. agent[a].pc = "failing" /\ agent[a].mode = "commit"
    BY <1>8 DEF Rollback, ModeAt
  <2>2. Moved(a, "restoring", "rollback") \/ Raise(a)
    BY <1>1, <1>8, RollbackMoves
  <2> QED BY <1>4, <2>1, <2>2 DEF Moved
<1>9. CASE Restore(a) \/ Restored(a) \/ RestoreFails(a)
  BY <1>2, <1>3, <1>4, <1>9 DEF Restore, Restored, RestoreFails, Moved
<1>10. CASE CleanupBegin(a) \/ Checkpoint(a) \/ Intend(a) \/ Acknowledge(a)
  <2>1. /\ agent[a].pc \notin {"idle", "exited"}
        /\ \/ Raise(a) \/ Goto(a, "archiving") \/ Moved(a, "deleting", agent[a].mode)
           \/ Moved(a, "unlinking", agent[a].mode)
    BY <1>1, <1>10, CleanupMoves DEF CleanupBegin, Checkpoint, Intend, Acknowledge
  <2> QED BY <1>2, <1>4, <2>1 DEF Moved
<1>11. CASE PublishArchive(a) \/ Unlink(a) \/ CleanupFails(a)
  BY <1>2, <1>4, <1>11 DEF PublishArchive, Unlink, CleanupFails, Moved
<1>12. CASE Cleaned(a)
  <2>1. agent[a].mode \in {"commit", "rollback", "resolve"}
    BY <1>12, AtStep DEF Cleaned
  <2> QED BY <1>2, <1>12, <2>1 DEF Cleaned, Moved
<1>13. CASE \/ Undispatch(a) \/ Finish(a) \/ Resolve(a) \/ ResolveRefused(a) \/ Crash(a)
  BY <1>2, <1>13 DEF Undispatch, Finish, Resolve, ResolveRefused, Crash, Moved
<1> QED BY <1>5, <1>6, <1>7, <1>8, <1>9, <1>10, <1>11, <1>12, <1>13 DEF Working, Step, Arming

LEMMA ModeKept ==
    ASSUME Typed, NEW a \in Agents, Working(a), ModeAt(a)
    PROVE  ModeAt(a)'
<1>1. agent \in [Agents -> Process]
  BY DEF Typed, TypeOK
<1>2. ASSUME NEW x, Goto(a, x) PROVE Moved(a, x, agent[a].mode)
  BY <1>1, <1>2, Moves
<1>3. ASSUME NEW x, NEW i, GotoAt(a, x, i) PROVE Moved(a, x, agent[a].mode)
  BY <1>1, <1>3, Moves
<1>4. ASSUME Raise(a) PROVE ModeAt(a)'
  BY <1>1, <1>4, RaiseMoves DEF Moved, ModeAt, EarlyPCs, ArmPCs
<1>5. CASE GuardCheckpoints(a) \/ GuardLocks(a)
  BY <1>2, <1>5 DEF GuardCheckpoints, GuardLocks, Moved, ModeAt, EarlyPCs, ArmPCs
<1>6. CASE Arming(a)
  BY <1>1, <1>6, ArmMovesTo DEF ArmPCs, Moved, ModeAt, EarlyPCs
<1>7. CASE Save(a) \/ Verify(a) \/ SaveFails(a)
  BY <1>2, <1>3, <1>7 DEF Save, Verify, SaveFails, Moved, ModeAt, EarlyPCs, ArmPCs
<1>8. CASE Rollback(a)
  BY <1>1, <1>4, <1>8, RollbackMoves DEF Moved, ModeAt, EarlyPCs, ArmPCs
<1>9. CASE Restore(a) \/ Restored(a) \/ RestoreFails(a)
  BY <1>2, <1>3, <1>4, <1>9 DEF Restore, Restored, RestoreFails, Moved, ModeAt, EarlyPCs,
                                ArmPCs
<1>10. CASE CleanupBegin(a) \/ Checkpoint(a) \/ Intend(a) \/ Acknowledge(a)
  <2>1. \/ Raise(a) \/ Goto(a, "archiving") \/ Moved(a, "deleting", agent[a].mode)
        \/ Moved(a, "unlinking", agent[a].mode)
    BY <1>1, <1>10, CleanupMoves
  <2> QED BY <1>2, <1>4, <2>1 DEF Moved, ModeAt, EarlyPCs, ArmPCs
<1>11. CASE PublishArchive(a) \/ Unlink(a) \/ CleanupFails(a)
  BY <1>2, <1>4, <1>11 DEF PublishArchive, Unlink, CleanupFails, Moved, ModeAt, EarlyPCs,
                           ArmPCs
<1>12. CASE Cleaned(a)
  <2>1. agent[a].mode \in {"commit", "rollback", "resolve"}
    BY <1>12, AtStep DEF Cleaned
  <2> QED BY <1>2, <1>12, <2>1 DEF Cleaned, Moved, ModeAt, EarlyPCs, ArmPCs
<1>13. CASE \/ Undispatch(a) \/ Finish(a) \/ Resolve(a) \/ ResolveRefused(a) \/ Crash(a)
  BY <1>2, <1>13 DEF Undispatch, Finish, Resolve, ResolveRefused, Crash, Moved, ModeAt,
                     EarlyPCs, ArmPCs
<1> QED BY <1>5, <1>6, <1>7, <1>8, <1>9, <1>10, <1>11, <1>12, <1>13 DEF Working, Step, Arming

\* The store steps of a process; all other steps of it change no row.
Storing(a) == Undispatch(a) \/ Finish(a) \/ Resolve(a)

\* Only its own row, checkpoint and observation are changed by a process.
LEMMA OwnRecords ==
    ASSUME Typed, NEW a \in Agents, Working(a), NEW o \in Ops
    PROVE  /\ o # agent[a].op => /\ row'[o] = row[o]
                                 /\ ckpt'[o] = ckpt[o]
                                 /\ observed'[o] = observed[o]
           /\ ~Storing(a) => row'[o] = row[o]
           /\ row'[o].baseline = row[o].baseline
           /\ ~Undispatch(a) => row'[o].writer = row[o].writer
           /\ ckpt[o].phase # "none" => ckpt'[o].phase # "none"
<1>1. /\ row \in [Ops -> Row] /\ ckpt \in [Ops -> Progress]
      /\ observed \in [Ops -> Readings]
  BY DEF Typed, TypeOK
<1>2. CASE GuardCheckpoints(a) \/ GuardLocks(a) \/ Arming(a)
  <2>1. UNCHANGED <<observed, ckpt, row>>
    <3>1. agent \in [Agents -> Process]
      BY DEF Typed, TypeOK
    <3>2. Arming(a) => UNCHANGED <<observed, ckpt, row>>
      BY <3>1, ArmMovesTo
    <3> QED BY <1>2, <3>2 DEF GuardCheckpoints, GuardLocks, proofVars
  <2> QED BY <2>1
<1>3. CASE \/ Save(a) \/ Verify(a) \/ SaveFails(a) \/ Rollback(a) \/ Restore(a)
           \/ Restored(a) \/ RestoreFails(a)
  BY <1>3 DEF Save, Verify, SaveFails, Rollback, Restore, Restored, RestoreFails, proofVars
<1>4. CASE CleanupBegin(a) \/ PublishArchive(a) \/ Unlink(a) \/ CleanupFails(a)
  BY <1>1, <1>4, SMT DEF CleanupBegin, PublishArchive, Unlink, CleanupFails, proofVars
<1>5. CASE Checkpoint(a) \/ Intend(a) \/ Acknowledge(a) \/ Cleaned(a)
  <2> DEFINE r(x, n, b, h) == [phase |-> x, cursor |-> n, pending |-> b, held |-> h]
  <2>1. \A x, n, b, h : r(x, n, b, h).phase = x
    OBVIOUS
  <2>2. /\ \/ ckpt' = ckpt
           \/ \E x \in {"cleaning", "cleaned"} : \E n, b, h :
                 ckpt' = [ckpt EXCEPT ![agent[a].op] = r(x, n, b, h)]
        /\ row' = row /\ observed' = observed
        /\ ~Storing(a)
    <3>1. agent[a].pc \in {"archiving", "deleting", "unlinked"}
      BY <1>5 DEF Checkpoint, Intend, Acknowledge, Cleaned
    <3>2. ~Storing(a)
      BY <3>1 DEF Storing, Undispatch, Finish, Resolve
    <3>3. ckpt' = ckpt \/ \E x \in {"cleaning", "cleaned"} : \E n, b, h : Persist(a, x, n, b, h)
      BY <1>5, Zenon DEF Cleaned, Checkpoint, Acknowledge, Intend
    <3>4. row' = row /\ observed' = observed
      BY <1>5 DEF Cleaned, Checkpoint, Acknowledge, Intend
    <3> QED BY <3>2, <3>3, <3>4, Zenon DEF Persist
  <2> HIDE DEF r
  <2>3. /\ o # agent[a].op => ckpt'[o] = ckpt[o]
        /\ ckpt[o].phase # "none" => ckpt'[o].phase # "none"
    BY <1>1, <2>1, <2>2
  <2>4. ~Undispatch(a)
    BY <2>2 DEF Storing
  <2> QED BY <2>2, <2>3, <2>4
<1>6. CASE Storing(a)
  <2>1. agent[a].op \in Ops
    BY <1>6, AtStep DEF Storing, Undispatch, Finish, Resolve
  <2>2. UNCHANGED <<observed, ckpt>>
    BY <1>6 DEF Storing, Undispatch, Finish, Resolve, proofVars
  <2>3. /\ o # agent[a].op => row'[o] = row[o]
        /\ row'[o].baseline = row[o].baseline
        /\ ~Undispatch(a) => row'[o].writer = row[o].writer
    BY <1>1, <1>6, <2>1, StoreRows DEF Storing
  <2> QED BY <1>6, <2>2, <2>3
<1>7. CASE ResolveRefused(a) \/ Crash(a)
  BY <1>7 DEF ResolveRefused, Crash, proofVars
<1> QED BY <1>2, <1>3, <1>4, <1>5, <1>6, <1>7 DEF Working, Step, Storing, Arming

LEMMA AttendedInit == Init => Attended
<1> SUFFICES ASSUME Init PROVE Attended
  OBVIOUS
<1>1. Typed
  BY TypedInit
<1>2. \A a \in Agents : agent[a].pc = "idle" /\ agent[a].mode = "none"
  BY SMT DEF Init
<1>3. \A o \in Ops : row[o].status = "planned" /\ row[o].resolution = FALSE
  BY SMT DEF Init
<1> QED BY <1>1, <1>2, <1>3 DEF Attended, ModeAt, AttendedBy, OpenRow, Writer, Resolver,
                                Live, EarlyPCs, ArmPCs

\* Other processes and rows are as they were; one process has moved.
LEMMA AttendedWorking ==
    ASSUME Attended, NEW a \in Agents, Working(a)
    PROVE  Attended'
<1>1. Typed'
  BY TypedNext DEF Attended, Working, Next
<1>2. /\ Live(a) /\ agent'[a].pc # "idle" /\ agent'[a].op = agent[a].op
      /\ \A b \in Agents \ {a} : agent'[b] = agent[b]
      /\ agent[a].mode = "resolve" <=> agent'[a].mode = "resolve"
  BY Others DEF Attended, Live
<1>3. \A b \in Agents : ModeAt(b)'
  BY <1>2, ModeKept DEF Attended, ModeAt
<1>4. agent[a].op \in Ops /\ agent[a].mode \in {"commit", "rollback", "resolve"}
  BY <1>2, AtStep DEF Attended, Live
<1>5. row \in [Ops -> Row] /\ agent \in [Agents -> Process]
  BY DEF Attended, Typed, TypeOK
<1>6. Storing(a) => agent'[a].pc = "exited"
  BY <1>5, SMT DEF Storing, Undispatch, Finish, Resolve, Goto, Process
<1>7. AttendedBy(a)'
  <2>1. CASE Storing(a)
    BY <1>6, <2>1 DEF AttendedBy, Writer, Resolver, Live
  <2>2. CASE ~Storing(a)
    <3>1. \A o \in Ops : row'[o] = row[o]
      BY <2>2, OwnRecords DEF Attended
    <3>2. /\ Writer(a)' => Writer(a)
          /\ Resolver(a)' => Resolver(a)
      BY <1>2, <1>4 DEF Writer, Resolver, Live
    <3>3. AttendedBy(a)
      BY DEF Attended
    <3> QED BY <1>2, <1>4, <3>1, <3>2, <3>3 DEF AttendedBy, Live
  <2> QED BY <2>1, <2>2
<1>8. ASSUME NEW b \in Agents \ {a} PROVE AttendedBy(b)'
  <2>1. agent'[b] = agent[b] /\ AttendedBy(b)
    BY <1>2 DEF Attended
  <2>2. Live(b) => agent[b].op \in Ops
    BY AtStep DEF Attended, Live
  <2>3. CASE Writer(b)
    <3>1. agent[b].op # agent[a].op
      BY <1>2, <2>3, Alone
    <3>2. row'[agent[b].op] = row[agent[b].op]
      BY <2>2, <2>3, <3>1, OwnRecords DEF Attended, Writer
    <3> QED BY <2>1, <2>3, <3>2 DEF AttendedBy, Writer, Resolver
  <2>4. CASE Resolver(b)
    <3> DEFINE w == row[agent[b].op].writer
    <3>1. w \in Agents /\ agent[w].pc = "exited" /\ w # a
      BY <1>2, <2>1, <2>4 DEF AttendedBy, Live
    <3>2. agent'[w].pc = "exited"
      BY <1>2, <3>1
    <3>3. CASE agent[a].op # agent[b].op \/ ~Storing(a)
      <4>1. row'[agent[b].op] = row[agent[b].op]
        BY <2>2, <2>4, <3>3, OwnRecords DEF Attended, Resolver
      <4> QED BY <2>1, <2>4, <3>1, <3>2, <4>1 DEF AttendedBy, Writer, Resolver
    <3>4. CASE agent[a].op = agent[b].op /\ Storing(a)
      <4>1. agent[a].mode = "resolve"
        BY <1>2, <1>4, <2>4, <3>4, Alone DEF Writer, Resolver
      <4>2. Resolve(a)
        BY <3>4, <4>1 DEF Storing, Undispatch, Finish, Attended, ModeAt
      <4>3. /\ row'[agent[b].op].status \in {row[agent[b].op].status, "unknown"}
            /\ row'[agent[b].op].writer = w
        BY <1>4, <1>5, <3>4, <4>2, SMT DEF Resolve, Row
      <4> QED BY <2>1, <2>4, <3>1, <3>2, <4>3 DEF AttendedBy, Writer, Resolver
    <3> QED BY <3>3, <3>4
  <2> QED BY <2>1, <2>3, <2>4 DEF AttendedBy, Writer, Resolver, Live
<1>9. ASSUME NEW o \in Ops PROVE OpenRow(o)'
  <2>1. CASE row'[o] = row[o]
    BY <2>1 DEF Attended, OpenRow
  <2>2. CASE row'[o] # row[o]
    <3>1. o = agent[a].op /\ Storing(a)
      BY <2>2, OwnRecords DEF Attended
    <3>2. CASE Undispatch(a)
      <4>1. Writer(a)
        BY <1>2, <3>2 DEF Undispatch, Writer
      <4>2. ~row[o].resolution
        BY <3>1, <4>1 DEF Attended, AttendedBy, OpenRow
      <4>3. row'[o].resolution = row[o].resolution
        BY <1>5, <3>1, <3>2, SMT DEF Undispatch, Row
      <4> QED BY <4>2, <4>3 DEF OpenRow
    <3>3. CASE Finish(a) \/ Resolve(a)
      <4>1. row'[o].status \in {"unknown", "finished"}
        BY <1>4, <1>5, <2>2, <3>1, <3>3, StoreRows
      <4> QED BY <4>1 DEF OpenRow
    <3> QED BY <3>1, <3>2, <3>3 DEF Storing
  <2> QED BY <2>1, <2>2
<1> QED BY <1>1, <1>3, <1>7, <1>8, <1>9 DEF Attended

LEMMA AttendedRest ==
    ASSUME Attended,
           \/ \E a \in Agents, o \in Ops : Confirm(a, o) \/ ResolveBegin(a, o)
           \/ \E o \in Ops : Prune(o)
           \/ \E d \in Docs, e \in Edits : Edit(d, e)
    PROVE  Attended'
<1>1. Typed'
  BY TypedNext DEF Attended, Next
<1>2. row \in [Ops -> Row] /\ agent \in [Agents -> Process]
  BY DEF Attended, Typed, TypeOK
<1>3. \A b \in Agents : Live(b) => agent[b].op \in Ops
  BY AtStep DEF Attended, Live
<1>4. ASSUME NEW a \in Agents, NEW o \in Ops, Confirm(a, o) PROVE Attended'
  <2>0. /\ row' = [row EXCEPT ![o] = [@ EXCEPT !.status = "dispatched",
                                               !.writer = a,
                                               !.baseline = Current(o)]]
        /\ agent' = [agent EXCEPT ![a] = [@ EXCEPT !.pc = "confirmed",
                                                   !.op = o, !.mode = "commit"]]
        /\ agent[a].pc = "idle" /\ row[o].status = "planned"
    BY <1>4 DEF Confirm
  <2>1. /\ agent'[a].pc = "confirmed" /\ agent'[a].op = o /\ agent'[a].mode = "commit"
        /\ \A b \in Agents \ {a} : agent'[b] = agent[b]
        /\ agent[a].pc = "idle" /\ row[o].status = "planned"
    BY <1>2, <2>0, SMT DEF Process
  <2>2. /\ row'[o].status = "dispatched" /\ row'[o].writer = a
        /\ row'[o].resolution = row[o].resolution
        /\ \A x \in Ops \ {o} : row'[x] = row[x]
    BY <1>2, <2>0, SMT DEF Row
  <2>3. \A b \in Agents : ModeAt(b)'
    BY <2>1 DEF Attended, ModeAt, EarlyPCs, ArmPCs
  <2>4. AttendedBy(a)'
    BY <2>1, <2>2 DEF AttendedBy, Resolver
  <2>5. ASSUME NEW b \in Agents \ {a} PROVE AttendedBy(b)'
    <3>1. agent'[b] = agent[b] /\ AttendedBy(b)
      BY <2>1 DEF Attended
    <3>2. Writer(b) \/ Resolver(b) => agent[b].op # o /\ agent[b].op \in Ops
      BY <1>3, <2>1, <3>1 DEF AttendedBy, Writer, Resolver
    <3>3. Resolver(b) => row[agent[b].op].writer # a
      BY <2>1, <3>1 DEF AttendedBy
    <3> QED BY <2>1, <2>2, <3>1, <3>2, <3>3 DEF AttendedBy, Writer, Resolver, Live
  <2>6. \A x \in Ops : OpenRow(x)'
    BY <2>1, <2>2 DEF Attended, OpenRow
  <2> QED BY <1>1, <2>3, <2>4, <2>5, <2>6 DEF Attended
<1>5. ASSUME NEW a \in Agents, NEW o \in Ops, ResolveBegin(a, o) PROVE Attended'
  <2>0. agent' = [agent EXCEPT ![a] = [@ EXCEPT !.pc = "closing", !.op = o,
                                                !.mode = "resolve",
                                                !.seen = Current(o)]]
    BY <1>5 DEF ResolveBegin
  <2>1. /\ agent'[a].pc = "closing" /\ agent'[a].op = o /\ agent'[a].mode = "resolve"
        /\ \A b \in Agents \ {a} : agent'[b] = agent[b]
    BY <1>2, <2>0, SMT DEF Process
  <2>2. /\ agent[a].pc = "idle" /\ row[o].status \in {"dispatched", "unknown"}
        /\ row[o].writer \in Agents /\ agent[row[o].writer].pc = "exited"
        /\ row' = row
    <3>1. row[o].writer \in Agents \union {None}
      BY <1>2, SMT DEF Row
    <3>2. row' = row
      BY <1>5 DEF ResolveBegin
    <3> QED BY <1>5, <3>1, <3>2 DEF ResolveBegin, Unresolved, Alive
  <2>3. \A b \in Agents : ModeAt(b)'
    BY <2>1 DEF Attended, ModeAt, EarlyPCs, ArmPCs
  <2>4. AttendedBy(a)'
    BY <2>1, <2>2 DEF AttendedBy, Writer
  <2>5. ASSUME NEW b \in Agents \ {a} PROVE AttendedBy(b)'
    <3>1. agent'[b] = agent[b] /\ AttendedBy(b)
      BY <2>1 DEF Attended
    <3>2. Resolver(b) => row[agent[b].op].writer # a
      BY <2>2, <3>1 DEF AttendedBy
    <3> QED BY <2>1, <2>2, <3>1, <3>2 DEF AttendedBy, Writer, Resolver, Live
  <2>6. \A x \in Ops : OpenRow(x)'
    BY <2>2 DEF Attended, OpenRow
  <2> QED BY <1>1, <2>3, <2>4, <2>5, <2>6 DEF Attended
<1>6. ASSUME NEW o \in Ops, Prune(o) PROVE Attended'
  <2>1. /\ row'[o].status = "pruned" /\ row'[o].writer = row[o].writer
        /\ \A x \in Ops \ {o} : row'[x] = row[x]
        /\ agent' = agent
    BY <1>2, <1>6, SMT DEF Prune, Row
  <2>2. ASSUME NEW b \in Agents PROVE AttendedBy(b)'
    <3>1. AttendedBy(b)
      BY DEF Attended
    <3>2. Writer(b) => agent[b].op # o
      BY <1>6, <3>1 DEF Prune, AttendedBy, Attended, OpenRow
    <3> QED BY <1>3, <2>1, <3>1, <3>2 DEF AttendedBy, Writer, Resolver, Live
  <2>3. \A x \in Ops : OpenRow(x)'
    BY <2>1 DEF Attended, OpenRow
  <2>4. \A b \in Agents : ModeAt(b)'
    BY <2>1 DEF Attended, ModeAt
  <2> QED BY <1>1, <2>2, <2>3, <2>4 DEF Attended
<1>7. ASSUME NEW d \in Docs, NEW e \in Edits, Edit(d, e) PROVE Attended'
  BY <1>1, <1>7 DEF Edit, Attended, ModeAt, AttendedBy, OpenRow, Writer, Resolver, Live
<1> QED BY <1>4, <1>5, <1>6, <1>7

LEMMA AttendedNext == Attended /\ [Next]_vars => Attended'
<1>1. ASSUME Attended, UNCHANGED vars PROVE Attended'
  <2>1. Typed'
    BY <1>1, TypedNext DEF Attended
  <2> QED BY <1>1, <2>1 DEF vars, Attended, ModeAt, AttendedBy, OpenRow, Writer,
                            Resolver, Live
<1>2. ASSUME Attended, Next PROVE Attended'
  BY <1>2, AttendedWorking, AttendedRest DEF Next, Working
<1> QED BY <1>1, <1>2

-----------------------------------------------------------------------------
(* What a process and a decision are about.                                 *)

DecidedPCs == {"deleting", "unlinking", "unlinked", "completed", "restored",
               "resolved"}
UndecidedPCs == EarlyPCs \union {"refused", "saving", "failing", "restoring",
                                 "closing", "archiving"}

DecidedOn(a, bytes) ==
    agent[a].pc \in DecidedPCs \union {"archiving"} =>
        observed[agent[a].op] = bytes

\* What a rollback has read is its own bytes or the ones it restores.
ReadOwn(a) ==
    LET o == agent[a].op IN
    /\ DOMAIN agent[a].seen = Files(o)
    /\ \A d \in Files(o) : agent[a].seen[d] \in {Baseline(o)[d], o}

WholeAt(a) ==
    /\ Writer(a) =>
        /\ agent[a].pc \in UndecidedPCs => ckpt[agent[a].op].phase = "none"
        /\ agent[a].mode = "commit" => DecidedOn(a, Intended(agent[a].op))
        /\ agent[a].mode = "rollback" => DecidedOn(a, Baseline(agent[a].op))
        /\ agent[a].pc = "restoring" => ReadOwn(a)
    /\ Live(a) /\ agent[a].pc \in DecidedPCs => ckpt[agent[a].op].phase # "none"

WholeOf(o) ==
    /\ row[o].status = "planned" => ckpt[o].phase = "none"
    /\ ckpt[o].phase # "none" => Archived(o)
    /\ row[o].status = "finished" => observed[o] \in {Intended(o), Baseline(o)}

WholeInv ==
    /\ Attended
    /\ \A a \in Agents : WholeAt(a)
    /\ \A o \in Ops : WholeOf(o)

\* What a process changes besides its own records: arm, the undo of arm and the
\* cleanup change sidecars, a save and a restore change documents.
LEMMA Changes ==
    ASSUME NEW a \in Agents, Working(a), Typed
    PROVE  /\ doc' = doc \/ Save(a) \/ Restore(a)
           /\ archive' = archive \/ PublishArchive(a)
           /\ UNCHANGED sidecarVars \/ Arming(a) \/ Unlink(a)
           /\ \/ ckpt' = ckpt \/ Checkpoint(a) \/ Intend(a) \/ Acknowledge(a)
              \/ Cleaned(a)
           /\ observed' = observed \/ CleanupBegin(a)
<1>1. Arming(a) => UNCHANGED <<doc, archive, observed, ckpt>>
  BY ArmMovesTo DEF Typed, TypeOK
<1> QED BY <1>1
        DEF Working, Step, Arming, GuardCheckpoints, GuardLocks, Save, Verify, SaveFails,
            Rollback, Restore, Restored, RestoreFails, CleanupBegin, PublishArchive,
            Checkpoint, Intend, Unlink, Acknowledge, Cleaned, CleanupFails, Undispatch,
            Finish, Resolve, ResolveRefused, Crash, sidecarVars, proofVars

\* A process changes only documents of its own set.
LEMMA OwnWrites ==
    ASSUME Attended, NEW a \in Agents, Working(a), NEW d \in Docs, doc'[d] # doc[d]
    PROVE  /\ d \in Files(agent[a].op) /\ Writer(a) /\ HoldsSet(a)
           /\ \/ Save(a) /\ doc[d] = Baseline(agent[a].op)[d] /\ doc'[d] = agent[a].op
              \/ Restore(a) /\ doc'[d] = Baseline(agent[a].op)[d]
<1>1. Save(a) \/ Restore(a)
  BY Changes DEF Attended
<1>2. Typed /\ agent[a].op \in Ops
  BY Others, AtStep DEF Attended
<1>3. Writer(a) /\ HoldsSet(a)
  BY <1>1 DEF Attended, ModeAt, EarlyPCs, Save, Restore, Writer, Live, HoldsSet
<1>4. agent[a].i \in DOMAIN FilesOf[agent[a].op]
  <2>1. agent[a].i \in Nat /\ agent[a].i > 0 /\ agent[a].i <= Len(FilesOf[agent[a].op])
    BY <1>1, <1>2, AtStep DEF Save, Restore, Typed, Busy, BusyAt
  <2> QED BY <1>2, <2>1, ConstantFacts, SMT
<1>5. /\ d = FilesOf[agent[a].op][agent[a].i]
      /\ \/ Save(a) /\ doc[d] = Baseline(agent[a].op)[d] /\ doc'[d] = agent[a].op
         \/ Restore(a) /\ doc'[d] = Baseline(agent[a].op)[d]
  BY <1>1, <1>2 DEF Save, Restore, Typed, TypeOK
<1> QED BY <1>3, <1>4, <1>5 DEF Files

LEMMA WholeInit == Init => WholeInv
<1> SUFFICES ASSUME Init PROVE WholeInv
  OBVIOUS
<1>1. \A a \in Agents : agent[a].pc = "idle"
  BY SMT DEF Init
<1>2. \A o \in Ops : row[o].status = "planned" /\ ckpt[o].phase = "none"
  BY SMT DEF Init
<1> QED BY <1>1, <1>2, AttendedInit DEF WholeInv, WholeAt, WholeOf, Writer, Live

\* The other processes.
LEMMA WholeOthers ==
    ASSUME WholeInv, NEW a \in Agents, Working(a), NEW b \in Agents \ {a}
    PROVE  WholeAt(b)'
<1>1. /\ agent'[b] = agent[b] /\ Live(a) /\ agent[a].op \in Ops
      /\ Typed /\ WholeAt(b)
  BY Others, AtStep DEF WholeInv, Attended, Live
<1>2. CASE Writer(b)
  <2> SUFFICES ASSUME NEW o \in Ops, o = agent[b].op, o # agent[a].op
               PROVE  WholeAt(b)'
    BY <1>1, <1>2, Alone, AtStep DEF WholeInv, Attended, Writer, Live
  <2>1. /\ ckpt'[o] = ckpt[o] /\ observed'[o] = observed[o]
        /\ row'[o].baseline = row[o].baseline
    BY <1>1, OwnRecords
  <2>2. Baseline(o)' = Baseline(o) /\ Intended(o)' = Intended(o)
    BY <2>1 DEF Baseline, Intended
  <2>3. ReadOwn(b)' <=> ReadOwn(b)
    BY <1>1, <2>2 DEF ReadOwn
  <2> QED BY <1>1, <1>2, <2>1, <2>2, <2>3 DEF WholeAt, DecidedOn, Writer, Live
<1>3. CASE Live(b) /\ ~Writer(b)
  <2>1. agent[b].op \in Ops
    BY <1>1, <1>3, AtStep DEF Live
  <2>2. ckpt[agent[b].op].phase # "none" => ckpt'[agent[b].op].phase # "none"
    BY <1>1, <2>1, OwnRecords
  <2> QED BY <1>1, <1>3, <2>2 DEF WholeAt, Writer, Live
<1>4. CASE ~Live(b)
  BY <1>1, <1>4 DEF WholeAt, Writer, Live
<1> QED BY <1>2, <1>3, <1>4

\* The process itself, before its cleanup.
LEMMA WholeWriting ==
    ASSUME WholeInv, NEW a \in Agents,
           \/ GuardCheckpoints(a) \/ GuardLocks(a) \/ Arming(a)
           \/ Save(a) \/ Verify(a) \/ SaveFails(a) \/ Rollback(a)
           \/ Restore(a) \/ Restored(a) \/ RestoreFails(a)
    PROVE  WholeAt(a)'
<1> SUFFICES ASSUME NEW o \in Ops, o = agent[a].op
             PROVE  WholeAt(a)'
  BY Others, AtStep DEF WholeInv, Attended, Working, Step, Arming
<1>1. /\ agent'[a].op = o /\ agent \in [Agents -> Process]
      /\ Writer(a) /\ WholeAt(a) /\ agent[a].pc \in UndecidedPCs
      /\ Typed /\ Working(a)
  <2>1. agent[a].pc \in UndecidedPCs \ {"closing", "archiving", "refused"}
    <3>1. Arming(a) => agent[a].pc \in {"unlocked"} \union ArmPCs
      BY ArmMovesTo DEF WholeInv, Attended, Typed, TypeOK
    <3> QED BY <3>1 DEF GuardCheckpoints, GuardLocks, Save, Verify, SaveFails, Rollback,
                        Restore, Restored, RestoreFails, UndecidedPCs, EarlyPCs, ArmPCs
  <2>2. Writer(a)
    BY <2>1 DEF WholeInv, Attended, ModeAt, Writer, Live, UndecidedPCs, EarlyPCs, ArmPCs
  <2> QED BY <2>1, <2>2, Others
          DEF WholeInv, Attended, Typed, TypeOK, Working, Step, Arming
<1>2. ckpt[o].phase = "none"
  BY <1>1 DEF WholeAt
<1>3. ckpt' = ckpt /\ row' = row
  <2>1. Arming(a) => UNCHANGED <<ckpt, row>>
    BY <1>1, ArmMovesTo
  <2> QED BY <2>1 DEF GuardCheckpoints, GuardLocks, Save, Verify, SaveFails, Rollback,
                      Restore, Restored, RestoreFails, proofVars
<1>4. ASSUME agent'[a].pc \in UndecidedPCs \union {"uncertain"},
             agent'[a].pc # "archiving", agent'[a].pc = "restoring" => ReadOwn(a)'
      PROVE  WholeAt(a)'
  BY <1>1, <1>2, <1>3, <1>4
  DEF WholeAt, DecidedOn, DecidedPCs, UndecidedPCs, EarlyPCs, ArmPCs
<1>5. ASSUME NEW x \in UndecidedPCs \union {"uncertain"}, x # "archiving",
             x # "restoring", agent'[a].pc = x
      PROVE  WholeAt(a)'
  BY <1>4, <1>5
<1>6. ASSUME Raise(a) PROVE WholeAt(a)'
  BY <1>1, <1>5, <1>6, RaiseMoves DEF Moved, UndecidedPCs
<1>7. ASSUME NEW x, NEW i, Goto(a, x) \/ GotoAt(a, x, i) PROVE agent'[a].pc = x
  BY <1>1, <1>7, Moves DEF Moved
<1>8. CASE GuardCheckpoints(a) \/ GuardLocks(a) \/ Verify(a) \/ SaveFails(a) \/ Save(a)
  <2>1. agent'[a].pc \in {"guarded", "unlocked", "refused", "closing", "failing", "saving"}
    BY <1>7, <1>8 DEF GuardCheckpoints, GuardLocks, Verify, SaveFails, Save
  <2> QED BY <1>5, <2>1 DEF UndecidedPCs, EarlyPCs
<1>9. CASE Arming(a)
  <2>1. agent'[a].pc \in ArmPCs \union {"refused", "saving"}
    BY <1>1, <1>9, ArmMovesTo DEF Moved
  <2> QED BY <1>5, <2>1 DEF UndecidedPCs, EarlyPCs, ArmPCs
<1>10. CASE Rollback(a)
  <2>1. CASE Raise(a)
    BY <1>6, <2>1
  <2>2. CASE ~Raise(a)
    <3>1. /\ \A d \in Files(o) : doc[d] \in {Baseline(o)[d], o}
          /\ agent'[a].pc = "restoring" /\ agent'[a].seen = Current(o)
      BY <1>1, <1>10, <2>2, RollbackMoves DEF Moved
    <3>2. ReadOwn(a)'
      BY <1>1, <1>3, <3>1 DEF ReadOwn, Current, Baseline, Files
    <3> QED BY <1>4, <3>1, <3>2 DEF UndecidedPCs
  <2> QED BY <2>1, <2>2
<1>11. CASE Restore(a)
  <2>1. /\ agent'[a].pc = "restoring" /\ agent'[a].seen = agent[a].seen
        /\ agent[a].pc = "restoring"
    BY <1>1, <1>11, Moves DEF Restore, Moved, KeepsRest
  <2>2. ReadOwn(a)
    BY <1>1, <2>1 DEF WholeAt
  <2>3. ReadOwn(a)'
    BY <1>1, <1>3, <2>1, <2>2 DEF ReadOwn, Baseline, Files
  <2> QED BY <1>4, <2>1, <2>3 DEF UndecidedPCs
<1>12. CASE Restored(a) \/ RestoreFails(a)
  <2>1. Raise(a) \/ Goto(a, "closing")
    BY <1>12 DEF Restored, RestoreFails
  <2> QED BY <1>5, <1>6, <1>7, <2>1 DEF UndecidedPCs
<1> QED BY <1>8, <1>9, <1>10, <1>11, <1>12

\* The process itself, in its cleanup.
LEMMA WholeCleanup ==
    ASSUME WholeInv, NEW a \in Agents,
           \/ CleanupBegin(a) \/ PublishArchive(a) \/ Checkpoint(a) \/ Intend(a)
           \/ Unlink(a) \/ Acknowledge(a) \/ Cleaned(a) \/ CleanupFails(a)
    PROVE  WholeAt(a)'
<1> SUFFICES ASSUME NEW o \in Ops, o = agent[a].op
             PROVE  WholeAt(a)'
  BY Others, AtStep DEF WholeInv, Attended, Working, Step
<1>1. /\ agent'[a].op = o /\ agent \in [Agents -> Process] /\ WholeAt(a) /\ Live(a)
      /\ agent[a].mode \in {"commit", "rollback", "resolve"}
      /\ observed \in [Ops -> Readings] /\ ckpt \in [Ops -> Progress]
      /\ Typed /\ Working(a)
  BY Others, AtStep DEF WholeInv, Attended, Typed, TypeOK, Working, Step, Live
<1>2. row' = row
  BY DEF CleanupBegin, PublishArchive, Checkpoint, Intend, Unlink, Acknowledge, Cleaned,
         CleanupFails
<1>3. Baseline(o)' = Baseline(o) /\ Intended(o)' = Intended(o)
  BY <1>2 DEF Baseline, Intended
<1>4. ASSUME Raise(a) PROVE WholeAt(a)'
  <2>1. \/ agent'[a].pc = "uncertain"
        \/ agent'[a].pc = "refused" /\ ~Writer(a)'
    BY <1>1, <1>4, RaiseMoves DEF Moved, Writer
  <2> QED BY <2>1 DEF WholeAt, UndecidedPCs, EarlyPCs, ArmPCs, DecidedOn, DecidedPCs
<1>5. ASSUME agent[a].pc \in DecidedPCs \union {"archiving"}, agent'[a].pc \in DecidedPCs,
             agent'[a].mode = agent[a].mode, observed' = observed,
             ckpt'[o].phase # "none"
      PROVE  WholeAt(a)'
  <2>1. /\ Writer(a) /\ agent[a].mode = "commit" => observed[o] = Intended(o)
        /\ Writer(a) /\ agent[a].mode = "rollback" => observed[o] = Baseline(o)
    BY <1>1, <1>5 DEF WholeAt, DecidedOn
  <2>2. /\ Writer(a)' /\ agent'[a].mode = "commit" =>
              observed'[agent'[a].op] = Intended(agent[a].op)'
        /\ Writer(a)' /\ agent'[a].mode = "rollback" =>
              observed'[agent'[a].op] = Baseline(agent[a].op)'
    BY <1>1, <1>2, <1>5, <2>1 DEF Writer, Intended, Baseline, Files
  <2> QED BY <1>1, <1>5, <2>2
          DEF WholeAt, DecidedOn, DecidedPCs, UndecidedPCs, EarlyPCs, ArmPCs
<1>6. ASSUME NEW phase \in {"cleaning", "cleaned"}, NEW i, NEW b, NEW h,
             Persist(a, phase, i, b, h)
      PROVE  ckpt'[o].phase # "none"
  BY <1>1, <1>6, SMT DEF Persist
<1>7. CASE CleanupBegin(a)
  <2>1. CASE Raise(a)
    BY <1>4, <2>1
  <2>2. CASE /\ Goto(a, "archiving") /\ Decidable(a) /\ ckpt[o].phase = "none"
             /\ observed' = [observed EXCEPT ![o] = Current(o)]
    <3>1. agent'[a].pc = "archiving" /\ agent'[a].mode = agent[a].mode
      BY <1>1, <2>2, Moves DEF Moved
    <3>2. observed'[o] = Current(o) /\ ckpt' = ckpt
      BY <1>1, <1>7, <2>2 DEF CleanupBegin
    <3>3. /\ agent[a].mode = "commit" => observed'[o] = Intended(o)
          /\ agent[a].mode = "rollback" => observed'[o] = Baseline(o)
      BY <2>2, <3>2 DEF Decidable
    <3>4. /\ agent'[a].mode = "commit" =>
                observed'[agent'[a].op] = Intended(agent[a].op)'
          /\ agent'[a].mode = "rollback" =>
                observed'[agent'[a].op] = Baseline(agent[a].op)'
      BY <1>1, <1>2, <3>1, <3>3 DEF Intended, Baseline, Files
    <3> QED BY <1>1, <2>2, <3>1, <3>2, <3>4 DEF WholeAt, DecidedOn, DecidedPCs
  <2>3. CASE ckpt[o].phase # "none" /\ Moved(a, "deleting", agent[a].mode)
    <3>1. agent[a].mode = "resolve"
      BY <1>1, <1>7, <2>3 DEF CleanupBegin, WholeAt, Writer, UndecidedPCs
    <3>2. ckpt' = ckpt
      BY <1>7 DEF CleanupBegin
    <3> QED BY <1>1, <2>3, <3>1, <3>2 DEF WholeAt, Writer, Moved
  <2> QED BY <1>1, <1>7, <2>1, <2>2, <2>3, CleanupMoves
<1>8. CASE PublishArchive(a)
  <2>1. UNCHANGED <<observed, ckpt, row, agent>>
    BY <1>8 DEF PublishArchive
  <2> QED BY <1>1, <2>1 DEF WholeAt, DecidedOn, Writer, Live, Intended, Baseline, Files,
                            ReadOwn
<1>9. CASE Checkpoint(a)
  <2>1. Moved(a, "deleting", agent[a].mode)
    BY <1>1, <1>9, CleanupMoves
  <2>2. ckpt'[o].phase # "none" /\ agent[a].pc = "archiving" /\ observed' = observed
    BY <1>6, <1>9 DEF Checkpoint
  <2> QED BY <1>5, <2>1, <2>2 DEF DecidedPCs, Moved
<1>10. CASE Intend(a)
  <2>1. CASE Raise(a)
    BY <1>4, <2>1
  <2>2. CASE Moved(a, "unlinking", agent[a].mode)
    <3>1. /\ agent[a].pc = "deleting" /\ observed' = observed
          /\ ckpt' = ckpt \/ \E b, h : Persist(a, "cleaning", agent[a].i, b, h)
      BY <1>10, Zenon DEF Intend
    <3>2. ckpt[o].phase # "none"
      BY <1>1, <3>1 DEF WholeAt, DecidedPCs
    <3>3. ckpt'[o].phase # "none"
      BY <1>6, <3>1, <3>2
    <3> QED BY <1>5, <2>2, <3>1, <3>3 DEF DecidedPCs, Moved
  <2> QED BY <1>1, <1>10, <2>1, <2>2, CleanupMoves
<1>11. CASE Unlink(a)
  <2>1. agent'[a].pc = "unlinked" /\ agent'[a].mode = agent[a].mode
    BY <1>1, <1>11, Moves DEF Unlink, Moved
  <2>2. agent[a].pc = "unlinking" /\ observed' = observed /\ ckpt' = ckpt
    BY <1>11 DEF Unlink, proofVars
  <2>3. ckpt'[o].phase # "none"
    BY <1>1, <2>2 DEF WholeAt, DecidedPCs
  <2> QED BY <1>5, <2>1, <2>2, <2>3 DEF DecidedPCs
<1>12. CASE Acknowledge(a)
  <2>1. Moved(a, "deleting", agent[a].mode)
    BY <1>1, <1>12, CleanupMoves
  <2>2. ckpt'[o].phase # "none" /\ agent[a].pc = "unlinked" /\ observed' = observed
    BY <1>6, <1>12 DEF Acknowledge
  <2> QED BY <1>5, <2>1, <2>2 DEF DecidedPCs, Moved
<1>13. CASE Cleaned(a)
  <2>1. /\ agent'[a].pc \in {"completed", "restored", "resolved"}
        /\ agent'[a].mode = agent[a].mode
    BY <1>1, <1>13, Moves DEF Cleaned, Moved
  <2>2. ckpt'[o].phase # "none" /\ agent[a].pc = "deleting" /\ observed' = observed
    BY <1>6, <1>13 DEF Cleaned
  <2> QED BY <1>5, <2>1, <2>2 DEF DecidedPCs
<1>14. CASE CleanupFails(a)
  BY <1>4, <1>14 DEF CleanupFails
<1> QED BY <1>7, <1>8, <1>9, <1>10, <1>11, <1>12, <1>13, <1>14

\* The steps that end a process.
LEMMA Ends ==
    ASSUME Typed, NEW a \in Agents,
           \/ Undispatch(a) \/ Finish(a) \/ Resolve(a) \/ ResolveRefused(a) \/ Crash(a)
    PROVE  agent'[a].pc = "exited"
<1>1. agent \in [Agents -> Process]
  BY DEF Typed, TypeOK
<1> QED BY <1>1, Moves DEF Undispatch, Finish, Resolve, ResolveRefused, Crash, Moved

\* The process itself, in any step of its own.
LEMMA WholeOwn ==
    ASSUME WholeInv, NEW a \in Agents, Working(a)
    PROVE  WholeAt(a)'
<1>1. CASE \/ Undispatch(a) \/ Finish(a) \/ Resolve(a) \/ ResolveRefused(a) \/ Crash(a)
  BY <1>1, Ends DEF WholeAt, Writer, Live, WholeInv, Attended
<1> QED BY <1>1, WholeWriting, WholeCleanup DEF Working, Step, Arming

\* Which store step has led to a status.
LEMMA StoredBy ==
    ASSUME Attended, NEW a \in Agents, Working(a), NEW o \in Ops, o = agent[a].op
    PROVE  /\ row[o].status \notin {"planned", "finished"}
           /\ row'[o].status = "planned" => Undispatch(a)
           /\ row'[o].status = "finished" => Finish(a) /\ agent[a].pc # "uncertain"
<1>1. /\ Live(a) /\ Typed /\ row \in [Ops -> Row]
      /\ agent[a].mode \in {"commit", "rollback", "resolve"}
  BY Others, AtStep DEF Attended, Live, Typed, TypeOK
<1>2. row[o].status \notin {"planned", "finished"}
  BY <1>1 DEF Attended, AttendedBy, Writer, Resolver
<1>3. CASE ~Storing(a)
  BY <1>1, <1>2, <1>3, OwnRecords
<1>4. CASE Storing(a)
  <2>1. /\ Undispatch(a) => row'[o].status = "planned"
        /\ Resolve(a) => row'[o].status \in {row[o].status, "unknown"}
        /\ Finish(a) => row'[o].status = IF agent[a].pc = "uncertain"
                                         THEN "unknown" ELSE "finished"
    BY <1>1, StoreRows
  <2> QED BY <1>2, <1>4, <2>1 DEF Storing
<1> QED BY <1>2, <1>3, <1>4

\* The operations.
LEMMA WholeOfKept ==
    ASSUME WholeInv, NEW a \in Agents, Working(a), NEW o \in Ops
    PROVE  WholeOf(o)'
<1>1. /\ Typed /\ WholeOf(o) /\ WholeAt(a)
      /\ row'[o].baseline = row[o].baseline
      /\ o # agent[a].op => /\ row'[o] = row[o] /\ ckpt'[o] = ckpt[o]
                            /\ observed'[o] = observed[o]
  BY OwnRecords DEF WholeInv, Attended
<1>2. Baseline(o)' = Baseline(o) /\ Intended(o)' = Intended(o)
  BY <1>1 DEF Baseline, Intended
<1>3. Archived(o) => Archived(o)'
  <2>1. archive \subseteq archive'
    BY <1>1, Changes DEF PublishArchive
  <2> QED BY <1>2, <2>1 DEF Archived
<1>4. CASE o # agent[a].op
  BY <1>1, <1>2, <1>3, <1>4 DEF WholeOf
<1>5. CASE o = agent[a].op
  <2>1. ASSUME row'[o].status = "planned" PROVE ckpt'[o].phase = "none"
    <3>1. Undispatch(a)
      BY <1>5, <2>1, StoredBy DEF WholeInv
    <3>2. ckpt[o].phase = "none"
      BY <1>1, <1>5, <3>1 DEF Undispatch, WholeAt, Writer, Live, UndecidedPCs
    <3> QED BY <3>1, <3>2 DEF Undispatch, proofVars
  <2>2. ASSUME ckpt'[o].phase # "none" PROVE Archived(o)'
    <3>1. CASE ckpt[o].phase # "none"
      BY <1>1, <1>3, <3>1 DEF WholeOf
    <3>2. CASE ckpt[o].phase = "none"
      <4>1. agent[a].pc \notin DecidedPCs
        BY <1>1, <1>5, <3>2 DEF WholeAt, Live, DecidedPCs
      <4>2. Checkpoint(a)
        BY <1>1, <2>2, <3>2, <4>1, Changes DEF Intend, Acknowledge, Cleaned, DecidedPCs
      <4> QED BY <1>3, <1>5, <4>2 DEF Checkpoint
    <3> QED BY <3>1, <3>2
  <2>3. ASSUME row'[o].status = "finished"
        PROVE  observed'[o] \in {Intended(o)', Baseline(o)'}
    <3>1. Finish(a) /\ agent[a].pc # "uncertain"
      BY <1>5, <2>3, StoredBy DEF WholeInv
    <3>2. observed[o] \in {Intended(o), Baseline(o)}
      BY <1>1, <1>5, <3>1
      DEF Finish, WholeInv, Attended, WholeAt, DecidedOn, DecidedPCs, ModeAt, Writer, Live
    <3> QED BY <1>2, <3>1, <3>2 DEF Finish, proofVars
  <2> QED BY <2>1, <2>2, <2>3 DEF WholeOf
<1> QED BY <1>4, <1>5

\* A step that starts a process, deletes a row or edits a document.
LEMMA WholeRest ==
    ASSUME WholeInv,
           \/ \E a \in Agents, o \in Ops : Confirm(a, o) \/ ResolveBegin(a, o)
           \/ \E o \in Ops : Prune(o)
           \/ \E d \in Docs, e \in Edits : Edit(d, e)
    PROVE  WholeInv'
<1>1. Attended' /\ Attended /\ Typed
  BY AttendedRest DEF WholeInv, Attended
<1>2. row \in [Ops -> Row] /\ agent \in [Agents -> Process]
  BY <1>1 DEF Typed, TypeOK
<1>3. UNCHANGED <<archive, observed, ckpt>>
  BY DEF Confirm, ResolveBegin, Prune, Edit, proofVars
<1>4. ASSUME NEW b \in Agents, agent'[b] = agent[b],
             Writer(b) => row'[agent[b].op].baseline = row[agent[b].op].baseline
      PROVE  WholeAt(b)'
  <2>1. WholeAt(b)
    BY DEF WholeInv
  <2> QED BY <1>3, <1>4, <2>1 DEF WholeAt, Writer, Live, DecidedOn, Intended, Baseline,
                                  ReadOwn, Files
<1>5. ASSUME NEW o \in Ops, row'[o].baseline = row[o].baseline,
             row'[o].status \in {row[o].status, "pruned"}
      PROVE  WholeOf(o)'
  <2>1. WholeOf(o)
    BY DEF WholeInv
  <2> QED BY <1>3, <1>5, <2>1 DEF WholeOf, Archived, Intended, Baseline, Files
<1>6. ASSUME NEW a \in Agents, NEW o \in Ops, Confirm(a, o) PROVE WholeInv'
  <2>0. /\ row' = [row EXCEPT ![o] = [@ EXCEPT !.status = "dispatched",
                                               !.writer = a,
                                               !.baseline = Current(o)]]
        /\ agent' = [agent EXCEPT ![a] = [@ EXCEPT !.pc = "confirmed",
                                                   !.op = o, !.mode = "commit"]]
        /\ agent[a].pc = "idle" /\ row[o].status = "planned"
    BY <1>6 DEF Confirm
  <2>1. /\ agent'[a].pc = "confirmed" /\ agent'[a].op = o
        /\ \A b \in Agents \ {a} : agent'[b] = agent[b]
    BY <1>2, <2>0, SMT DEF Process
  <2>2. /\ row'[o].status = "dispatched"
        /\ \A x \in Ops \ {o} : row'[x] = row[x]
    BY <1>2, <2>0, SMT DEF Row
  <2>3. ckpt'[o].phase = "none"
    BY <1>3, <2>0 DEF WholeInv, WholeOf
  <2>4. WholeAt(a)'
    BY <2>1, <2>3 DEF WholeAt, DecidedOn, DecidedPCs
  <2>5. ASSUME NEW b \in Agents \ {a} PROVE WholeAt(b)'
    <3>1. Writer(b) => agent[b].op # o /\ agent[b].op \in Ops
      BY <1>1, <2>0, AtStep DEF Attended, AttendedBy, Writer, Live
    <3> QED BY <1>4, <2>1, <2>2, <3>1
  <2>6. WholeOf(o)'
    BY <2>2, <2>3 DEF WholeOf
  <2>7. \A x \in Ops \ {o} : WholeOf(x)'
    BY <1>5, <2>2
  <2> QED BY <1>1, <2>4, <2>5, <2>6, <2>7 DEF WholeInv
<1>7. ASSUME NEW a \in Agents, NEW o \in Ops, ResolveBegin(a, o) PROVE WholeInv'
  <2>0. agent' = [agent EXCEPT ![a] = [@ EXCEPT !.pc = "closing", !.op = o,
                                                !.mode = "resolve",
                                                !.seen = Current(o)]]
        /\ row' = row
    BY <1>7 DEF ResolveBegin
  <2>1. /\ agent'[a].pc = "closing" /\ agent'[a].mode = "resolve"
        /\ \A b \in Agents \ {a} : agent'[b] = agent[b]
    BY <1>2, <2>0, SMT DEF Process
  <2>2. WholeAt(a)'
    BY <2>1 DEF WholeAt, Writer, DecidedPCs
  <2>3. \A b \in Agents \ {a} : WholeAt(b)'
    BY <1>4, <2>0, <2>1
  <2>4. \A x \in Ops : WholeOf(x)'
    BY <1>5, <2>0
  <2> QED BY <1>1, <2>2, <2>3, <2>4 DEF WholeInv
<1>8. ASSUME NEW o \in Ops, Prune(o) PROVE WholeInv'
  <2>1. /\ row'[o].status = "pruned" /\ row'[o].baseline = row[o].baseline
        /\ \A x \in Ops \ {o} : row'[x] = row[x]
        /\ agent' = agent
    BY <1>2, <1>8, SMT DEF Prune, Row
  <2>2. ASSUME NEW b \in Agents PROVE WholeAt(b)'
    <3>1. Writer(b) => agent[b].op \in Ops
      BY <1>1, AtStep DEF Writer, Live
    <3> QED BY <1>4, <2>1, <3>1
  <2>3. \A x \in Ops : WholeOf(x)'
    BY <1>5, <2>1
  <2> QED BY <1>1, <2>2, <2>3 DEF WholeInv
<1>9. ASSUME NEW d \in Docs, NEW e \in Edits, Edit(d, e) PROVE WholeInv'
  <2>1. row' = row /\ agent' = agent
    BY <1>9 DEF Edit
  <2>2. \A b \in Agents : WholeAt(b)'
    BY <1>4, <2>1
  <2>3. \A x \in Ops : WholeOf(x)'
    BY <1>5, <2>1
  <2> QED BY <1>1, <2>2, <2>3 DEF WholeInv
<1> QED BY <1>6, <1>7, <1>8, <1>9

LEMMA WholeNext == WholeInv /\ [Next]_vars => WholeInv'
<1>1. ASSUME WholeInv, UNCHANGED vars PROVE WholeInv'
  <2>1. Attended'
    BY <1>1, AttendedNext DEF WholeInv
  <2>2. UNCHANGED <<archive, observed, ckpt, row, agent>>
    BY <1>1 DEF vars, proofVars
  <2>3. ASSUME NEW b \in Agents PROVE WholeAt(b)'
    <3>1. WholeAt(b)
      BY <1>1 DEF WholeInv
    <3> QED BY <2>2, <3>1 DEF WholeAt, Writer, Live, DecidedOn, Intended, Baseline,
                              ReadOwn, Files
  <2>4. \A o \in Ops : WholeOf(o)'
    BY <1>1, <2>2 DEF WholeInv, WholeOf, Archived, Intended, Baseline, Files
  <2> QED BY <2>1, <2>3, <2>4 DEF WholeInv
<1>2. ASSUME WholeInv, Next PROVE WholeInv'
  <2>1. CASE \E a \in Agents : Working(a)
    BY <1>2, <2>1, AttendedWorking, WholeOwn, WholeOthers, WholeOfKept DEF WholeInv
  <2> QED BY <1>2, <2>1, WholeRest DEF Next, Working
<1> QED BY <1>1, <1>2

LEMMA WholeAlways == Spec => []WholeInv
  BY WholeInit, WholeNext, PTL DEF Spec

\* An operation recorded as finished was decided on the whole set saved or the
\* whole set restored.
THEOREM SetsWhole == Spec => []NoTornSet
<1>1. ASSUME WholeInv PROVE NoTornSet
  BY <1>1 DEF WholeInv, WholeOf, NoTornSet
<1> QED BY <1>1, WholeAlways, PTL

\* A save goes only over the bytes its operation was planned on.  A restore goes
\* over an edit only when that came after the rollback had read the document,
\* for what it has read are its own bytes or the ones it puts back.
THEOREM EditsKept == Spec => EditsSurvive
<1> DEFINE Survives(d) ==
        \/ \E o \in Ops : /\ d \in DOMAIN Baseline(o)
                          /\ Baseline(o)[d] = doc[d] /\ doc'[d] = o
        \/ \E a \in Agents : /\ agent[a].pc = "restoring"
                             /\ d \in DOMAIN agent[a].seen
                             /\ agent[a].seen[d] # doc[d]
<1>1. ASSUME WholeInv, [Next]_vars, NEW d \in Docs,
             doc[d] \in Edits, doc'[d] # doc[d], agent' # agent
      PROVE  Survives(d)
  <2>1. PICK a \in Agents : Working(a)
    BY <1>1 DEF Next, vars, Confirm, ResolveBegin, Prune, Edit, Working
  <2> SUFFICES ASSUME NEW o \in Ops, o = agent[a].op
               PROVE  Survives(d)
    BY <1>1, <2>1, Others, AtStep DEF WholeInv, Attended
  <2>2. /\ d \in Files(o) /\ Writer(a)
        /\ \/ Save(a) /\ doc[d] = Baseline(o)[d] /\ doc'[d] = o
           \/ Restore(a) /\ doc'[d] = Baseline(o)[d]
    BY <1>1, <2>1, OwnWrites DEF WholeInv
  <2>3. DOMAIN Baseline(o) = Files(o)
    BY <1>1, <2>2, AtStep DEF WholeInv, Attended, Writer, Live
  <2>4. CASE Save(a) /\ doc[d] = Baseline(o)[d] /\ doc'[d] = o
    BY <2>2, <2>3, <2>4
  <2>5. CASE Restore(a) /\ doc'[d] = Baseline(o)[d]
    <3>1. agent[a].pc = "restoring" /\ ReadOwn(a)
      BY <1>1, <2>2, <2>5 DEF Restore, WholeInv, WholeAt
    <3>2. d \in DOMAIN agent[a].seen /\ agent[a].seen[d] \in {Baseline(o)[d], o}
      BY <2>2, <3>1 DEF ReadOwn
    <3>3. doc[d] # o
      BY <1>1, ConstantFacts
    <3> QED BY <1>1, <2>5, <3>1, <3>2, <3>3
  <2> QED BY <2>2, <2>4, <2>5
<1>2. WholeInv /\ [Next]_vars =>
          \A d \in Docs : doc[d] \in Edits /\ doc'[d] # doc[d] /\ agent' # agent
                              => Survives(d)
  BY <1>1
<1> QED BY <1>2, WholeAlways, PTL DEF Spec, EditsSurvive


-----------------------------------------------------------------------------
(* What was not started has left no trace.                                  *)

\* The bytes of o are in a document, or among those a rollback may put back.
Written(o) ==
    \/ \E d \in Docs : doc[d] = o
    \/ \E x \in Ops : \E d \in DOMAIN Baseline(x) : Baseline(x)[d] = o

\* The plan waits, or its writer has no journal yet and still may be refused.
UntriedBy(a, o) ==
    Writer(a) /\ agent[a].op = o /\ agent[a].pc \in EarlyPCs \union {"refused"}
Untried(o) == row[o].status = "planned" \/ \E a \in Agents : UntriedBy(a, o)

NoTrace(o) == Untried(o) => ~Written(o) /\ journal[PrimaryOf[o]] # o

TraceInv == WholeInv /\ \A o \in Ops : NoTrace(o)

\* Only the guard and arm lead a writer to a refusal.
LEMMA EarlyFrom ==
    ASSUME Attended, NEW a \in Agents, Working(a), Writer(a)',
           agent'[a].pc \in EarlyPCs \union {"refused"}
    PROVE  GuardCheckpoints(a) \/ GuardLocks(a) \/ Arming(a)
<1>1. agent \in [Agents -> Process] /\ Typed /\ agent'[a].mode # "resolve"
  BY DEF Attended, Typed, TypeOK, Writer
<1>2. ASSUME NEW x, Goto(a, x) PROVE Moved(a, x, agent[a].mode)
  BY <1>1, <1>2, Moves
<1>3. ASSUME NEW x, NEW i, GotoAt(a, x, i) PROVE Moved(a, x, agent[a].mode)
  BY <1>1, <1>3, Moves
<1>4. ~Raise(a)
  BY <1>1, RaiseMoves DEF Moved, EarlyPCs, ArmPCs
<1>5. CASE Save(a) \/ Verify(a) \/ SaveFails(a) \/ Rollback(a)
  BY <1>1, <1>2, <1>3, <1>4, <1>5, RollbackMoves
  DEF Save, Verify, SaveFails, Moved, EarlyPCs, ArmPCs
<1>6. CASE Restore(a) \/ Restored(a) \/ RestoreFails(a)
  BY <1>2, <1>3, <1>4, <1>6 DEF Restore, Restored, RestoreFails, Moved, EarlyPCs, ArmPCs
<1>7. CASE CleanupBegin(a) \/ Checkpoint(a) \/ Intend(a) \/ Acknowledge(a)
  <2>1. \/ Goto(a, "archiving") \/ Moved(a, "deleting", agent[a].mode)
        \/ Moved(a, "unlinking", agent[a].mode)
    BY <1>1, <1>4, <1>7, CleanupMoves
  <2> QED BY <1>2, <2>1 DEF Moved, EarlyPCs, ArmPCs
<1>8. CASE PublishArchive(a) \/ Unlink(a) \/ CleanupFails(a)
  <2>1. PublishArchive(a) => agent'[a].pc = "archiving"
    BY DEF PublishArchive
  <2> QED BY <1>2, <1>4, <1>8, <2>1 DEF Unlink, CleanupFails, Moved, EarlyPCs, ArmPCs
<1>9. CASE Cleaned(a)
  <2>1. agent[a].mode \in {"commit", "rollback", "resolve"}
    BY <1>1, <1>9, AtStep DEF Cleaned
  <2> QED BY <1>2, <1>9, <2>1 DEF Cleaned, Moved, EarlyPCs, ArmPCs
<1>10. CASE \/ Undispatch(a) \/ Finish(a) \/ Resolve(a) \/ ResolveRefused(a) \/ Crash(a)
  BY <1>1, <1>10, Ends DEF EarlyPCs, ArmPCs
<1> QED BY <1>5, <1>6, <1>7, <1>8, <1>9, <1>10 DEF Working, Step, Arming

\* A journal is written once, when its process starts to save.
LEMMA JournalStep ==
    ASSUME Attended, NEW a \in Agents, Working(a), NEW d \in Docs, journal'[d] # journal[d]
    PROVE  \/ journal'[d] = None
           \/ journal'[d] = agent[a].op /\ agent'[a].pc = "saving"
<1>1. /\ journal \in [Docs -> Ops \union {None}] /\ agent \in [Agents -> Process]
      /\ Typed
  BY DEF Attended, Typed, TypeOK
<1>2. CASE ArmUndo(a) \/ Unlink(a)
  <2>1. PICK o, path : Remove(o, path)
    BY <1>2, Zenon DEF ArmUndo, Unlink, sidecarVars
  <2> QED BY <1>1, <2>1 DEF Remove
<1>3. CASE ArmJournal(a)
  <2>1. /\ journal' = [journal EXCEPT ![PrimaryOf[agent[a].op]] = agent[a].op]
        /\ GotoAt(a, "saving", 1)
    BY <1>3 DEF ArmJournal
  <2> QED BY <1>1, <2>1, Moves DEF Moved
<1> QED BY <1>1, <1>2, <1>3, Changes
        DEF Arming, ArmPrimary, ArmLock, ArmBackup, ArmFails, UndoFails, sidecarVars

LEMMA TraceInit == Init => TraceInv
<1> SUFFICES ASSUME Init, NEW o \in Ops PROVE NoTrace(o)
  BY WholeInit DEF TraceInv
<1>1. \A d \in Docs : doc[d] \in {Old, Absent}
  BY DEF Init
<1>2. \A x \in Ops : row[x].baseline = <<>>
  BY SMT DEF Init
<1>3. \A x \in Ops : DOMAIN Baseline(x) = {}
  BY <1>2 DEF Baseline
<1>4. journal[PrimaryOf[o]] = None
  BY ConstantFacts DEF Init
<1> QED BY <1>1, <1>3, <1>4, ConstantFacts DEF NoTrace, Written

LEMMA TraceWorking ==
    ASSUME TraceInv, NEW a \in Agents, Working(a), NEW o \in Ops
    PROVE  NoTrace(o)'
<1>1. /\ Attended /\ Typed /\ Attended' /\ Live(a) /\ agent[a].op \in Ops
      /\ agent'[a].op = agent[a].op /\ \A b \in Agents \ {a} : agent'[b] = agent[b]
      /\ PrimaryOf[o] \in Docs /\ o # None
      /\ \A x \in Ops : Baseline(x)' = Baseline(x)
      /\ o # agent[a].op => row'[o] = row[o]
  <2>1. Attended /\ Typed
    BY DEF TraceInv, WholeInv, Attended
  <2> QED BY <2>1, Others, AtStep, AttendedWorking, ConstantFacts, OwnRecords
          DEF Attended, Live, Baseline
<1> SUFFICES ASSUME Untried(o)' PROVE (~Written(o) /\ journal[PrimaryOf[o]] # o)'
  BY DEF NoTrace
<1>2. Untried(o)
  <2>1. CASE row'[o].status = "planned"
    <3>1. CASE row[o].status = "planned"
      BY <3>1 DEF Untried
    <3>2. CASE row[o].status # "planned"
      <4>1. o = agent[a].op /\ Undispatch(a)
        BY <1>1, <2>1, <3>2, StoredBy
      <4>2. UntriedBy(a, o)
        BY <1>1, <4>1 DEF Undispatch, UntriedBy, Writer
      <4> QED BY <4>2 DEF Untried
    <3> QED BY <3>1, <3>2
  <2>2. ASSUME NEW b \in Agents, UntriedBy(b, o)' PROVE Untried(o)
    <3>1. CASE b # a
      <4>1. UntriedBy(b, o)
        BY <1>1, <2>2, <3>1 DEF UntriedBy, Writer, Live
      <4> QED BY <4>1 DEF Untried
    <3>2. CASE b = a
      <4>1. Writer(a)' /\ agent'[a].pc \in EarlyPCs \union {"refused"}
        BY <2>2, <3>2 DEF UntriedBy
      <4>2. GuardCheckpoints(a) \/ GuardLocks(a) \/ Arming(a)
        BY <1>1, <4>1, EarlyFrom
      <4>3. agent[a].pc \in EarlyPCs
        BY <1>1, <4>2, ArmMovesTo
        DEF GuardCheckpoints, GuardLocks, EarlyPCs, Typed, TypeOK
      <4>4. UntriedBy(a, o)
        BY <1>1, <2>2, <3>2, <4>3
        DEF UntriedBy, Writer, Attended, ModeAt
      <4> QED BY <4>4 DEF Untried
    <3> QED BY <3>1, <3>2
  <2> QED BY <2>1, <2>2 DEF Untried
<1>3. ~Written(o) /\ journal[PrimaryOf[o]] # o
  BY <1>2 DEF TraceInv, NoTrace
\* A process that saves o leaves no room for another one that has not tried it.
<1>4. ASSUME o = agent[a].op, Writer(a), agent[a].pc \notin EarlyPCs \union {"refused"}
      PROVE  FALSE
  <2>1. row[o].status # "planned"
    BY <1>1, <1>4 DEF Attended, AttendedBy
  <2>2. PICK b \in Agents : UntriedBy(b, o)
    BY <1>2, <2>1 DEF Untried
  <2> QED BY <1>1, <1>4, <2>2, Alone DEF UntriedBy, Writer
<1>5. ASSUME o = agent'[a].op, agent'[a].pc = "saving"
      PROVE  FALSE
  <2>1. Writer(a)'
    BY <1>1, <1>5 DEF Attended, ModeAt, Writer, Live
  <2>2. row'[o].status # "planned" /\ row'[o].writer = a
    BY <1>1, <1>5, <2>1 DEF Attended, AttendedBy
  <2>3. PICK b \in Agents : UntriedBy(b, o)'
    BY <2>2 DEF Untried
  <2>4. row'[o].writer = b
    BY <1>1, <2>3 DEF Attended, AttendedBy, UntriedBy
  <2> QED BY <1>5, <2>2, <2>3, <2>4 DEF UntriedBy, EarlyPCs, ArmPCs
<1>6. journal'[PrimaryOf[o]] # o
  BY <1>1, <1>3, <1>5, JournalStep
<1>7. ASSUME NEW d \in Docs, doc'[d] = o PROVE FALSE
  <2>1. doc'[d] # doc[d]
    BY <1>3, <1>7 DEF Written
  <2>2. /\ d \in Files(agent[a].op) /\ Writer(a)
        /\ \/ Save(a) /\ doc'[d] = agent[a].op
           \/ doc'[d] = Baseline(agent[a].op)[d]
    BY <1>1, <2>1, OwnWrites
  <2>3. DOMAIN Baseline(agent[a].op) = Files(agent[a].op)
    BY <1>1, AtStep DEF Live
  <2>4. ~Save(a) \/ doc'[d] # agent[a].op
    BY <1>4, <1>7, <2>2 DEF Save, EarlyPCs, ArmPCs
  <2> QED BY <1>1, <1>3, <1>7, <2>2, <2>3, <2>4 DEF Written
<1>8. ~Written(o)'
  BY <1>1, <1>3, <1>7 DEF Written
<1> QED BY <1>6, <1>8

LEMMA TraceNext == TraceInv /\ [Next]_vars => TraceInv'
<1> SUFFICES ASSUME TraceInv, [Next]_vars, NEW o \in Ops PROVE NoTrace(o)'
  BY WholeNext DEF TraceInv
<1>1. /\ Attended /\ Typed /\ NoTrace(o) /\ row \in [Ops -> Row]
      /\ agent \in [Agents -> Process] /\ doc \in [Docs -> Bytes]
  BY DEF TraceInv, WholeInv, Attended, Typed, TypeOK
<1>2. ASSUME journal' = journal, Written(o)' => Written(o),
             row'[o].status = "planned" => row[o].status = "planned",
             \A b \in Agents : UntriedBy(b, o)' => Untried(o)
      PROVE  NoTrace(o)'
  BY <1>1, <1>2 DEF NoTrace, Untried
<1>3. CASE \E a \in Agents : Working(a)
  BY <1>3, TraceWorking
<1>4. ASSUME NEW a \in Agents, NEW x \in Ops, Confirm(a, x) PROVE NoTrace(o)'
  <2>0. /\ row' = [row EXCEPT ![x] = [@ EXCEPT !.status = "dispatched",
                                               !.writer = a,
                                               !.baseline = Current(x)]]
        /\ agent' = [agent EXCEPT ![a] = [@ EXCEPT !.pc = "confirmed",
                                                   !.op = x, !.mode = "commit"]]
        /\ row[x].status = "planned" /\ UNCHANGED <<doc, journal>>
    BY <1>4 DEF Confirm, sidecarVars
  <2>1. agent'[a].op = x /\ \A b \in Agents \ {a} : agent'[b] = agent[b]
    BY <1>1, <2>0, SMT DEF Process
  <2>2. /\ row'[x].status = "dispatched" /\ row'[x].baseline = Current(x)
        /\ \A y \in Ops \ {x} : row'[y] = row[y]
    BY <1>1, <2>0, SMT DEF Row
  <2>3. Written(o)' => Written(o)
    <3>1. \A d \in DOMAIN Current(x) : d \in Docs /\ Current(x)[d] = doc[d]
      BY ConstantFacts DEF Current
    <3>2. \A y \in Ops \ {x} : Baseline(y)' = Baseline(y)
      BY <2>2 DEF Baseline
    <3>3. Baseline(x)' = Current(x)
      BY <2>2 DEF Baseline
    <3> QED BY <2>0, <3>1, <3>2, <3>3 DEF Written
  <2>4. row'[o].status = "planned" => row[o].status = "planned"
    BY <2>2
  <2>5. ASSUME NEW b \in Agents, UntriedBy(b, o)' PROVE Untried(o)
    <3>1. CASE b = a
      BY <2>0, <2>1, <2>5, <3>1 DEF UntriedBy, Untried
    <3>2. CASE b # a
      BY <2>1, <2>5, <3>2 DEF UntriedBy, Untried, Writer, Live
    <3> QED BY <3>1, <3>2
  <2> QED BY <1>2, <2>0, <2>3, <2>4, <2>5
<1>5. ASSUME NEW a \in Agents, NEW x \in Ops, ResolveBegin(a, x) PROVE NoTrace(o)'
  <2>0. agent' = [agent EXCEPT ![a] = [@ EXCEPT !.pc = "closing", !.op = x,
                                                !.mode = "resolve",
                                                !.seen = Current(x)]]
        /\ UNCHANGED <<doc, journal, row>>
    BY <1>5 DEF ResolveBegin, sidecarVars
  <2>1. agent'[a].mode = "resolve" /\ \A b \in Agents \ {a} : agent'[b] = agent[b]
    BY <1>1, <2>0, SMT DEF Process
  <2>2. \A b \in Agents : UntriedBy(b, o)' => UntriedBy(b, o)
    BY <2>1 DEF UntriedBy, Writer, Live
  <2> QED BY <1>2, <2>0, <2>2 DEF Written, Baseline, Untried
<1>6. ASSUME NEW x \in Ops, Prune(x) PROVE NoTrace(o)'
  <2>1. /\ row'[x].status = "pruned" /\ row'[x].baseline = row[x].baseline
        /\ \A y \in Ops \ {x} : row'[y] = row[y]
        /\ UNCHANGED <<doc, journal, agent>>
    BY <1>1, <1>6, SMT DEF Prune, Row, sidecarVars
  <2>2. Written(o)' => Written(o)
    BY <2>1 DEF Written, Baseline
  <2>3. \A b \in Agents : UntriedBy(b, o)' => Untried(o)
    BY <2>1 DEF UntriedBy, Untried, Writer, Live
  <2> QED BY <1>2, <2>1, <2>2, <2>3
<1>7. ASSUME NEW d \in Docs, NEW e \in Edits, Edit(d, e) PROVE NoTrace(o)'
  <2>1. doc' = [doc EXCEPT ![d] = e] /\ UNCHANGED <<journal, row, agent>>
    BY <1>7 DEF Edit, sidecarVars
  <2>2. Written(o)' => Written(o)
    BY <1>1, <2>1, ConstantFacts DEF Written, Baseline
  <2>3. \A b \in Agents : UntriedBy(b, o)' => Untried(o)
    BY <2>1 DEF UntriedBy, Untried, Writer, Live
  <2> QED BY <1>2, <2>1, <2>2, <2>3
<1>8. CASE UNCHANGED vars
  <2>1. UNCHANGED <<doc, journal, row, agent>>
    BY <1>8 DEF vars, sidecarVars
  <2>2. /\ Written(o)' => Written(o)
        /\ \A b \in Agents : UntriedBy(b, o)' => Untried(o)
    BY <2>1 DEF Written, Baseline, UntriedBy, Untried, Writer, Live
  <2> QED BY <1>2, <2>1, <2>2
<1> QED BY <1>3, <1>4, <1>5, <1>6, <1>7, <1>8 DEF Next, Working

LEMMA TraceAlways == Spec => []TraceInv
  BY TraceInit, TraceNext, PTL DEF Spec

\* "not_started" is true for any number of processes and resolutions: a plan that
\* waits has no journal, no checkpoint, and has never put its bytes anywhere.
THEOREM WaitingClean == Spec => []WaitingUntouched
<1>1. ASSUME TraceInv PROVE WaitingUntouched
  BY <1>1 DEF TraceInv, WholeInv, WholeOf, NoTrace, Untried, Written, WaitingUntouched
<1> QED BY <1>1, TraceAlways, PTL

-----------------------------------------------------------------------------
(* What an operation holds, while only one resolution runs at a time.       *)

\* Two resolutions of one operation would work with two copies of its progress.
OnlyResolver == \A a, b \in Agents : Resolver(a) /\ Resolver(b) => a = b

\* An editor may have saved d since these bytes were read.
Seen(d, bytes) == doc[d] \in Edits \union {bytes}

\* The old bytes of d are in its backup, or an editor replaced them before.
Kept(o, d) ==
    Baseline(o)[d] # Absent =>
        /\ <<o, d>> \in backup
        /\ <<o, d>> \in spoilt => doc[d] \in Edits \ {Baseline(o)[d]}

\* The sidecars of an operation that may change its documents.
Holding(o) ==
    /\ ckpt[o].phase = "none" /\ journal[PrimaryOf[o]] = o
    /\ \A d \in Members(o) : lock[d] = o
    /\ \A d \in Files(o) : Kept(o, d)

\* arm has taken the target and the documents before its position.
ArmedUpTo(o, i) ==
    /\ lock[PrimaryOf[o]] = o
    /\ \A j \in DOMAIN FilesOf[o] :
          j < i => /\ lock[FilesOf[o][j]] = o /\ Kept(o, FilesOf[o][j])
                   /\ Seen(FilesOf[o][j], Baseline(o)[FilesOf[o][j]])

\* arm has locked and compared the document at its position.
Checked(o, i) ==
    /\ i \in DOMAIN FilesOf[o]
    /\ lock[FilesOf[o][i]] = o
    /\ Seen(FilesOf[o][i], Baseline(o)[FilesOf[o][i]])

\* No sidecar of another operation was recorded for deletion.
OwnHeld(o, held) == \A i \in DOMAIN CleanupPaths(o) : held[i] \in {o, None}

\* The locks arm has listed for its undo are its own.
OwnMade(a) ==
    \A d \in Docs : <<"lock", d>> \in agent[a].made => lock[d] = agent[a].op

SetAt(a) ==
    /\ Writer(a) =>
        /\ agent[a].pc \in EarlyPCs \union {"refused"} =>
              journal[PrimaryOf[agent[a].op]] # agent[a].op
        /\ agent[a].pc \in {"arming", "checked"} => ArmedUpTo(agent[a].op, agent[a].i)
        /\ agent[a].pc = "checked" => Checked(agent[a].op, agent[a].i)
        /\ agent[a].pc \in ArmPCs => OwnMade(a)
        /\ HoldsSet(a) => Holding(agent[a].op)
        /\ agent[a].pc = "restoring" => BackedUp(agent[a].op)
    /\ agent[a].pc = "archiving" => Holding(agent[a].op)
    /\ agent[a].pc \in {"deleting", "unlinking", "unlinked"} =>
          OwnHeld(agent[a].op, agent[a].held)
    /\ agent[a].pc = "unlinking" => agent[a].i + 1 \in DOMAIN CleanupPaths(agent[a].op)

SetOf(o) ==
    /\ row[o].status = "planned" => journal[PrimaryOf[o]] # o
    /\ journal[PrimaryOf[o]] = o /\ ckpt[o].phase = "none" => Holding(o)
    /\ ckpt[o].phase # "none" => OwnHeld(o, ckpt[o].held)
    /\ \A d \in Docs : <<o, d>> \in spoilt => <<o, d>> \in backup

SetInv ==
    /\ WholeInv
    /\ OnlyResolver
    /\ \A a \in Agents : SetAt(a)
    /\ \A o \in Ops : SetOf(o)

\* At most one process works on an operation.
LEMMA Sole ==
    ASSUME SetInv, NEW a \in Agents, Live(a), NEW b \in Agents \ {a}, Live(b)
    PROVE  agent[b].op # agent[a].op
<1>1. agent[a].mode \in {"commit", "rollback", "resolve"}
  BY AtStep DEF SetInv, WholeInv, Attended, Live
<1>2. agent[b].mode \in {"commit", "rollback", "resolve"}
  BY AtStep DEF SetInv, WholeInv, Attended, Live
<1>3. CASE Writer(a)
  BY <1>3, Alone DEF SetInv, WholeInv
<1>4. CASE Writer(b)
  BY <1>4, Alone DEF SetInv, WholeInv
<1> QED BY <1>1, <1>2, <1>3, <1>4 DEF SetInv, OnlyResolver, Writer, Resolver

\* The undo of arm deletes backups and locks of members.
LEMMA UndoPaths ==
    ASSUME NEW o \in Ops
    PROVE  /\ UndoOrder(o) \in Seq({"backup", "lock"} \X Docs)
           /\ DOMAIN UndoOrder(o) = 1..(2 * Len(FilesOf[o]) + 1)
           /\ \A n \in DOMAIN UndoOrder(o) : n > Len(FilesOf[o]) <=> UndoOrder(o)[n][1] = "lock"
           /\ \A n \in 1..Len(FilesOf[o]) :
                 n \in DOMAIN UndoOrder(o) /\ UndoOrder(o)[n] = <<"backup", FilesOf[o][n]>>
<1> DEFINE F == FilesOf[o]
<1> DEFINE L == <<PrimaryOf[o]>> \o FilesOf[o]
<1> DEFINE B == Tagged("backup", F)
<1> DEFINE K == Tagged("lock", L)
<1>1. F \in Seq(Docs) /\ <<PrimaryOf[o]>> \in Seq(Docs) /\ Len(<<PrimaryOf[o]>>) = 1
  BY ConstantFacts
<1>2. L \in Seq(Docs) /\ Len(L) = Len(F) + 1 /\ Len(F) \in Nat
  <2>1. \A s, t \in Seq(Docs) : s \o t \in Seq(Docs) /\ Len(s \o t) = Len(s) + Len(t)
    BY Joined
  <2> QED BY <1>1, <2>1, ConstantFacts
<1>3. /\ B \in Seq({"backup"} \X Docs) /\ Len(B) = Len(F)
      /\ \A i \in 1..Len(F) : B[i] = <<"backup", F[i]>>
  BY <1>1, TaggedRows
<1> HIDE DEF L
<1>4. /\ K \in Seq({"lock"} \X Docs) /\ Len(K) = Len(L)
      /\ \A i \in 1..Len(L) : K[i] = <<"lock", L[i]>>
  BY <1>2, TaggedRows
<1> DEFINE T == {"backup", "lock"} \X Docs
<1>5. B \in Seq(T) /\ K \in Seq(T)
  <2>1. \A i \in 1..Len(B) : B[i] \in T
    BY <1>3
  <2>2. \A i \in 1..Len(K) : K[i] \in T
    BY <1>4
  <2>3. /\ B \in [1..Len(B) -> T] /\ Len(B) \in Nat
        /\ K \in [1..Len(K) -> T] /\ Len(K) \in Nat
    <3>1. /\ B \in [1..Len(B) -> {"backup"} \X Docs] /\ Len(B) \in Nat
          /\ K \in [1..Len(K) -> {"lock"} \X Docs] /\ Len(K) \in Nat
      BY <1>3, <1>4, LenProperties
    <3> QED BY <2>1, <2>2, <3>1
  <2> HIDE DEF B, K, T
  <2> QED BY <2>3, SeqDef
<1>6. UndoOrder(o) = B \o K
  BY DEF UndoOrder, L
<1> HIDE DEF B, K, F, T
<1>7. /\ B \o K \in Seq(T) /\ Len(B \o K) = Len(B) + Len(K)
      /\ \A i \in 1..Len(B) : (B \o K)[i] = B[i]
      /\ \A i \in 1..Len(K) : (B \o K)[Len(B) + i] = K[i]
  BY <1>5, Joined
<1>8. Len(UndoOrder(o)) = 2 * Len(F) + 1 /\ DOMAIN UndoOrder(o) = 1..Len(UndoOrder(o))
  BY <1>2, <1>3, <1>4, <1>6, <1>7, SMT
<1>9. ASSUME NEW n \in DOMAIN UndoOrder(o)
      PROVE  n > Len(F) <=> UndoOrder(o)[n][1] = "lock"
  <2>1. n \in 1..(2 * Len(F) + 1)
    BY <1>8
  <2>2. CASE n <= Len(F)
    <3>1. n \in 1..Len(B)
      BY <1>2, <1>3, <2>1, <2>2
    <3>2. UndoOrder(o)[n] = <<"backup", F[n]>>
      BY <1>3, <1>6, <1>7, <3>1
    <3> QED BY <1>2, <2>1, <2>2, <3>2
  <2>3. CASE n > Len(F)
    <3>1. PICK i \in 1..Len(K) : n = Len(B) + i
      <4>1. n - Len(B) \in 1..Len(K) /\ n = Len(B) + (n - Len(B))
        BY <1>2, <1>3, <1>4, <2>1, <2>3
      <4> QED BY <4>1
    <3>2. UndoOrder(o)[n] = <<"lock", L[i]>>
      BY <1>4, <1>6, <1>7, <3>1
    <3> QED BY <2>3, <3>2
  <2> QED BY <1>2, <2>1, <2>2, <2>3
<1>10. ASSUME NEW n \in 1..Len(F)
       PROVE  n \in DOMAIN UndoOrder(o) /\ UndoOrder(o)[n] = <<"backup", F[n]>>
  <2>1. n \in 1..Len(B) /\ n \in DOMAIN UndoOrder(o)
    BY <1>2, <1>3, <1>8
  <2> QED BY <1>3, <1>6, <1>7, <2>1
<1> QED BY <1>6, <1>7, <1>8, <1>9, <1>10 DEF F, T

\* What the undo of arm and the cleanup delete is a sidecar of their operation.
LEMMA OwnRemoval ==
    ASSUME SetInv, NEW a \in Agents, NEW w \in Ops, w = agent[a].op,
           ArmUndo(a) \/ Unlink(a)
    PROVE  \/ Unlink(a) /\ UNCHANGED sidecarVars
           \/ \E path \in Paths :
                 /\ Holder(w, path) = w /\ Remove(w, path)
                 /\ ArmUndo(a) => /\ path[1] # "journal" /\ path \in agent[a].made
                                  /\ \E x \in {"refused", "undoing"} :
                                        GotoMade(a, x, agent[a].i,
                                                 agent[a].made \ {path})
<1>1. /\ Typed /\ Live(a) /\ SetAt(a) /\ ModeAt(a) /\ None \notin Ops
      /\ agent[a].made \in SUBSET Paths
  <2>1. Typed /\ agent[a].pc \notin {"idle", "exited"}
    BY DEF ArmUndo, Unlink, SetInv, WholeInv, Attended
  <2> QED BY <2>1, AtStep, ConstantFacts DEF SetInv, WholeInv, Attended, Live
<1>2. CASE ArmUndo(a)
  <2>1. PICK n \in DOMAIN UndoOrder(w) :
            /\ UndoOrder(w)[n] \in agent[a].made
            /\ Holder(w, UndoOrder(w)[n]) # None
            /\ Remove(w, UndoOrder(w)[n])
            /\ GotoMade(a, IF agent[a].made \ {UndoOrder(w)[n]} = {} THEN "refused"
                           ELSE "undoing", agent[a].i, agent[a].made \ {UndoOrder(w)[n]})
    BY <1>2, Zenon DEF ArmUndo
  <2>2. PICK path \in {"backup", "lock"} \X Docs : path = UndoOrder(w)[n]
    BY <2>1, UndoPaths, ElementOfSeq
  <2>3. path \in Paths /\ path[1] \in {"backup", "lock"} /\ path[2] \in Docs
        /\ path = <<path[1], path[2]>>
    BY <2>2 DEF Paths
  <2>4. OwnMade(a)
    BY <1>1, <1>2 DEF ArmUndo, SetAt, Writer, ModeAt, EarlyPCs, ArmPCs
  <2>5. Holder(w, path) = w
    <3>1. CASE path[1] = "lock"
      BY <2>1, <2>2, <2>3, <2>4, <3>1 DEF OwnMade, Holder
    <3>2. CASE path[1] = "backup"
      BY <2>1, <2>2, <2>3, <3>2 DEF Holder
    <3> QED BY <2>3, <3>1, <3>2
  <2>6. /\ Remove(w, path) /\ path[1] # "journal" /\ path \in agent[a].made
        /\ \E x \in {"refused", "undoing"} :
              GotoMade(a, x, agent[a].i, agent[a].made \ {path})
    BY <2>1, <2>2, <2>3
  <2> QED BY <2>3, <2>5, <2>6
<1>3. CASE Unlink(a)
  <2> DEFINE path == CleanupPaths(w)[agent[a].i + 1]
  <2>1. /\ agent[a].i + 1 \in DOMAIN CleanupPaths(w)
        /\ OwnHeld(w, agent[a].held)
        /\ agent[a].pc = "unlinking"
    BY <1>1, <1>3 DEF Unlink, SetAt
  <2>2. path \in Sidecars(w)
    BY <2>1, PathsCover, ElementOfSeq
  <2>3. path \in Paths
    BY <2>2, ConstantFacts DEF Sidecars, Paths, HadFiles
  <2>4. \/ UNCHANGED sidecarVars
        \/ Holder(w, path) # None /\ Holder(w, path) = agent[a].held[agent[a].i + 1]
           /\ Remove(w, path)
    BY <1>3 DEF Unlink
  <2>5. ~ArmUndo(a)
    BY <2>1 DEF ArmUndo
  <2>6. agent[a].held[agent[a].i + 1] \in {w, None}
    BY <2>1 DEF OwnHeld
  <2> HIDE DEF path
  <2> QED BY <1>3, <2>3, <2>4, <2>5, <2>6
<1> QED BY <1>2, <1>3

\* The sidecars of other operations are not touched by a process.
LEMMA OwnSidecars ==
    ASSUME SetInv, NEW a \in Agents, Working(a), NEW o \in Ops, o # agent[a].op,
           NEW d \in Docs
    PROVE  /\ lock'[d] = o <=> lock[d] = o
           /\ journal'[d] = o <=> journal[d] = o
           /\ <<o, d>> \in backup' <=> <<o, d>> \in backup
           /\ <<o, d>> \in spoilt' <=> <<o, d>> \in spoilt
<1> DEFINE Same == /\ lock'[d] = o <=> lock[d] = o
                   /\ journal'[d] = o <=> journal[d] = o
                   /\ <<o, d>> \in backup' <=> <<o, d>> \in backup
                   /\ <<o, d>> \in spoilt' <=> <<o, d>> \in spoilt
<1> SUFFICES ASSUME NEW w \in Ops, w = agent[a].op, o # w PROVE Same
  BY Others, AtStep DEF SetInv, WholeInv, Attended
<1>1. /\ lock \in [Docs -> Ops \union {None}] /\ journal \in [Docs -> Ops \union {None}]
      /\ None \notin Ops /\ PrimaryOf[w] \in Docs /\ Typed
      /\ agent \in [Agents -> Process]
  BY ConstantFacts DEF SetInv, WholeInv, Attended, Typed, TypeOK
<1>2. CASE UNCHANGED sidecarVars
  BY <1>2 DEF sidecarVars
<1>3. CASE ArmUndo(a) \/ Unlink(a)
  <2>1. CASE \E path \in Paths : Holder(w, path) = w /\ Remove(w, path)
    <3>1. PICK path \in Paths : Holder(w, path) = w /\ Remove(w, path)
      BY <2>1
    <3>2. path[1] \in {"backup", "lock", "journal"}
      BY <3>1 DEF Paths
    <3>3. CASE path[1] = "lock"
      BY <1>1, <3>1, <3>3 DEF Holder, Remove
    <3>4. CASE path[1] = "journal"
      BY <1>1, <3>1, <3>4 DEF Holder, Remove
    <3>5. CASE path[1] = "backup"
      BY <1>1, <3>1, <3>5 DEF Holder, Remove
    <3> QED BY <3>2, <3>3, <3>4, <3>5
  <2> HIDE DEF Same
  <2> QED BY <1>2, <1>3, <2>1, OwnRemoval
<1>4. CASE ArmPrimary(a)
  BY <1>1, <1>4 DEF ArmPrimary, Taken
<1>5. CASE ArmLock(a)
  <2> DEFINE f == FilesOf[w][agent[a].i]
  <2>1. f \in Docs
    BY <1>1, <1>5, ArmRow DEF ArmLock
  <2>2. /\ UNCHANGED <<journal, backup, spoilt>>
        /\ \/ UNCHANGED lock
           \/ lock' = [lock EXCEPT ![f] = w] /\ ~Taken(f)
    BY <1>5 DEF ArmLock
  <2> HIDE DEF f
  <2> QED BY <1>1, <2>1, <2>2 DEF Taken
<1>6. CASE ArmBackup(a)
  <2> DEFINE f == FilesOf[w][agent[a].i]
  <2>1. f \in Docs
    BY <1>1, <1>6, ArmRow DEF ArmBackup, Typed, Busy, BusyAt
  <2>2. /\ UNCHANGED <<lock, journal>>
        /\ \/ UNCHANGED <<backup, spoilt>>
           \/ /\ backup' = backup \union {<<w, f>>}
              /\ spoilt' \in {spoilt, spoilt \union {<<w, f>>}}
    BY <1>6 DEF ArmBackup
  <2> HIDE DEF f
  <2> QED BY <1>1, <2>1, <2>2
<1>7. CASE ArmJournal(a)
  BY <1>1, <1>7 DEF ArmJournal
<1>8. CASE ArmFails(a) \/ UndoFails(a)
  BY <1>2, <1>8 DEF ArmFails, UndoFails
<1> HIDE DEF Same
<1> QED BY <1>1, <1>2, <1>3, <1>4, <1>5, <1>6, <1>7, <1>8, Changes DEF Arming

\* A document of another operation's set is not touched by a process.
LEMMA OwnDocuments ==
    ASSUME SetInv, NEW a \in Agents, Working(a), NEW o \in Ops, o # agent[a].op,
           NEW d \in Docs, lock[d] = o
    PROVE  doc'[d] = doc[d]
<1> SUFFICES ASSUME doc'[d] # doc[d] PROVE FALSE
  OBVIOUS
<1>1. d \in Files(agent[a].op) /\ Writer(a) /\ HoldsSet(a)
  BY OwnWrites DEF SetInv, WholeInv
<1>2. Holding(agent[a].op)
  BY <1>1 DEF SetInv, SetAt
<1> QED BY <1>1, <1>2 DEF Holding, Members

\* What an operation holds stays, up to the checkpoint of its cleanup.
LEMMA HoldingKept ==
    ASSUME SetInv, NEW a \in Agents, Working(a), NEW o \in Ops, Holding(o),
           ckpt'[o].phase = "none"
    PROVE  Holding(o)'
<1>1. /\ Typed /\ Live(a) /\ SetAt(a) /\ WholeAt(a) /\ ModeAt(a) /\ agent[a].op \in Ops
      /\ PrimaryOf[o] \in Docs /\ Files(o) \subseteq Docs /\ Members(o) \subseteq Docs
      /\ Baseline(o)' = Baseline(o)
  BY Others, AtStep, ConstantFacts, OwnRecords
  DEF SetInv, WholeInv, Attended, Live, Baseline
<1>2. CASE o # agent[a].op
  <2>1. \A d \in Docs : /\ lock'[d] = o <=> lock[d] = o
                        /\ journal'[d] = o <=> journal[d] = o
                        /\ <<o, d>> \in backup' <=> <<o, d>> \in backup
                        /\ <<o, d>> \in spoilt' <=> <<o, d>> \in spoilt
                        /\ lock[d] = o => doc'[d] = doc[d]
    BY <1>2, OwnSidecars, OwnDocuments
  <2>2. \A d \in Files(o) : Kept(o, d)'
    BY <1>1, <2>1 DEF Holding, Members, Kept
  <2> QED BY <1>1, <2>1, <2>2 DEF Holding
<1>3. CASE o = agent[a].op
  <2>1. UNCHANGED sidecarVars
    <3>1. ASSUME Arming(a) PROVE FALSE
      <4>1. agent[a].pc \in EarlyPCs /\ agent[a].mode = "commit" /\ Writer(a)
        BY <1>1, <3>1, ArmMovesTo DEF Typed, TypeOK, EarlyPCs, ModeAt, Writer
      <4> QED BY <1>1, <1>3, <4>1 DEF SetAt, Holding
    <3>2. ASSUME Unlink(a) PROVE FALSE
      BY <1>1, <1>3, <3>2 DEF Unlink, WholeAt, DecidedPCs, Holding
    <3> QED BY <1>1, <3>1, <3>2, Changes
  <2>2. ASSUME NEW d \in Files(o) PROVE Kept(o, d)'
    <3>1. <<o, d>> \in spoilt /\ Kept(o, d) /\ Baseline(o)[d] # Absent => doc'[d] = doc[d]
      <4> SUFFICES ASSUME <<o, d>> \in spoilt, Kept(o, d), Baseline(o)[d] # Absent,
                          doc'[d] # doc[d]
                   PROVE  FALSE
        OBVIOUS
      <4>1. /\ Writer(a)
            /\ (Save(a) /\ doc[d] = Baseline(o)[d]) \/ Restore(a)
        BY <1>1, <1>3, OwnWrites DEF SetInv, WholeInv
      <4>2. ~Restore(a)
        BY <1>1, <1>3, <4>1 DEF Restore, SetAt, BackedUp
      <4> QED BY <4>1, <4>2 DEF Kept
    <3> QED BY <1>1, <2>1, <3>1 DEF Kept, Holding, sidecarVars
  <2> QED BY <1>1, <2>1, <2>2 DEF Holding, sidecarVars
<1> QED BY <1>2, <1>3

\* The plan, and with it the order of the deletions, stays.
LEMMA PathsKept ==
    ASSUME SetInv, NEW o \in Ops, row'[o].baseline = row[o].baseline
    PROVE  /\ CleanupPaths(o)' = CleanupPaths(o)
           /\ \A held : OwnHeld(o, held) <=>
                 \A i \in DOMAIN CleanupPaths(o)' : held[i] \in {o, None}
<1>1. Baseline(o)' = Baseline(o)
  BY DEF Baseline
<1>2. CleanupPaths(o)' = CleanupPaths(o)
  BY <1>1 DEF CleanupPaths, HadBytes, Tagged, Files
<1> QED BY <1>2 DEF OwnHeld

LEMMA SetInit == OneResolver /\ Init => SetInv
<1> SUFFICES ASSUME Init PROVE SetInv
  OBVIOUS
<1>1. WholeInv
  BY WholeInit
<1>2. \A a \in Agents : agent[a].pc = "idle"
  BY SMT DEF Init
<1>3. \A o \in Ops : /\ row[o].status = "planned" /\ ckpt[o].phase = "none"
                     /\ journal[PrimaryOf[o]] # o
  BY ConstantFacts, SMT DEF Init
<1>4. spoilt = {}
  BY DEF Init
<1> QED BY <1>1, <1>2, <1>3, <1>4
        DEF SetInv, SetAt, SetOf, OnlyResolver, Resolver, Writer, Live

\* The other processes keep what they hold.
LEMMA SetOthers ==
    ASSUME SetInv, NEW a \in Agents, Working(a), NEW b \in Agents \ {a}
    PROVE  SetAt(b)'
<1>1. /\ agent'[b] = agent[b] /\ Live(a) /\ agent[a].op \in Ops
      /\ Typed /\ SetAt(b) /\ WholeAt(b)
  BY Others, AtStep DEF SetInv, WholeInv, Attended, Live
<1>2. CASE Live(b)
  <2> SUFFICES ASSUME NEW o \in Ops, o = agent[b].op, o # agent[a].op
               PROVE  SetAt(b)'
    BY <1>1, <1>2, Sole, AtStep DEF SetInv, WholeInv, Attended, Live
  <2>1. /\ ckpt'[o] = ckpt[o] /\ row'[o].baseline = row[o].baseline
    BY <1>1, OwnRecords
  <2>2. /\ PrimaryOf[o] \in Docs /\ Files(o) \subseteq Docs
        /\ \A j \in DOMAIN FilesOf[o] : FilesOf[o][j] \in Docs
    BY ConstantFacts DEF Files
  <2>3. \A d \in Docs : /\ lock'[d] = o <=> lock[d] = o
                        /\ journal'[d] = o <=> journal[d] = o
                        /\ <<o, d>> \in backup' <=> <<o, d>> \in backup
                        /\ <<o, d>> \in spoilt' <=> <<o, d>> \in spoilt
                        /\ lock[d] = o => doc'[d] = doc[d]
    BY OwnSidecars, OwnDocuments
  <2>4. /\ Baseline(o)' = Baseline(o)
        /\ \A d \in Docs : lock[d] = o => /\ Kept(o, d) => Kept(o, d)'
                                          /\ Seen(d, Baseline(o)[d]) =>
                                                Seen(d, Baseline(o)[d])'
    BY <2>1, <2>3 DEF Baseline, Kept, Seen
  <2>5. Holding(o) => Holding(o)'
    BY <2>1, HoldingKept DEF Holding
  <2>6. ArmedUpTo(o, agent[b].i) => ArmedUpTo(agent[b].op, agent[b].i)'
    BY <1>1, <2>2, <2>3, <2>4 DEF ArmedUpTo, Kept, Seen
  <2>7. Checked(o, agent[b].i) => Checked(agent[b].op, agent[b].i)'
    BY <1>1, <2>2, <2>3, <2>4 DEF Checked, Seen
  <2>8. BackedUp(o) => BackedUp(agent[b].op)'
    BY <1>1, <2>2, <2>3, <2>4 DEF BackedUp
  <2>9. OwnMade(b) => OwnMade(b)'
    BY <1>1, <2>3 DEF OwnMade
  <2>10. /\ OwnHeld(o, agent[b].held) => OwnHeld(agent[b].op, agent[b].held)'
         /\ DOMAIN CleanupPaths(agent[b].op)' = DOMAIN CleanupPaths(o)
    <3>1. CleanupPaths(agent[b].op)' = CleanupPaths(o)
      BY <1>1, <2>1, PathsKept
    <3> QED BY <1>1, <3>1 DEF OwnHeld
  <2>11. Holding(o) => Holding(agent[b].op)'
    BY <1>1, <2>5
  <2>12. /\ Writer(b)' <=> Writer(b)
         /\ HoldsSet(b)' <=> HoldsSet(b)
    BY <1>1 DEF HoldsSet, Writer, Live
  <2>13. Writer(b) /\ agent[b].pc \in EarlyPCs \union {"refused"} =>
             journal'[PrimaryOf[agent'[b].op]] # agent'[b].op
    BY <1>1, <2>2, <2>3 DEF SetAt
  <2> QED BY <1>1, <2>6, <2>7, <2>8, <2>9, <2>10, <2>11, <2>12, <2>13 DEF SetAt
<1>3. CASE ~Live(b)
  BY <1>1, <1>3 DEF SetAt, Writer, HoldsSet, Live
<1> QED BY <1>2, <1>3

\* The process itself: the guard, arm and the undo of arm.
LEMMA SetArm ==
    ASSUME SetInv, NEW a \in Agents, GuardCheckpoints(a) \/ GuardLocks(a) \/ Arming(a)
    PROVE  SetAt(a)'
<1> SUFFICES ASSUME NEW o \in Ops, o = agent[a].op
             PROVE  SetAt(a)'
  BY Others, AtStep DEF SetInv, WholeInv, Attended, Working, Step, Arming
<1>1. /\ agent'[a].op = o /\ agent \in [Agents -> Process] /\ agent[a].i \in Nat
      /\ Writer(a) /\ agent[a].pc \in EarlyPCs /\ SetAt(a)
      /\ agent[a].mode = "commit" /\ Typed /\ journal[PrimaryOf[o]] # o
      /\ lock \in [Docs -> Ops \union {None}] /\ journal \in [Docs -> Ops \union {None}]
      /\ PrimaryOf[o] \in Docs /\ ckpt[o].phase = "none" /\ agent'[a].mode = "commit"
      /\ Baseline(o)' = Baseline(o) /\ o # None
  <2>1. Working(a) /\ Typed
    BY DEF Working, Step, Arming, SetInv, WholeInv, Attended
  <2>2. agent[a].pc \in EarlyPCs
    BY <2>1, ArmMovesTo DEF GuardCheckpoints, GuardLocks, EarlyPCs, Typed, TypeOK
  <2>3. Writer(a) /\ agent[a].mode = "commit" /\ SetAt(a) /\ WholeAt(a)
    BY <2>2 DEF SetInv, WholeInv, Attended, ModeAt, Writer, Live, EarlyPCs, ArmPCs
  <2>4. journal[PrimaryOf[o]] # o /\ ckpt[o].phase = "none"
    BY <2>2, <2>3 DEF SetAt, WholeAt, UndecidedPCs
  <2>5. agent'[a].op = o /\ row'[o].baseline = row[o].baseline
    BY <2>1, Others, OwnRecords DEF SetInv, WholeInv, Attended
  <2>6. agent'[a].mode = "commit"
    <3>1. agent \in [Agents -> Process]
      BY <2>1 DEF Typed, TypeOK
    <3>2. ASSUME NEW x, Goto(a, x) PROVE Moved(a, x, agent[a].mode)
      BY <3>1, <3>2, Moves
    <3> QED BY <2>3, <3>1, <3>2, ArmMovesTo DEF GuardCheckpoints, GuardLocks, Moved
  <2> QED BY <2>1, <2>2, <2>3, <2>4, <2>5, <2>6, AtStep, ConstantFacts
          DEF Typed, TypeOK, Writer, Live, Baseline
<1>2. ASSUME agent'[a].pc \in {"guarded", "unlocked", "refused"}, journal' = journal
      PROVE  SetAt(a)'
  BY <1>1, <1>2 DEF SetAt, HoldsSet, ArmPCs
<1>3. ASSUME agent'[a].pc = "undoing", OwnMade(a)', journal' = journal
      PROVE  SetAt(a)'
  BY <1>1, <1>3 DEF SetAt, HoldsSet
<1>4. ASSUME Goto(a, "undoing"), agent[a].pc \in ArmPCs, UNCHANGED <<lock, journal>>
      PROVE  SetAt(a)'
  <2>1. agent'[a].pc = "undoing" /\ agent'[a].made = agent[a].made
    BY <1>1, <1>4, Moves DEF Moved, KeepsMade
  <2>2. OwnMade(a)'
    BY <1>1, <1>4, <2>1 DEF SetAt, OwnMade
  <2> QED BY <1>3, <1>4, <2>1, <2>2
<1>5. ASSUME NEW i, agent'[a].pc = "arming", agent'[a].i = i, OwnMade(a)',
             journal' = journal, ArmedUpTo(o, i)'
      PROVE  SetAt(a)'
  <2>1. ArmedUpTo(agent[a].op, agent[a].i)'
    BY <1>1, <1>5 DEF ArmedUpTo, Kept, Seen, Baseline
  <2> QED BY <1>1, <1>5, <2>1 DEF SetAt, HoldsSet
<1>6. CASE GuardCheckpoints(a) \/ GuardLocks(a)
  <2>1. ASSUME NEW x, Goto(a, x) PROVE agent'[a].pc = x
    BY <1>1, <2>1, Moves DEF Moved
  <2>2. agent'[a].pc \in {"guarded", "unlocked", "refused"}
    BY <1>6, <2>1 DEF GuardCheckpoints, GuardLocks
  <2> QED BY <1>2, <1>6, <2>2 DEF GuardCheckpoints, GuardLocks, sidecarVars
<1>7. CASE ArmPrimary(a)
  <2>0. journal' = journal
    BY <1>7 DEF ArmPrimary
  <2>1. CASE Goto(a, "refused")
    <3>1. agent'[a].pc = "refused"
      BY <1>1, <2>1, Moves DEF Moved
    <3> QED BY <1>2, <2>0, <3>1
  <2>2. CASE /\ lock' = [lock EXCEPT ![PrimaryOf[o]] = o]
             /\ GotoMade(a, "arming", 1, {<<"lock", PrimaryOf[o]>>})
    <3> DEFINE made == {<<"lock", PrimaryOf[o]>>}
    <3>1. agent'[a].pc = "arming" /\ agent'[a].i = 1 /\ agent'[a].made = made
      <4> HIDE DEF made
      <4>1. GotoMade(a, "arming", 1, made)
        BY <2>2 DEF made
      <4> QED BY <1>1, <4>1, Moves DEF Moved
    <3>2. \A j \in DOMAIN FilesOf[o] : ~(j < 1)
      BY ConstantFacts, SMT
    <3>3. lock'[PrimaryOf[o]] = o
      BY <1>1, <2>2
    <3>4. ArmedUpTo(o, 1)'
      BY <3>1, <3>2, <3>3 DEF ArmedUpTo
    <3>5. OwnMade(a)'
      BY <1>1, <3>1, <3>3 DEF OwnMade
    <3> QED BY <1>5, <2>0, <3>1, <3>4, <3>5
  <2> QED BY <1>7, <2>1, <2>2 DEF ArmPrimary
<1>8. CASE ArmLock(a)
  <2> DEFINE d == FilesOf[o][agent[a].i]
  <2> DEFINE made == agent[a].made \union {<<"lock", d>>}
  <2>1. /\ agent[a].i \in DOMAIN FilesOf[o] /\ d \in Docs /\ agent[a].pc = "arming"
    BY <1>1, <1>8, ArmRow DEF ArmLock
  <2>2. /\ UNCHANGED <<doc, journal, backup, spoilt>>
        /\ \/ Goto(a, "undoing") /\ UNCHANGED lock
           \/ /\ lock' = IF d = PrimaryOf[o] THEN lock ELSE [lock EXCEPT ![d] = o]
              /\ \E x \in {"checked", "undoing"} :
                    /\ GotoMade(a, x, agent[a].i, made)
                    /\ x = "checked" => doc[d] = Baseline(o)[d]
    <3>1. /\ UNCHANGED <<doc, journal, backup, spoilt>>
          /\ \/ Goto(a, "undoing") /\ UNCHANGED lock
             \/ /\ lock' = IF d = PrimaryOf[o] THEN lock ELSE [lock EXCEPT ![d] = o]
                /\ GotoMade(a, IF doc[d] = Baseline(o)[d] THEN "checked" ELSE "undoing",
                            agent[a].i, made)
      BY <1>8 DEF ArmLock
    <3> HIDE DEF d, made
    <3> QED BY <3>1
  <2> HIDE DEF made, d
  <2>3. ArmedUpTo(o, agent[a].i) /\ OwnMade(a)
    BY <1>1, <2>1 DEF SetAt, ArmPCs
  <2>4. CASE Goto(a, "undoing") /\ UNCHANGED lock
    BY <1>4, <2>1, <2>2, <2>4 DEF ArmPCs
  <2>5. ASSUME lock' = IF d = PrimaryOf[o] THEN lock ELSE [lock EXCEPT ![d] = o],
               NEW x \in {"checked", "undoing"}, GotoMade(a, x, agent[a].i, made),
               x = "checked" => doc[d] = Baseline(o)[d]
        PROVE  SetAt(a)'
    <3>1. agent'[a].pc = x /\ agent'[a].i = agent[a].i /\ agent'[a].made = made
      BY <1>1, <2>5, Moves DEF Moved
    <3>2. lock'[d] = o /\ \A e \in Docs : lock[e] = o => lock'[e] = o
      BY <1>1, <2>1, <2>3, <2>5 DEF ArmedUpTo
    <3>3. OwnMade(a)'
      BY <1>1, <2>1, <2>3, <3>1, <3>2 DEF OwnMade, made
    <3>4. CASE x = "undoing"
      BY <1>3, <2>2, <3>1, <3>3, <3>4
    <3>5. CASE x = "checked"
      <4>1. \A j \in DOMAIN FilesOf[o] : FilesOf[o][j] \in Docs
        BY ConstantFacts DEF Files
      <4>2. \A e : /\ Kept(o, e)' <=> Kept(o, e)
                   /\ Seen(e, Baseline(o)[e])' <=> Seen(e, Baseline(o)[e])
        BY <1>1, <2>2 DEF Kept, Seen
      <4>3. ArmedUpTo(agent[a].op, agent[a].i)'
        <5>1. lock'[PrimaryOf[o]] = o
          BY <1>1, <2>3, <3>2 DEF ArmedUpTo
        <5>2. ASSUME NEW j \in DOMAIN FilesOf[o], j < agent[a].i
              PROVE  /\ lock'[FilesOf[o][j]] = o /\ Kept(o, FilesOf[o][j])'
                     /\ Seen(FilesOf[o][j], Baseline(o)[FilesOf[o][j]])'
          BY <2>3, <3>2, <4>1, <4>2, <5>2 DEF ArmedUpTo
        <5> QED BY <1>1, <3>1, <5>1, <5>2 DEF ArmedUpTo, Kept, Seen, Baseline
      <4>4. Checked(agent[a].op, agent[a].i)'
        BY <1>1, <2>1, <2>2, <2>5, <3>1, <3>2, <3>5 DEF Checked, Seen, Baseline, d
      <4> QED BY <1>1, <2>2, <3>1, <3>3, <3>5, <4>3, <4>4 DEF SetAt, HoldsSet, ArmPCs
    <3> QED BY <3>4, <3>5
  <2> QED BY <2>2, <2>4, <2>5
<1>9. CASE ArmBackup(a)
  <2> SUFFICES ASSUME NEW n \in Nat, n = agent[a].i, NEW d, d = FilesOf[o][n]
               PROVE  SetAt(a)'
    BY <1>1
  <2> DEFINE made == agent[a].made \union {<<"backup", d>>}
  <2>1. /\ agent[a].pc = "checked" /\ d \in Docs /\ ArmedUpTo(o, n)
        /\ Checked(o, n) /\ OwnMade(a)
    BY <1>1, <1>9, ConstantFacts DEF ArmBackup, SetAt, ArmPCs, Checked, Files
  <2>2. /\ UNCHANGED <<doc, lock, journal>>
        /\ \/ Goto(a, "undoing")
           \/ /\ Baseline(o)[d] = Absent /\ UNCHANGED <<backup, spoilt>>
              /\ GotoAt(a, "arming", n + 1)
           \/ /\ backup' = backup \union {<<o, d>>}
              /\ spoilt' = IF doc[d] = Baseline(o)[d] THEN spoilt
                           ELSE spoilt \union {<<o, d>>}
              /\ <<o, d>> \notin backup
              /\ GotoMade(a, "arming", n + 1, made)
    BY <1>9 DEF ArmBackup
  <2>3. Seen(d, Baseline(o)[d]) /\ lock[d] = o
    BY <2>1 DEF Checked
  <2> HIDE DEF made
  <2>4. CASE Goto(a, "undoing")
    BY <1>4, <2>1, <2>2, <2>4 DEF ArmPCs
  <2>5. ASSUME agent'[a].pc = "arming", agent'[a].i = n + 1,
               agent'[a].made \in {agent[a].made, made},
               Kept(o, d)',
               \A e \in Docs \ {d} : Kept(o, e) => Kept(o, e)'
        PROVE  SetAt(a)'
    <3>1. OwnMade(a)'
      BY <1>1, <2>1, <2>2, <2>5 DEF OwnMade, made
    <3>2. ASSUME NEW j \in DOMAIN FilesOf[o], j < n + 1
          PROVE  /\ lock'[FilesOf[o][j]] = o /\ Kept(o, FilesOf[o][j])'
                 /\ Seen(FilesOf[o][j], Baseline(o)[FilesOf[o][j]])'
      <4>1. j < n \/ j = n
        BY <1>1, <3>2, ConstantFacts, SMT
      <4>2. FilesOf[o][j] \in Docs
        BY ConstantFacts DEF Files
      <4>3. \A e : Seen(e, Baseline(o)[e])' <=> Seen(e, Baseline(o)[e])
        BY <1>1, <2>2 DEF Seen
      <4>4. CASE FilesOf[o][j] = d
        <5>1. Seen(d, Baseline(o)[d])'
          BY <2>3, <4>3
        <5> QED BY <2>2, <2>3, <2>5, <4>4, <5>1 DEF Kept, Seen, Baseline
      <4>5. CASE FilesOf[o][j] # d
        <5>1. j < n
          BY <4>1, <4>5
        <5> QED BY <2>1, <2>2, <2>5, <4>2, <4>3, <4>5, <5>1 DEF ArmedUpTo
      <4> QED BY <4>4, <4>5
    <3>3. ArmedUpTo(o, n + 1)'
      <4>1. lock'[PrimaryOf[o]] = o
        BY <2>1, <2>2 DEF ArmedUpTo
      <4>2. \A j \in DOMAIN FilesOf[o] : j < n + 1 =>
                /\ lock'[FilesOf[o][j]] = o /\ Kept(o, FilesOf[o][j])'
                /\ Seen(FilesOf[o][j], Baseline(o)[FilesOf[o][j]])'
        BY <3>2
      <4> QED BY <4>1, <4>2 DEF ArmedUpTo, Kept, Seen, Baseline
    <3> QED BY <1>5, <2>2, <2>5, <3>1, <3>3
  <2>6. CASE /\ Baseline(o)[d] = Absent /\ UNCHANGED <<backup, spoilt>>
             /\ GotoAt(a, "arming", n + 1)
    <3>1. /\ agent'[a].pc = "arming" /\ agent'[a].i = n + 1
          /\ agent'[a].made = agent[a].made
      <4> DEFINE i == n + 1
      <4> HIDE DEF i
      <4>1. GotoAt(a, "arming", i)
        BY <2>6 DEF i
      <4>2. agent'[a].pc = "arming" /\ agent'[a].i = i /\ agent'[a].made = agent[a].made
        <5>1. Moved(a, "arming", agent[a].mode) /\ agent'[a].i = i /\ KeepsMade(a)
          BY <1>1, <4>1, SMT DEF GotoAt, Moved, KeepsMade, Process
        <5> QED BY <5>1 DEF Moved, KeepsMade
      <4> QED BY <4>2 DEF i
    <3>2. Kept(o, d)' /\ \A e \in Docs : Kept(o, e)' <=> Kept(o, e)
      BY <1>1, <2>2, <2>6 DEF Kept
    <3> QED BY <2>5, <3>1, <3>2
  <2>7. CASE /\ backup' = backup \union {<<o, d>>}
             /\ spoilt' = IF doc[d] = Baseline(o)[d] THEN spoilt
                          ELSE spoilt \union {<<o, d>>}
             /\ <<o, d>> \notin backup
             /\ GotoMade(a, "arming", n + 1, made)
    <3>1. /\ agent'[a].pc = "arming" /\ agent'[a].i = n + 1
          /\ agent'[a].made = made
      <4> DEFINE i == n + 1
      <4> HIDE DEF i
      <4>1. GotoMade(a, "arming", i, made)
        BY <2>7 DEF i
      <4>2. agent'[a].pc = "arming" /\ agent'[a].i = i /\ agent'[a].made = made
        BY <1>1, <4>1, Moves DEF Moved
      <4> QED BY <4>2 DEF i
    <3>2. \A e \in Docs \ {d} : Kept(o, e)' <=> Kept(o, e)
      BY <1>1, <2>2, <2>7 DEF Kept
    <3>3. <<o, d>> \notin spoilt
      BY <2>1, <2>7 DEF SetInv, SetOf
    <3>4. Kept(o, d)'
      BY <1>1, <2>2, <2>3, <2>7, <3>3 DEF Kept, Seen
    <3> QED BY <2>5, <3>1, <3>2, <3>4
  <2> QED BY <2>2, <2>4, <2>6, <2>7
<1>10. CASE ArmJournal(a)
  <2>1. CASE Goto(a, "undoing") /\ UNCHANGED journal
    BY <1>4, <1>10, <2>1 DEF ArmJournal, ArmPCs
  <2>2. CASE /\ journal' = [journal EXCEPT ![PrimaryOf[o]] = o]
             /\ GotoAt(a, "saving", 1)
    <3>1. /\ UNCHANGED <<doc, lock, backup, spoilt, ckpt>>
          /\ agent[a].i > Len(FilesOf[o]) /\ agent[a].pc = "arming"
      BY <1>10 DEF ArmJournal, proofVars
    <3>2. ArmedUpTo(o, agent[a].i)
      BY <1>1, <3>1 DEF SetAt
    <3>3. \A j \in DOMAIN FilesOf[o] : j < agent[a].i
      BY <1>1, <3>1, ConstantFacts, SMT
    <3>4. /\ lock[PrimaryOf[o]] = o
          /\ \A e \in Files(o) : lock[e] = o /\ Kept(o, e)
      BY <3>2, <3>3 DEF ArmedUpTo, Files
    <3>5. \A e \in Files(o) : Kept(o, e)'
      BY <1>1, <3>1, <3>4 DEF Kept
    <3>6. Holding(o)'
      BY <1>1, <2>2, <3>1, <3>4, <3>5 DEF Holding, Members
    <3>7. agent'[a].pc = "saving" /\ Holding(agent[a].op)'
      <4>1. agent'[a].pc = "saving"
        BY <1>1, <2>2, Moves DEF Moved
      <4> QED BY <1>1, <3>6, <4>1
    <3> QED BY <1>1, <3>7 DEF SetAt, EarlyPCs, ArmPCs
  <2> QED BY <1>10, <2>1, <2>2 DEF ArmJournal
<1>11. CASE ArmFails(a)
  BY <1>4, <1>11 DEF ArmFails, sidecarVars, ArmPCs
<1>12. CASE UndoFails(a)
  <2>1. agent'[a].pc = "refused"
    BY <1>1, <1>12, Moves DEF UndoFails, Moved
  <2> QED BY <1>2, <1>12, <2>1 DEF UndoFails, sidecarVars
<1>13. CASE ArmUndo(a)
  <2>1. ~Unlink(a) /\ agent[a].pc = "undoing"
    BY <1>13 DEF ArmUndo, Unlink
  <2>2. PICK path \in Paths, x \in {"refused", "undoing"} :
            /\ Holder(o, path) = o /\ Remove(o, path) /\ path[1] # "journal"
            /\ GotoMade(a, x, agent[a].i, agent[a].made \ {path})
    BY <1>13, <2>1, OwnRemoval
  <2>3. journal' = journal
    BY <2>2 DEF Remove
  <2> DEFINE made == agent[a].made \ {path}
  <2> HIDE DEF made
  <2>4. agent'[a].pc = x /\ agent'[a].made = made
    <3>1. GotoMade(a, x, agent[a].i, made)
      BY <2>2 DEF made
    <3> QED BY <1>1, <3>1, Moves DEF Moved
  <2>5. ASSUME NEW d \in Docs, <<"lock", d>> \in made PROVE lock'[d] = o
    <3>1. lock[d] = o
      BY <1>1, <2>1, <2>5 DEF SetAt, ArmPCs, OwnMade, made
    <3>2. path # <<"lock", d>>
      BY <2>5 DEF made
    <3>3. lock'[d] = lock[d]
      <4>1. path = <<path[1], path[2]>> /\ path[2] \in Docs
        BY <2>2 DEF Paths
      <4>2. path[1] = "lock" => path[2] # d
        BY <3>2, <4>1
      <4> QED BY <1>1, <2>2, <4>1, <4>2 DEF Remove
    <3> QED BY <3>1, <3>3
  <2>6. OwnMade(a)'
    BY <1>1, <2>4, <2>5 DEF OwnMade
  <2> QED BY <1>2, <1>3, <2>3, <2>4, <2>6
<1> QED BY <1>6, <1>7, <1>8, <1>9, <1>10, <1>11, <1>12, <1>13 DEF Arming

\* The process itself: save, verify and restore.
LEMMA SetSave ==
    ASSUME SetInv, NEW a \in Agents,
           \/ Save(a) \/ Verify(a) \/ SaveFails(a) \/ Rollback(a) \/ Restore(a)
           \/ Restored(a) \/ RestoreFails(a)
    PROVE  SetAt(a)'
<1> SUFFICES ASSUME NEW o \in Ops, o = agent[a].op
             PROVE  SetAt(a)'
  BY Others, AtStep DEF SetInv, WholeInv, Attended, Working, Step
<1>1. /\ agent'[a].op = o /\ agent \in [Agents -> Process]
      /\ Writer(a) /\ HoldsSet(a) /\ Holding(o) /\ SetAt(a)
      /\ agent[a].mode # "resolve"
  <2>1. Writer(a) /\ HoldsSet(a)
    BY DEF SetInv, WholeInv, Attended, ModeAt, EarlyPCs, Save, Verify, SaveFails, Rollback,
           Restore, Restored, RestoreFails, Writer, Live, HoldsSet
  <2> QED BY <2>1, Others, AtStep
          DEF SetInv, WholeInv, Attended, Typed, TypeOK, Working, Step, SetAt, HoldsSet
<1>2. UNCHANGED <<lock, journal, backup, spoilt, archive, observed, ckpt, row>>
  BY DEF Save, Verify, SaveFails, Rollback, Restore, Restored, RestoreFails, sidecarVars,
         proofVars
<1>3. Holding(agent[a].op)'
  <2>1. Working(a) /\ ckpt'[o].phase = "none"
    BY <1>1, <1>2 DEF Working, Step, Holding
  <2>2. Holding(o)'
    BY <1>1, <2>1, HoldingKept
  <2> QED BY <1>1, <2>2
<1>4. ASSUME agent'[a].pc \in {"saving", "failing", "closing", "uncertain"}
      PROVE  SetAt(a)'
  BY <1>3, <1>4 DEF SetAt, EarlyPCs, ArmPCs
<1>5. ASSUME agent'[a].pc = "restoring", BackedUp(o) PROVE SetAt(a)'
  <2>1. BackedUp(agent[a].op)'
    BY <1>1, <1>2, <1>5 DEF BackedUp, Baseline, Files
  <2> QED BY <1>3, <1>5, <2>1 DEF SetAt, EarlyPCs, ArmPCs
<1>6. ASSUME Raise(a) PROVE SetAt(a)'
  BY <1>1, <1>4, <1>6, RaiseMoves DEF Moved
<1>7. ASSUME NEW x, NEW i, Goto(a, x) \/ GotoAt(a, x, i) PROVE agent'[a].pc = x
  BY <1>1, <1>7, Moves DEF Moved
<1>8. CASE Save(a) \/ Verify(a) \/ SaveFails(a)
  <2>1. agent'[a].pc \in {"saving", "failing", "closing"}
    BY <1>7, <1>8 DEF Save, Verify, SaveFails
  <2> QED BY <1>4, <2>1
<1>9. CASE Rollback(a)
  <2>1. CASE Raise(a)
    BY <1>6, <2>1
  <2>2. CASE ~Raise(a)
    <3>1. /\ agent'[a].pc = "restoring" /\ ckpt[o].phase = "none" /\ Owned(o)
      BY <1>1, <1>9, <2>2, RollbackMoves DEF Moved
    <3>2. BackedUp(o)
      BY <3>1 DEF Owned
    <3> QED BY <1>5, <3>1, <3>2
  <2> QED BY <2>1, <2>2
<1>10. CASE Restore(a)
  <2>1. agent'[a].pc = "restoring" /\ agent[a].pc = "restoring"
    BY <1>7, <1>10 DEF Restore
  <2> QED BY <1>1, <1>5, <2>1 DEF SetAt
<1>11. CASE Restored(a) \/ RestoreFails(a)
  <2>1. Raise(a) \/ Goto(a, "closing")
    BY <1>11 DEF Restored, RestoreFails
  <2> QED BY <1>4, <1>6, <1>7, <2>1
<1> QED BY <1>8, <1>9, <1>10, <1>11

\* The checkpoint records only sidecars of an operation that holds its set.
LEMMA OwnRecorded ==
    ASSUME NEW o \in Ops, Holding(o)
    PROVE  OwnHeld(o, [i \in DOMAIN CleanupPaths(o) |-> Holder(o, CleanupPaths(o)[i])])
<1> SUFFICES ASSUME NEW i \in DOMAIN CleanupPaths(o)
             PROVE  Holder(o, CleanupPaths(o)[i]) \in {o, None}
  BY DEF OwnHeld
<1>1. PICK path \in Sidecars(o) : path = CleanupPaths(o)[i]
  BY PathsCover, ElementOfSeq
<1>2. CASE path \in {"backup"} \X HadFiles(o)
  BY <1>1, <1>2 DEF Holder
<1>3. CASE path \in {"lock"} \X Members(o)
  BY <1>1, <1>3 DEF Holder, Holding
<1>4. CASE path = <<"journal", PrimaryOf[o]>>
  BY <1>1, <1>4 DEF Holder, Holding
<1> QED BY <1>1, <1>2, <1>3, <1>4 DEF Sidecars

\* The process itself: cleanup.
LEMMA SetCleanup ==
    ASSUME SetInv, NEW a \in Agents,
           \/ CleanupBegin(a) \/ PublishArchive(a) \/ Checkpoint(a) \/ Intend(a)
           \/ Unlink(a) \/ Acknowledge(a) \/ Cleaned(a) \/ CleanupFails(a)
    PROVE  SetAt(a)'
<1> SUFFICES ASSUME NEW o \in Ops, o = agent[a].op
             PROVE  SetAt(a)'
  BY Others, AtStep DEF SetInv, WholeInv, Attended, Working, Step
<1>1. /\ agent'[a].op = o /\ agent \in [Agents -> Process] /\ SetAt(a) /\ Live(a)
      /\ Typed /\ Working(a) /\ SetOf(o) /\ agent[a].i \in Nat
  <2>1. Working(a) /\ Typed
    BY DEF Working, Step, SetInv, WholeInv, Attended
  <2> QED BY <2>1, Others, AtStep DEF SetInv, WholeInv, Attended, Typed, TypeOK, Live
<1>2. row' = row
  BY DEF CleanupBegin, PublishArchive, Checkpoint, Intend, Unlink, Acknowledge, Cleaned,
         CleanupFails
<1>3. CleanupPaths(agent[a].op)' = CleanupPaths(o)
  <2>1. CleanupPaths(o)' = CleanupPaths(o)
    BY <1>2, PathsKept
  <2> QED BY <1>1, <2>1
<1>4. ASSUME agent'[a].pc \in {"uncertain", "completed", "restored", "resolved"}
             \/ (agent'[a].pc = "refused" /\ ~Writer(a)')
      PROVE  SetAt(a)'
  BY <1>4 DEF SetAt, EarlyPCs, ArmPCs, HoldsSet
<1>5. ASSUME Raise(a) PROVE SetAt(a)'
  <2>1. \/ agent'[a].pc = "uncertain"
        \/ agent'[a].pc = "refused" /\ agent'[a].mode = "resolve"
    BY <1>1, <1>5, RaiseMoves DEF Moved
  <2> QED BY <1>4, <2>1 DEF Writer
<1>6. ASSUME NEW x \in {"deleting", "unlinking", "unlinked"}, agent'[a].pc = x,
             NEW held, agent'[a].held = held, OwnHeld(o, held),
             x = "unlinking" => agent'[a].i + 1 \in DOMAIN CleanupPaths(o)
      PROVE  SetAt(a)'
  <2>1. OwnHeld(agent[a].op, agent[a].held)'
    BY <1>1, <1>3, <1>6 DEF OwnHeld
  <2>2. (agent[a].i + 1 \in DOMAIN CleanupPaths(agent[a].op))' <=>
            agent'[a].i + 1 \in DOMAIN CleanupPaths(o)
    BY <1>3
  <2> QED BY <1>6, <2>1, <2>2 DEF SetAt, EarlyPCs, ArmPCs, HoldsSet
<1>7. CASE CleanupBegin(a)
  <2>1. CASE Goto(a, "archiving") /\ Decidable(a) /\ ckpt[o].phase = "none"
    <3>1. agent'[a].pc = "archiving"
      BY <1>1, <2>1, Moves DEF Moved
    <3>2. Holding(o)
      BY <2>1 DEF Decidable, Owned, BackedUp, Holding, Kept
    <3>3. UNCHANGED <<doc, sidecarVars, ckpt, row>>
      BY <1>7 DEF CleanupBegin
    <3>4. Holding(o)'
      BY <1>1, <3>2, <3>3, HoldingKept DEF Holding
    <3>5. Holding(agent[a].op)'
      BY <1>1, <3>4
    <3> QED BY <3>1, <3>5 DEF SetAt, EarlyPCs, ArmPCs
  <2>2. CASE /\ ckpt[o].phase # "none" /\ Moved(a, "deleting", agent[a].mode)
             /\ agent'[a].held = ckpt[o].held
    <3>1. OwnHeld(o, ckpt[o].held)
      BY <1>1, <2>2 DEF SetOf
    <3> QED BY <1>6, <2>2, <3>1 DEF Moved
  <2> QED BY <1>1, <1>5, <1>7, <2>1, <2>2, CleanupMoves
<1>8. CASE PublishArchive(a)
  <2>1. UNCHANGED <<doc, sidecarVars, ckpt, row, agent>> /\ agent[a].pc = "archiving"
    BY <1>8 DEF PublishArchive
  <2>2. Holding(o)
    BY <1>1, <2>1 DEF SetAt
  <2>3. Holding(o)'
    BY <1>1, <2>1, <2>2, HoldingKept DEF Holding
  <2>4. Holding(agent[a].op)' /\ agent'[a].pc = "archiving"
    BY <1>1, <2>1, <2>3
  <2> QED BY <2>4 DEF SetAt, EarlyPCs, ArmPCs
<1>9. CASE Checkpoint(a)
  <2> DEFINE now == [i \in DOMAIN CleanupPaths(o) |-> Holder(o, CleanupPaths(o)[i])]
  <2>1. Moved(a, "deleting", agent[a].mode) /\ agent'[a].held = now
    BY <1>1, <1>9, CleanupMoves
  <2>2. OwnHeld(o, now)
    <3>1. Holding(o)
      BY <1>1, <1>9 DEF Checkpoint, SetAt
    <3> QED BY <3>1, OwnRecorded
  <2>3. PICK held : held = now
    OBVIOUS
  <2> HIDE DEF now
  <2> QED BY <1>6, <2>1, <2>2, <2>3 DEF Moved
<1>10. CASE Intend(a)
  <2>1. CASE Raise(a)
    BY <1>5, <2>1
  <2>2. CASE ~Raise(a)
    <3>1. /\ Moved(a, "unlinking", agent[a].mode) /\ agent'[a].i = agent[a].i
          /\ agent'[a].held = agent[a].held
      BY <1>1, <1>10, <2>2, CleanupMoves
    <3>2. agent[a].pc = "deleting" /\ agent[a].i < Len(CleanupPaths(o))
      BY <1>10 DEF Intend
    <3>3. agent[a].i + 1 \in DOMAIN CleanupPaths(o)
      <4>1. DOMAIN CleanupPaths(o) = 1..Len(CleanupPaths(o))
        BY PathsCover, LenProperties
      <4> QED BY <1>1, <3>2, <4>1, PathsCover
    <3>4. PICK held : held = agent[a].held /\ OwnHeld(o, held)
      BY <1>1, <3>2 DEF SetAt
    <3> QED BY <1>6, <3>1, <3>3, <3>4 DEF Moved
  <2> QED BY <2>1, <2>2
<1>11. CASE Unlink(a)
  <2>1. Moved(a, "unlinked", agent[a].mode) /\ agent'[a].held = agent[a].held
    BY <1>1, <1>11, Moves DEF Unlink, KeepsRest
  <2>2. agent[a].pc = "unlinking"
    BY <1>11 DEF Unlink
  <2>3. PICK held : held = agent[a].held /\ OwnHeld(o, held)
    BY <1>1, <2>2 DEF SetAt
  <2> QED BY <1>6, <2>1, <2>3 DEF Moved
<1>12. CASE Acknowledge(a)
  <2>1. Moved(a, "deleting", agent[a].mode) /\ agent'[a].held = agent[a].held
    BY <1>1, <1>12, CleanupMoves
  <2>2. agent[a].pc = "unlinked"
    BY <1>12 DEF Acknowledge
  <2>3. PICK held : held = agent[a].held /\ OwnHeld(o, held)
    BY <1>1, <2>2 DEF SetAt
  <2> QED BY <1>6, <2>1, <2>3 DEF Moved
<1>13. CASE Cleaned(a)
  <2>1. agent[a].mode \in {"commit", "rollback", "resolve"}
    BY <1>1, AtStep DEF Live
  <2>2. ASSUME NEW x, Goto(a, x) PROVE agent'[a].pc = x
    BY <1>1, <2>2, Moves DEF Moved
  <2>3. agent'[a].pc \in {"completed", "restored", "resolved"}
    BY <1>13, <2>1, <2>2 DEF Cleaned
  <2> QED BY <1>4, <2>3
<1>14. CASE CleanupFails(a)
  BY <1>5, <1>14 DEF CleanupFails
<1> QED BY <1>7, <1>8, <1>9, <1>10, <1>11, <1>12, <1>13, <1>14

\* The process itself, in any step of its own.
LEMMA SetOwn ==
    ASSUME SetInv, NEW a \in Agents, Working(a)
    PROVE  SetAt(a)'
<1>1. CASE \/ Undispatch(a) \/ Finish(a) \/ Resolve(a) \/ ResolveRefused(a) \/ Crash(a)
  <2>1. agent'[a].pc = "exited"
    BY <1>1, Ends DEF SetInv, WholeInv, Attended
  <2> QED BY <2>1 DEF SetAt, HoldsSet, Writer, Live
<1> QED BY <1>1, SetArm, SetSave, SetCleanup DEF Working, Step, Arming

\* The operations.
LEMMA SetOfKept ==
    ASSUME SetInv, NEW a \in Agents, Working(a), NEW o \in Ops
    PROVE  SetOf(o)'
<1>1. /\ Typed /\ SetOf(o) /\ SetAt(a) /\ SetAt(a)' /\ ModeAt(a) /\ Live(a)
      /\ row'[o].baseline = row[o].baseline /\ agent'[a].op = agent[a].op
      /\ o # agent[a].op => row'[o] = row[o] /\ ckpt'[o] = ckpt[o]
      /\ ckpt[o].phase # "none" => ckpt'[o].phase # "none"
      /\ PrimaryOf[o] \in Docs
  BY Others, OwnRecords, SetOwn, ConstantFacts DEF SetInv, WholeInv, Attended, Live
<1>2. o # agent[a].op => /\ journal'[PrimaryOf[o]] = o <=> journal[PrimaryOf[o]] = o
                         /\ \A d \in Docs : /\ <<o, d>> \in backup' <=> <<o, d>> \in backup
                                            /\ <<o, d>> \in spoilt' <=> <<o, d>> \in spoilt
  BY <1>1, OwnSidecars
<1>3. ASSUME row'[o].status = "planned" PROVE journal'[PrimaryOf[o]] # o
  <2>1. CASE o # agent[a].op
    BY <1>1, <1>2, <1>3, <2>1 DEF SetOf
  <2>2. CASE o = agent[a].op
    <3>1. Undispatch(a)
      BY <1>3, <2>2, StoredBy DEF SetInv, WholeInv
    <3>2. Writer(a) /\ agent[a].pc = "refused"
      BY <1>1, <3>1 DEF Undispatch, Writer
    <3> QED BY <1>1, <2>2, <3>1, <3>2 DEF SetAt, Undispatch, sidecarVars
  <2> QED BY <2>1, <2>2
<1>4. ASSUME journal'[PrimaryOf[o]] = o, ckpt'[o].phase = "none" PROVE Holding(o)'
  <2>1. ckpt[o].phase = "none"
    BY <1>1, <1>4
  <2>2. CASE journal[PrimaryOf[o]] = o
    <3>1. Holding(o)
      BY <1>1, <2>1, <2>2 DEF SetOf
    <3> QED BY <1>4, <3>1, HoldingKept
  <2>3. CASE journal[PrimaryOf[o]] # o
    <3>1. o = agent[a].op
      BY <1>2, <1>4, <2>3
    <3>2. ~Unlink(a)
      BY <2>1, <3>1 DEF Unlink, SetInv, WholeInv, WholeAt, Live, DecidedPCs
    <3>3. Arming(a)
      BY <1>1, <1>4, <2>3, <3>2, Changes DEF sidecarVars
    <3>4. ~ArmUndo(a)
      <4>1. ArmUndo(a) => journal' = journal
        BY <3>1, <3>2, OwnRemoval DEF Remove
      <4> QED BY <1>4, <2>3, <4>1
    <3>5. GotoAt(a, "saving", 1) /\ agent[a].pc = "arming"
      BY <1>4, <2>3, <3>3, <3>4
      DEF Arming, ArmPrimary, ArmLock, ArmBackup, ArmJournal, ArmFails, UndoFails, sidecarVars
    <3>6. agent'[a].pc = "saving" /\ agent'[a].mode = "commit"
      BY <1>1, <3>5, Moves DEF Moved, ModeAt, EarlyPCs, ArmPCs, Typed, TypeOK
    <3>7. Holding(agent[a].op)'
      BY <1>1, <3>6 DEF SetAt, Writer, HoldsSet, Live
    <3> QED BY <1>1, <3>1, <3>7
  <2> QED BY <2>2, <2>3
<1>5. ASSUME ckpt'[o].phase # "none" PROVE OwnHeld(o, ckpt[o].held)'
  <2>1. ASSUME NEW held, ckpt'[o].held = held, OwnHeld(o, held)
        PROVE  OwnHeld(o, ckpt[o].held)'
    <3>1. CleanupPaths(o)' = CleanupPaths(o)
      BY <1>1, PathsKept
    <3> QED BY <2>1, <3>1 DEF OwnHeld
  <2>2. CASE ckpt'[o] = ckpt[o]
    BY <1>1, <1>5, <2>1, <2>2 DEF SetOf
  <2>3. CASE ckpt'[o] # ckpt[o]
    <3>1. o = agent[a].op /\ (Checkpoint(a) \/ Intend(a) \/ Acknowledge(a) \/ Cleaned(a))
      BY <1>1, <2>3, Changes
    <3>2. ASSUME NEW x, NEW n, NEW p, NEW held, Persist(a, x, n, p, held)
          PROVE  ckpt'[o].held = held
      <4> DEFINE r == [phase |-> x, cursor |-> n, pending |-> p, held |-> held]
      <4>1. ckpt' = [ckpt EXCEPT ![o] = r] /\ r.held = held
        BY <3>1, <3>2 DEF Persist
      <4> HIDE DEF r
      <4> QED BY <1>1, <4>1 DEF Typed, TypeOK
    <3>3. CASE Checkpoint(a)
      <4> DEFINE now == [i \in DOMAIN CleanupPaths(o) |-> Holder(o, CleanupPaths(o)[i])]
      <4>1. Persist(a, "cleaning", 0, FALSE, now) /\ agent[a].pc = "archiving"
        BY <3>1, <3>3, Zenon DEF Checkpoint
      <4>2. OwnHeld(o, now)
        BY <1>1, <3>1, <4>1, OwnRecorded DEF SetAt
      <4> HIDE DEF now
      <4> QED BY <2>1, <3>2, <4>1, <4>2
    <3>4. CASE Intend(a) \/ Acknowledge(a) \/ Cleaned(a)
      <4>1. /\ agent[a].pc \in {"deleting", "unlinked"}
            /\ \E x, n, p : Persist(a, x, n, p, agent[a].held)
        BY <2>3, <3>4, Zenon DEF Intend, Acknowledge, Cleaned
      <4>2. OwnHeld(o, agent[a].held)
        BY <1>1, <3>1, <4>1 DEF SetAt
      <4> QED BY <2>1, <3>2, <4>1, <4>2
    <3> QED BY <3>1, <3>3, <3>4
  <2> QED BY <2>2, <2>3
<1>6. ASSUME NEW d \in Docs, <<o, d>> \in spoilt' PROVE <<o, d>> \in backup'
  <2>1. <<o, d>> \in spoilt => <<o, d>> \in backup
    BY <1>1 DEF SetOf
  <2>2. CASE o # agent[a].op
    BY <1>2, <1>6, <2>1, <2>2
  <2>3. CASE o = agent[a].op
    <3>1. CASE UNCHANGED <<backup, spoilt>>
      BY <1>6, <2>1, <3>1
    <3>2. ASSUME NEW path, Remove(o, path) PROVE <<o, d>> \in backup'
      BY <1>6, <2>1, <3>2 DEF Remove
    <3>3. CASE ArmUndo(a) \/ Unlink(a)
      BY <2>3, <3>1, <3>2, <3>3, OwnRemoval DEF sidecarVars
    <3>4. CASE ArmBackup(a)
      <4> DEFINE f == FilesOf[o][agent[a].i]
      <4>1. \/ UNCHANGED <<backup, spoilt>>
            \/ /\ backup' = backup \union {<<o, f>>}
               /\ spoilt' \in {spoilt, spoilt \union {<<o, f>>}}
        BY <2>3, <3>4 DEF ArmBackup
      <4> HIDE DEF f
      <4> QED BY <1>6, <2>1, <4>1
    <3>5. CASE ArmPrimary(a) \/ ArmLock(a) \/ ArmJournal(a) \/ ArmFails(a) \/ UndoFails(a)
      <4>1. UNCHANGED <<backup, spoilt>>
        BY <3>5 DEF ArmPrimary, ArmLock, ArmJournal, ArmFails, UndoFails, sidecarVars
      <4> QED BY <3>1, <4>1
    <3> QED BY <1>1, <3>1, <3>3, <3>4, <3>5, Changes DEF Arming, sidecarVars
  <2> QED BY <2>2, <2>3
<1> QED BY <1>3, <1>4, <1>5, <1>6 DEF SetOf

LEMMA SetWorking ==
    ASSUME SetInv, NEW a \in Agents, Working(a)
    PROVE  SetInv'
<1>1. WholeInv'
  BY AttendedWorking, WholeOwn, WholeOthers, WholeOfKept DEF SetInv, WholeInv
<1>2. OnlyResolver'
  <2>1. \A b \in Agents : Resolver(b)' => Resolver(b)
    BY Others DEF SetInv, WholeInv, Attended, Resolver, Live
  <2> QED BY <2>1 DEF SetInv, OnlyResolver
<1>3. \A b \in Agents : SetAt(b)'
  BY SetOwn, SetOthers
<1>4. \A o \in Ops : SetOf(o)'
  BY SetOfKept
<1> QED BY <1>1, <1>2, <1>3, <1>4 DEF SetInv

\* What is not of a process keeps the sidecars, and spoils no document of a set.
LEMMA SetFrame ==
    ASSUME SetInv, UNCHANGED <<lock, journal, backup, spoilt, ckpt>>,
           NEW o \in Ops, row'[o].baseline = row[o].baseline,
           HasBase(o) => \A d \in Files(o) :
               doc'[d] = doc[d] \/ doc'[d] \in Edits \ {Baseline(o)[d]}
    PROVE  /\ (row'[o].status = "planned" => row[o].status = "planned") => SetOf(o)'
           /\ \A b \in Agents : agent'[b] = agent[b] /\ agent[b].op = o => SetAt(b)'
<1>1. /\ Baseline(o)' = Baseline(o) /\ CleanupPaths(o)' = CleanupPaths(o)
      /\ Typed /\ SetOf(o)
  BY PathsKept DEF Baseline, SetInv, WholeInv, Attended
<1>2. HasBase(o) => \A d \in Files(o) :
          /\ Kept(o, d) => Kept(o, d)'
          /\ Seen(d, Baseline(o)[d]) => Seen(d, Baseline(o)[d])'
  BY <1>1 DEF Kept, Seen
<1>3. HasBase(o) => (Holding(o) => Holding(o)')
  BY <1>1, <1>2 DEF Holding
<1>4. ASSUME row'[o].status = "planned" => row[o].status = "planned"
      PROVE  SetOf(o)'
  <2>1. OwnHeld(o, ckpt[o].held)' <=> OwnHeld(o, ckpt[o].held)
    BY <1>1 DEF OwnHeld
  <2>2. journal[PrimaryOf[o]] = o => HasBase(o)
    BY <1>1 DEF SetOf, Typed, Bound
  <2> QED BY <1>1, <1>3, <1>4, <2>1, <2>2 DEF SetOf
<1>5. ASSUME NEW b \in Agents, agent'[b] = agent[b], agent[b].op = o
      PROVE  SetAt(b)'
  <2>1. CASE agent[b].pc = "idle"
    BY <1>5, <2>1 DEF SetAt, Writer, HoldsSet, Live
  <2>2. CASE agent[b].pc # "idle"
    <3>1. HasBase(o)
      BY <1>1, <1>5, <2>2 DEF Typed, Bound
    <3>2. \A j \in DOMAIN FilesOf[o] : FilesOf[o][j] \in Files(o)
      BY DEF Files
    <3>3. ArmedUpTo(o, agent[b].i) => ArmedUpTo(agent[b].op, agent[b].i)'
      BY <1>1, <1>2, <1>5, <3>1, <3>2 DEF ArmedUpTo, Kept, Seen
    <3>4. Checked(o, agent[b].i) => Checked(agent[b].op, agent[b].i)'
      BY <1>1, <1>2, <1>5, <3>1, <3>2 DEF Checked, Seen
    <3>5. /\ Holding(o) => Holding(agent[b].op)'
          /\ BackedUp(o) => BackedUp(agent[b].op)'
          /\ OwnMade(b) => OwnMade(b)'
          /\ OwnHeld(o, agent[b].held) => OwnHeld(agent[b].op, agent[b].held)'
          /\ CleanupPaths(agent[b].op)' = CleanupPaths(o)
      BY <1>1, <1>3, <1>5, <3>1 DEF BackedUp, OwnMade, OwnHeld
    <3>6. /\ Writer(b)' <=> Writer(b)
          /\ HoldsSet(b)' <=> HoldsSet(b)
      BY <1>5 DEF HoldsSet, Writer, Live
    <3>7. SetAt(b)
      BY DEF SetInv
    <3> QED BY <1>1, <1>5, <3>3, <3>4, <3>5, <3>6, <3>7 DEF SetAt
  <2> QED BY <2>1, <2>2
<1> QED BY <1>4, <1>5

\* A step that starts a process, deletes a row or edits a document.
LEMMA SetRest ==
    ASSUME SetInv, OneResolver,
           \/ \E a \in Agents, o \in Ops : Confirm(a, o) \/ ResolveBegin(a, o)
           \/ \E o \in Ops : Prune(o)
           \/ \E d \in Docs, e \in Edits : Edit(d, e)
    PROVE  SetInv'
<1>1. WholeInv' /\ Attended /\ Typed /\ \A b \in Agents : agent[b].op \in Ops \union {None}
  BY WholeRest, SMT DEF SetInv, WholeInv, Attended, Typed, TypeOK, Process
<1>2. row \in [Ops -> Row] /\ agent \in [Agents -> Process]
  BY <1>1 DEF Typed, TypeOK
<1>3. UNCHANGED <<lock, journal, backup, spoilt, ckpt>>
  BY DEF Confirm, ResolveBegin, Prune, Edit, sidecarVars, proofVars
<1>4. ASSUME NEW b \in Agents, agent'[b] = agent[b], doc' = doc,
             Live(b) => row'[agent[b].op].baseline = row[agent[b].op].baseline
      PROVE  SetAt(b)'
  <2>1. CASE Live(b)
    <3>1. agent[b].op \in Ops
      BY <1>1, <2>1, AtStep DEF Live
    <3> QED BY <1>3, <1>4, <2>1, <3>1, SetFrame
  <2>2. CASE ~Live(b)
    BY <1>4, <2>2 DEF SetAt, Writer, HoldsSet, Live
  <2> QED BY <2>1, <2>2
<1>5. ASSUME NEW o \in Ops, row'[o].baseline = row[o].baseline, doc' = doc,
             row'[o].status \in {row[o].status, "pruned", "dispatched"}
      PROVE  SetOf(o)'
  BY <1>3, <1>5, SetFrame
<1>6. ASSUME NEW a \in Agents, NEW o \in Ops, Confirm(a, o) PROVE SetInv'
  <2>0. /\ row' = [row EXCEPT ![o] = [@ EXCEPT !.status = "dispatched",
                                               !.writer = a,
                                               !.baseline = Current(o)]]
        /\ agent' = [agent EXCEPT ![a] = [@ EXCEPT !.pc = "confirmed",
                                                   !.op = o, !.mode = "commit"]]
        /\ agent[a].pc = "idle" /\ row[o].status = "planned" /\ doc' = doc
    BY <1>6 DEF Confirm
  <2>1. /\ agent'[a].pc = "confirmed" /\ agent'[a].op = o /\ agent'[a].mode = "commit"
        /\ \A b \in Agents \ {a} : agent'[b] = agent[b]
    BY <1>2, <2>0, SMT DEF Process
  <2>2. /\ row'[o].status = "dispatched"
        /\ \A x \in Ops \ {o} : row'[x] = row[x]
    BY <1>2, <2>0, SMT DEF Row
  <2>3. journal[PrimaryOf[o]] # o /\ ckpt[o].phase = "none" /\ SetOf(o)
    BY <2>0 DEF SetInv, SetOf, WholeInv, WholeOf
  <2>4. SetAt(a)'
    BY <1>3, <2>1, <2>3 DEF SetAt, HoldsSet, ArmPCs
  <2>5. ASSUME NEW b \in Agents \ {a} PROVE SetAt(b)'
    <3>1. Live(b) => agent[b].op # o /\ agent[b].op \in Ops
      <4>1. Live(b) => agent[b].mode \in {"commit", "rollback", "resolve"}
                       /\ agent[b].op \in Ops
        BY <1>1, AtStep DEF Live
      <4> QED BY <1>1, <2>0, <4>1 DEF Attended, AttendedBy, Writer, Resolver
    <3> QED BY <1>4, <2>0, <2>1, <2>2, <3>1
  <2>6. SetOf(o)'
    BY <1>3, <2>2, <2>3 DEF SetOf
  <2>7. \A x \in Ops \ {o} : SetOf(x)'
    BY <1>5, <2>0, <2>2
  <2>8. OnlyResolver'
    BY <2>1 DEF SetInv, OnlyResolver, Resolver, Live
  <2> QED BY <1>1, <2>4, <2>5, <2>6, <2>7, <2>8 DEF SetInv
<1>7. ASSUME NEW a \in Agents, NEW o \in Ops, ResolveBegin(a, o) PROVE SetInv'
  <2>0. agent' = [agent EXCEPT ![a] = [@ EXCEPT !.pc = "closing", !.op = o,
                                                !.mode = "resolve",
                                                !.seen = Current(o)]]
        /\ row' = row /\ doc' = doc
        /\ \A b \in Agents : Alive(b) => agent[b].mode # "resolve"
    BY <1>7 DEF ResolveBegin
  <2>1. /\ agent'[a].pc = "closing" /\ agent'[a].mode = "resolve"
        /\ \A b \in Agents \ {a} : agent'[b] = agent[b]
    BY <1>2, <2>0, SMT DEF Process
  <2>2. SetAt(a)'
    BY <2>1 DEF SetAt, Writer, HoldsSet
  <2>3. \A b \in Agents \ {a} : SetAt(b)'
    BY <1>4, <2>0, <2>1
  <2>4. \A x \in Ops : SetOf(x)'
    BY <1>5, <2>0
  <2>5. OnlyResolver'
    BY <2>0, <2>1 DEF OnlyResolver, Resolver, Live, Alive
  <2> QED BY <1>1, <2>2, <2>3, <2>4, <2>5 DEF SetInv
<1>8. ASSUME NEW o \in Ops, Prune(o) PROVE SetInv'
  <2>1. /\ row'[o].status = "pruned" /\ row'[o].baseline = row[o].baseline
        /\ \A x \in Ops \ {o} : row'[x] = row[x]
        /\ agent' = agent /\ doc' = doc
    BY <1>2, <1>8, SMT DEF Prune, Row
  <2>2. ASSUME NEW b \in Agents PROVE SetAt(b)'
    <3>1. Live(b) => agent[b].op \in Ops
      BY <1>1, AtStep DEF Live
    <3> QED BY <1>4, <2>1, <3>1
  <2>3. \A x \in Ops : SetOf(x)'
    BY <1>5, <2>1
  <2>4. OnlyResolver'
    BY <2>1 DEF SetInv, OnlyResolver, Resolver, Live
  <2> QED BY <1>1, <2>2, <2>3, <2>4 DEF SetInv
<1>9. ASSUME NEW d \in Docs, NEW e \in Edits, Edit(d, e) PROVE SetInv'
  <2>1. row' = row /\ agent' = agent /\ doc' = [doc EXCEPT ![d] = e]
        /\ \A o \in Ops : d \in DOMAIN Baseline(o) => Baseline(o)[d] # e
    BY <1>9 DEF Edit
  <2>2. ASSUME NEW o \in Ops, HasBase(o), NEW x \in Files(o)
        PROVE  doc'[x] = doc[x] \/ doc'[x] \in Edits \ {Baseline(o)[x]}
    <3>1. doc \in [Docs -> Bytes] /\ x \in Docs /\ DOMAIN Baseline(o) = Files(o)
      BY <1>1, <2>2, ConstantFacts DEF Typed, TypeOK, HasBase, Baseline
    <3> QED BY <2>1, <3>1
  <2>3. ASSUME NEW b \in Agents PROVE SetAt(b)'
    <3>1. CASE Live(b)
      <4>1. agent[b].op \in Ops
        BY <1>1, <3>1, AtStep DEF Live
      <4> QED BY <1>3, <2>1, <2>2, <4>1, SetFrame
    <3>2. CASE ~Live(b)
      BY <2>1, <3>2 DEF SetAt, Writer, HoldsSet, Live
    <3> QED BY <3>1, <3>2
  <2>4. \A x \in Ops : SetOf(x)'
    BY <1>3, <2>1, <2>2, SetFrame
  <2>5. OnlyResolver'
    BY <2>1 DEF SetInv, OnlyResolver, Resolver, Live
  <2> QED BY <1>1, <2>3, <2>4, <2>5 DEF SetInv
<1> QED BY <1>6, <1>7, <1>8, <1>9

LEMMA SetNext == OneResolver /\ SetInv /\ [Next]_vars => SetInv'
<1>1. ASSUME SetInv, UNCHANGED vars PROVE SetInv'
  <2>1. WholeInv'
    BY <1>1, WholeNext DEF SetInv
  <2>2. UNCHANGED <<doc, lock, journal, backup, spoilt, ckpt, row, agent>>
    BY <1>1 DEF vars, sidecarVars, proofVars
  <2>3. ASSUME NEW b \in Agents PROVE SetAt(b)'
    <3>1. CASE Live(b)
      <4>1. agent[b].op \in Ops
        BY <1>1, <3>1, AtStep DEF Live, SetInv, WholeInv, Attended
      <4> QED BY <1>1, <2>2, <4>1, SetFrame
    <3>2. CASE ~Live(b)
      BY <2>2, <3>2 DEF SetAt, Writer, HoldsSet, Live
    <3> QED BY <3>1, <3>2
  <2>4. \A o \in Ops : SetOf(o)'
    BY <1>1, <2>2, SetFrame
  <2>5. OnlyResolver'
    BY <1>1, <2>2 DEF SetInv, OnlyResolver, Resolver, Live
  <2> QED BY <2>1, <2>3, <2>4, <2>5 DEF SetInv
<1>2. ASSUME OneResolver, SetInv, Next PROVE SetInv'
  BY <1>2, SetWorking, SetRest DEF Next, Working
<1> QED BY <1>1, <1>2

LEMMA SetAlways == OneResolver => (Spec => []SetInv)
<1>1. SUFFICES ASSUME OneResolver PROVE Spec => []SetInv
  OBVIOUS
<1>2. Init => SetInv
  BY <1>1, SetInit
<1>3. SetInv /\ [Next]_vars => SetInv'
  BY <1>1, SetNext
<1> QED BY <1>2, <1>3, PTL DEF Spec

-----------------------------------------------------------------------------
(* The properties.                                                          *)

\* Two processes never both hold a document, whatever the sets and however many
\* processes there are: who holds it has its lock, and one process per row.  With
\* two resolutions at a time a lock of another operation may be deleted.
THEOREM WritersDisjoint == OneResolver => (Spec => []DisjointWriters)
<1>1. ASSUME SetInv PROVE DisjointWriters
  <2> SUFFICES ASSUME NEW a \in Agents, NEW b \in Agents, HoldsSet(a), HoldsSet(b),
                      NEW d \in Members(agent[a].op) \cap Members(agent[b].op)
               PROVE  a = b
    BY DEF DisjointWriters
  <2>1. Writer(a) /\ Writer(b)
    BY DEF Writer, Live, HoldsSet
  <2>2. lock[d] = agent[a].op /\ lock[d] = agent[b].op
    BY <1>1, <2>1 DEF SetInv, SetAt, Holding
  <2> QED BY <1>1, <2>1, <2>2, Sole DEF Writer
<1> QED BY <1>1, SetAlways, PTL

\* From the journal of arm on, the old bytes of each document are in a backup or
\* in the archive, at every point where a process may die, unless an editor
\* replaced them before arm read its backup; then it never writes that document.
THEOREM BaselinesKept == OneResolver => (Spec => []BaselineKept)
<1>1. ASSUME SetInv PROVE BaselineKept
  BY <1>1 DEF SetInv, SetOf, WholeInv, WholeOf, BaselineKept, Archived, Holding, Kept
<1> QED BY <1>1, SetAlways, PTL

\* Only the operation of the process is taken off the disk: no lock and no journal
\* is deleted by the undo of arm or by a cleanup of another operation.
THEOREM OwnFilesDeleted == OneResolver => (Spec => CleansOnlyOwn)
<1>1. ASSUME SetInv, [Next]_vars, NEW d \in Docs,
             NEW old \in ({lock[d]} \ {lock'[d]}) \union ({journal[d]} \ {journal'[d]}),
             old # None
      PROVE  \E a \in Agents : agent'[a] # agent[a] /\ agent[a].op = old
  <2>0. \/ lock[d] = old /\ lock'[d] # old
        \/ journal[d] = old /\ journal'[d] # old
    BY <1>1
  <2>00. old \in Ops
    <3>1. lock[d] \in Ops \union {None} /\ journal[d] \in Ops \union {None}
      BY <1>1 DEF SetInv, WholeInv, Attended, Typed, TypeOK
    <3> QED BY <1>1, <2>0, <3>1
  <2>1. PICK a \in Agents : Working(a)
    BY <1>1, <2>0 DEF Next, vars, Confirm, ResolveBegin, Prune, Edit, Working, sidecarVars
  <2>2. agent[a].op = old
    BY <1>1, <2>0, <2>00, <2>1, OwnSidecars
  <2>3. /\ agent \in [Agents -> Process] /\ Typed
        /\ lock \in [Docs -> Ops \union {None}] /\ journal \in [Docs -> Ops \union {None}]
    BY <1>1 DEF SetInv, WholeInv, Attended, Typed, TypeOK
  <2>4. ~Unlink(a) => Arming(a)
    BY <2>0, <2>1, <2>3, Changes DEF sidecarVars
  <2>5. CASE Unlink(a)
    <3>1. agent[a].pc = "unlinking" /\ Goto(a, "unlinked")
      BY <2>5 DEF Unlink
    <3>2. agent'[a].pc = "unlinked"
      BY <2>3, <3>1, Moves DEF Moved
    <3> QED BY <2>2, <3>1, <3>2
  <2>6. CASE ArmUndo(a) /\ ~Unlink(a)
    <3>1. PICK path, x : /\ path \in agent[a].made
                         /\ GotoMade(a, x, agent[a].i, agent[a].made \ {path})
      <4>1. SetInv /\ ArmUndo(a) /\ ~Unlink(a) /\ old = agent[a].op /\ old \in Ops
        BY <1>1, <2>00, <2>2, <2>6
      <4>2. \E path \in Paths :
               /\ path \in agent[a].made
               /\ \E x \in {"refused", "undoing"} :
                     GotoMade(a, x, agent[a].i, agent[a].made \ {path})
        BY <4>1, OwnRemoval
      <4> QED BY <4>2
    <3> DEFINE made == agent[a].made \ {path}
    <3> HIDE DEF made
    <3>2. GotoMade(a, x, agent[a].i, made)
      BY <3>1 DEF made
    <3>3. agent'[a].made = made
      BY <2>3, <3>2, Moves
    <3>4. made # agent[a].made
      BY <3>1 DEF made
    <3> QED BY <2>2, <3>3, <3>4
  <2>7. CASE ArmPrimary(a) \/ ArmJournal(a)
    BY <2>0, <2>2, <2>3, <2>7 DEF ArmPrimary, ArmJournal, Taken
  <2>8. CASE ArmLock(a)
    <3> DEFINE f == FilesOf[agent[a].op][agent[a].i]
    <3>1. /\ journal' = journal
          /\ lock' = lock \/ lock' = [lock EXCEPT ![f] = agent[a].op]
      BY <2>8 DEF ArmLock
    <3> HIDE DEF f
    <3> QED BY <2>0, <2>2, <2>3, <3>1
  <2>9. CASE ArmBackup(a) \/ ArmFails(a) \/ UndoFails(a)
    BY <2>0, <2>9 DEF ArmBackup, ArmFails, UndoFails, sidecarVars
  <2> QED BY <2>4, <2>5, <2>6, <2>7, <2>8, <2>9 DEF Arming
<1>2. SetInv /\ [Next]_vars =>
        \A d \in Docs :
            \A old \in ({lock[d]} \ {lock'[d]}) \union ({journal[d]} \ {journal'[d]}) :
                old # None => \E a \in Agents : /\ agent'[a] # agent[a]
                                                /\ agent[a].op = old
  BY <1>1
<1> QED BY <1>2, SetAlways, PTL DEF Spec, CleansOnlyOwn
=============================================================================
