---------------------------- MODULE NativeStoreProofs ----------------------------
(***************************************************************************)
(* Proofs about NativeStore: what an open store reads, what the next open  *)
(* would recover and what is handed out as new agree at every moment, and  *)
(* the files implement the store without files.                            *)
(*                                                                         *)
(* The invariant says, for each phase of a call, what is left of its plan  *)
(* (StoreDiskProofs) and which files are whole.  What holds in every phase *)
(* is that the counter file, as recovery would see it, is ahead of every   *)
(* id in the files and of every id a caller was told of.                   *)
(***************************************************************************)
EXTENDS NativeStore, StoreDiskProofs

-----------------------------------------------------------------------------
\* The files of a save, and what files may hold

AllTargets == Append(Group, Counters)
SavedFiles == ToSet(Group) \cup {Counters}
SaveManifest == FullManifest(AllTargets)

ContentsOf ==
    [f \in Files |-> IF f = Counters THEN {{n} : n \in 1 .. MaxId + 1} \cup {Absent}
                     ELSE (SUBSET (Ids \cup {Torn})) \cup {Absent}]

IsStore(d) == IsDisk(d, Files, ContentsOf)

\* What a save writes.
NewContents(id, next) == [f \in SavedFiles |-> IF f = Counters THEN {next} ELSE {id}]

-----------------------------------------------------------------------------
\* The invariant

IsTask(t) ==
    /\ t = [phase |-> t.phase, call |-> t.call, id |-> t.id, plan |-> t.plan, answer |-> t.answer]
    /\ t.phase \in Phases
    /\ t.id \in 0 .. MaxId

\* The ids in the files, as recovery would see them; n is new to k and to them.
IdsIn(d) == UNION {View(d, f) : f \in DataFiles}
FreshFor(d, k, n) == \A id \in k \cup IdsIn(d) : id < n

\* Whatever the process was doing, the directory can be recovered.
Sound(d) ==
    /\ d.manifest \in {NoManifest, SaveManifest}
    /\ d.manifest = SaveManifest =>
           /\ \A f \in SavedFiles : Kept(d, f) # Absent
           /\ d.commit => \A f \in SavedFiles : Holds(d, "path", f)

\* The counter file is ahead of everything that was stored.
Ahead(d, k) ==
    IF Recovered(d, Counters) = Absent THEN k = {} /\ IdsIn(d) = {}
    ELSE \A n \in Recovered(d, Counters) : FreshFor(d, k, n)

NextAhead(d, k, n, o, t) == o \/ t.phase = "counters" => FreshFor(d, k, n)

Calling(o, n, dr, t) ==
    t.phase # "idle" =>
       \/ t.call = "open" /\ ~o
       \/ /\ t.call \in {"append", "rewrite", "save"}
          /\ o /\ t.id = n - 1 /\ t.id \in Ids
          /\ t.call = "save" => dr

CountersUp(d, n) == d.path[Counters] = {n} /\ ~Holds(d, "backup", Counters)

AtIdle(d, o, t) == (o => Settled(d) /\ Whole(d, Files)) /\ t.plan = << >>
AtRecover(d, t) ==
    \/ /\ t.call = "open"
       /\ \/ Mending(d, t.plan, SavedFiles, {})
          \/ Finishing(d, t.plan, SavedFiles)
          \/ /\ d.manifest = NoManifest
             /\ t.plan = IF d.commit THEN <<RemoveCommit>> ELSE << >>
    \/ t.call = "save" /\ Settled(d) /\ Whole(d, Files) /\ t.plan = << >>
AtArtifacts(d, t) ==
    /\ Settled(d)
    /\ \/ t.call = "open" /\ Mending(d, t.plan, {Raw}, {Raw})
       \/ t.call = "save" /\ Whole(d, Files) /\ Tidying(t.plan, SavedFiles)
AtTail(d, t) ==
    /\ t.call = "open"
    /\ Settled(d)
    /\ \/ Rewriting(d, t.plan, Raw, View(d, Raw))
       \/ Whole(d, {Raw}) /\ t.plan = << >>
AtOthers(d, t) ==
    /\ t.call = "open"
    /\ Settled(d)
    /\ Whole(d, {Raw})
    /\ Mending(d, t.plan, Files \ {Raw}, DataFiles \ {Raw})
AtCounters(d, o, n, t) ==
    /\ t.call \in {"open", "append", "rewrite"}
    /\ Settled(d)
    /\ Whole(d, DataFiles)
    /\ Rewriting(d, t.plan, Counters, {n})
    /\ o => Kept(d, Counters) # Absent
AtAppend(d, n, t) ==
    /\ t.call = "append"
    /\ Settled(d) /\ Whole(d, Files) /\ CountersUp(d, n)
    /\ \/ t.plan = <<AddTo(Raw, {t.id})>>
       \/ t.plan = << >> /\ d.path[Raw] \cap {Torn, t.id} # {}
AtCompact(d, n, t) ==
    /\ t.call = "append"
    /\ Settled(d) /\ Whole(d, Files \ {Raw}) /\ CountersUp(d, n)
    /\ Rewriting(d, t.plan, Raw, {t.id})
    /\ t.id \in View(d, Raw)
AtReplace(d, n, t) ==
    /\ t.call = "rewrite"
    /\ Settled(d) /\ Whole(d, Files \ {History}) /\ CountersUp(d, n)
    /\ Rewriting(d, t.plan, History, {t.id})
    /\ Kept(d, History) # Absent
AtTemps(d, n, t) ==
    /\ t.call = "save"
    /\ Settled(d) /\ Whole(d, Files)
    /\ Preparing(d, t.plan, SavedFiles, NewContents(t.id, n))
AtSwap(d, n, t) ==
    /\ t.call = "save"
    /\ Whole(d, Files \ SavedFiles)
    /\ Swapping(d, t.plan, SaveManifest, SavedFiles, NewContents(t.id, n))
AtCleanup(d, n, t) ==
    /\ t.call = "save"
    /\ Whole(d, Files \ SavedFiles)
    /\ Finishing(d, t.plan, SavedFiles)
    /\ \A f \in SavedFiles : d.path[f] = NewContents(t.id, n)[f]
AtUndo(d, o, t) ==
    /\ Settled(d)
    /\ \E f \in {Raw, History, Counters} :
          /\ o => Whole(d, Files \ {f})
          /\ Undoing(d, t.plan, f, o)
AtDiscard(d, t) ==
    /\ t.call = "save"
    /\ Settled(d) /\ Whole(d, Files)
    /\ Tidying(t.plan, SavedFiles)
AtAbort(d, t) ==
    /\ t.call = "save"
    /\ Whole(d, Files \ SavedFiles)
    /\ \A f \in SavedFiles : Kept(d, f) # Absent
    /\ Mending(d, t.plan, SavedFiles, {})

Phased(d, o, n, t) ==
    /\ t.phase = "idle" => AtIdle(d, o, t)
    /\ t.phase = "recover" => AtRecover(d, t)
    /\ t.phase = "artifacts" => AtArtifacts(d, t)
    /\ t.phase = "tail" => AtTail(d, t)
    /\ t.phase = "others" => AtOthers(d, t)
    /\ t.phase = "counters" => AtCounters(d, o, n, t)
    /\ t.phase = "append" => AtAppend(d, n, t)
    /\ t.phase = "compact" => AtCompact(d, n, t)
    /\ t.phase = "replace" => AtReplace(d, n, t)
    /\ t.phase = "temps" => AtTemps(d, n, t)
    /\ t.phase = "swap" => AtSwap(d, n, t)
    /\ t.phase = "cleanup" => AtCleanup(d, n, t)
    /\ t.phase = "undo" => AtUndo(d, o, t)
    /\ t.phase = "discard" => AtDiscard(d, t)
    /\ t.phase = "abort" => AtAbort(d, t)

\* The invariant, of the values of the variables.
Good(d, o, n, dr, t, k) ==
    /\ IsStore(d)
    /\ o \in BOOLEAN
    /\ n \in 1 .. MaxId + 1
    /\ dr \in BOOLEAN
    /\ IsTask(t)
    /\ k \subseteq Ids
    /\ Sound(d)
    /\ Ahead(d, k)
    /\ NextAhead(d, k, n, o, t)
    /\ Calling(o, n, dr, t)
    /\ Phased(d, o, n, t)

IInv == Good(disk, opened, nextId, dirty, task, known)

-----------------------------------------------------------------------------
\* The files

LEMMA FileFacts ==
    /\ Raw \in DataFiles /\ History \in DataFiles /\ ToSet(Group) \subseteq DataFiles
    /\ Files = DataFiles \cup {Counters} /\ Counters \notin DataFiles
    /\ Raw # History /\ Raw \notin SavedFiles /\ History \notin SavedFiles
    /\ SavedFiles \subseteq Files /\ Counters \in SavedFiles
    /\ SavedFiles \ {Counters} = ToSet(Group)
BY FilesAssumption DEF DataFiles, Files, SavedFiles

LEMMA ContentFacts ==
    /\ \A f \in DataFiles : /\ ContentsOf[f] = (SUBSET (Ids \cup {Torn})) \cup {Absent}
                            /\ {} \in ContentsOf[f]
                            /\ \A id \in Ids : {id} \in ContentsOf[f]
    /\ ContentsOf[Counters] = {{n} : n \in 1 .. MaxId + 1} \cup {Absent}
    /\ \A s \in SUBSET (Ids \cup {Torn}) : s # Absent
    /\ {} # Absent
    /\ \A n \in 1 .. MaxId + 1 : {n} # Absent /\ {n} \in ContentsOf[Counters]
    /\ \A f \in Files : Absent \in ContentsOf[f]
    /\ \A id \in Ids : id \in Nat /\ id # Torn /\ {id} # Absent
<1>1. MaxId \in Nat
    BY BoundsAssumption
<1>2. /\ \A s \in SUBSET (Ids \cup {Torn}) : s # Absent
      /\ \A n \in 1 .. MaxId + 1 : {n} # Absent
    <2>1. Ids \cup {Torn} \subseteq 0 .. MaxId + 1
        BY <1>1 DEF Ids, Torn
    <2>2. \A n \in 1 .. MaxId + 1 : {n} \subseteq 0 .. MaxId + 1
        BY <1>1
    <2> QED BY <2>1, <2>2, AbsentAssumption
<1>3. /\ \A f \in DataFiles : f \in Files /\ f # Counters
      /\ Counters \in Files
    BY FileFacts
<1>4. \A f \in DataFiles : ContentsOf[f] = (SUBSET (Ids \cup {Torn})) \cup {Absent}
    BY <1>3 DEF ContentsOf
<1>5. ContentsOf[Counters] = {{n} : n \in 1 .. MaxId + 1} \cup {Absent}
    BY <1>3 DEF ContentsOf
<1>6. \A id \in Ids : id \in Nat /\ id # Torn /\ {id} # Absent /\ {id} \in SUBSET (Ids \cup {Torn})
    <2>1. \A id \in Ids : id \in Nat /\ id # Torn /\ id \in 1 .. MaxId + 1
        BY <1>1 DEF Ids, Torn
    <2> QED BY <1>2, <2>1
<1>7. {} \in SUBSET (Ids \cup {Torn})
    OBVIOUS
<1>8. \A f \in Files : Absent \in ContentsOf[f]
    <2> TAKE f \in Files
    <2>1. CASE f \in DataFiles
        BY <1>4, <2>1
    <2>2. CASE f = Counters
        BY <1>5, <2>2
    <2>3. f \in DataFiles \/ f = Counters
        BY FileFacts
    <2> QED BY <2>1, <2>2, <2>3
<1> QED BY <1>2, <1>4, <1>5, <1>6, <1>7, <1>8

\* Saves are over a list of different files, the counters among them.
LEMMA TargetsInOrder ==
    /\ InOrder(AllTargets, SavedFiles)
    /\ SaveManifest # NoManifest
    /\ SaveManifest \in Seq([file : Files, hadPath : BOOLEAN])
<1> DEFINE n == Len(Group)
           G == ToSet(Group)
           ts == AllTargets
<1>1. Group \in Seq(G) /\ n \in Nat /\ DOMAIN Group = 1 .. n /\ G = {Group[i] : i \in 1 .. n}
    BY FilesAssumption DEF ToSet
<1>2. \A i, j \in 1 .. n : Group[i] = Group[j] => i = j
    BY <1>1, FilesAssumption DEF IsInjective
<1>3. Counters \notin G /\ G \subseteq SavedFiles /\ Counters \in SavedFiles /\ SavedFiles = G \cup {Counters}
    BY FileFacts DEF SavedFiles
<1> HIDE DEF G
<1>4. Group \in Seq(SavedFiles)
    BY <1>1, <1>3, SeqMonotonic
<1>5. /\ ts \in Seq(SavedFiles) /\ Len(ts) = n + 1
      /\ \A i \in 1 .. n : ts[i] = Group[i]
      /\ ts[n + 1] = Counters
    BY <1>1, <1>3, <1>4 DEF AllTargets
<1> HIDE DEF ts
<1>6. SavedFiles = {ts[i] : i \in 1 .. n + 1}
    <2>1. \A i \in 1 .. n + 1 : ts[i] \in SavedFiles
        BY <1>5, ElementOfSeq
    <2>2. \A f \in SavedFiles : \E i \in 1 .. n + 1 : ts[i] = f
        <3> TAKE f \in SavedFiles
        <3>1. CASE f = Counters
            <4>1. n + 1 \in 1 .. n + 1
                BY <1>1
            <4> QED BY <1>5, <3>1, <4>1
        <3>2. CASE f \in G
            <4>1. PICK i \in 1 .. n : Group[i] = f
                BY <1>1, <3>2
            <4>2. i \in 1 .. n + 1
                BY <1>1
            <4> QED BY <1>5, <4>1, <4>2
        <3> QED BY <1>3, <3>1, <3>2
    <2> QED BY <2>1, <2>2
<1>7. \A i, j \in 1 .. n + 1 : ts[i] = ts[j] => i = j
    <2>1. \A i \in 1 .. n : Group[i] \in G
        BY <1>1
    <2>2. \A i \in 1 .. n + 1 : i \in 1 .. n \/ i = n + 1
        BY <1>1
    <2> QED BY <1>2, <1>3, <1>5, <2>1, <2>2
<1>8. InOrder(ts, SavedFiles)
    BY <1>5, <1>6, <1>7 DEF InOrder
<1> DEFINE d == [manifest |-> SaveManifest]
<1>9. d.manifest = FullManifest(ts)
    BY DEF SaveManifest, ts
<1> HIDE DEF d
<1>10. /\ Len(d.manifest) = n + 1
       /\ d.manifest \in Seq([file : SavedFiles, hadPath : BOOLEAN])
    BY <1>5, <1>8, <1>9, FullManifestFacts
<1>11. d.manifest = SaveManifest
    BY DEF d
<1>12. SaveManifest # NoManifest
    <2>1. Len(SaveManifest) # 0
        BY <1>1, <1>10, <1>11
    <2> QED BY <2>1, EmptySeq DEF NoManifest
<1>13. [file : SavedFiles, hadPath : BOOLEAN] \subseteq [file : Files, hadPath : BOOLEAN]
    BY FileFacts
<1>14. SaveManifest \in Seq([file : Files, hadPath : BOOLEAN])
    BY <1>10, <1>11, <1>13, SeqMonotonic
<1> QED BY <1>8, <1>12, <1>14 DEF ts

LEMMA SaveManifestFacts ==
    ASSUME NEW d, d.manifest = SaveManifest
    PROVE  AllHadPath(d) /\ TargetFiles(d) = SavedFiles
BY TargetsInOrder, FullManifestFacts DEF SaveManifest

-----------------------------------------------------------------------------
\* What a directory stands for

\* Recovery of a sound directory, in terms of its slots.
LEMMA SoundRecovers ==
    ASSUME NEW d, d.manifest \in {NoManifest, SaveManifest}, NEW f
    PROVE  Recovered(d, f) = IF d.manifest = SaveManifest /\ d.commit /\ f \in SavedFiles
                             THEN d.path[f] ELSE Kept(d, f)
<1>1. CASE d.manifest = NoManifest
    <2>1. SaveManifest # NoManifest
        BY TargetsInOrder
    <2>2. Recovered(d, f) = Kept(d, f)
        BY <1>1, NoManifestFacts, RecoveredIsKept
    <2> QED BY <1>1, <2>1, <2>2
<1>2. CASE d.manifest = SaveManifest
    <2>1. AllHadPath(d) /\ TargetFiles(d) = SavedFiles
        BY <1>2, SaveManifestFacts
    <2>2. CASE d.commit /\ f \in SavedFiles
        BY <1>2, <2>1, <2>2 DEF Recovered
    <2>3. CASE ~(d.commit /\ f \in SavedFiles)
        BY <1>2, <2>1, <2>3, RecoveredIsKept
    <2> QED BY <2>2, <2>3
<1> QED BY <1>1, <1>2

\* The files stand for the same in both; the counters may be different.
SameData(d, e) == \A f \in DataFiles : View(e, f) = View(d, f)
SameView(d, e) == SameData(d, e) /\ Recovered(e, Counters) = Recovered(d, Counters)

LEMMA SameDataKeeps ==
    ASSUME NEW d, NEW e, SameData(d, e)
    PROVE  IdsIn(e) = IdsIn(d) /\ \A k, n : FreshFor(e, k, n) <=> FreshFor(d, k, n)
<1>1. IdsIn(e) = IdsIn(d)
    BY DEF SameData, IdsIn
<1> QED BY <1>1 DEF FreshFor

LEMMA SameViewKeeps ==
    ASSUME NEW d, NEW e, SameView(d, e)
    PROVE  /\ IdsIn(e) = IdsIn(d) /\ \A k, n : FreshFor(e, k, n) <=> FreshFor(d, k, n)
           /\ \A k : Ahead(e, k) <=> Ahead(d, k)
<1>1. IdsIn(e) = IdsIn(d) /\ \A k, n : FreshFor(e, k, n) <=> FreshFor(d, k, n)
    BY SameDataKeeps DEF SameView
<1> QED BY <1>1 DEF SameView, Ahead

LEMMA SameRecovered ==
    ASSUME NEW d, NEW e, \A f \in Files : Recovered(e, f) = Recovered(d, f)
    PROVE  SameView(d, e)
BY FileFacts DEF SameView, SameData, View

\* With no transaction, or one that is not committed, and nothing to create.
LEMMA SameKept ==
    ASSUME NEW d, NEW e, d.manifest \in {NoManifest, SaveManifest}, e.manifest \in {NoManifest, SaveManifest},
           ~d.commit, ~e.commit, \A f \in Files : Kept(e, f) = Kept(d, f)
    PROVE  SameView(d, e)
<1>1. \A f \in Files : Recovered(e, f) = Recovered(d, f)
    BY SoundRecovers
<1> QED BY <1>1, SameRecovered

\* The ids that a store holds are ids that were given out.
LEMMA ViewFacts ==
    ASSUME NEW d, IsStore(d), d.manifest \in {NoManifest, SaveManifest}
    PROVE  /\ \A f \in DataFiles : View(d, f) \in SUBSET Ids
           /\ IdsIn(d) \subseteq Ids
<1>1. ASSUME NEW f \in DataFiles
      PROVE  View(d, f) \in SUBSET Ids
    <2> DEFINE X == SUBSET (Ids \cup {Torn})
               r == Recovered(d, f)
    <2>1. d.path[f] \in ContentsOf[f] /\ d.backup[f] \in ContentsOf[f]
        BY DiskSlots, FileFacts DEF IsStore
    <2>2. r \in {d.path[f], d.backup[f]}
        BY SoundRecovers DEF Kept
    <2>3. ContentsOf[f] = X \cup {Absent}
        BY ContentFacts
    <2>4. View(d, f) = IF r = Absent THEN {} ELSE r \ {Torn}
        BY DEF View
    <2> HIDE DEF X, r
    <2>5. r \in X \/ r = Absent
        BY <2>1, <2>2, <2>3
    <2> QED BY <2>4, <2>5 DEF X
<1> QED BY <1>1 DEF IdsIn

-----------------------------------------------------------------------------
\* Steps that keep what the store stands for

\* Nothing but temporary files is changed.
LEMMA QuietKeeps ==
    ASSUME NEW d, Sound(d), NEW e, e.manifest = d.manifest, e.commit = d.commit,
           \A f \in Files : e.path[f] = d.path[f] /\ e.backup[f] = d.backup[f]
    PROVE  Sound(e) /\ SameView(d, e)
<1>1. \A f \in Files : Kept(e, f) = Kept(d, f) /\ (Holds(e, "path", f) <=> Holds(d, "path", f))
    BY DEF Kept, Holds
<1>2. \A f \in Files : Recovered(e, f) = Recovered(d, f)
    BY <1>1, SoundRecovers DEF Sound
<1>3. Sound(e)
    BY <1>1, FileFacts DEF Sound
<1> QED BY <1>2, <1>3, SameRecovered

KeptMending(d, e, F, E, p) ==
    /\ IsStore(e) /\ Sound(e) /\ SameView(d, e)
    /\ Mending(e, Tail(p), F, E)
    /\ Settled(d) => Settled(e)
    /\ \A g \in Files \ F : e.path[g] = d.path[g] /\ e.backup[g] = d.backup[g]
    /\ E = {} => \A g \in Files : Kept(e, g) = Kept(d, g)

LEMMA MendingKeeps ==
    ASSUME NEW d, IsStore(d), Sound(d), NEW F \in SUBSET Files, NEW E \in SUBSET F, Counters \notin E,
           NEW p, Mending(d, p, F, E), p # << >>,
           NEW e, e = Apply(d, Head(p))
    PROVE  KeptMending(d, e, F, E, p)
<1> SUFFICES /\ IsStore(e) /\ Sound(e) /\ SameView(d, e)
             /\ Mending(e, Tail(p), F, E)
             /\ Settled(d) => Settled(e)
             /\ \A g \in Files \ F : e.path[g] = d.path[g] /\ e.backup[g] = d.backup[g]
             /\ E = {} => \A g \in Files : Kept(e, g) = Kept(d, g)
    BY DEF KeptMending
<1>1. \A f \in E : {} \in ContentsOf[f] /\ {} # Absent
    BY FileFacts, ContentFacts
<1>2. /\ IsDisk(e, Files, ContentsOf)
      /\ Mending(e, Tail(p), F, E)
      /\ e.manifest \in {d.manifest, NoManifest}
      /\ \A g \in Files : \/ Kept(e, g) = Kept(d, g)
                          \/ g \in E /\ Kept(d, g) = Absent /\ Kept(e, g) = {}
      /\ \A g \in Files \ F : e.path[g] = d.path[g] /\ e.backup[g] = d.backup[g]
    <2>1. IsDisk(d, Files, ContentsOf)
        BY DEF IsStore
    <2>2. MendedTo(d, e, Files, ContentsOf, F, E, p)
        BY <1>1, <2>1, MendGoes
    <2> QED BY <2>2 DEF MendedTo
<1>3. ~d.commit /\ ~e.commit
    BY <1>2 DEF Mending
<1>4. d.manifest \in {NoManifest, SaveManifest} /\ e.manifest \in {NoManifest, SaveManifest}
    BY <1>2 DEF Sound
<1>5. \A g : Recovered(d, g) = Kept(d, g) /\ Recovered(e, g) = Kept(e, g)
    BY <1>3, <1>4, SoundRecovers
<1>6. Sound(e)
    <2>1. CASE e.manifest = NoManifest
        BY <2>1, TargetsInOrder DEF Sound
    <2>2. CASE e.manifest = SaveManifest
        <3>1. d.manifest = SaveManifest
            BY <1>2, <2>2, TargetsInOrder
        <3>2. \A g \in SavedFiles : Kept(d, g) # Absent /\ g \in Files
            BY <3>1, FileFacts DEF Sound
        <3>3. \A g \in SavedFiles : Kept(e, g) # Absent
            BY <1>2, <3>2
        <3> QED BY <1>3, <1>4, <3>3 DEF Sound
    <2> QED BY <1>4, <2>1, <2>2
<1>7. ASSUME NEW g \in DataFiles
      PROVE  View(e, g) = View(d, g)
    <2>1. \/ Kept(e, g) = Kept(d, g)
          \/ Kept(d, g) = Absent /\ Kept(e, g) = {}
        BY <1>2, FileFacts
    <2>2. {} # Absent /\ {} \ {Torn} = {}
        BY ContentFacts
    <2> QED BY <1>5, <2>1, <2>2 DEF View
<1>8. Recovered(e, Counters) = Recovered(d, Counters)
    BY <1>2, <1>5, FileFacts
<1> QED BY <1>2, <1>3, <1>6, <1>7, <1>8 DEF IsStore, SameView, SameData, Settled

KeptFinishing(d, e, p) ==
    /\ IsStore(e) /\ Sound(e) /\ SameView(d, e)
    /\ Finishing(e, Tail(p), SavedFiles)
    /\ \A g \in Files : e.path[g] = d.path[g]
    /\ \A g \in Files \ SavedFiles : e.backup[g] = d.backup[g]

LEMMA FinishingKeeps ==
    ASSUME NEW d, IsStore(d), Sound(d), NEW p, Finishing(d, p, SavedFiles), p # << >>,
           NEW e, e = Apply(d, Head(p))
    PROVE  KeptFinishing(d, e, p)
<1> SUFFICES /\ IsStore(e) /\ Sound(e) /\ SameView(d, e)
             /\ Finishing(e, Tail(p), SavedFiles)
             /\ \A g \in Files : e.path[g] = d.path[g]
             /\ \A g \in Files \ SavedFiles : e.backup[g] = d.backup[g]
    BY DEF KeptFinishing
<1>1. d.manifest # NoManifest => AllHadPath(d) /\ TargetFiles(d) = SavedFiles
    BY SaveManifestFacts DEF Sound
<1>2. SavedFiles \in SUBSET Files
    BY FileFacts
<1>3. /\ IsDisk(e, Files, ContentsOf)
      /\ Finishing(e, Tail(p), SavedFiles)
      /\ e.manifest \in {d.manifest, NoManifest}
      /\ \A g \in Files : e.path[g] = d.path[g] /\ Recovered(e, g) = Recovered(d, g)
      /\ \A g \in Files \ SavedFiles : e.backup[g] = d.backup[g]
      /\ e.commit => d.commit
    <2>1. IsDisk(d, Files, ContentsOf)
        BY DEF IsStore
    <2>2. FinishedTo(d, e, Files, ContentsOf, SavedFiles, p)
        BY <1>1, <1>2, <2>1, FinishGoes
    <2> QED BY <2>2 DEF FinishedTo
<1>4. Sound(e)
    <2>1. CASE e.manifest = NoManifest
        BY <2>1, TargetsInOrder DEF Sound
    <2>2. CASE e.manifest # NoManifest
        <3>1. d.manifest = SaveManifest /\ e.manifest = SaveManifest
            BY <1>3, <2>2 DEF Sound
        <3>2. d.commit
            BY <3>1, TargetsInOrder DEF Finishing
        <3>3. \A g \in SavedFiles : Holds(e, "path", g)
            BY <1>2, <1>3, <3>1, <3>2 DEF Sound, Holds
        <3>4. \A g \in SavedFiles : Kept(e, g) # Absent
            BY <3>3 DEF Kept, Holds
        <3> QED BY <3>1, <3>3, <3>4 DEF Sound
    <2> QED BY <2>1, <2>2
<1>5. SameView(d, e)
    BY <1>3, SameRecovered
<1> QED BY <1>3, <1>4, <1>5 DEF IsStore

\* Without a transaction, one file is rewritten.
KeptRewriting(d, e, f, content, p) ==
    /\ IsStore(e) /\ Sound(e) /\ Settled(e)
    /\ Rewriting(e, Tail(p), f, content)
    /\ \A g \in Files \ {f} : /\ e.path[g] = d.path[g] /\ e.backup[g] = d.backup[g]
                              /\ Recovered(e, g) = Recovered(d, g) /\ View(e, g) = View(d, g)
    /\ \A g : Recovered(d, g) = Kept(d, g) /\ Recovered(e, g) = Kept(e, g)
    /\ Kept(e, f) = IF Tail(p) = << >> THEN content ELSE Kept(d, f)
    /\ View(e, f) = IF Tail(p) = << >> THEN content \ {Torn} ELSE View(d, f)

LEMMA RewritingKeeps ==
    ASSUME NEW d, IsStore(d), Settled(d), NEW f \in Files,
           NEW content \in ContentsOf[f], content # Absent,
           NEW p, Rewriting(d, p, f, content), p # << >>,
           NEW e, e = Apply(d, Head(p))
    PROVE  KeptRewriting(d, e, f, content, p)
<1> SUFFICES /\ IsStore(e) /\ Sound(e) /\ Settled(e)
             /\ Rewriting(e, Tail(p), f, content)
             /\ \A g \in Files \ {f} : /\ e.path[g] = d.path[g] /\ e.backup[g] = d.backup[g]
                                       /\ Recovered(e, g) = Recovered(d, g) /\ View(e, g) = View(d, g)
             /\ \A g : Recovered(d, g) = Kept(d, g) /\ Recovered(e, g) = Kept(e, g)
             /\ Kept(e, f) = IF Tail(p) = << >> THEN content ELSE Kept(d, f)
             /\ View(e, f) = IF Tail(p) = << >> THEN content \ {Torn} ELSE View(d, f)
    BY DEF KeptRewriting
<1>1. /\ IsDisk(e, Files, ContentsOf)
      /\ Rewriting(e, Tail(p), f, content)
      /\ e.manifest = d.manifest /\ e.commit = d.commit
      /\ \A g \in Files \ {f} : e.path[g] = d.path[g] /\ e.backup[g] = d.backup[g]
      /\ Kept(e, f) = IF Tail(p) = << >> THEN content ELSE Kept(d, f)
    BY RewriteGoes DEF IsStore
<1>2. d.manifest = NoManifest /\ e.manifest = NoManifest /\ ~e.commit
    BY <1>1 DEF Settled
<1>3. \A g : Recovered(d, g) = Kept(d, g) /\ Recovered(e, g) = Kept(e, g)
    BY <1>2, NoManifestFacts, RecoveredIsKept
<1>4. Sound(e)
    BY <1>2, TargetsInOrder DEF Sound
<1>5. \A g \in Files \ {f} : Recovered(e, g) = Recovered(d, g) /\ View(e, g) = View(d, g)
    <2> TAKE g \in Files \ {f}
    <2>1. Kept(e, g) = Kept(d, g)
        BY <1>1 DEF Kept, Holds
    <2> QED BY <1>3, <2>1 DEF View
<1>6. View(e, f) = IF Tail(p) = << >> THEN content \ {Torn} ELSE View(d, f)
    BY <1>1, <1>3 DEF View
<1> QED BY <1>1, <1>2, <1>3, <1>4, <1>5, <1>6 DEF IsStore, Settled

-----------------------------------------------------------------------------
\* What the plans of the store are

\* The files of storeFiles are put back, and created.
LEMMA OthersMend ==
    ASSUME ~disk.commit, disk.manifest = NoManifest
    PROVE  Mending(disk, OtherFiles, Files \ {Raw}, DataFiles \ {Raw})
<1> DEFINE files == <<History>> \o Group
           n == Len(Group)
           ss == [i \in DOMAIN files |-> RecoverFile(files[i])]
           F == DataFiles \ {Raw}
           G == ToSet(Group)
<1>1. Group \in Seq(G) /\ n \in Nat /\ DOMAIN Group = 1 .. n /\ G = {Group[i] : i \in 1 .. n}
    BY FilesAssumption DEF ToSet
<1>2. \A i, j \in 1 .. n : Group[i] = Group[j] => i = j
    BY <1>1, FilesAssumption DEF IsInjective
<1>3. History \notin G /\ F = G \cup {History} /\ Counters \notin F
    BY FilesAssumption DEF DataFiles
<1>4. /\ Len(files) = n + 1 /\ DOMAIN files = 1 .. n + 1
      /\ files[1] = History
      /\ \A i \in 1 .. n : files[i + 1] = Group[i]
    <2>1. Group \in Seq(G \cup {History}) /\ <<History>> \in Seq(G \cup {History})
        BY <1>1, SeqMonotonic
    <2> QED BY <1>1, <2>1
<1> HIDE DEF files, F, G, n
<1>5. \A i \in 1 .. n + 1 : i = 1 \/ (i - 1 \in 1 .. n /\ files[i] = Group[i - 1])
    <2> TAKE i \in 1 .. n + 1
    <2>1. CASE i # 1
        <3>1. i - 1 \in 1 .. n /\ (i - 1) + 1 = i
            BY <1>1, <2>1
        <3> QED BY <1>4, <3>1
    <2> QED BY <2>1
<1>6. \A i \in 1 .. n : Group[i] \in G
    BY <1>1
<1>7. \A i, j \in 1 .. n + 1 : files[i] = files[j] => i = j
    <2> SUFFICES ASSUME NEW i \in 1 .. n + 1, NEW j \in 1 .. n + 1, files[i] = files[j]
                 PROVE  i = j
        OBVIOUS
    <2>1. CASE i # 1 /\ j # 1
        <3>1. i - 1 \in 1 .. n /\ j - 1 \in 1 .. n /\ Group[i - 1] = Group[j - 1]
            BY <1>5, <2>1
        <3>2. i - 1 = j - 1
            BY <1>2, <3>1
        <3> QED BY <1>1, <3>2
    <2>2. CASE i = 1 \/ j = 1
        BY <1>3, <1>4, <1>5, <1>6, <2>2
    <2> QED BY <2>1, <2>2
<1>8. F = {files[i] : i \in 1 .. n + 1}
    <2>1. \A i \in 1 .. n + 1 : files[i] \in F
        BY <1>3, <1>4, <1>5, <1>6
    <2>2. \A f \in F : \E i \in 1 .. n + 1 : files[i] = f
        <3> TAKE f \in F
        <3>1. CASE f = History
            <4>1. 1 \in 1 .. n + 1
                BY <1>1
            <4> QED BY <1>4, <3>1, <4>1
        <3>2. CASE f \in G
            <4>1. PICK i \in 1 .. n : Group[i] = f
                BY <1>1, <3>2
            <4>2. i + 1 \in 1 .. n + 1
                BY <1>1
            <4> QED BY <1>4, <4>1, <4>2
        <3> QED BY <1>3, <3>1, <3>2
    <2> QED BY <2>1, <2>2
<1>9. \A f : MendingFiles(disk, RecoverFile(f), {f}, {f})
    BY CreatingMends DEF RecoverFile, Created
<1>10. n + 1 \in Nat /\ n + 1 # 0
    BY <1>1
<1>11. Len(ss) = n + 1 /\ \A i \in 1 .. n + 1 : ss[i] = RecoverFile(files[i])
    BY <1>4, <1>10
<1> HIDE DEF ss
<1>12. \A i \in 1 .. n + 1 : MendingFiles(disk, ss[i], {files[i]}, F \cap {files[i]})
    <2> TAKE i \in 1 .. n + 1
    <2>1. F \cap {files[i]} = {files[i]}
        BY <1>8
    <2> QED BY <1>9, <1>11, <2>1
<1>13. MendingFiles(disk, FlattenSeq(ss), F, F)
    <2>1. F \in SUBSET F
        OBVIOUS
    <2> QED BY <1>7, <1>8, <1>10, <1>11, <1>12, <2>1, MendFlatten
<1>14. MendingFiles(disk, RecoverArtifacts(disk, Counters), {Counters}, {})
    BY RecoverArtifactsMends
<1>15. MendingFiles(disk, FlattenSeq(ss) \o RecoverArtifacts(disk, Counters), F \cup {Counters}, F \cup {})
    <2>1. F \cap {Counters} = {} /\ {} \in SUBSET {Counters} /\ F \in SUBSET F
        BY <1>3
    <2> QED BY <1>13, <1>14, <2>1, MendConcat
<1>16. F \cup {} = DataFiles \ {Raw} /\ F \cup {Counters} = Files \ {Raw}
    BY FileFacts DEF F
<1>17. OtherFiles = FlattenSeq(ss) \o RecoverArtifacts(disk, Counters)
    BY DEF OtherFiles, ss, files
<1> QED BY <1>15, <1>16, <1>17 DEF Mending

\* A save that finds the files whole only removes temporary files.
LEMMA TidyingBegins ==
    ASSUME NEW ss, DOMAIN ss = 1 .. Len(AllTargets), ss = [i \in DOMAIN ss |-> ss[i]],
           NEW d, Whole(d, SavedFiles),
           \/ \A i \in DOMAIN ss : ss[i] = RecoverArtifacts(d, AllTargets[i])
           \/ \A i \in DOMAIN ss : ss[i] = RemoveIfThere(d, "temp", AllTargets[i])
    PROVE  Tidying(FlattenSeq(ss), SavedFiles)
<1> DEFINE X == {Delete("temp", f) : f \in SavedFiles}
           n == Len(AllTargets)
<1>1. n \in Nat /\ \A i \in 1 .. n : AllTargets[i] \in SavedFiles
    BY TargetsInOrder, ElementOfSeq DEF InOrder
<1>2. \A f \in SavedFiles : RemoveIfThere(d, "temp", f) \in Seq(X)
    <2> TAKE f \in SavedFiles
    <2>1. Delete("temp", f) \in X
        OBVIOUS
    <2> HIDE DEF X
    <2> QED BY <2>1, RemoveIfThereDoes
<1>3. \A f \in SavedFiles : RecoverArtifacts(d, f) = << >> \o RemoveIfThere(d, "temp", f)
    BY DEF RecoverArtifacts, Whole
<1> HIDE DEF X
<1>4. \A f \in SavedFiles : RecoverArtifacts(d, f) \in Seq(X)
    <2> TAKE f \in SavedFiles
    <2> DEFINE r == RemoveIfThere(d, "temp", f)
    <2>1. r \in Seq(X)
        BY <1>2
    <2>2. RecoverArtifacts(d, f) = << >> \o r
        BY <1>3
    <2> HIDE DEF r
    <2>3. << >> \o r = r
        BY <2>1, ConcatEmptySeq
    <2> QED BY <2>1, <2>2, <2>3
<1>5. \A i \in 1 .. n : ss[i] \in Seq(X)
    BY <1>1, <1>2, <1>4
<1>6. Len(ss) = n /\ (n = 0 => ss = << >>)
    <2> HIDE DEF n
    <2>1. ss \in [1 .. n -> Seq(X)]
        BY <1>5 DEF n
    <2>2. ss \in Seq(Seq(X)) /\ Len(ss) = n
        BY <1>1, <2>1, SeqOfFunction
    <2> QED BY <2>2, EmptySeq
<1> HIDE DEF n
<1>7. FlattenSeq(ss) \in Seq(X)
    BY <1>1, <1>5, <1>6, FlattenHas
<1> QED BY <1>7 DEF Tidying, X

-----------------------------------------------------------------------------
\* Tasks

\* u is a task in the phase ph of the call c with the id i.
TaskIs(u, ph, c, i, p) ==
    IsTask(u) /\ u.phase = ph /\ u.plan = p /\ u.call = c /\ u.id = i

LEMMA EnterDoes ==
    ASSUME NEW t, IsTask(t), NEW ph \in Phases, NEW p, NEW u,
           u = [t EXCEPT !.phase = ph, !.plan = p]
    PROVE  TaskIs(u, ph, t.call, t.id, p)
<1>1. u = [phase |-> ph, call |-> t.call, id |-> t.id, plan |-> p, answer |-> t.answer]
    BY DEF IsTask
<1>2. t.id \in 0 .. MaxId
    BY DEF IsTask
<1> QED BY <1>1, <1>2 DEF IsTask, TaskIs

LEMMA AnswerDoes ==
    ASSUME NEW t, IsTask(t), NEW a, NEW u,
           u = [t EXCEPT !.phase = "idle", !.plan = << >>, !.answer = a]
    PROVE  IsTask(u) /\ u.phase = "idle" /\ u.plan = << >>
<1>1. u = [phase |-> "idle", call |-> t.call, id |-> t.id, plan |-> << >>, answer |-> a]
    BY DEF IsTask
<1>2. t.id \in 0 .. MaxId
    BY DEF IsTask
<1> QED BY <1>1, <1>2 DEF IsTask, Phases

LEMMA PerformTask ==
    ASSUME NEW t, IsTask(t), NEW u, u = [t EXCEPT !.plan = Tail(@)]
    PROVE  TaskIs(u, t.phase, t.call, t.id, Tail(t.plan))
<1>1. u = [phase |-> t.phase, call |-> t.call, id |-> t.id, plan |-> Tail(t.plan), answer |-> t.answer]
    BY DEF IsTask
<1>2. t.id \in 0 .. MaxId /\ t.phase \in Phases
    BY DEF IsTask
<1> QED BY <1>1, <1>2 DEF IsTask, TaskIs

LEMMA BeginDoes ==
    ASSUME NEW c, NEW i \in 0 .. MaxId, NEW ph \in Phases, NEW p, NEW u,
           u = [Idle EXCEPT !.call = c, !.id = i, !.phase = ph, !.plan = p]
    PROVE  TaskIs(u, ph, c, i, p)
<1>1. u = [phase |-> ph, call |-> c, id |-> i, plan |-> p, answer |-> "none"]
    BY DEF Idle
<1> QED BY <1>1 DEF IsTask, TaskIs

-----------------------------------------------------------------------------
\* What a step may do to what the store stands for: nothing, or what one call does

OneCall(d, e) ==
    \/ SameData(d, e)
    \/ \E group \in {ToSet(Group), {History}}, id \in Ids :
          \A f \in DataFiles : View(e, f) = IF f \in group THEN {id} ELSE View(d, f)
    \/ \E id \in Ids :
          \A f \in DataFiles : View(e, f) = IF f = Raw THEN View(d, f) \cup {id} ELSE View(d, f)
    \/ \E id \in View(d, Raw) :
          /\ \A old \in View(d, Raw) \ {id} : old < id
          /\ \A f \in DataFiles : View(e, f) = IF f = Raw THEN {id} ELSE View(d, f)

Records(d) == [f \in DataFiles |-> View(d, f)]

LEMMA OneCallIsStep ==
    ASSUME OneCall(disk, disk')
    PROVE  [Abstract!Next]_(Records(disk))
<1> DEFINE r == Records(disk)
           s == Records(disk')
<1>1. /\ DOMAIN r = DataFiles /\ DOMAIN s = DataFiles
      /\ r = [f \in DataFiles |-> r[f]] /\ s = [f \in DataFiles |-> s[f]]
      /\ \A f \in DataFiles : r[f] = View(disk, f) /\ s[f] = View(disk', f)
    BY DEF Records
<1>2. r' = s
    BY DEF Records
<1>3. r = [f \in DataFiles |-> View(disk, f)] /\ s = [f \in DataFiles |-> View(disk', f)]
    BY DEF Records
<1>4. Raw \in DataFiles /\ History \in DataFiles
    BY FileFacts
<1>5. CASE SameData(disk, disk')
    <2>1. s = r
        BY <1>3, <1>5 DEF SameData
    <2> QED BY <1>2, <2>1
<1>6. ASSUME NEW group \in {ToSet(Group), {History}}, NEW id \in Ids,
             \A f \in DataFiles : View(disk', f) = IF f \in group THEN {id} ELSE View(disk, f)
      PROVE  Abstract!Next
    <2>1. s = [f \in DataFiles |-> IF f \in group THEN {id} ELSE r[f]]
        BY <1>1, <1>3, <1>6
    <2>2. Abstract!Put(group, id)
        BY <1>2, <1>3, <2>1 DEF Abstract!Put
    <2> QED BY <2>2 DEF Abstract!Next
<1>7. ASSUME NEW id \in Ids,
             \A f \in DataFiles : View(disk', f) = IF f = Raw THEN View(disk, f) \cup {id} ELSE View(disk, f)
      PROVE  Abstract!Next
    <2>1. s = [r EXCEPT ![Raw] = @ \cup {id}]
        BY <1>1, <1>4, <1>7
    <2>2. Abstract!Add(Raw, id)
        BY <1>2, <1>3, <2>1 DEF Abstract!Add
    <2> QED BY <1>4, <2>2 DEF Abstract!Next
<1>8. ASSUME NEW id \in View(disk, Raw), \A old \in View(disk, Raw) \ {id} : old < id,
             \A f \in DataFiles : View(disk', f) = IF f = Raw THEN {id} ELSE View(disk, f)
      PROVE  Abstract!Next
    <2>1. s = [r EXCEPT ![Raw] = {id}]
        BY <1>1, <1>4, <1>8
    <2>2. {id} \in (SUBSET r[Raw]) \ {{}}
        BY <1>1, <1>4, <1>8
    <2>3. \A old \in r[Raw] \ {id}, new \in {id} : old < new
        BY <1>1, <1>4, <1>8
    <2>4. Abstract!Trim(Raw)
        BY <1>2, <1>3, <2>1, <2>2, <2>3 DEF Abstract!Trim
    <2> QED BY <1>4, <2>4 DEF Abstract!Next
<1> QED BY <1>5, <1>6, <1>7, <1>8 DEF OneCall

-----------------------------------------------------------------------------
\* What the invariant is about when the directory stays

LEMMA Stays ==
    ASSUME NEW d, NEW o, NEW n, NEW dr, NEW t, NEW k, Good(d, o, n, dr, t, k),
           NEW o2 \in BOOLEAN, NEW n2 \in 1 .. MaxId + 1, NEW dr2 \in BOOLEAN,
           NEW u, IsTask(u), NextAhead(d, k, n2, o2, u), Calling(o2, n2, dr2, u), Phased(d, o2, n2, u)
    PROVE  Good(d, o2, n2, dr2, u, k)
BY DEF Good

LEMMA StaysIsOneCall ==
    ASSUME NEW d
    PROVE  SameView(d, d) /\ OneCall(d, d)
BY DEF SameView, SameData, OneCall

\* A call that answers leaves an idle store.
LEMMA Rests ==
    ASSUME NEW d, NEW o, NEW n, NEW dr, NEW t, NEW k, Good(d, o, n, dr, t, k),
           NEW n2 \in 1 .. MaxId + 1, NEW o2 \in BOOLEAN, NEW dr2 \in BOOLEAN,
           NEW u, IsTask(u), u.phase = "idle", u.plan = << >>,
           o2 => FreshFor(d, k, n2) /\ Settled(d) /\ Whole(d, Files)
    PROVE  Good(d, o2, n2, dr2, u, k)
<1>1. NextAhead(d, k, n2, o2, u) /\ Calling(o2, n2, dr2, u) /\ Phased(d, o2, n2, u)
    BY DEF NextAhead, Calling, Phased, AtIdle
<1> QED BY <1>1, Stays

LEMMA WholeFacts ==
    ASSUME NEW d, NEW F
    PROVE  /\ Whole(d, Files) => Whole(d, DataFiles) /\ Whole(d, SavedFiles) /\ Whole(d, {Raw})
           /\ Whole(d, Files) => \A f \in Files : Whole(d, Files \ {f})
           /\ \A f : Whole(d, F \ {f}) /\ Holds(d, "path", f) /\ ~Holds(d, "backup", f) => Whole(d, F)
           /\ Settled(d) => \A f : Recovered(d, f) = Kept(d, f)
           /\ \A f \in F : Whole(d, F) => Kept(d, f) = d.path[f] /\ Kept(d, f) # Absent
<1>1. Settled(d) => \A f : Recovered(d, f) = Kept(d, f)
    BY NoManifestFacts, RecoveredIsKept DEF Settled
<1>2. Whole(d, Files) => Whole(d, DataFiles) /\ Whole(d, SavedFiles) /\ Whole(d, {Raw})
    BY FileFacts DEF Whole
<1>3. Whole(d, Files) => \A f \in Files : Whole(d, Files \ {f})
    BY DEF Whole
<1>4. \A f : Whole(d, F \ {f}) /\ Holds(d, "path", f) /\ ~Holds(d, "backup", f) => Whole(d, F)
    BY DEF Whole
<1>5. \A f \in F : Whole(d, F) => Kept(d, f) = d.path[f] /\ Kept(d, f) # Absent
    BY DEF Whole, Kept, Holds
<1> QED BY <1>1, <1>2, <1>3, <1>4, <1>5

-----------------------------------------------------------------------------
\* The steps of opening a store

LEMMA PhaseFacts ==
    \A ph \in {"idle", "recover", "artifacts", "tail", "others", "counters", "append", "compact",
               "replace", "temps", "swap", "cleanup", "undo", "discard", "abort"} : ph \in Phases
BY DEF Phases

LEMMA OpenKeeps ==
    ASSUME IInv, Open
    PROVE  IInv' /\ OneCall(disk, disk')
<1>1. /\ IsTask(task) /\ Sound(disk) /\ nextId \in 1 .. MaxId + 1 /\ dirty \in BOOLEAN
      /\ Good(disk, opened, nextId, dirty, task, known)
    BY DEF IInv, Good
<1>2. /\ opened' = FALSE /\ disk' = disk /\ nextId' = nextId /\ dirty' = dirty /\ known' = known
      /\ IF CanRecover(disk)
         THEN Begin("open", 0, "recover", RecoverTransaction(disk))
         ELSE task' = [Idle EXCEPT !.call = "open", !.answer = "false"]
    BY DEF Open, bounds
<1>3. 0 \in 0 .. MaxId /\ FALSE \in BOOLEAN
    BY BoundsAssumption
<1>4. CASE CanRecover(disk)
    <2>1. task' = [Idle EXCEPT !.call = "open", !.id = 0, !.phase = "recover",
                               !.plan = RecoverTransaction(disk)]
        BY <1>2, <1>4 DEF Begin
    <2>2. /\ IsTask(task') /\ task'.phase = "recover" /\ task'.call = "open"
          /\ task'.plan = RecoverTransaction(disk)
        <3>1. "recover" \in Phases
            BY PhaseFacts
        <3>2. TaskIs(task', "recover", "open", 0, RecoverTransaction(disk))
            BY <1>3, <2>1, <3>1, BeginDoes
        <3> QED BY <3>2 DEF TaskIs
    <2>3. AtRecover(disk, task')
        <3>1. CASE disk.manifest = NoManifest
            BY <2>2, <3>1 DEF AtRecover, RecoverTransaction
        <3>2. CASE disk.manifest # NoManifest
            <4>1. disk.manifest = FullManifest(AllTargets) /\ InOrder(AllTargets, SavedFiles)
                BY <1>1, <3>2, TargetsInOrder DEF Sound, SaveManifest
            <4>2. CASE disk.commit
                <5>1. Finishing(disk, Finish(disk), SavedFiles)
                    BY <3>2, <4>1, <4>2, FinishBegins
                <5> QED BY <2>2, <3>2, <4>2, <5>1 DEF AtRecover, RecoverTransaction
            <4>3. CASE ~disk.commit
                <5>1. Mending(disk, RollBack(disk), SavedFiles, {})
                    BY <4>1, <4>3, RollBackBegins
                <5> QED BY <2>2, <3>2, <4>3, <5>1 DEF AtRecover, RecoverTransaction
            <4> QED BY <4>2, <4>3
        <3> QED BY <3>1, <3>2
    <2>4. NextAhead(disk, known, nextId, FALSE, task') /\ Calling(FALSE, nextId, dirty, task')
        BY <2>2 DEF NextAhead, Calling
    <2>5. Phased(disk, FALSE, nextId, task')
        BY <2>2, <2>3 DEF Phased
    <2>6. Good(disk, FALSE, nextId, dirty, task', known)
        BY <1>1, <1>3, <2>2, <2>4, <2>5, Stays
    <2> QED BY <1>2, <2>6, StaysIsOneCall DEF IInv
<1>5. CASE ~CanRecover(disk)
    <2>1. task' = [phase |-> "idle", call |-> "open", id |-> 0, plan |-> << >>, answer |-> "false"]
        BY <1>2, <1>5 DEF Idle
    <2>2. IsTask(task') /\ task'.phase = "idle" /\ task'.plan = << >>
        BY <1>3, <2>1 DEF IsTask, Phases
    <2>3. Good(disk, FALSE, nextId, dirty, task', known)
        BY <1>1, <1>3, <2>2, Rests
    <2> QED BY <1>2, <2>3, StaysIsOneCall DEF IInv
<1> QED BY <1>4, <1>5

\* The task goes on to its next phase and nothing else changes.
LEMMA EnterKeeps ==
    ASSUME IInv, NEW ph \in Phases, NEW p,
           task' = [task EXCEPT !.phase = ph, !.plan = p],
           disk' = disk, opened' = opened, nextId' = nextId, dirty' = dirty, known' = known,
           ph # "counters", ph # "idle", task.phase # "idle",
           IsTask(task') /\ task'.phase = ph /\ task'.plan = p
           /\ task'.call = task.call /\ task'.id = task.id
           => Phased(disk, opened, nextId, task')
    PROVE  IInv' /\ OneCall(disk, disk')
<1>1. Good(disk, opened, nextId, dirty, task, known)
    BY DEF IInv
<1>2. /\ IsTask(task) /\ nextId \in 1 .. MaxId + 1 /\ dirty \in BOOLEAN /\ opened \in BOOLEAN
      /\ NextAhead(disk, known, nextId, opened, task) /\ Calling(opened, nextId, dirty, task)
    BY <1>1 DEF Good
<1>3. IsTask(task') /\ task'.phase = ph /\ task'.plan = p /\ task'.call = task.call /\ task'.id = task.id
    <2>1. TaskIs(task', ph, task.call, task.id, p)
        BY <1>2, EnterDoes
    <2> QED BY <2>1 DEF TaskIs
<1>4. NextAhead(disk, known, nextId, opened, task')
    BY <1>2, <1>3 DEF NextAhead
<1>5. Calling(opened, nextId, dirty, task')
    BY <1>2, <1>3 DEF Calling
<1>6. Good(disk, opened, nextId, dirty, task', known)
    BY <1>1, <1>2, <1>3, <1>4, <1>5, Stays
<1> QED BY <1>6, StaysIsOneCall DEF IInv

LEMMA OpenRecoveredKeeps ==
    ASSUME IInv, OpenRecovered
    PROVE  IInv' /\ OneCall(disk, disk')
<1>1. /\ task.phase = "recover" /\ task.plan = << >> /\ task.call = "open"
      /\ task' = [task EXCEPT !.phase = "artifacts", !.plan = RecoverFile(Raw)]
      /\ disk' = disk /\ opened' = opened /\ nextId' = nextId /\ dirty' = dirty /\ known' = known
    BY DEF OpenRecovered, Finished, In, Enter, memory, bounds
<1>2. AtRecover(disk, task)
    BY <1>1 DEF IInv, Good, Phased
<1>3. Settled(disk)
    <2>1. CASE Mending(disk, task.plan, SavedFiles, {})
        <3>1. {} \in SUBSET SavedFiles
            OBVIOUS
        <3> QED BY <1>1, <2>1, <3>1, MendEnds
    <2>2. CASE Finishing(disk, task.plan, SavedFiles)
        BY <1>1, <2>2, FinishEnds
    <2>3. CASE disk.manifest = NoManifest /\ task.plan = IF disk.commit THEN <<RemoveCommit>> ELSE << >>
        <3> DEFINE c == RemoveCommit
                   one == <<c>>
        <3>1. one # << >>
            OBVIOUS
        <3>2. task.plan = IF disk.commit THEN one ELSE << >>
            BY <2>3
        <3> HIDE DEF one
        <3> QED BY <1>1, <2>3, <3>1, <3>2 DEF Settled
    <2> QED BY <1>1, <1>2, <2>1, <2>2, <2>3 DEF AtRecover
<1>4. Mending(disk, RecoverFile(Raw), {Raw}, {Raw})
    <2>1. MendingFiles(disk, RecoverFile(Raw), {Raw}, {Raw})
        BY CreatingMends DEF RecoverFile, Created
    <2> QED BY <1>3, <2>1 DEF Mending, Settled
<1>5. task'.phase = "artifacts" /\ task'.plan = RecoverFile(Raw) /\ task'.call = task.call
      => Phased(disk, opened, nextId, task')
    BY <1>1, <1>3, <1>4 DEF Phased, AtArtifacts
<1> QED BY <1>1, <1>5, PhaseFacts, EnterKeeps

LEMMA OpenRecoversTailKeeps ==
    ASSUME IInv, OpenRecoversTail
    PROVE  IInv' /\ OneCall(disk, disk')
<1> DEFINE r == RewriteFile(disk, Raw, disk.path[Raw] \ {Torn})
           p == IF Torn \in disk.path[Raw] THEN r ELSE << >>
<1>1. /\ task.phase = "artifacts" /\ task.plan = << >> /\ task.call = "open"
      /\ task' = [task EXCEPT !.phase = "tail", !.plan = p]
      /\ disk' = disk /\ opened' = opened /\ nextId' = nextId /\ dirty' = dirty /\ known' = known
    BY DEF OpenRecoversTail, Finished, In, Enter, memory, bounds
<1>2. AtArtifacts(disk, task)
    BY <1>1 DEF IInv, Good, Phased
<1>3. Settled(disk) /\ Mending(disk, << >>, {Raw}, {Raw})
    BY <1>1, <1>2 DEF AtArtifacts
<1>4. ~Holds(disk, "backup", Raw) /\ Holds(disk, "path", Raw)
    BY <1>3, MendEnds
<1>5. Whole(disk, {Raw})
    BY <1>4 DEF Whole
<1>6. View(disk, Raw) = disk.path[Raw] \ {Torn}
    BY <1>3, <1>4, WholeFacts DEF View, Kept, Holds
<1>7. Rewriting(disk, r, Raw, View(disk, Raw))
    BY <1>4, <1>6, RewriteBegins
<1> HIDE DEF r
<1>8. task'.phase = "tail" /\ task'.plan = p /\ task'.call = task.call
      => Phased(disk, opened, nextId, task')
    BY <1>1, <1>3, <1>5, <1>7 DEF Phased, AtTail
<1> HIDE DEF p
<1> QED BY <1>1, <1>8, PhaseFacts, EnterKeeps

LEMMA OpenOtherFilesKeeps ==
    ASSUME IInv, OpenOtherFiles
    PROVE  IInv' /\ OneCall(disk, disk')
<1>1. /\ task.phase = "tail" /\ task.plan = << >>
      /\ task' = [task EXCEPT !.phase = "others", !.plan = OtherFiles]
      /\ disk' = disk /\ opened' = opened /\ nextId' = nextId /\ dirty' = dirty /\ known' = known
    BY DEF OpenOtherFiles, Finished, In, Enter, memory, bounds
<1>2. AtTail(disk, task) /\ IsStore(disk) /\ Sound(disk)
    BY <1>1 DEF IInv, Good, Phased
<1>3. View(disk, Raw) # Absent
    <2>1. View(disk, Raw) \in SUBSET (Ids \cup {Torn})
        BY <1>2, ViewFacts, FileFacts DEF Sound
    <2> QED BY <2>1, ContentFacts
<1>4. Whole(disk, {Raw})
    <2>1. CASE Rewriting(disk, task.plan, Raw, View(disk, Raw))
        <3>1. disk.path[Raw] = View(disk, Raw) /\ ~Holds(disk, "backup", Raw)
            BY <1>1, <2>1, RewriteEnds
        <3> QED BY <1>3, <3>1 DEF Whole, Holds
    <2> QED BY <1>2, <2>1 DEF AtTail
<1>5. Settled(disk) /\ task.call = "open"
    BY <1>2 DEF AtTail
<1>6. Mending(disk, OtherFiles, Files \ {Raw}, DataFiles \ {Raw})
    BY <1>5, OthersMend DEF Settled
<1>7. task'.phase = "others" /\ task'.plan = OtherFiles /\ task'.call = task.call
      => Phased(disk, opened, nextId, task')
    BY <1>4, <1>5, <1>6 DEF Phased, AtOthers
<1> QED BY <1>1, <1>7, PhaseFacts, EnterKeeps

LEMMA OpenLoadCountersKeeps ==
    ASSUME IInv, OpenLoadCounters
    PROVE  IInv' /\ OneCall(disk, disk')
<1>1. /\ task.phase = "others" /\ task.plan = << >>
      /\ disk' = disk
      /\ IF Holds(disk, "path", Counters)
         THEN /\ nextId' \in disk.path[Counters]
              /\ dirty' = FALSE
              /\ opened' = TRUE
              /\ Answer(TRUE)
         ELSE /\ nextId' = FirstIdAfterRecords
              /\ dirty' = TRUE
              /\ Enter("counters", RewriteFile(disk, Counters, {nextId'}))
              /\ UNCHANGED <<opened, known>>
    BY DEF OpenLoadCounters, Finished, In, bounds
<1>2. Good(disk, opened, nextId, dirty, task, known)
    BY DEF IInv
<1>3. /\ AtOthers(disk, task) /\ IsStore(disk) /\ Sound(disk) /\ IsTask(task) /\ Ahead(disk, known)
      /\ Calling(opened, nextId, dirty, task)
    BY <1>1, <1>2 DEF Good, Phased
<1>4. /\ task.call = "open" /\ Settled(disk) /\ Whole(disk, {Raw})
      /\ Mending(disk, << >>, Files \ {Raw}, DataFiles \ {Raw})
    BY <1>1, <1>3 DEF AtOthers
<1>5. /\ \A f \in Files \ {Raw} : ~Holds(disk, "backup", f)
      /\ \A f \in DataFiles \ {Raw} : Holds(disk, "path", f)
    <2>1. DataFiles \ {Raw} \in SUBSET (Files \ {Raw})
        BY FileFacts
    <2> QED BY <1>4, <2>1, MendEnds
<1>6. Whole(disk, DataFiles) /\ ~Holds(disk, "backup", Counters)
    BY <1>4, <1>5, FileFacts DEF Whole
<1>7. Recovered(disk, Counters) = disk.path[Counters]
    BY <1>4, <1>6, WholeFacts DEF Kept
<1>8. CASE Holds(disk, "path", Counters)
    <2>1. /\ nextId' \in disk.path[Counters] /\ dirty' = FALSE /\ opened' = TRUE
          /\ task' = [task EXCEPT !.phase = "idle", !.plan = << >>, !.answer = "true"]
          /\ known' = known
        BY <1>1, <1>4, <1>8 DEF Answer
    <2>2. FreshFor(disk, known, nextId')
        BY <1>3, <1>7, <1>8, <2>1 DEF Ahead, Holds
    <2>3. nextId' \in 1 .. MaxId + 1
        <3>1. disk.path[Counters] \in ContentsOf[Counters] /\ disk.path[Counters] # Absent
            BY <1>3, <1>8, DiskSlots, FileFacts DEF IsStore, Holds
        <3> QED BY <2>1, <3>1, ContentFacts
    <2>4. Whole(disk, Files)
        BY <1>6, <1>8, FileFacts DEF Whole
    <2>5. IsTask(task') /\ task'.phase = "idle" /\ task'.plan = << >>
        BY <1>3, <2>1, AnswerDoes
    <2>6. Good(disk, TRUE, nextId', FALSE, task', known)
        <3>1. TRUE \in BOOLEAN /\ FALSE \in BOOLEAN
            OBVIOUS
        <3> QED BY <1>2, <1>4, <2>2, <2>3, <2>4, <2>5, <3>1, Rests
    <2> QED BY <1>1, <2>1, <2>6, StaysIsOneCall DEF IInv
<1>9. CASE ~Holds(disk, "path", Counters)
    <2> DEFINE p == RewriteFile(disk, Counters, {nextId'})
    <2>1. /\ nextId' = FirstIdAfterRecords /\ dirty' = TRUE /\ opened' = opened /\ known' = known
          /\ task' = [task EXCEPT !.phase = "counters", !.plan = p]
        BY <1>1, <1>9 DEF Enter
    <2>2. known = {} /\ IdsIn(disk) = {}
        BY <1>3, <1>7, <1>9 DEF Ahead, Holds
    <2>3. nextId' = 1
        <3> DEFINE ids == UNION {disk.path[f] : f \in DataFiles}
        <3>1. \A f \in DataFiles : View(disk, f) = disk.path[f] \ {Torn}
            BY <1>4, <1>6, WholeFacts DEF View
        <3>2. ids \subseteq {Torn}
            BY <2>2, <3>1 DEF IdsIn
        <3>3. FirstIdAfterRecords = IF ids = {} THEN 1 ELSE Max(ids) + 1
            BY DEF FirstIdAfterRecords
        <3> HIDE DEF ids
        <3>4. Max({Torn}) = 0
            BY DEF Max, Torn
        <3>5. ids = {} \/ ids = {Torn}
            BY <3>2
        <3> QED BY <2>1, <3>3, <3>4, <3>5
    <2>4. FreshFor(disk, known, nextId')
        BY <2>2 DEF FreshFor
    <2>5. Rewriting(disk, p, Counters, {nextId'})
        BY <1>6, RewriteBegins
    <2> HIDE DEF p
    <2>6. IsTask(task') /\ task'.phase = "counters" /\ task'.plan = p /\ task'.call = "open"
        <3>1. "counters" \in Phases
            BY PhaseFacts
        <3>2. TaskIs(task', "counters", task.call, task.id, p)
            BY <1>3, <2>1, <3>1, EnterDoes
        <3> QED BY <1>4, <3>2 DEF TaskIs
    <2>7. opened = FALSE
        <3>1. ~opened /\ opened \in BOOLEAN
            BY <1>1, <1>2, <1>3, <1>4 DEF Calling, Good
        <3> QED BY <3>1
    <2>8. Phased(disk, opened, nextId', task')
        BY <1>4, <1>6, <2>5, <2>6, <2>7 DEF Phased, AtCounters
    <2>9. NextAhead(disk, known, nextId', opened, task') /\ Calling(opened, nextId', TRUE, task')
        BY <2>4, <2>6, <2>7 DEF NextAhead, Calling
    <2>10. nextId' \in 1 .. MaxId + 1 /\ TRUE \in BOOLEAN /\ opened \in BOOLEAN
        <3>1. nextId' \in 1 .. MaxId + 1
            BY <2>3, BoundsAssumption
        <3> QED BY <2>7, <3>1, Zenon
    <2>11. Good(disk, opened, nextId', TRUE, task', known)
        BY <1>2, <2>6, <2>8, <2>9, <2>10, Stays
    <2> QED BY <1>1, <2>1, <2>11, StaysIsOneCall DEF IInv
<1> QED BY <1>8, <1>9

-----------------------------------------------------------------------------
\* The steps of storing records

\* A caller is told that the last id given out is stored.
LEMMA KnownGrows ==
    ASSUME NEW d, NEW o, NEW n, NEW dr, NEW t, NEW k, Good(d, o, n, dr, t, k),
           o, t.phase # "idle", Settled(d), Whole(d, Files), d.path[Counters] = {n}
    PROVE  Good(d, o, n, dr, t, k \cup {t.id})
<1>1. /\ NextAhead(d, k, n, o, t) /\ Calling(o, n, dr, t) /\ k \subseteq Ids /\ n \in 1 .. MaxId + 1
    BY DEF Good
<1>2. FreshFor(d, k, n) /\ t.id = n - 1 /\ t.id \in Ids
    BY <1>1 DEF NextAhead, Calling
<1>3. t.id < n
    BY <1>1, <1>2, BoundsAssumption
<1>4. FreshFor(d, k \cup {t.id}, n)
    BY <1>2, <1>3 DEF FreshFor
<1>5. Recovered(d, Counters) = {n} /\ {n} # Absent
    BY <1>1, WholeFacts, FileFacts, ContentFacts
<1>6. Ahead(d, k \cup {t.id})
    BY <1>4, <1>5 DEF Ahead
<1>7. NextAhead(d, k \cup {t.id}, n, o, t)
    BY <1>4 DEF NextAhead
<1>8. k \cup {t.id} \subseteq Ids
    BY <1>1, <1>2
<1> QED BY <1>6, <1>7, <1>8 DEF Good

\* The call answers and nothing changes on the disk.
LEMMA AnswerKeeps ==
    ASSUME IInv, task.phase # "idle", NEW a,
           task' = [task EXCEPT !.phase = "idle", !.plan = << >>, !.answer = a],
           disk' = disk, opened' = opened, nextId' = nextId, dirty' \in BOOLEAN,
           opened => Settled(disk) /\ Whole(disk, Files),
           \/ known' = known
           \/ known' = known \cup {task.id} /\ opened /\ disk.path[Counters] = {nextId}
    PROVE  IInv' /\ OneCall(disk, disk')
<1>1. Good(disk, opened, nextId, dirty, task, known)
    BY DEF IInv
<1>2. Good(disk, opened, nextId, dirty, task, known')
    BY <1>1, KnownGrows
<1>3. /\ IsTask(task) /\ nextId \in 1 .. MaxId + 1 /\ opened \in BOOLEAN
      /\ opened => FreshFor(disk, known', nextId)
    BY <1>2 DEF Good, NextAhead
<1>4. IsTask(task') /\ task'.phase = "idle" /\ task'.plan = << >>
    BY <1>3, AnswerDoes
<1>5. Good(disk, opened, nextId, dirty', task', known')
    <2>1. opened => FreshFor(disk, known', nextId) /\ Settled(disk) /\ Whole(disk, Files)
        BY <1>3
    <2>2. dirty' \in BOOLEAN
        OBVIOUS
    <2> QED BY <1>2, <1>3, <1>4, <2>1, <2>2, Rests, Zenon
<1> QED BY <1>5, StaysIsOneCall DEF IInv

\* A new id is new, and so is the one after it.
LEMMA NextIsFresh ==
    ASSUME NEW d, IsStore(d), Sound(d), NEW k \in SUBSET Ids, NEW n \in 1 .. MaxId + 1, FreshFor(d, k, n)
    PROVE  FreshFor(d, k, n + 1)
<1>1. IdsIn(d) \subseteq Ids
    BY ViewFacts DEF Sound
<1>2. \A id \in k \cup IdsIn(d) : id \in Nat /\ id < n
    BY <1>1, ContentFacts DEF FreshFor
<1> QED BY <1>2, BoundsAssumption DEF FreshFor

LEMMA StartKeeps ==
    ASSUME IInv, NEW c \in {"append", "rewrite"}, Ready(c), AllocateId,
           Begin(c, nextId, "counters", PersistCounters(nextId + 1)),
           disk' = disk, opened' = opened, known' = known
    PROVE  IInv' /\ OneCall(disk, disk')
<1> DEFINE p == RewriteFile(disk, Counters, {nextId + 1})
<1>1. /\ task.phase = "idle" /\ opened /\ nextId <= MaxId
      /\ nextId' = nextId + 1 /\ dirty' = TRUE
      /\ task' = [Idle EXCEPT !.call = c, !.id = nextId, !.phase = "counters", !.plan = p]
    BY DEF Ready, AllocateId, Begin, PersistCounters, In
<1>2. Good(disk, opened, nextId, dirty, task, known)
    BY DEF IInv
<1>3. /\ AtIdle(disk, opened, task) /\ IsStore(disk) /\ Sound(disk) /\ known \in SUBSET Ids
      /\ nextId \in 1 .. MaxId + 1 /\ opened \in BOOLEAN
      /\ NextAhead(disk, known, nextId, opened, task)
    BY <1>1, <1>2 DEF Good, Phased
<1>4. Settled(disk) /\ Whole(disk, Files)
    BY <1>1, <1>3 DEF AtIdle
<1>5. nextId \in Ids /\ nextId \in 0 .. MaxId /\ nextId + 1 \in 1 .. MaxId + 1 /\ (nextId + 1) - 1 = nextId
    BY <1>1, <1>3, BoundsAssumption DEF Ids
<1>6. FreshFor(disk, known, nextId + 1)
    BY <1>1, <1>3, NextIsFresh DEF NextAhead
<1>7. ~Holds(disk, "backup", Counters) /\ Kept(disk, Counters) # Absent
    BY <1>4, WholeFacts, FileFacts DEF Whole
<1>8. Rewriting(disk, p, Counters, {nextId + 1})
    BY <1>7, RewriteBegins
<1> HIDE DEF p
<1>9. TaskIs(task', "counters", c, nextId, p)
    <2>1. "counters" \in Phases
        BY PhaseFacts
    <2> QED BY <1>1, <1>5, <2>1, BeginDoes
<1>10. IsTask(task') /\ task'.phase = "counters" /\ task'.call = c /\ task'.id = nextId /\ task'.plan = p
    BY <1>9 DEF TaskIs
<1>11. Whole(disk, DataFiles)
    BY <1>4, WholeFacts
<1>12. AtCounters(disk, opened, nextId + 1, task')
    BY <1>4, <1>7, <1>8, <1>10, <1>11 DEF AtCounters
<1>13. Phased(disk, opened, nextId + 1, task')
    BY <1>10, <1>12 DEF Phased
<1>14. NextAhead(disk, known, nextId + 1, opened, task')
    BY <1>6 DEF NextAhead
<1>15. Calling(opened, nextId + 1, TRUE, task')
    BY <1>1, <1>5, <1>10 DEF Calling
<1>16. TRUE \in BOOLEAN
    OBVIOUS
<1>17. Good(disk, opened, nextId + 1, TRUE, task', known)
    BY <1>2, <1>3, <1>5, <1>10, <1>13, <1>14, <1>15, <1>16, Stays
<1> QED BY <1>1, <1>17, StaysIsOneCall DEF IInv

LEMMA StartRecordsKeeps ==
    ASSUME IInv, StartAppend \/ StartRewrite
    PROVE  IInv' /\ OneCall(disk, disk')
<1>1. CASE StartAppend
    BY <1>1, StartKeeps DEF StartAppend, bounds
<1>2. CASE StartRewrite
    BY <1>2, StartKeeps DEF StartRewrite, bounds
<1> QED BY <1>1, <1>2

LEMMA CountersPersistedKeeps ==
    ASSUME IInv, CountersPersisted
    PROVE  IInv' /\ OneCall(disk, disk')
<1> DEFINE add == <<AddTo(Raw, {task.id})>>
           r == RewriteFile(disk, History, {task.id})
<1>1. /\ task.phase = "counters" /\ task.plan = << >>
      /\ dirty' = FALSE /\ disk' = disk /\ nextId' = nextId
      /\ \/ /\ task.call = "open" /\ opened' = TRUE /\ known' = known
            /\ task' = [task EXCEPT !.phase = "idle", !.plan = << >>, !.answer = "true"]
         \/ /\ task.call = "append" /\ task' = [task EXCEPT !.phase = "append", !.plan = add]
            /\ opened' = opened /\ known' = known
         \/ /\ task.call = "rewrite" /\ task' = [task EXCEPT !.phase = "replace", !.plan = r]
            /\ opened' = opened /\ known' = known
    BY DEF CountersPersisted, Finished, In, Enter, Answer, bounds
<1>2. Good(disk, opened, nextId, dirty, task, known)
    BY DEF IInv
<1>3. /\ AtCounters(disk, opened, nextId, task) /\ IsTask(task) /\ nextId \in 1 .. MaxId + 1
      /\ opened \in BOOLEAN /\ dirty \in BOOLEAN
      /\ NextAhead(disk, known, nextId, opened, task) /\ Calling(opened, nextId, dirty, task)
    BY <1>1, <1>2 DEF Good, Phased
<1>4. /\ Settled(disk) /\ Whole(disk, DataFiles)
      /\ disk.path[Counters] = {nextId} /\ ~Holds(disk, "backup", Counters)
    BY <1>1, <1>3, RewriteEnds DEF AtCounters
<1>5. Whole(disk, Files)
    BY <1>3, <1>4, FileFacts, ContentFacts DEF Whole, Holds
<1>6. FreshFor(disk, known, nextId)
    BY <1>1, <1>3 DEF NextAhead
<1> HIDE DEF add, r
<1>7. FALSE \in BOOLEAN /\ TRUE \in BOOLEAN
    OBVIOUS
<1>8. CASE task.call = "open"
    <2>1. /\ opened' = TRUE /\ known' = known
          /\ task' = [task EXCEPT !.phase = "idle", !.plan = << >>, !.answer = "true"]
        BY <1>1, <1>8
    <2>2. IsTask(task') /\ task'.phase = "idle" /\ task'.plan = << >>
        BY <1>3, <2>1, AnswerDoes
    <2>3. Good(disk, TRUE, nextId, FALSE, task', known)
        BY <1>2, <1>3, <1>4, <1>5, <1>6, <1>7, <2>2, Rests
    <2> QED BY <1>1, <2>1, <2>3, StaysIsOneCall DEF IInv
<1>9. ASSUME NEW ph \in {"append", "replace"}, NEW p, task' = [task EXCEPT !.phase = ph, !.plan = p],
             task.call # "open", task.call # "save", opened' = opened, known' = known,
             IsTask(task') /\ task'.phase = ph /\ task'.plan = p
             /\ task'.call = task.call /\ task'.id = task.id
             => Phased(disk, opened, nextId, task')
      PROVE  IInv' /\ OneCall(disk, disk')
    <2>1. ph \in Phases
        BY PhaseFacts
    <2>2. TaskIs(task', ph, task.call, task.id, p)
        BY <1>3, <1>9, <2>1, EnterDoes
    <2>3. IsTask(task') /\ task'.phase = ph /\ task'.plan = p /\ task'.call = task.call /\ task'.id = task.id
        BY <2>2 DEF TaskIs
    <2>4. Phased(disk, opened, nextId, task')
        BY <1>9, <2>3
    <2>5. NextAhead(disk, known, nextId, opened, task') /\ Calling(opened, nextId, FALSE, task')
        BY <1>1, <1>3, <1>6, <1>9, <2>3 DEF NextAhead, Calling
    <2>6. Good(disk, opened, nextId, FALSE, task', known)
        BY <1>2, <1>3, <1>7, <2>3, <2>4, <2>5, Stays
    <2> QED BY <1>1, <1>9, <2>6, StaysIsOneCall DEF IInv
<1>10. CASE task.call = "append"
    <2>1. task' = [task EXCEPT !.phase = "append", !.plan = add] /\ opened' = opened /\ known' = known
        BY <1>1, <1>10
    <2>2. ASSUME IsTask(task') /\ task'.phase = "append" /\ task'.plan = add
                 /\ task'.call = task.call /\ task'.id = task.id
          PROVE  Phased(disk, opened, nextId, task')
        <3>1. AtAppend(disk, nextId, task')
            BY <1>4, <1>5, <1>10, <2>2 DEF AtAppend, CountersUp, add
        <3> QED BY <2>2, <3>1 DEF Phased
    <2> QED BY <1>9, <1>10, <2>1, <2>2
<1>11. CASE task.call = "rewrite"
    <2>1. task' = [task EXCEPT !.phase = "replace", !.plan = r] /\ opened' = opened /\ known' = known
        BY <1>1, <1>11
    <2>2. ASSUME IsTask(task') /\ task'.phase = "replace" /\ task'.plan = r
                 /\ task'.call = task.call /\ task'.id = task.id
          PROVE  Phased(disk, opened, nextId, task')
        <3>1. ~Holds(disk, "backup", History) /\ Kept(disk, History) # Absent /\ Whole(disk, Files \ {History})
            <4>1. History \in Files
                BY FileFacts
            <4> QED BY <1>5, <4>1, WholeFacts DEF Whole
        <3>2. Rewriting(disk, r, History, {task.id})
            BY <3>1, RewriteBegins DEF r
        <3>3. AtReplace(disk, nextId, task')
            BY <1>4, <1>11, <2>2, <3>1, <3>2 DEF AtReplace, CountersUp
        <3> QED BY <2>2, <3>3 DEF Phased
    <2> QED BY <1>9, <1>11, <2>1, <2>2
<1> QED BY <1>3, <1>8, <1>10, <1>11 DEF AtCounters

LEMMA AppendedKeeps ==
    ASSUME IInv, Appended
    PROVE  IInv' /\ OneCall(disk, disk')
<1> DEFINE r == RewriteFile(disk, Raw, {task.id})
<1>1. /\ task.phase = "append" /\ task.plan = << >>
      /\ disk' = disk /\ opened' = opened /\ nextId' = nextId /\ dirty' = dirty
      /\ \/ \E ok \in BOOLEAN : Answer(ok)
         \/ Torn \notin disk.path[Raw] /\ Enter("compact", r) /\ known' = known
    BY DEF Appended, Finished, In, memory, bounds
<1>2. Good(disk, opened, nextId, dirty, task, known)
    BY DEF IInv
<1>3. /\ AtAppend(disk, nextId, task) /\ IsTask(task) /\ dirty \in BOOLEAN
      /\ Calling(opened, nextId, dirty, task)
    BY <1>1, <1>2 DEF Good, Phased
<1>4. /\ task.call = "append" /\ Settled(disk) /\ Whole(disk, Files) /\ CountersUp(disk, nextId)
      /\ disk.path[Raw] \cap {Torn, task.id} # {}
    <2> DEFINE c == AddTo(Raw, {task.id})
    <2>1. <<c>> # << >>
        OBVIOUS
    <2> QED BY <1>1, <1>3, <2>1 DEF AtAppend
<1>5. opened /\ task.id \in Ids
    BY <1>1, <1>3, <1>4 DEF Calling
<1>6. ASSUME NEW ok \in BOOLEAN, Answer(ok)
      PROVE  IInv' /\ OneCall(disk, disk')
    <2> DEFINE a == IF ok THEN "true" ELSE "false"
    <2>1. /\ task' = [task EXCEPT !.phase = "idle", !.plan = << >>, !.answer = a]
          /\ known' = known \/ known' = known \cup {task.id}
        BY <1>6 DEF Answer
    <2> HIDE DEF a
    <2> QED BY <1>1, <1>3, <1>4, <1>5, <2>1, AnswerKeeps DEF CountersUp
<1>7. ASSUME Torn \notin disk.path[Raw], Enter("compact", r), known' = known
      PROVE  IInv' /\ OneCall(disk, disk')
    <2>1. task' = [task EXCEPT !.phase = "compact", !.plan = r]
        BY <1>7 DEF Enter
    <2>2. /\ Raw \in Files /\ ~Holds(disk, "backup", Raw) /\ Whole(disk, Files \ {Raw})
          /\ Recovered(disk, Raw) = disk.path[Raw] /\ disk.path[Raw] # Absent
        <3>1. Raw \in Files
            BY FileFacts
        <3> QED BY <1>4, <3>1, WholeFacts DEF Whole
    <2>3. task.id \in View(disk, Raw)
        BY <1>4, <1>5, <1>7, <2>2, ContentFacts DEF View
    <2>4. Rewriting(disk, r, Raw, {task.id})
        BY <2>2, RewriteBegins
    <2> HIDE DEF r
    <2>5. ASSUME IsTask(task') /\ task'.phase = "compact" /\ task'.plan = r
                 /\ task'.call = task.call /\ task'.id = task.id
          PROVE  Phased(disk, opened, nextId, task')
        <3>1. AtCompact(disk, nextId, task')
            BY <1>4, <2>2, <2>3, <2>4, <2>5 DEF AtCompact
        <3> QED BY <2>5, <3>1 DEF Phased
    <2> QED BY <1>1, <1>7, <2>1, <2>5, EnterKeeps, PhaseFacts
<1> QED BY <1>1, <1>6, <1>7

LEMMA ReplacedKeeps ==
    ASSUME IInv, Replaced
    PROVE  IInv' /\ OneCall(disk, disk')
<1>1. /\ task.phase \in {"replace", "compact"} /\ task.plan = << >>
      /\ disk' = disk /\ opened' = opened /\ nextId' = nextId /\ dirty' = dirty
      /\ task' = [task EXCEPT !.phase = "idle", !.plan = << >>, !.answer = "true"]
      /\ known' = known \/ known' = known \cup {task.id}
    BY DEF Replaced, Finished, In, Answer, memory, bounds
<1>2. Good(disk, opened, nextId, dirty, task, known)
    BY DEF IInv
<1>3. /\ AtReplace(disk, nextId, task) \/ AtCompact(disk, nextId, task)
      /\ dirty \in BOOLEAN /\ Calling(opened, nextId, dirty, task)
    BY <1>1, <1>2 DEF Good, Phased
<1>4. /\ task.call \in {"append", "rewrite"} /\ Settled(disk) /\ CountersUp(disk, nextId)
      /\ \E f : Whole(disk, Files \ {f}) /\ Rewriting(disk, << >>, f, {task.id})
    BY <1>1, <1>3 DEF AtReplace, AtCompact
<1>5. opened /\ task.id \in Ids
    BY <1>1, <1>3, <1>4 DEF Calling
<1>6. Whole(disk, Files)
    <2>1. PICK f : Whole(disk, Files \ {f}) /\ Rewriting(disk, << >>, f, {task.id})
        BY <1>4
    <2>2. disk.path[f] = {task.id} /\ ~Holds(disk, "backup", f)
        BY <2>1, RewriteEnds
    <2>3. Holds(disk, "path", f)
        BY <1>5, <2>2, ContentFacts DEF Holds
    <2> QED BY <2>1, <2>2, <2>3, WholeFacts
<1> QED BY <1>1, <1>3, <1>4, <1>5, <1>6, AnswerKeeps DEF CountersUp

-----------------------------------------------------------------------------
\* The steps of a save

LEMMA TargetFacts ==
    /\ DOMAIN AllTargets = 1 .. Len(AllTargets) /\ Len(AllTargets) \in Nat
    /\ \A i \in 1 .. Len(AllTargets) : AllTargets[i] \in SavedFiles
    /\ dirty => Targets = AllTargets
<1>1. AllTargets \in Seq(SavedFiles)
    BY TargetsInOrder DEF InOrder
<1>2. dirty => Targets = AllTargets
    BY DEF Targets, AllTargets
<1>3. \A i \in 1 .. Len(AllTargets) : AllTargets[i] \in SavedFiles
    BY <1>1, ElementOfSeq
<1> QED BY <1>1, <1>2, <1>3

LEMMA NewContentsFacts ==
    ASSUME NEW id \in Ids, NEW n \in 1 .. MaxId + 1
    PROVE  \A f \in SavedFiles : /\ NewContents(id, n)[f] = IF f = Counters THEN {n} ELSE {id}
                                 /\ NewContents(id, n)[f] \in ContentsOf[f]
                                 /\ NewContents(id, n)[f] # Absent
<1> TAKE f \in SavedFiles
<1>1. NewContents(id, n)[f] = IF f = Counters THEN {n} ELSE {id}
    BY DEF NewContents
<1>2. f = Counters \/ f \in DataFiles
    BY FileFacts
<1>3. f \in DataFiles => f # Counters
    BY FileFacts
<1> QED BY <1>1, <1>2, <1>3, ContentFacts

LEMMA StartSaveKeeps ==
    ASSUME IInv, StartSave
    PROVE  IInv' /\ OneCall(disk, disk')
<1> DEFINE p == RecoverTransaction(disk)
<1>1. /\ task.phase = "idle" /\ opened /\ nextId <= MaxId
      /\ nextId' = nextId + 1 /\ dirty' = TRUE /\ disk' = disk /\ opened' = opened /\ known' = known
      /\ CanRecover(disk)
         => task' = [Idle EXCEPT !.call = "save", !.id = nextId, !.phase = "recover", !.plan = p]
    BY DEF StartSave, Ready, AllocateId, Begin, In, bounds
<1>2. Good(disk, opened, nextId, dirty, task, known)
    BY DEF IInv
<1>3. /\ AtIdle(disk, opened, task) /\ IsStore(disk) /\ Sound(disk) /\ known \in SUBSET Ids
      /\ nextId \in 1 .. MaxId + 1 /\ opened \in BOOLEAN
      /\ NextAhead(disk, known, nextId, opened, task)
    BY <1>1, <1>2 DEF Good, Phased
<1>4. Settled(disk) /\ Whole(disk, Files)
    BY <1>1, <1>3 DEF AtIdle
<1>5. nextId \in Ids /\ nextId \in 0 .. MaxId /\ nextId + 1 \in 1 .. MaxId + 1 /\ (nextId + 1) - 1 = nextId
    BY <1>1, <1>3, BoundsAssumption DEF Ids
<1>6. FreshFor(disk, known, nextId + 1)
    BY <1>1, <1>3, NextIsFresh DEF NextAhead
<1>7. CanRecover(disk) /\ p = << >>
    BY <1>4 DEF CanRecover, RecoverTransaction, Settled
<1> HIDE DEF p
<1>8. TaskIs(task', "recover", "save", nextId, p)
    <2>1. "recover" \in Phases
        BY PhaseFacts
    <2> QED BY <1>1, <1>5, <1>7, <2>1, BeginDoes
<1>9. /\ IsTask(task') /\ task'.phase = "recover" /\ task'.call = "save" /\ task'.id = nextId
      /\ task'.plan = << >>
    BY <1>7, <1>8 DEF TaskIs
<1>10. Phased(disk, opened, nextId + 1, task')
    BY <1>4, <1>9 DEF AtRecover, Phased
<1>11. NextAhead(disk, known, nextId + 1, opened, task')
    BY <1>6 DEF NextAhead
<1>12. Calling(opened, nextId + 1, TRUE, task')
    BY <1>1, <1>5, <1>9 DEF Calling
<1>13. TRUE \in BOOLEAN
    OBVIOUS
<1>14. Good(disk, opened, nextId + 1, TRUE, task', known)
    BY <1>2, <1>3, <1>5, <1>9, <1>10, <1>11, <1>12, <1>13, Stays
<1> QED BY <1>1, <1>14, StaysIsOneCall DEF IInv

LEMMA SaveRecoveredKeeps ==
    ASSUME IInv, SaveRecovered
    PROVE  IInv' /\ OneCall(disk, disk')
<1> DEFINE ss == [i \in DOMAIN AllTargets |-> RecoverArtifacts(disk, AllTargets[i])]
           p == FlattenSeq(ss)
<1>1. /\ task.phase = "recover" /\ task.plan = << >> /\ task.call = "save"
      /\ disk' = disk /\ opened' = opened /\ nextId' = nextId /\ dirty' = dirty /\ known' = known
    BY DEF SaveRecovered, Finished, In, memory, bounds
<1>2. AtRecover(disk, task) /\ Calling(opened, nextId, dirty, task)
    BY <1>1 DEF IInv, Good, Phased
<1>3. Settled(disk) /\ Whole(disk, Files) /\ dirty
    BY <1>1, <1>2 DEF AtRecover, Calling
<1>4. task' = [task EXCEPT !.phase = "artifacts", !.plan = p]
    BY <1>3, TargetFacts DEF SaveRecovered, Enter
<1>5. Tidying(p, SavedFiles)
    <2>1. DOMAIN ss = 1 .. Len(AllTargets) /\ ss = [i \in DOMAIN ss |-> ss[i]]
          /\ \A i \in DOMAIN ss : ss[i] = RecoverArtifacts(disk, AllTargets[i])
        BY TargetFacts
    <2>2. Whole(disk, SavedFiles)
        BY <1>3, WholeFacts
    <2> HIDE DEF ss
    <2> QED BY <2>1, <2>2, TidyingBegins
<1> HIDE DEF p
<1>6. ASSUME IsTask(task') /\ task'.phase = "artifacts" /\ task'.plan = p
             /\ task'.call = task.call /\ task'.id = task.id
      PROVE  Phased(disk, opened, nextId, task')
    <2>1. AtArtifacts(disk, task')
        BY <1>1, <1>3, <1>5, <1>6 DEF AtArtifacts
    <2> QED BY <1>6, <2>1 DEF Phased
<1> QED BY <1>1, <1>4, <1>6, EnterKeeps, PhaseFacts

LEMMA SaveWritesTempsKeeps ==
    ASSUME IInv, SaveWritesTemps
    PROVE  IInv' /\ OneCall(disk, disk')
<1> DEFINE p == [i \in DOMAIN AllTargets |->
                    Write("temp", AllTargets[i],
                          IF AllTargets[i] = Counters THEN {nextId} ELSE {task.id})]
           new == NewContents(task.id, nextId)
<1>1. /\ task.phase = "artifacts" /\ task.plan = << >> /\ task.call = "save"
      /\ disk' = disk /\ opened' = opened /\ nextId' = nextId /\ dirty' = dirty /\ known' = known
    BY DEF SaveWritesTemps, Finished, In, memory, bounds
<1>2. AtArtifacts(disk, task) /\ Calling(opened, nextId, dirty, task) /\ nextId \in 1 .. MaxId + 1
    BY <1>1 DEF IInv, Good, Phased
<1>3. Settled(disk) /\ Whole(disk, Files) /\ dirty /\ task.id \in Ids
    BY <1>1, <1>2 DEF AtArtifacts, Calling
<1>4. task' = [task EXCEPT !.phase = "temps", !.plan = p]
    BY <1>3, TargetFacts DEF SaveWritesTemps, Enter
<1>5. Preparing(disk, p, SavedFiles, new)
    <2>1. DOMAIN p = 1 .. Len(AllTargets) /\ p = [i \in DOMAIN p |-> p[i]]
        BY TargetFacts
    <2>2. \A i \in 1 .. Len(AllTargets) :
              p[i] = Write("temp", AllTargets[i], IF AllTargets[i] = Counters THEN {nextId} ELSE {task.id})
        BY TargetFacts
    <2>3. \A f \in SavedFiles : new[f] = IF f = Counters THEN {nextId} ELSE {task.id}
        BY <1>2, <1>3, NewContentsFacts
    <2> HIDE DEF p, new
    <2>4. \A i \in 1 .. Len(AllTargets) : p[i] = Write("temp", AllTargets[i], new[AllTargets[i]])
        BY <2>2, <2>3, TargetFacts
    <2> QED BY <2>1, <2>4, TargetsInOrder, PrepareBegins
<1> HIDE DEF p
<1>6. ASSUME IsTask(task') /\ task'.phase = "temps" /\ task'.plan = p
             /\ task'.call = task.call /\ task'.id = task.id
      PROVE  Phased(disk, opened, nextId, task')
    <2>1. AtTemps(disk, nextId, task')
        BY <1>1, <1>3, <1>5, <1>6 DEF AtTemps
    <2> QED BY <1>6, <2>1 DEF Phased
<1> QED BY <1>1, <1>4, <1>6, EnterKeeps, PhaseFacts

LEMMA SaveSwapsKeeps ==
    ASSUME IInv, SaveSwaps
    PROVE  IInv' /\ OneCall(disk, disk')
<1> DEFINE p == Swap(disk, AllTargets)
           new == NewContents(task.id, nextId)
<1>1. /\ task.phase = "temps" /\ task.plan = << >>
      /\ disk' = disk /\ opened' = opened /\ nextId' = nextId /\ dirty' = dirty
    BY DEF SaveSwaps, Finished, In, memory, bounds
<1>2. AtTemps(disk, nextId, task) /\ Calling(opened, nextId, dirty, task) /\ dirty \in BOOLEAN
    BY <1>1 DEF IInv, Good, Phased
<1>3. /\ Settled(disk) /\ Whole(disk, Files) /\ dirty /\ task.call = "save"
      /\ Preparing(disk, << >>, SavedFiles, new)
    BY <1>1, <1>2 DEF AtTemps, Calling
<1>4. \/ task' = [task EXCEPT !.phase = "swap", !.plan = p] /\ known' = known
      \/ task' = [task EXCEPT !.phase = "idle", !.plan = << >>, !.answer = "false"] /\ known' = known
    BY <1>3, TargetFacts DEF SaveSwaps, Enter, Answer
<1> HIDE DEF new
<1>5. Swapping(disk, p, SaveManifest, SavedFiles, new)
    <2>1. \A f \in SavedFiles : disk.temp[f] = new[f]
        BY <1>3, PrepareEnds
    <2>2. Whole(disk, SavedFiles)
        BY <1>3, WholeFacts
    <2>3. SaveManifest = FullManifest(AllTargets)
        BY DEF SaveManifest
    <2> QED BY <1>3, <2>1, <2>2, <2>3, TargetsInOrder, SwapBegins
<1> HIDE DEF p
<1>6. ASSUME IsTask(task') /\ task'.phase = "swap" /\ task'.plan = p
             /\ task'.call = task.call /\ task'.id = task.id
      PROVE  Phased(disk, opened, nextId, task')
    <2>1. Whole(disk, Files \ SavedFiles)
        BY <1>3 DEF Whole
    <2>2. AtSwap(disk, nextId, task')
        BY <1>3, <1>5, <1>6, <2>1 DEF AtSwap, new
    <2> QED BY <1>6, <2>2 DEF Phased
<1>7. CASE task' = [task EXCEPT !.phase = "swap", !.plan = p] /\ known' = known
    BY <1>1, <1>6, <1>7, EnterKeeps, PhaseFacts
<1>8. CASE task' = [task EXCEPT !.phase = "idle", !.plan = << >>, !.answer = "false"] /\ known' = known
    BY <1>1, <1>2, <1>3, <1>8, AnswerKeeps
<1> QED BY <1>4, <1>7, <1>8

LEMMA SaveCleansUpKeeps ==
    ASSUME IInv, SaveCleansUp
    PROVE  IInv' /\ OneCall(disk, disk')
<1> DEFINE p == Finish(disk)
           new == NewContents(task.id, nextId)
<1>1. /\ task.phase = "swap" /\ task.plan = << >>
      /\ task' = [task EXCEPT !.phase = "cleanup", !.plan = p]
      /\ disk' = disk /\ opened' = opened /\ nextId' = nextId /\ dirty' = dirty /\ known' = known
    BY DEF SaveCleansUp, Finished, In, Enter, memory, bounds
<1>2. AtSwap(disk, nextId, task)
    BY <1>1 DEF IInv, Good, Phased
<1>3. /\ task.call = "save" /\ Whole(disk, Files \ SavedFiles)
      /\ Swapping(disk, << >>, SaveManifest, SavedFiles, new)
    BY <1>1, <1>2 DEF AtSwap
<1> HIDE DEF new
<1>4. disk.manifest = SaveManifest /\ disk.commit /\ \A f \in SavedFiles : disk.path[f] = new[f]
    BY <1>3, SwapEnds, TargetsInOrder
<1>5. Finishing(disk, p, SavedFiles)
    BY <1>4, FinishBegins, TargetsInOrder DEF SaveManifest
<1> HIDE DEF p
<1>6. ASSUME IsTask(task') /\ task'.phase = "cleanup" /\ task'.plan = p
             /\ task'.call = task.call /\ task'.id = task.id
      PROVE  Phased(disk, opened, nextId, task')
    <2>1. AtCleanup(disk, nextId, task')
        BY <1>3, <1>4, <1>5, <1>6 DEF AtCleanup, new
    <2> QED BY <1>6, <2>1 DEF Phased
<1> QED BY <1>1, <1>6, EnterKeeps, PhaseFacts

LEMMA SavedKeeps ==
    ASSUME IInv, Saved
    PROVE  IInv' /\ OneCall(disk, disk')
<1> DEFINE new == NewContents(task.id, nextId)
<1>1. /\ task.phase = "cleanup" /\ task.plan = << >>
      /\ disk' = disk /\ opened' = opened /\ nextId' = nextId /\ dirty' = FALSE
      /\ task' = [task EXCEPT !.phase = "idle", !.plan = << >>, !.answer = "true"]
      /\ known' = known \/ known' = known \cup {task.id}
    BY DEF Saved, Finished, In, Answer, bounds
<1>2. AtCleanup(disk, nextId, task) /\ Calling(opened, nextId, dirty, task) /\ nextId \in 1 .. MaxId + 1
    BY <1>1 DEF IInv, Good, Phased
<1>3. /\ task.call = "save" /\ Whole(disk, Files \ SavedFiles)
      /\ Finishing(disk, << >>, SavedFiles)
      /\ \A f \in SavedFiles : disk.path[f] = new[f]
    BY <1>1, <1>2 DEF AtCleanup
<1>4. opened /\ task.id \in Ids
    BY <1>1, <1>2, <1>3 DEF Calling
<1>5. \A f \in SavedFiles : new[f] # Absent /\ new[f] = IF f = Counters THEN {nextId} ELSE {task.id}
    BY <1>2, <1>4, NewContentsFacts
<1> HIDE DEF new
<1>6. Settled(disk) /\ \A f \in SavedFiles : ~Holds(disk, "backup", f)
    BY <1>3, FinishEnds
<1>7. \A f \in SavedFiles : Holds(disk, "path", f)
    BY <1>3, <1>5 DEF Holds
<1>8. Whole(disk, Files)
    BY <1>3, <1>6, <1>7 DEF Whole
<1>9. disk.path[Counters] = {nextId}
    BY <1>3, <1>5, FileFacts
<1>10. dirty' \in BOOLEAN
    BY <1>1
<1> QED BY <1>1, <1>4, <1>6, <1>8, <1>9, <1>10, AnswerKeeps

-----------------------------------------------------------------------------
\* The next change of a plan

LEMMA PerformDoes ==
    ASSUME Perform
    PROVE  /\ task.plan # << >> /\ disk' = Apply(disk, Head(task.plan))
           /\ task' = [task EXCEPT !.plan = Tail(@)]
           /\ opened' = opened /\ nextId' = nextId /\ dirty' = dirty /\ known' = known
BY DEF Perform, memory, bounds

\* The task after the change: t.plan is one shorter.
After(t, u) ==
    /\ IsTask(u) /\ u.phase = t.phase /\ u.call = t.call /\ u.id = t.id
    /\ u.plan = Tail(t.plan)

LEMMA PerformKeeps ==
    ASSUME IInv, Perform, IsStore(disk'), Sound(disk'), Ahead(disk', known),
           opened \/ task.phase = "counters" => FreshFor(disk', known, nextId),
           After(task, task') => Phased(disk', opened, nextId, task')
    PROVE  IInv'
<1>1. /\ task' = [task EXCEPT !.plan = Tail(@)]
      /\ opened' = opened /\ nextId' = nextId /\ dirty' = dirty /\ known' = known
    BY PerformDoes
<1>2. /\ IsTask(task) /\ nextId \in 1 .. MaxId + 1 /\ dirty \in BOOLEAN /\ opened \in BOOLEAN
      /\ known \subseteq Ids /\ Calling(opened, nextId, dirty, task)
    BY DEF IInv, Good
<1>3. TaskIs(task', task.phase, task.call, task.id, Tail(task.plan))
    BY <1>1, <1>2, PerformTask
<1>4. After(task, task')
    BY <1>3 DEF TaskIs, After
<1>5. NextAhead(disk', known, nextId, opened, task') /\ Calling(opened, nextId, dirty, task')
    BY <1>2, <1>4 DEF After, NextAhead, Calling
<1>6. Phased(disk', opened, nextId, task') /\ IsTask(task')
    BY <1>4 DEF After
<1>7. Good(disk', opened, nextId, dirty, task', known)
    BY <1>2, <1>5, <1>6 DEF Good
<1> QED BY <1>1, <1>7 DEF IInv

\* The change is none to what the store stands for.
LEMMA PerformSame ==
    ASSUME IInv, Perform, IsStore(disk'), Sound(disk'), SameView(disk, disk'),
           After(task, task') => Phased(disk', opened, nextId, task')
    PROVE  IInv' /\ OneCall(disk, disk')
<1>1. Ahead(disk, known) /\ NextAhead(disk, known, nextId, opened, task)
    BY DEF IInv, Good
<1>2. /\ Ahead(disk', known)
      /\ FreshFor(disk', known, nextId) <=> FreshFor(disk, known, nextId)
    BY <1>1, SameViewKeeps
<1>3. opened \/ task.phase = "counters" => FreshFor(disk', known, nextId)
    BY <1>1, <1>2 DEF NextAhead
<1>4. IInv'
    BY <1>2, <1>3, PerformKeeps
<1> QED BY <1>4 DEF OneCall, SameView

LEMMA PlanFacts ==
    ASSUME NEW c
    PROVE  <<c>> # << >> /\ Head(<<c>>) = c /\ Tail(<<c>>) = << >>
OBVIOUS

LEMMA PerformRecover ==
    ASSUME IInv, Perform, task.phase = "recover"
    PROVE  IInv' /\ OneCall(disk, disk')
<1>1. task.plan # << >> /\ disk' = Apply(disk, Head(task.plan))
    BY PerformDoes
<1>2. AtRecover(disk, task) /\ IsStore(disk) /\ Sound(disk)
    BY DEF IInv, Good, Phased
<1>3. SavedFiles \in SUBSET Files /\ {} \in SUBSET SavedFiles /\ Counters \notin {}
    BY FileFacts
<1>4. CASE Mending(disk, task.plan, SavedFiles, {})
    <2>1. KeptMending(disk, disk', SavedFiles, {}, task.plan)
        BY <1>1, <1>2, <1>3, <1>4, MendingKeeps
    <2>2. /\ IsStore(disk') /\ Sound(disk') /\ SameView(disk, disk')
          /\ Mending(disk', Tail(task.plan), SavedFiles, {})
        BY <2>1 DEF KeptMending
    <2>3. task.call = "open"
        BY <1>1, <1>2 DEF AtRecover
    <2>4. After(task, task') => Phased(disk', opened, nextId, task')
        BY <2>2, <2>3 DEF After, Phased, AtRecover
    <2> QED BY <2>2, <2>4, PerformSame
<1>5. CASE Finishing(disk, task.plan, SavedFiles)
    <2>1. KeptFinishing(disk, disk', task.plan)
        BY <1>1, <1>2, <1>5, FinishingKeeps
    <2>2. /\ IsStore(disk') /\ Sound(disk') /\ SameView(disk, disk')
          /\ Finishing(disk', Tail(task.plan), SavedFiles)
        BY <2>1 DEF KeptFinishing
    <2>3. task.call = "open"
        BY <1>1, <1>2 DEF AtRecover
    <2>4. After(task, task') => Phased(disk', opened, nextId, task')
        BY <2>2, <2>3 DEF After, Phased, AtRecover
    <2> QED BY <2>2, <2>4, PerformSame
<1>6. CASE /\ task.call = "open" /\ disk.manifest = NoManifest
           /\ task.plan = IF disk.commit THEN <<RemoveCommit>> ELSE << >>
    <2> DEFINE one == <<RemoveCommit>>
    <2>1. Head(one) = RemoveCommit /\ Tail(one) = << >>
        BY PlanFacts
    <2>2. task.plan = IF disk.commit THEN one ELSE << >>
        BY <1>6
    <2> HIDE DEF one
    <2>3. disk.commit /\ disk' = Apply(disk, RemoveCommit) /\ Tail(task.plan) = << >>
        BY <1>1, <2>1, <2>2
    <2>4. IsStore(disk') /\ SameSlots(disk, disk') /\ disk'.manifest = disk.manifest /\ ~disk'.commit
        BY <1>2, <2>3, RemoveCommitDoes DEF IsStore
    <2>5. Sound(disk')
        BY <1>6, <2>4, TargetsInOrder DEF Sound
    <2>6. \A f \in Files : Recovered(disk', f) = Recovered(disk, f)
        <3>1. \A f \in Files : Kept(disk', f) = Kept(disk, f)
            BY <2>4 DEF Kept, SameSlots, Holds
        <3> QED BY <1>6, <2>4, <3>1, NoManifestFacts, RecoveredIsKept
    <2>7. After(task, task') => Phased(disk', opened, nextId, task')
        BY <1>6, <2>3, <2>4 DEF After, Phased, AtRecover
    <2> QED BY <2>4, <2>5, <2>6, <2>7, SameRecovered, PerformSame
<1> QED BY <1>1, <1>2, <1>4, <1>5, <1>6 DEF AtRecover

LEMMA TidyingKeeps ==
    ASSUME NEW d, IsStore(d), Sound(d), NEW p, Tidying(p, SavedFiles), p # << >>,
           NEW e, e = Apply(d, Head(p))
    PROVE  /\ IsStore(e) /\ Sound(e) /\ SameView(d, e) /\ Tidying(Tail(p), SavedFiles)
           /\ Settled(d) => Settled(e)
           /\ Whole(d, Files) => Whole(e, Files)
<1>1. IsDisk(d, Files, ContentsOf) /\ SavedFiles \in SUBSET Files
    BY FileFacts DEF IsStore
<1>2. TidiedTo(d, e, Files, ContentsOf, SavedFiles, p)
    BY <1>1, TidyGoes
<1>3. /\ IsDisk(e, Files, ContentsOf) /\ Tidying(Tail(p), SavedFiles)
      /\ e.manifest = d.manifest /\ e.commit = d.commit
      /\ \A g \in Files : e.path[g] = d.path[g] /\ e.backup[g] = d.backup[g]
    BY <1>2 DEF TidiedTo
<1>4. Sound(e) /\ SameView(d, e)
    BY <1>3, QuietKeeps
<1> QED BY <1>3, <1>4 DEF IsStore, Settled, Whole, Holds

LEMMA PerformArtifacts ==
    ASSUME IInv, Perform, task.phase = "artifacts"
    PROVE  IInv' /\ OneCall(disk, disk')
<1>1. task.plan # << >> /\ disk' = Apply(disk, Head(task.plan))
    BY PerformDoes
<1>2. AtArtifacts(disk, task) /\ IsStore(disk) /\ Sound(disk)
    BY DEF IInv, Good, Phased
<1>3. Settled(disk)
    BY <1>2 DEF AtArtifacts
<1>4. CASE task.call = "open" /\ Mending(disk, task.plan, {Raw}, {Raw})
    <2>1. {Raw} \in SUBSET Files /\ {Raw} \in SUBSET {Raw} /\ Counters \notin {Raw}
        BY FileFacts
    <2>2. KeptMending(disk, disk', {Raw}, {Raw}, task.plan)
        BY <1>1, <1>2, <1>4, <2>1, MendingKeeps
    <2>3. /\ IsStore(disk') /\ Sound(disk') /\ SameView(disk, disk') /\ Settled(disk')
          /\ Mending(disk', Tail(task.plan), {Raw}, {Raw})
        BY <1>3, <2>2 DEF KeptMending
    <2>4. After(task, task') => Phased(disk', opened, nextId, task')
        BY <1>4, <2>3 DEF After, Phased, AtArtifacts
    <2> QED BY <2>3, <2>4, PerformSame
<1>5. CASE task.call = "save" /\ Whole(disk, Files) /\ Tidying(task.plan, SavedFiles)
    <2>1. /\ IsStore(disk') /\ Sound(disk') /\ SameView(disk, disk')
          /\ Tidying(Tail(task.plan), SavedFiles)
          /\ Settled(disk') /\ Whole(disk', Files)
        BY <1>1, <1>2, <1>3, <1>5, TidyingKeeps
    <2>2. After(task, task') => Phased(disk', opened, nextId, task')
        BY <1>5, <2>1 DEF After, Phased, AtArtifacts
    <2> QED BY <2>1, <2>2, PerformSame
<1> QED BY <1>2, <1>4, <1>5 DEF AtArtifacts

LEMMA PerformDiscard ==
    ASSUME IInv, Perform, task.phase = "discard"
    PROVE  IInv' /\ OneCall(disk, disk')
<1>1. task.plan # << >> /\ disk' = Apply(disk, Head(task.plan))
    BY PerformDoes
<1>2. AtDiscard(disk, task) /\ IsStore(disk) /\ Sound(disk)
    BY DEF IInv, Good, Phased
<1>3. Settled(disk) /\ task.call = "save" /\ Whole(disk, Files) /\ Tidying(task.plan, SavedFiles)
    BY <1>2 DEF AtDiscard
<1>4. /\ IsStore(disk') /\ Sound(disk') /\ SameView(disk, disk')
      /\ Tidying(Tail(task.plan), SavedFiles)
      /\ Settled(disk') /\ Whole(disk', Files)
    BY <1>1, <1>2, <1>3, TidyingKeeps
<1>5. After(task, task') => Phased(disk', opened, nextId, task')
    BY <1>3, <1>4 DEF After, Phased, AtDiscard
<1> QED BY <1>4, <1>5, PerformSame

LEMMA PerformTail ==
    ASSUME IInv, Perform, task.phase = "tail"
    PROVE  IInv' /\ OneCall(disk, disk')
<1> DEFINE v == View(disk, Raw)
<1>1. task.plan # << >> /\ disk' = Apply(disk, Head(task.plan))
    BY PerformDoes
<1>2. AtTail(disk, task) /\ IsStore(disk) /\ Sound(disk)
    BY DEF IInv, Good, Phased
<1>3. task.call = "open" /\ Settled(disk) /\ Rewriting(disk, task.plan, Raw, v)
    BY <1>1, <1>2 DEF AtTail
<1>4. Raw \in Files /\ Raw \in DataFiles /\ Raw # Counters /\ Counters \in Files /\ DataFiles \subseteq Files
    BY FileFacts
<1>5. v \in ContentsOf[Raw] /\ v # Absent /\ v \ {Torn} = v
    <2>1. v \in SUBSET Ids
        BY <1>2, <1>4, ViewFacts DEF Sound
    <2> HIDE DEF v
    <2>2. v \in SUBSET (Ids \cup {Torn})
        BY <2>1
    <2>3. v \ {Torn} = v
        BY <2>1, ContentFacts
    <2> QED BY <1>4, <2>2, <2>3, ContentFacts
<1> HIDE DEF v
<1>6. KeptRewriting(disk, disk', Raw, v, task.plan)
    BY <1>1, <1>2, <1>3, <1>4, <1>5, RewritingKeeps
<1>7. /\ IsStore(disk') /\ Sound(disk') /\ Settled(disk')
      /\ Rewriting(disk', Tail(task.plan), Raw, v)
      /\ \A g \in Files \ {Raw} : Recovered(disk', g) = Recovered(disk, g) /\ View(disk', g) = View(disk, g)
      /\ View(disk', Raw) = IF Tail(task.plan) = << >> THEN v \ {Torn} ELSE View(disk, Raw)
    BY <1>6 DEF KeptRewriting
<1>8. View(disk', Raw) = View(disk, Raw) /\ View(disk', Raw) = v
    BY <1>5, <1>7 DEF v
<1>9. SameView(disk, disk')
    BY <1>4, <1>7, <1>8 DEF SameView, SameData
<1>10. After(task, task') => Phased(disk', opened, nextId, task')
    BY <1>3, <1>7, <1>8 DEF After, Phased, AtTail
<1> QED BY <1>7, <1>9, <1>10, PerformSame

LEMMA PerformOthers ==
    ASSUME IInv, Perform, task.phase = "others"
    PROVE  IInv' /\ OneCall(disk, disk')
<1> DEFINE F == Files \ {Raw}
           E == DataFiles \ {Raw}
<1>1. task.plan # << >> /\ disk' = Apply(disk, Head(task.plan))
    BY PerformDoes
<1>2. AtOthers(disk, task) /\ IsStore(disk) /\ Sound(disk)
    BY DEF IInv, Good, Phased
<1>3. task.call = "open" /\ Settled(disk) /\ Whole(disk, {Raw}) /\ Mending(disk, task.plan, F, E)
    BY <1>2 DEF AtOthers
<1>4. F \in SUBSET Files /\ E \in SUBSET F /\ Counters \notin E /\ Raw \in Files \ F
    BY FileFacts
<1> HIDE DEF F, E
<1>5. KeptMending(disk, disk', F, E, task.plan)
    BY <1>1, <1>2, <1>3, <1>4, MendingKeeps
<1>6. /\ IsStore(disk') /\ Sound(disk') /\ SameView(disk, disk') /\ Settled(disk')
      /\ Mending(disk', Tail(task.plan), F, E)
      /\ disk'.path[Raw] = disk.path[Raw] /\ disk'.backup[Raw] = disk.backup[Raw]
    BY <1>3, <1>4, <1>5 DEF KeptMending
<1>7. Whole(disk', {Raw})
    BY <1>3, <1>6 DEF Whole, Holds
<1>8. After(task, task') => Phased(disk', opened, nextId, task')
    BY <1>3, <1>6, <1>7 DEF After, Phased, AtOthers, F, E
<1> QED BY <1>6, <1>8, PerformSame

LEMMA PerformAbort ==
    ASSUME IInv, Perform, task.phase = "abort"
    PROVE  IInv' /\ OneCall(disk, disk')
<1>1. task.plan # << >> /\ disk' = Apply(disk, Head(task.plan))
    BY PerformDoes
<1>2. AtAbort(disk, task) /\ IsStore(disk) /\ Sound(disk)
    BY DEF IInv, Good, Phased
<1>3. /\ task.call = "save" /\ Whole(disk, Files \ SavedFiles)
      /\ \A f \in SavedFiles : Kept(disk, f) # Absent
      /\ Mending(disk, task.plan, SavedFiles, {})
    BY <1>2 DEF AtAbort
<1>4. SavedFiles \in SUBSET Files /\ {} \in SUBSET SavedFiles /\ Counters \notin {}
    BY FileFacts
<1>5. KeptMending(disk, disk', SavedFiles, {}, task.plan)
    BY <1>1, <1>2, <1>3, <1>4, MendingKeeps
<1>6. /\ IsStore(disk') /\ Sound(disk') /\ SameView(disk, disk')
      /\ Mending(disk', Tail(task.plan), SavedFiles, {})
      /\ \A g \in Files \ SavedFiles : disk'.path[g] = disk.path[g] /\ disk'.backup[g] = disk.backup[g]
      /\ \A g \in Files : Kept(disk', g) = Kept(disk, g)
    BY <1>5 DEF KeptMending
<1>7. Whole(disk', Files \ SavedFiles) /\ \A f \in SavedFiles : Kept(disk', f) # Absent
    BY <1>3, <1>4, <1>6 DEF Whole, Holds
<1>8. After(task, task') => Phased(disk', opened, nextId, task')
    BY <1>3, <1>6, <1>7 DEF After, Phased, AtAbort
<1> QED BY <1>6, <1>8, PerformSame

\* One new id comes into the files.
LEMMA OneMore ==
    ASSUME NEW d, NEW e, NEW k, NEW n, NEW id, id < n, FreshFor(d, k, n),
           \A f \in DataFiles : View(e, f) \subseteq View(d, f) \cup {id}
    PROVE  FreshFor(e, k, n)
<1>1. IdsIn(e) \subseteq IdsIn(d) \cup {id}
    BY DEF IdsIn
<1> QED BY <1>1 DEF FreshFor

\* The counter file is the one that is ahead.
LEMMA AheadByCounters ==
    ASSUME NEW d, NEW k, NEW n \in 1 .. MaxId + 1, Settled(d), CountersUp(d, n), FreshFor(d, k, n)
    PROVE  Ahead(d, k)
<1>1. Recovered(d, Counters) = {n}
    BY WholeFacts DEF CountersUp, Kept
<1>2. {n} # Absent
    BY ContentFacts
<1> QED BY <1>1, <1>2 DEF Ahead

\* A call in progress on an open store: the id it stores is the last one given out.
LEMMA CallFacts ==
    ASSUME IInv, task.call # "open", task.phase # "idle"
    PROVE  /\ opened /\ task.id \in Ids /\ task.id = nextId - 1 /\ task.id < nextId
           /\ nextId \in 1 .. MaxId + 1 /\ FreshFor(disk, known, nextId)
<1>1. /\ nextId \in 1 .. MaxId + 1 /\ Calling(opened, nextId, dirty, task)
      /\ NextAhead(disk, known, nextId, opened, task)
    BY DEF IInv, Good
<1>2. opened /\ task.id \in Ids /\ task.id = nextId - 1
    BY <1>1 DEF Calling
<1>3. task.id < nextId
    BY <1>1, <1>2, BoundsAssumption
<1> QED BY <1>1, <1>2, <1>3 DEF NextAhead

LEMMA PerformCounters ==
    ASSUME IInv, Perform, task.phase = "counters"
    PROVE  IInv' /\ OneCall(disk, disk')
<1>1. task.plan # << >> /\ disk' = Apply(disk, Head(task.plan))
    BY PerformDoes
<1>2. /\ AtCounters(disk, opened, nextId, task) /\ IsStore(disk) /\ Ahead(disk, known)
      /\ NextAhead(disk, known, nextId, opened, task) /\ nextId \in 1 .. MaxId + 1
    BY DEF IInv, Good, Phased
<1>3. /\ task.call \in {"open", "append", "rewrite"} /\ Settled(disk) /\ Whole(disk, DataFiles)
      /\ Rewriting(disk, task.plan, Counters, {nextId})
      /\ opened => Kept(disk, Counters) # Absent
    BY <1>2 DEF AtCounters
<1>4. {nextId} \in ContentsOf[Counters] /\ {nextId} # Absent /\ Counters \in Files
    BY <1>2, ContentFacts, FileFacts
<1>5. KeptRewriting(disk, disk', Counters, {nextId}, task.plan)
    BY <1>1, <1>2, <1>3, <1>4, RewritingKeeps
<1>6. /\ IsStore(disk') /\ Sound(disk') /\ Settled(disk')
      /\ Rewriting(disk', Tail(task.plan), Counters, {nextId})
      /\ \A g \in Files \ {Counters} : /\ disk'.path[g] = disk.path[g] /\ disk'.backup[g] = disk.backup[g]
                                       /\ View(disk', g) = View(disk, g)
      /\ Recovered(disk, Counters) = Kept(disk, Counters) /\ Recovered(disk', Counters) = Kept(disk', Counters)
      /\ Kept(disk', Counters) = IF Tail(task.plan) = << >> THEN {nextId} ELSE Kept(disk, Counters)
    BY <1>5 DEF KeptRewriting
<1>7. \A g \in DataFiles : g \in Files \ {Counters}
    BY FileFacts
<1>8. SameData(disk, disk') /\ Whole(disk', DataFiles)
    BY <1>3, <1>6, <1>7 DEF SameData, Whole, Holds
<1>9. /\ FreshFor(disk', known, nextId)
      /\ IdsIn(disk') = IdsIn(disk) /\ \A n : FreshFor(disk', known, n) <=> FreshFor(disk, known, n)
    BY <1>2, <1>8, SameDataKeeps DEF NextAhead
<1>10. Ahead(disk', known)
    <2>1. CASE Tail(task.plan) = << >>
        BY <1>4, <1>6, <1>9, <2>1 DEF Ahead
    <2>2. CASE Tail(task.plan) # << >>
        BY <1>2, <1>6, <1>9, <2>2 DEF Ahead
    <2> QED BY <2>1, <2>2
<1>11. opened => Kept(disk', Counters) # Absent
    BY <1>3, <1>4, <1>6
<1>12. After(task, task') => Phased(disk', opened, nextId, task')
    <2> HAVE After(task, task')
    <2>1. AtCounters(disk', opened, nextId, task')
        BY <1>3, <1>6, <1>8, <1>11 DEF After, AtCounters
    <2> QED BY <2>1 DEF After, Phased
<1>13. IInv'
    BY <1>6, <1>9, <1>10, <1>12, PerformKeeps
<1> QED BY <1>8, <1>13 DEF OneCall

LEMMA PerformAppend ==
    ASSUME IInv, Perform, task.phase = "append"
    PROVE  IInv' /\ OneCall(disk, disk')
<1> DEFINE c == AddTo(Raw, {task.id})
           one == <<c>>
           path == disk.path[Raw]
           new == IF Torn \in path THEN path ELSE path \cup {task.id}
<1>1. task.plan # << >> /\ disk' = Apply(disk, Head(task.plan))
    BY PerformDoes
<1>2. AtAppend(disk, nextId, task) /\ IsStore(disk) /\ Sound(disk)
    BY DEF IInv, Good, Phased
<1>3. /\ task.call = "append" /\ Settled(disk) /\ Whole(disk, Files) /\ CountersUp(disk, nextId)
      /\ task.plan = one
    BY <1>1, <1>2 DEF AtAppend
<1>4. /\ opened /\ task.id \in Ids /\ task.id < nextId
      /\ nextId \in 1 .. MaxId + 1 /\ FreshFor(disk, known, nextId)
    BY <1>3, CallFacts
<1>5. disk' = Apply(disk, c) /\ Tail(task.plan) = << >>
    BY <1>1, <1>3, PlanFacts
<1>6. Raw \in Files /\ Raw \in DataFiles /\ Raw # Counters /\ Counters \in Files /\ DataFiles \subseteq Files
    BY FileFacts
<1>7. path # Absent /\ path \in SUBSET (Ids \cup {Torn})
    <2>1. path \in ContentsOf[Raw] /\ path # Absent
        BY <1>2, <1>3, <1>6, DiskSlots DEF IsStore, Whole, Holds
    <2> HIDE DEF path
    <2> DEFINE X == SUBSET (Ids \cup {Torn})
    <2>2. ContentsOf[Raw] = X \cup {Absent}
        BY <1>6, ContentFacts
    <2> HIDE DEF X
    <2>3. path \in X
        BY <2>1, <2>2
    <2> QED BY <2>1, <2>3 DEF X
<1>8. path \cup {task.id} \in ContentsOf[Raw]
    <2> HIDE DEF path
    <2>1. path \cup {task.id} \in SUBSET (Ids \cup {Torn})
        BY <1>4, <1>7
    <2> QED BY <1>6, <2>1, ContentFacts
<1>9. IsStore(disk') /\ OnlyAt(disk, disk', Files, Raw, new, disk.temp[Raw], disk.backup[Raw])
    <2>1. IsDisk(disk, Files, ContentsOf)
        BY <1>2 DEF IsStore
    <2>2. IsDisk(disk', Files, ContentsOf) /\ OnlyAt(disk, disk', Files, Raw, new, disk.temp[Raw], disk.backup[Raw])
        BY <1>5, <1>6, <1>7, <1>8, <2>1, AddToDoes
    <2> QED BY <2>2 DEF IsStore
<1>10. new \in SUBSET (Ids \cup {Torn}) /\ new # Absent /\ new \cap {Torn, task.id} # {}
    <2> HIDE DEF path
    <2>1. new \in SUBSET (Ids \cup {Torn}) /\ new \cap {Torn, task.id} # {}
        BY <1>4, <1>7
    <2> QED BY <2>1, ContentFacts
<1>11. /\ disk'.path[Raw] = new /\ disk'.backup[Raw] = disk.backup[Raw]
       /\ \A g \in Files \ {Raw} : disk'.path[g] = disk.path[g] /\ disk'.backup[g] = disk.backup[g]
       /\ disk'.manifest = disk.manifest /\ disk'.commit = disk.commit
    BY <1>6, <1>9 DEF OnlyAt
<1> HIDE DEF new
<1>12. Settled(disk') /\ Whole(disk', Files) /\ CountersUp(disk', nextId)
    BY <1>3, <1>6, <1>10, <1>11 DEF Settled, Whole, CountersUp, Holds
<1>13. Sound(disk')
    BY <1>12, TargetsInOrder DEF Sound, Settled
<1>14. \A g \in DataFiles \ {Raw} : View(disk', g) = View(disk, g)
    <2> TAKE g \in DataFiles \ {Raw}
    <2>1. Kept(disk', g) = Kept(disk, g)
        BY <1>6, <1>11 DEF Kept, Holds
    <2>2. Recovered(disk', g) = Kept(disk', g) /\ Recovered(disk, g) = Kept(disk, g)
        BY <1>3, <1>12, WholeFacts
    <2> QED BY <2>1, <2>2 DEF View
<1>15. View(disk, Raw) = path \ {Torn} /\ View(disk', Raw) = new \ {Torn}
    <2>1. Recovered(disk', Raw) = new /\ Recovered(disk, Raw) = path
        BY <1>3, <1>6, <1>11, <1>12, WholeFacts
    <2> QED BY <1>7, <1>10, <2>1 DEF View
<1>16. new \ {Torn} = path \ {Torn} \/ new \ {Torn} = (path \ {Torn}) \cup {task.id}
    <2>1. task.id # Torn
        BY <1>4, ContentFacts
    <2> HIDE DEF path
    <2> QED BY <2>1 DEF new
<1>17. OneCall(disk, disk')
    <2>1. CASE View(disk', Raw) = View(disk, Raw)
        BY <1>14, <2>1 DEF OneCall, SameData
    <2>2. CASE View(disk', Raw) = View(disk, Raw) \cup {task.id}
        <3>1. \A f \in DataFiles :
                  View(disk', f) = IF f = Raw THEN View(disk, f) \cup {task.id} ELSE View(disk, f)
            BY <1>14, <2>2
        <3> QED BY <1>4, <3>1 DEF OneCall
    <2> QED BY <1>15, <1>16, <2>1, <2>2
<1>18. FreshFor(disk', known, nextId)
    <2>1. \A f \in DataFiles : View(disk', f) \subseteq View(disk, f) \cup {task.id}
        BY <1>14, <1>15, <1>16
    <2> QED BY <1>4, <2>1, OneMore
<1>19. Ahead(disk', known)
    BY <1>4, <1>12, <1>18, AheadByCounters
<1>20. After(task, task') => Phased(disk', opened, nextId, task')
    <2> HAVE After(task, task')
    <2>1. AtAppend(disk', nextId, task')
        BY <1>3, <1>5, <1>10, <1>11, <1>12 DEF After, AtAppend
    <2> QED BY <2>1 DEF After, Phased
<1>21. IInv'
    BY <1>9, <1>13, <1>18, <1>19, <1>20, PerformKeeps
<1> QED BY <1>17, <1>21

LEMMA PerformCompact ==
    ASSUME IInv, Perform, task.phase = "compact"
    PROVE  IInv' /\ OneCall(disk, disk')
<1> DEFINE id == task.id
<1>1. task.plan # << >> /\ disk' = Apply(disk, Head(task.plan))
    BY PerformDoes
<1>2. AtCompact(disk, nextId, task) /\ IsStore(disk) /\ Sound(disk)
    BY DEF IInv, Good, Phased
<1>3. /\ task.call = "append" /\ Settled(disk) /\ Whole(disk, Files \ {Raw}) /\ CountersUp(disk, nextId)
      /\ Rewriting(disk, task.plan, Raw, {id}) /\ id \in View(disk, Raw)
    BY <1>2 DEF AtCompact
<1>4. /\ opened /\ id \in Ids /\ id < nextId /\ id = nextId - 1
      /\ nextId \in 1 .. MaxId + 1 /\ FreshFor(disk, known, nextId)
    BY <1>3, CallFacts
<1>5. Raw \in Files /\ Raw \in DataFiles /\ Raw # Counters /\ Counters \in Files /\ DataFiles \subseteq Files
    BY FileFacts
<1>6. {id} \in ContentsOf[Raw] /\ {id} # Absent /\ {id} \ {Torn} = {id}
    BY <1>4, <1>5, ContentFacts
<1>7. KeptRewriting(disk, disk', Raw, {id}, task.plan)
    BY <1>1, <1>2, <1>3, <1>5, <1>6, RewritingKeeps
<1>8. /\ IsStore(disk') /\ Sound(disk') /\ Settled(disk')
      /\ Rewriting(disk', Tail(task.plan), Raw, {id})
      /\ \A g \in Files \ {Raw} : /\ disk'.path[g] = disk.path[g] /\ disk'.backup[g] = disk.backup[g]
                                  /\ View(disk', g) = View(disk, g)
      /\ View(disk', Raw) = IF Tail(task.plan) = << >> THEN {id} \ {Torn} ELSE View(disk, Raw)
    BY <1>7 DEF KeptRewriting
<1>9. Whole(disk', Files \ {Raw}) /\ CountersUp(disk', nextId) /\ id \in View(disk', Raw)
    BY <1>3, <1>5, <1>6, <1>8 DEF Whole, CountersUp, Holds
<1>10. OneCall(disk, disk')
    <2>1. CASE Tail(task.plan) = << >>
        <3>1. \A f \in DataFiles : View(disk', f) = IF f = Raw THEN {id} ELSE View(disk, f)
            BY <1>5, <1>6, <1>8, <2>1
        <3>2. \A old \in View(disk, Raw) \ {id} : old < id
            <4>1. View(disk, Raw) \subseteq Ids
                BY <1>2, <1>5, ViewFacts DEF Sound
            <4>2. \A old \in View(disk, Raw) : old < nextId /\ old \in Ids
                BY <1>4, <1>5, <4>1 DEF FreshFor, IdsIn
            <4>3. MaxId \in Nat
                BY BoundsAssumption
            <4> HIDE DEF id
            <4> QED BY <1>4, <4>2, <4>3 DEF Ids
        <3> QED BY <1>3, <3>1, <3>2 DEF OneCall
    <2>2. CASE Tail(task.plan) # << >>
        BY <1>5, <1>8, <2>2 DEF OneCall, SameData
    <2> QED BY <2>1, <2>2
<1>11. FreshFor(disk', known, nextId)
    <2>1. \A f \in DataFiles : View(disk', f) \subseteq View(disk, f) \cup {id}
        BY <1>5, <1>6, <1>8
    <2> QED BY <1>4, <2>1, OneMore
<1>12. Ahead(disk', known)
    BY <1>4, <1>8, <1>9, <1>11, AheadByCounters
<1>13. After(task, task') => Phased(disk', opened, nextId, task')
    <2> HAVE After(task, task')
    <2>1. AtCompact(disk', nextId, task')
        BY <1>3, <1>8, <1>9 DEF After, AtCompact
    <2> QED BY <2>1 DEF After, Phased
<1>14. IInv'
    BY <1>8, <1>11, <1>12, <1>13, PerformKeeps
<1> QED BY <1>10, <1>14

LEMMA PerformReplace ==
    ASSUME IInv, Perform, task.phase = "replace"
    PROVE  IInv' /\ OneCall(disk, disk')
<1> DEFINE id == task.id
<1>1. task.plan # << >> /\ disk' = Apply(disk, Head(task.plan))
    BY PerformDoes
<1>2. AtReplace(disk, nextId, task) /\ IsStore(disk) /\ Sound(disk)
    BY DEF IInv, Good, Phased
<1>3. /\ task.call = "rewrite" /\ Settled(disk) /\ Whole(disk, Files \ {History}) /\ CountersUp(disk, nextId)
      /\ Rewriting(disk, task.plan, History, {id}) /\ Kept(disk, History) # Absent
    BY <1>2 DEF AtReplace
<1>4. /\ opened /\ id \in Ids /\ id < nextId
      /\ nextId \in 1 .. MaxId + 1 /\ FreshFor(disk, known, nextId)
    BY <1>3, CallFacts
<1>5. /\ History \in Files /\ History \in DataFiles /\ History # Counters
      /\ Counters \in Files /\ DataFiles \subseteq Files
    BY FileFacts
<1>6. {id} \in ContentsOf[History] /\ {id} # Absent /\ {id} \ {Torn} = {id}
    BY <1>4, <1>5, ContentFacts
<1>7. KeptRewriting(disk, disk', History, {id}, task.plan)
    BY <1>1, <1>2, <1>3, <1>5, <1>6, RewritingKeeps
<1>8. /\ IsStore(disk') /\ Sound(disk') /\ Settled(disk')
      /\ Rewriting(disk', Tail(task.plan), History, {id})
      /\ \A g \in Files \ {History} : /\ disk'.path[g] = disk.path[g] /\ disk'.backup[g] = disk.backup[g]
                                      /\ View(disk', g) = View(disk, g)
      /\ View(disk', History) = IF Tail(task.plan) = << >> THEN {id} \ {Torn} ELSE View(disk, History)
      /\ Kept(disk', History) = IF Tail(task.plan) = << >> THEN {id} ELSE Kept(disk, History)
    BY <1>7 DEF KeptRewriting
<1>9. Whole(disk', Files \ {History}) /\ CountersUp(disk', nextId) /\ Kept(disk', History) # Absent
    BY <1>3, <1>5, <1>6, <1>8 DEF Whole, CountersUp, Holds
<1>10. OneCall(disk, disk')
    <2>1. CASE Tail(task.plan) = << >>
        <3>1. \A f \in DataFiles : View(disk', f) = IF f \in {History} THEN {id} ELSE View(disk, f)
            BY <1>5, <1>6, <1>8, <2>1
        <3> QED BY <1>4, <3>1 DEF OneCall
    <2>2. CASE Tail(task.plan) # << >>
        BY <1>5, <1>8, <2>2 DEF OneCall, SameData
    <2> QED BY <2>1, <2>2
<1>11. FreshFor(disk', known, nextId)
    <2>1. \A f \in DataFiles : View(disk', f) \subseteq View(disk, f) \cup {id}
        BY <1>5, <1>6, <1>8
    <2> QED BY <1>4, <2>1, OneMore
<1>12. Ahead(disk', known)
    BY <1>4, <1>8, <1>9, <1>11, AheadByCounters
<1>13. After(task, task') => Phased(disk', opened, nextId, task')
    <2> HAVE After(task, task')
    <2>1. AtReplace(disk', nextId, task')
        BY <1>3, <1>8, <1>9 DEF After, AtReplace
    <2> QED BY <2>1 DEF After, Phased
<1>14. IInv'
    BY <1>8, <1>11, <1>12, <1>13, PerformKeeps
<1> QED BY <1>10, <1>14

LEMMA PerformTemps ==
    ASSUME IInv, Perform, task.phase = "temps"
    PROVE  IInv' /\ OneCall(disk, disk')
<1> DEFINE new == NewContents(task.id, nextId)
<1>1. task.plan # << >> /\ disk' = Apply(disk, Head(task.plan))
    BY PerformDoes
<1>2. AtTemps(disk, nextId, task) /\ IsStore(disk) /\ Sound(disk)
    BY DEF IInv, Good, Phased
<1>3. /\ task.call = "save" /\ Settled(disk) /\ Whole(disk, Files)
      /\ Preparing(disk, task.plan, SavedFiles, new)
    BY <1>2 DEF AtTemps
<1>4. task.id \in Ids /\ nextId \in 1 .. MaxId + 1
    BY <1>3, CallFacts
<1>5. \A f \in SavedFiles : new[f] \in ContentsOf[f]
    BY <1>4, NewContentsFacts
<1> HIDE DEF new
<1>6. IsDisk(disk, Files, ContentsOf) /\ SavedFiles \in SUBSET Files
    BY <1>2, FileFacts DEF IsStore
<1>7. PreparedTo(disk, disk', Files, ContentsOf, SavedFiles, new, task.plan)
    BY <1>1, <1>3, <1>5, <1>6, PrepareGoes
<1>8. /\ IsStore(disk') /\ Preparing(disk', Tail(task.plan), SavedFiles, new)
      /\ disk'.manifest = disk.manifest /\ disk'.commit = disk.commit
      /\ \A g \in Files : disk'.path[g] = disk.path[g] /\ disk'.backup[g] = disk.backup[g]
    BY <1>7 DEF PreparedTo, IsStore
<1>9. Sound(disk') /\ SameView(disk, disk')
    BY <1>2, <1>8, QuietKeeps
<1>10. Settled(disk') /\ Whole(disk', Files)
    BY <1>3, <1>8 DEF Settled, Whole, Holds
<1>11. After(task, task') => Phased(disk', opened, nextId, task')
    <2> HAVE After(task, task')
    <2>1. AtTemps(disk', nextId, task')
        BY <1>3, <1>8, <1>10 DEF After, AtTemps, new
    <2> QED BY <2>1 DEF After, Phased
<1> QED BY <1>8, <1>9, <1>11, PerformSame

LEMMA PerformSwap ==
    ASSUME IInv, Perform, task.phase = "swap"
    PROVE  IInv' /\ OneCall(disk, disk')
<1> DEFINE id == task.id
           new == NewContents(id, nextId)
           m == SaveManifest
           F == SavedFiles
<1>1. task.plan # << >> /\ disk' = Apply(disk, Head(task.plan))
    BY PerformDoes
<1>2. /\ AtSwap(disk, nextId, task) /\ IsStore(disk) /\ Sound(disk) /\ Ahead(disk, known)
    BY DEF IInv, Good, Phased
<1>3. /\ task.call = "save" /\ Whole(disk, Files \ F)
      /\ Swapping(disk, task.plan, m, F, new)
    BY <1>2 DEF AtSwap
<1>4. /\ opened /\ id \in Ids /\ id < nextId
      /\ nextId \in 1 .. MaxId + 1 /\ FreshFor(disk, known, nextId)
    BY <1>3, CallFacts
<1>5. \A f \in F : new[f] # Absent /\ new[f] = IF f = Counters THEN {nextId} ELSE {id}
    BY <1>4, NewContentsFacts
<1>6. /\ DataFiles \subseteq Files /\ F \in SUBSET Files /\ Counters \in F /\ Counters \notin DataFiles
      /\ F \ {Counters} = ToSet(Group) /\ Counters \in Files
    BY FileFacts
<1> HIDE DEF new
<1>7. SwappedTo(disk, disk', Files, ContentsOf, F, m, new, task.plan)
    <2>1. IsDisk(disk, Files, ContentsOf)
        BY <1>2 DEF IsStore
    <2>2. m \in Seq([file : Files, hadPath : BOOLEAN]) /\ m # NoManifest
        BY TargetsInOrder
    <2>3. \A f \in F : new[f] # Absent
        BY <1>5
    <2> HIDE DEF m, F
    <2> QED BY <1>1, <1>3, <1>6, <2>1, <2>2, <2>3, SwapGoes
<1>8. /\ IsStore(disk') /\ Swapping(disk', Tail(task.plan), m, F, new)
      /\ \A g \in Files : Kept(disk', g) = Kept(disk, g)
      /\ \A g \in Files \ F : disk'.path[g] = disk.path[g] /\ disk'.backup[g] = disk.backup[g]
      /\ ~disk.commit
      /\ disk'.commit => disk'.manifest = m /\ \A f \in F : disk'.path[f] = new[f]
    BY <1>7 DEF SwappedTo, IsStore
<1>9. /\ disk.manifest \in {NoManifest, m} /\ disk'.manifest \in {NoManifest, m}
    BY <1>3, <1>8 DEF Swapping
<1>10. \A f \in F : Kept(disk', f) # Absent
    <2> TAKE f \in F
    <2>1. (Holds(disk, "path", f) /\ ~Holds(disk, "backup", f)) \/ Holds(disk, "backup", f)
        BY <1>3 DEF Swapping
    <2>2. Kept(disk, f) # Absent
        BY <2>1 DEF Kept, Holds
    <2> QED BY <1>6, <1>8, <2>2
<1>11. Sound(disk')
    BY <1>5, <1>8, <1>9, <1>10 DEF Sound, Holds
<1>12. Whole(disk', Files \ F)
    BY <1>3, <1>8 DEF Whole, Holds
<1>13. After(task, task') => Phased(disk', opened, nextId, task')
    <2> HAVE After(task, task')
    <2>1. AtSwap(disk', nextId, task')
        BY <1>3, <1>8, <1>12 DEF After, AtSwap, new
    <2> QED BY <2>1 DEF After, Phased
<1>14. CASE ~disk'.commit
    <2>1. SameView(disk, disk')
        BY <1>8, <1>9, <1>14, SameKept
    <2> QED BY <1>8, <1>11, <1>13, <2>1, PerformSame
<1>15. CASE disk'.commit
    <2>1. disk'.manifest = m /\ \A f \in F : disk'.path[f] = new[f]
        BY <1>8, <1>15
    <2>2. \A f : Recovered(disk', f) = IF f \in F THEN disk'.path[f] ELSE Kept(disk', f)
        BY <1>9, <1>15, <2>1, SoundRecovers
    <2>3. \A f : Recovered(disk, f) = Kept(disk, f)
        BY <1>8, <1>9, SoundRecovers
    <2>4. Recovered(disk', Counters) = {nextId} /\ {nextId} # Absent
        BY <1>4, <1>5, <1>6, <2>1, <2>2, ContentFacts
    <2>5. {id} \ {Torn} = {id} /\ {id} # Absent
        BY <1>4, ContentFacts
    <2>6. \A f \in DataFiles : View(disk', f) = IF f \in ToSet(Group) THEN {id} ELSE View(disk, f)
        <3> TAKE f \in DataFiles
        <3>1. CASE f \in ToSet(Group)
            <4>1. f \in F /\ f # Counters
                BY <1>6, <3>1
            <4>2. Recovered(disk', f) = {id}
                BY <1>5, <2>1, <2>2, <4>1
            <4> QED BY <2>5, <3>1, <4>2 DEF View
        <3>2. CASE f \notin ToSet(Group)
            <4>1. f \notin F /\ f \in Files
                BY <1>6, <3>2
            <4>2. Recovered(disk', f) = Recovered(disk, f)
                BY <1>8, <2>2, <2>3, <4>1
            <4> QED BY <3>2, <4>2 DEF View
        <3> QED BY <3>1, <3>2
    <2>7. OneCall(disk, disk')
        BY <1>4, <2>6 DEF OneCall
    <2>8. FreshFor(disk', known, nextId)
        <3>1. \A f \in DataFiles : View(disk', f) \subseteq View(disk, f) \cup {id}
            BY <2>6
        <3> QED BY <1>4, <3>1, OneMore
    <2>9. Ahead(disk', known)
        BY <2>4, <2>8 DEF Ahead
    <2>10. IInv'
        BY <1>8, <1>11, <1>13, <2>8, <2>9, PerformKeeps
    <2> QED BY <2>7, <2>10
<1> QED BY <1>14, <1>15

LEMMA PerformCleanup ==
    ASSUME IInv, Perform, task.phase = "cleanup"
    PROVE  IInv' /\ OneCall(disk, disk')
<1>1. task.plan # << >> /\ disk' = Apply(disk, Head(task.plan))
    BY PerformDoes
<1>2. AtCleanup(disk, nextId, task) /\ IsStore(disk) /\ Sound(disk)
    BY DEF IInv, Good, Phased
<1>3. /\ task.call = "save" /\ Whole(disk, Files \ SavedFiles)
      /\ Finishing(disk, task.plan, SavedFiles)
      /\ \A f \in SavedFiles : disk.path[f] = NewContents(task.id, nextId)[f]
    BY <1>2 DEF AtCleanup
<1>4. KeptFinishing(disk, disk', task.plan)
    BY <1>1, <1>2, <1>3, FinishingKeeps
<1>5. /\ IsStore(disk') /\ Sound(disk') /\ SameView(disk, disk')
      /\ Finishing(disk', Tail(task.plan), SavedFiles)
      /\ \A g \in Files : disk'.path[g] = disk.path[g]
      /\ \A g \in Files \ SavedFiles : disk'.backup[g] = disk.backup[g]
    BY <1>4 DEF KeptFinishing
<1>6. Whole(disk', Files \ SavedFiles)
    BY <1>3, <1>5 DEF Whole, Holds
<1>7. \A f \in SavedFiles : disk'.path[f] = NewContents(task.id, nextId)[f]
    BY <1>3, <1>5, FileFacts
<1>8. After(task, task') => Phased(disk', opened, nextId, task')
    <2> HAVE After(task, task')
    <2>1. AtCleanup(disk', nextId, task')
        BY <1>3, <1>5, <1>6, <1>7 DEF After, AtCleanup
    <2> QED BY <2>1 DEF After, Phased
<1> QED BY <1>5, <1>8, PerformSame

LEMMA PerformUndo ==
    ASSUME IInv, Perform, task.phase = "undo"
    PROVE  IInv' /\ OneCall(disk, disk')
<1>1. task.plan # << >> /\ disk' = Apply(disk, Head(task.plan))
    BY PerformDoes
<1>2. AtUndo(disk, opened, task) /\ IsStore(disk) /\ Sound(disk)
    BY DEF IInv, Good, Phased
<1>3. Settled(disk)
    BY <1>2 DEF AtUndo
<1>4. PICK f \in {Raw, History, Counters} :
          (opened => Whole(disk, Files \ {f})) /\ Undoing(disk, task.plan, f, opened)
    BY <1>2 DEF AtUndo
<1>5. f \in Files /\ IsDisk(disk, Files, ContentsOf)
    BY <1>2, FileFacts DEF IsStore
<1>6. UndoneTo(disk, disk', Files, ContentsOf, f, opened, task.plan)
    BY <1>1, <1>4, <1>5, UndoGoes
<1>7. /\ IsStore(disk') /\ Undoing(disk', Tail(task.plan), f, opened)
      /\ disk'.manifest = disk.manifest /\ disk'.commit = disk.commit
      /\ \A g \in Files \ {f} : disk'.path[g] = disk.path[g] /\ disk'.backup[g] = disk.backup[g]
      /\ Kept(disk', f) = Kept(disk, f)
    BY <1>6 DEF UndoneTo, IsStore
<1>8. Settled(disk') /\ Sound(disk')
    BY <1>3, <1>7, TargetsInOrder DEF Settled, Sound
<1>9. \A g \in Files : Kept(disk', g) = Kept(disk, g)
    BY <1>7 DEF Kept, Holds
<1>10. SameView(disk, disk')
    <2>1. \A g \in Files : Recovered(disk', g) = Recovered(disk, g)
        BY <1>3, <1>8, <1>9, WholeFacts
    <2> QED BY <2>1, SameRecovered
<1>11. opened => Whole(disk', Files \ {f})
    BY <1>4, <1>7 DEF Whole, Holds
<1>12. After(task, task') => Phased(disk', opened, nextId, task')
    <2> HAVE After(task, task')
    <2>1. Undoing(disk', task'.plan, f, opened)
        BY <1>7 DEF After
    <2>2. AtUndo(disk', opened, task')
        BY <1>8, <1>11, <2>1 DEF AtUndo
    <2> QED BY <2>2 DEF After, Phased
<1> QED BY <1>7, <1>8, <1>10, <1>12, PerformSame

LEMMA PerformAll ==
    ASSUME IInv, Perform
    PROVE  IInv' /\ OneCall(disk, disk')
<1>1. task.plan # << >>
    BY PerformDoes
<1>2. IsTask(task) /\ Phased(disk, opened, nextId, task)
    BY DEF IInv, Good
<1>3. task.phase # "idle"
    BY <1>1, <1>2 DEF Phased, AtIdle
<1>4. task.phase \in {"recover", "artifacts", "tail", "others", "counters", "append", "compact",
                      "replace", "temps", "swap", "cleanup", "undo", "discard", "abort"}
    BY <1>2, <1>3 DEF IsTask, Phases
<1> QED BY <1>4, PerformRecover, PerformArtifacts, PerformTail, PerformOthers, PerformCounters,
           PerformAppend, PerformCompact, PerformReplace, PerformTemps, PerformSwap, PerformCleanup,
           PerformUndo, PerformDiscard, PerformAbort

-----------------------------------------------------------------------------
\* Failures, and the end of the process

\* The call that fails is not one that undoes, cleans up or removes a backup
\* whose file has been replaced.
LEMMA FailsWhere ==
    ASSUME UndoingSucceeds, IInv, NEW phases, Fails(phases)
    PROVE  /\ task.phase \in phases /\ task.plan # << >>
           /\ task.phase \notin {"idle", "undo", "abort", "cleanup"}
           /\ SystemCall(Head(task.plan)) = "remove"
              => task.phase \notin {"counters", "replace", "compact"}
           /\ opened' = opened /\ nextId' = nextId
<1> DEFINE call == SystemCall(Head(task.plan))
           ph == task.phase
           point == <<call, ph>>
<1>1. /\ ph \in phases /\ task.plan # << >> /\ point \in FaultPoints
      /\ opened' = opened /\ nextId' = nextId
    BY DEF Fails
<1> HIDE DEF call, ph
<1>2. point[1] = call /\ point[2] = ph
    OBVIOUS
<1> HIDE DEF point
<1>3. ph \notin {"undo", "abort", "cleanup"} /\ (call = "remove" => ph \notin {"counters", "replace", "compact"})
    BY <1>1, <1>2 DEF UndoingSucceeds
<1>4. ph # "idle"
    BY <1>1 DEF IInv, Good, Phased, AtIdle, ph
<1> QED BY <1>1, <1>3, <1>4 DEF call, ph

\* A store that rests on a directory which stands for the same.
LEMMA RestsElsewhere ==
    ASSUME NEW d, NEW o, NEW n, NEW dr, NEW t, NEW k, Good(d, o, n, dr, t, k),
           NEW e, IsStore(e), Sound(e), SameView(d, e),
           NEW n2 \in 1 .. MaxId + 1, NEW o2 \in BOOLEAN, NEW dr2 \in BOOLEAN,
           NEW u, IsTask(u), u.phase = "idle", u.plan = << >>,
           o2 => FreshFor(d, k, n2) /\ Settled(e) /\ Whole(e, Files)
    PROVE  Good(e, o2, n2, dr2, u, k) /\ OneCall(d, e)
<1>1. /\ FreshFor(e, k, n2) <=> FreshFor(d, k, n2)
      /\ Ahead(e, k) <=> Ahead(d, k)
    BY SameViewKeeps
<1>2. k \subseteq Ids /\ Ahead(d, k)
    BY DEF Good
<1>3. NextAhead(e, k, n2, o2, u) /\ Calling(o2, n2, dr2, u) /\ Phased(e, o2, n2, u)
    BY <1>1 DEF NextAhead, Calling, Phased, AtIdle
<1>4. OneCall(d, e)
    BY DEF SameView, OneCall
<1> QED BY <1>1, <1>2, <1>3, <1>4 DEF Good

LEMMA AnswerElsewhere ==
    ASSUME IInv, NEW a,
           task' = [task EXCEPT !.phase = "idle", !.plan = << >>, !.answer = a],
           IsStore(disk'), Sound(disk'), SameView(disk, disk'),
           opened' = opened, nextId' = nextId, dirty' = dirty, known' = known,
           opened => Settled(disk') /\ Whole(disk', Files)
    PROVE  IInv' /\ OneCall(disk, disk')
<1>1. Good(disk, opened, nextId, dirty, task, known)
    BY DEF IInv
<1>2. /\ IsTask(task) /\ nextId \in 1 .. MaxId + 1 /\ opened \in BOOLEAN /\ dirty \in BOOLEAN
      /\ opened => FreshFor(disk, known, nextId)
    BY <1>1 DEF Good, NextAhead
<1>3. IsTask(task') /\ task'.phase = "idle" /\ task'.plan = << >>
    BY <1>2, AnswerDoes
<1>4. opened => FreshFor(disk, known, nextId) /\ Settled(disk') /\ Whole(disk', Files)
    BY <1>2
<1>5. Good(disk', opened, nextId, dirty, task', known) /\ OneCall(disk, disk')
    BY <1>1, <1>2, <1>3, <1>4, RestsElsewhere, ZenonT(30)
<1> QED BY <1>5 DEF IInv

LEMMA GivesUpKeeps ==
    ASSUME UndoingSucceeds, IInv, GivesUp
    PROVE  IInv' /\ OneCall(disk, disk')
<1> DEFINE phases == {"recover", "artifacts", "others", "abort"}
<1>1. Fails(phases) /\ disk' = disk /\ dirty' = dirty
      /\ task' = [task EXCEPT !.phase = "idle", !.plan = << >>, !.answer = "false"]
      /\ known' = known
    BY DEF GivesUp, Answer
<1>2. /\ task.phase \in phases /\ task.plan # << >>
      /\ task.phase \notin {"idle", "undo", "abort", "cleanup"}
      /\ opened' = opened /\ nextId' = nextId
    BY <1>1, FailsWhere
<1>3. Phased(disk, opened, nextId, task) /\ Calling(opened, nextId, dirty, task) /\ dirty \in BOOLEAN
    BY DEF IInv, Good
<1>4. task.call = "open" => ~opened
    BY <1>2, <1>3 DEF Calling
<1>5. task.call = "open" \/ (Settled(disk) /\ Whole(disk, Files))
    <2>1. CASE task.phase = "recover"
        BY <1>2, <1>3, <2>1 DEF Phased, AtRecover
    <2>2. CASE task.phase = "artifacts"
        BY <1>3, <2>2 DEF Phased, AtArtifacts
    <2>3. CASE task.phase = "others"
        BY <1>3, <2>3 DEF Phased, AtOthers
    <2> QED BY <1>2, <2>1, <2>2, <2>3
<1>6. opened => Settled(disk) /\ Whole(disk, Files)
    BY <1>4, <1>5
<1>7. dirty' \in BOOLEAN
    BY <1>1, <1>3
<1> HIDE DEF phases
<1> QED BY <1>1, <1>2, <1>6, <1>7, AnswerKeeps

CutShortTo(d, e) ==
    /\ IsStore(e) /\ Sound(e) /\ SameView(d, e)
    /\ Settled(e) /\ Whole(e, Files)

LEMMA CutShortKeeps ==
    ASSUME NEW d, IsStore(d), Sound(d), Settled(d), Whole(d, Files),
           NEW e \in {d, Apply(d, AddTo(Raw, {Torn}))}
    PROVE  CutShortTo(d, e)
<1> DEFINE path == d.path[Raw]
           new == IF Torn \in path THEN path ELSE path \cup {Torn}
<1>1. CASE e = d
    BY <1>1, StaysIsOneCall DEF CutShortTo
<1>2. CASE e = Apply(d, AddTo(Raw, {Torn}))
    <2>1. Raw \in Files /\ Raw \in DataFiles /\ Counters # Raw /\ Counters \in Files /\ DataFiles \subseteq Files
        BY FileFacts
    <2>2. path # Absent /\ ~Holds(d, "backup", Raw)
        BY <2>1 DEF Whole, Holds
    <2>3. IsDisk(d, Files, ContentsOf)
        BY DEF IsStore
    <2>4. path \in SUBSET (Ids \cup {Torn})
        <3>1. path \in ContentsOf[Raw]
            BY <2>1, <2>3, DiskSlots
        <3> QED BY <2>1, <2>2, <3>1, ContentFacts
    <2>5. path \cup {Torn} \in SUBSET (Ids \cup {Torn})
        BY <2>4
    <2>6. path \cup {Torn} \in ContentsOf[Raw]
        BY <2>1, <2>5, ContentFacts
    <2>7. /\ IsDisk(e, Files, ContentsOf)
          /\ OnlyAt(d, e, Files, Raw, new, d.temp[Raw], d.backup[Raw])
        BY <1>2, <2>1, <2>2, <2>3, <2>6, AddToDoes
    <2>8. /\ \A g \in Files : /\ e.path[g] = IF g = Raw THEN new ELSE d.path[g]
                              /\ e.backup[g] = d.backup[g]
          /\ e.manifest = d.manifest /\ e.commit = d.commit
        BY <2>7 DEF OnlyAt
    <2>9. new \in SUBSET (Ids \cup {Torn}) /\ new # Absent /\ new \ {Torn} = path \ {Torn}
        BY <2>4, <2>5, ContentFacts
    <2> HIDE DEF new
    <2>10. Settled(e) /\ Whole(e, Files)
        BY <2>8, <2>9 DEF Settled, Whole, Holds
    <2>11. Sound(e)
        BY <2>10, TargetsInOrder DEF Sound, Settled
    <2>12. \A g \in Files : Recovered(e, g) = e.path[g] /\ Recovered(d, g) = d.path[g]
        BY <2>10, WholeFacts
    <2>13. SameView(d, e)
        <3>1. \A f \in DataFiles : View(e, f) = View(d, f)
            <4> TAKE f \in DataFiles
            <4>1. CASE f = Raw
                <5>1. Recovered(e, f) = new /\ Recovered(d, f) = path
                    BY <2>1, <2>8, <2>12, <4>1
                <5> QED BY <2>2, <2>9, <5>1 DEF View
            <4>2. CASE f # Raw
                <5>1. Recovered(e, f) = Recovered(d, f)
                    BY <2>1, <2>8, <2>12, <4>2
                <5> QED BY <5>1 DEF View
            <4> QED BY <4>1, <4>2
        <3>2. Recovered(e, Counters) = Recovered(d, Counters)
            BY <2>1, <2>8, <2>12
        <3> QED BY <3>1, <3>2 DEF SameView, SameData
    <2> QED BY <2>7, <2>10, <2>11, <2>13 DEF CutShortTo, IsStore
<1> QED BY <1>1, <1>2

LEMMA AppendFailsKeeps ==
    ASSUME UndoingSucceeds, IInv, AppendFails
    PROVE  IInv' /\ OneCall(disk, disk')
<1> DEFINE phases == {"append"}
<1>1. /\ Fails(phases) /\ disk' \in {disk, Apply(disk, AddTo(Raw, {Torn}))} /\ dirty' = dirty
      /\ task' = [task EXCEPT !.phase = "idle", !.plan = << >>, !.answer = "false"]
      /\ known' = known
    BY DEF AppendFails, Answer, CutShort
<1>2. task.phase = "append" /\ opened' = opened /\ nextId' = nextId
    BY <1>1, FailsWhere
<1>3. IsStore(disk) /\ Sound(disk) /\ AtAppend(disk, nextId, task)
    BY <1>2 DEF IInv, Good, Phased
<1>4. Settled(disk) /\ Whole(disk, Files)
    BY <1>3 DEF AtAppend
<1>5. CutShortTo(disk, disk')
    BY <1>1, <1>3, <1>4, CutShortKeeps
<1> HIDE DEF phases
<1> QED BY <1>1, <1>2, <1>5, AnswerElsewhere DEF CutShortTo

\* A file that is being replaced, while all others of an open store are whole.
Replacing(d, p, o, f, content) ==
    /\ content # Absent
    /\ Rewriting(d, p, f, content)
    /\ Settled(d)
    /\ o => Whole(d, Files \ {f}) /\ Kept(d, f) # Absent

LEMMA ReplacingAt ==
    ASSUME IInv, task.phase \in {"counters", "replace", "compact", "tail"}, task.plan # << >>
    PROVE  \E f \in {Raw, History, Counters} : \E content :
               Replacing(disk, task.plan, opened, f, content)
<1>1. /\ IsStore(disk) /\ Sound(disk) /\ nextId \in 1 .. MaxId + 1
      /\ Phased(disk, opened, nextId, task) /\ Calling(opened, nextId, dirty, task)
    BY DEF IInv, Good
<1>2. CASE task.phase = "counters"
    <2>1. AtCounters(disk, opened, nextId, task)
        BY <1>1, <1>2 DEF Phased
    <2>2. {nextId} # Absent
        BY <1>1, ContentFacts
    <2>3. Files \ {Counters} = DataFiles
        BY FileFacts
    <2>4. Replacing(disk, task.plan, opened, Counters, {nextId})
        BY <2>1, <2>2, <2>3 DEF Replacing, AtCounters
    <2> QED BY <2>4
<1>3. CASE task.phase = "replace"
    <2>1. AtReplace(disk, nextId, task)
        BY <1>1, <1>3 DEF Phased
    <2>2. {task.id} # Absent
        BY <1>3, <2>1, CallFacts, ContentFacts DEF AtReplace
    <2>3. Replacing(disk, task.plan, opened, History, {task.id})
        BY <2>1, <2>2 DEF Replacing, AtReplace
    <2> QED BY <2>3
<1>4. CASE task.phase = "compact"
    <2>1. AtCompact(disk, nextId, task)
        BY <1>1, <1>4 DEF Phased
    <2>2. {task.id} # Absent
        BY <1>4, <2>1, CallFacts, ContentFacts DEF AtCompact
    <2>3. Kept(disk, Raw) # Absent
        BY <2>1, WholeFacts DEF AtCompact, View
    <2>4. Replacing(disk, task.plan, opened, Raw, {task.id})
        BY <2>1, <2>2, <2>3 DEF Replacing, AtCompact
    <2> QED BY <2>4
<1>5. CASE task.phase = "tail"
    <2>1. AtTail(disk, task)
        BY <1>1, <1>5 DEF Phased
    <2>2. ~opened
        BY <1>1, <1>5, <2>1 DEF Calling, AtTail
    <2>3. View(disk, Raw) # Absent
        <3>1. View(disk, Raw) \in SUBSET Ids
            BY <1>1, FileFacts, ViewFacts DEF Sound
        <3>2. View(disk, Raw) \in SUBSET (Ids \cup {Torn})
            BY <3>1
        <3> QED BY <3>2, ContentFacts
    <2>4. Replacing(disk, task.plan, opened, Raw, View(disk, Raw))
        BY <2>1, <2>2, <2>3 DEF Replacing, AtTail
    <2> QED BY <2>4
<1> QED BY <1>2, <1>3, <1>4, <1>5

LEMMA RewriteFailsKeeps ==
    ASSUME UndoingSucceeds, IInv, RewriteFails
    PROVE  IInv' /\ OneCall(disk, disk')
<1> DEFINE phases == {"counters", "replace", "compact", "tail", "undo"}
           h == Head(task.plan)
           rest == Tail(task.plan)
           g == h.file
           undo == (IF rest = << >> THEN << >> ELSE <<Rename("backup", "path", g)>>)
                   \o <<Delete("temp", g)>>
<1>1. Fails(phases) /\ dirty' = dirty
    BY DEF RewriteFails
<1>2. /\ task.phase \in phases /\ task.plan # << >>
      /\ task.phase \notin {"idle", "undo", "abort", "cleanup"}
      /\ SystemCall(h) = "remove" => task.phase \notin {"counters", "replace", "compact"}
      /\ opened' = opened /\ nextId' = nextId
    BY <1>1, FailsWhere
<1>3. IF h.slot = "path"
      THEN /\ task' = [task EXCEPT !.phase = "undo", !.plan = undo]
           /\ disk' = disk /\ known' = known
      ELSE /\ disk' = IF h.do = "remove" THEN disk ELSE Apply(disk, Delete("temp", g))
           /\ task' = [task EXCEPT !.phase = "idle", !.plan = << >>, !.answer = "false"]
           /\ known' = known
    BY <1>2 DEF RewriteFails, Enter, Answer
<1>4. task.phase \in {"counters", "replace", "compact", "tail"}
    BY <1>2
<1> HIDE DEF phases, h, g, rest, undo
<1>5. PICK f \in {Raw, History, Counters} :
           \E content : Replacing(disk, task.plan, opened, f, content)
    BY <1>2, <1>4, ReplacingAt
<1>15. PICK content : Replacing(disk, task.plan, opened, f, content)
    BY <1>5
<1>6. /\ Settled(disk) /\ f \in Files
      /\ opened => Whole(disk, Files \ {f}) /\ Kept(disk, f) # Absent
    BY <1>15, FileFacts DEF Replacing
<1>7. /\ g = f
      /\ \/ /\ h.slot = "path" /\ ~Holds(disk, "path", f)
            /\ Holds(disk, "backup", f) <=> rest # << >>
         \/ /\ h.slot # "path" /\ h.do # "remove" /\ ~Holds(disk, "backup", f)
         \/ /\ h.slot # "path" /\ h.do = "remove" /\ SystemCall(h) = "remove"
    BY <1>2, <1>15, RewritePoints DEF Replacing, h, g, rest
<1>8. /\ IsStore(disk) /\ Sound(disk) /\ dirty \in BOOLEAN
      /\ Phased(disk, opened, nextId, task) /\ Calling(opened, nextId, dirty, task)
    BY DEF IInv, Good
<1>9. IsDisk(disk, Files, ContentsOf)
    BY <1>8 DEF IsStore
<1>10. CASE h.slot = "path"
    <2>1. undo = IF rest = << >> THEN <<Delete("temp", f)>> ELSE <<PutBack(f), Delete("temp", f)>>
        <3> DEFINE a == PutBack(f)
                   b == Delete("temp", f)
        <3>1. undo = (IF rest = << >> THEN << >> ELSE <<a>>) \o <<b>>
            BY <1>7 DEF undo, PutBack
        <3> HIDE DEF a, b
        <3>2. << >> \o <<b>> = <<b>>
            OBVIOUS
        <3>3. <<a>> \o <<b>> = <<a, b>>
            BY ConcatOne
        <3> QED BY <3>1, <3>2, <3>3 DEF a, b
    <2>2. Undoing(disk, undo, f, opened)
        <3>1. CASE rest = << >>
            <4>1. ~Holds(disk, "backup", f) /\ ~Holds(disk, "path", f)
                BY <1>7, <1>10, <3>1
            <4>2. ~opened
                BY <1>6, <4>1 DEF Kept, Holds
            <4> QED BY <2>1, <3>1, <4>1, <4>2 DEF Undoing
        <3>2. CASE rest # << >>
            BY <1>7, <1>10, <2>1, <3>2 DEF Undoing
        <3> QED BY <3>1, <3>2
    <2>3. task' = [task EXCEPT !.phase = "undo", !.plan = undo] /\ disk' = disk /\ known' = known
        BY <1>3, <1>10
    <2>4. ASSUME IsTask(task') /\ task'.phase = "undo" /\ task'.plan = undo
                 /\ task'.call = task.call /\ task'.id = task.id
          PROVE  Phased(disk, opened, nextId, task')
        <3>1. AtUndo(disk, opened, task')
            BY <1>6, <2>2, <2>4 DEF AtUndo
        <3> QED BY <2>4, <3>1 DEF Phased
    <2> QED BY <1>1, <1>2, <2>3, <2>4, EnterKeeps, PhaseFacts
<1>11. CASE h.slot # "path" /\ h.do # "remove"
    <2>1. /\ disk' = Apply(disk, Delete("temp", f)) /\ known' = known
          /\ task' = [task EXCEPT !.phase = "idle", !.plan = << >>, !.answer = "false"]
        BY <1>3, <1>7, <1>11
    <2>2. /\ IsDisk(disk', Files, ContentsOf)
          /\ OnlyAt(disk, disk', Files, f, disk.path[f], Absent, disk.backup[f])
        BY <1>6, <1>9, <2>1, DeleteTempDoes
    <2>3. /\ IsStore(disk') /\ disk'.manifest = disk.manifest /\ disk'.commit = disk.commit
          /\ \A x \in Files : disk'.path[x] = disk.path[x] /\ disk'.backup[x] = disk.backup[x]
        BY <1>6, <2>2 DEF OnlyAt, IsStore
    <2>4. Sound(disk') /\ SameView(disk, disk')
        BY <1>8, <2>3, QuietKeeps
    <2>5. opened => Settled(disk') /\ Whole(disk', Files)
        <3>1. opened => Whole(disk, Files)
            <4> HAVE opened
            <4>1. ~Holds(disk, "backup", f) /\ Holds(disk, "path", f)
                BY <1>6, <1>7, <1>11 DEF Kept, Holds
            <4> QED BY <1>6, <4>1, WholeFacts
        <3> QED BY <1>6, <2>3, <3>1 DEF Settled, Whole, Holds
    <2> QED BY <1>1, <1>2, <2>1, <2>3, <2>4, <2>5, AnswerElsewhere
<1>12. CASE h.slot # "path" /\ h.do = "remove"
    <2>1. /\ disk' = disk /\ known' = known
          /\ task' = [task EXCEPT !.phase = "idle", !.plan = << >>, !.answer = "false"]
        BY <1>3, <1>12
    <2>2. task.phase = "tail"
        BY <1>2, <1>4, <1>7, <1>12
    <2>3. ~opened
        BY <1>8, <2>2 DEF Phased, AtTail, Calling
    <2>4. dirty' \in BOOLEAN
        BY <1>1, <1>8
    <2> QED BY <1>2, <2>1, <2>3, <2>4, AnswerKeeps
<1> QED BY <1>10, <1>11, <1>12

LEMMA TempsFailKeeps ==
    ASSUME UndoingSucceeds, IInv, TempsFail
    PROVE  IInv' /\ OneCall(disk, disk')
<1> DEFINE phases == {"temps"}
           ss == [i \in DOMAIN AllTargets |-> RemoveIfThere(disk, "temp", AllTargets[i])]
           p == FlattenSeq(ss)
<1>1. /\ Fails(phases) /\ disk' = disk /\ dirty' = dirty /\ known' = known
    BY DEF TempsFail
<1>2. /\ task.phase = "temps" /\ opened' = opened /\ nextId' = nextId
    BY <1>1, FailsWhere
<1>3. AtTemps(disk, nextId, task) /\ Calling(opened, nextId, dirty, task)
    BY <1>2 DEF IInv, Good, Phased
<1>4. task.call = "save" /\ Settled(disk) /\ Whole(disk, Files) /\ dirty
    BY <1>2, <1>3 DEF AtTemps, Calling
<1>5. task' = [task EXCEPT !.phase = "discard", !.plan = p]
    BY <1>4, TargetFacts DEF TempsFail, Enter
<1>6. Tidying(p, SavedFiles)
    <2>1. DOMAIN ss = 1 .. Len(AllTargets) /\ ss = [i \in DOMAIN ss |-> ss[i]]
          /\ \A i \in DOMAIN ss : ss[i] = RemoveIfThere(disk, "temp", AllTargets[i])
        BY TargetFacts
    <2>2. Whole(disk, SavedFiles)
        BY <1>4, WholeFacts
    <2> HIDE DEF ss
    <2> QED BY <2>1, <2>2, TidyingBegins
<1> HIDE DEF p, phases
<1>7. ASSUME IsTask(task') /\ task'.phase = "discard" /\ task'.plan = p
             /\ task'.call = task.call /\ task'.id = task.id
      PROVE  Phased(disk, opened, nextId, task')
    <2>1. AtDiscard(disk, task')
        BY <1>4, <1>6, <1>7 DEF AtDiscard
    <2> QED BY <1>7, <2>1 DEF Phased
<1> QED BY <1>1, <1>2, <1>5, <1>7, EnterKeeps, PhaseFacts

LEMMA CommitFailsKeeps ==
    ASSUME UndoingSucceeds, IInv, CommitFails
    PROVE  IInv' /\ OneCall(disk, disk')
<1> DEFINE phases == {"swap", "cleanup"}
           new == NewContents(task.id, nextId)
           m == SaveManifest
<1>1. Fails(phases) /\ disk' = disk
    BY DEF CommitFails
<1>2. /\ task.phase = "swap" /\ task.plan # << >> /\ opened' = opened /\ nextId' = nextId
    BY <1>1, FailsWhere
<1>3. /\ dirty' = dirty /\ known' = known
      /\ IF disk.manifest = NoManifest \/ ~CanRollBack(disk)
         THEN task' = [task EXCEPT !.phase = "idle", !.plan = << >>, !.answer = "false"]
         ELSE task' = [task EXCEPT !.phase = "abort", !.plan = RollBack(disk)]
    BY <1>2 DEF CommitFails, Enter, Answer
<1>4. AtSwap(disk, nextId, task) /\ Sound(disk) /\ dirty \in BOOLEAN
    BY <1>2 DEF IInv, Good, Phased
<1>5. /\ task.call = "save" /\ Whole(disk, Files \ SavedFiles)
      /\ Swapping(disk, task.plan, m, SavedFiles, new)
    BY <1>4 DEF AtSwap
<1>6. ~disk.commit
    <2>1. task.plan \in Seq(SwapChanges(m, SavedFiles))
        BY <1>5 DEF Swapping
    <2>2. Has(task.plan, Head(task.plan))
        BY <1>2, <2>1, TailHas
    <2> QED BY <1>5, <2>2 DEF Swapping
<1>7. CASE disk.manifest = NoManifest
    <2>1. \A f \in SavedFiles : Holds(disk, "path", f) /\ ~Holds(disk, "backup", f)
        BY <1>5, <1>7 DEF Swapping
    <2>2. Settled(disk) /\ Whole(disk, Files)
        BY <1>5, <1>6, <1>7, <2>1, FileFacts DEF Settled, Whole
    <2>3. task' = [task EXCEPT !.phase = "idle", !.plan = << >>, !.answer = "false"]
        BY <1>3, <1>7
    <2>4. dirty' \in BOOLEAN
        BY <1>3, <1>4
    <2> HIDE DEF phases
    <2> QED BY <1>1, <1>2, <1>3, <2>2, <2>3, <2>4, AnswerKeeps
<1>8. CASE disk.manifest # NoManifest
    <2>1. disk.manifest = m
        BY <1>5, <1>8 DEF Swapping
    <2>2. AllHadPath(disk) /\ TargetFiles(disk) = SavedFiles
        BY <2>1, SaveManifestFacts
    <2>3. \A f \in SavedFiles : Holds(disk, "path", f) \/ Holds(disk, "backup", f)
        BY <1>5 DEF Swapping
    <2>4. CanRollBack(disk)
        BY <2>2, <2>3 DEF CanRollBack, AllHadPath, TargetFiles
    <2>5. Mending(disk, RollBack(disk), SavedFiles, {})
        <3>1. disk.manifest = FullManifest(AllTargets) /\ InOrder(AllTargets, SavedFiles)
            BY <2>1, TargetsInOrder DEF SaveManifest
        <3> QED BY <1>6, <3>1, RollBackBegins
    <2>6. \A f \in SavedFiles : Kept(disk, f) # Absent
        BY <1>4, <2>1 DEF Sound
    <2>7. task' = [task EXCEPT !.phase = "abort", !.plan = RollBack(disk)]
        BY <1>3, <1>8, <2>4
    <2>8. ASSUME IsTask(task') /\ task'.phase = "abort" /\ task'.plan = RollBack(disk)
                 /\ task'.call = task.call /\ task'.id = task.id
          PROVE  Phased(disk, opened, nextId, task')
        <3>1. AtAbort(disk, task')
            BY <1>5, <2>5, <2>6, <2>8 DEF AtAbort
        <3> QED BY <2>8, <3>1 DEF Phased
    <2> HIDE DEF phases
    <2> QED BY <1>1, <1>2, <1>3, <2>7, <2>8, EnterKeeps, PhaseFacts
<1> QED BY <1>7, <1>8

LEMMA UndoneKeeps ==
    ASSUME IInv, Undone
    PROVE  IInv' /\ OneCall(disk, disk')
<1>1. /\ task.phase \in {"undo", "discard", "abort"} /\ task.plan = << >>
      /\ task' = [task EXCEPT !.phase = "idle", !.plan = << >>, !.answer = "false"]
      /\ disk' = disk /\ opened' = opened /\ nextId' = nextId /\ dirty' = dirty /\ known' = known
    BY DEF Undone, Finished, In, Answer, memory, bounds
<1>2. Phased(disk, opened, nextId, task) /\ dirty \in BOOLEAN
    BY DEF IInv, Good
<1>3. opened => Settled(disk) /\ Whole(disk, Files)
    <2>1. CASE task.phase = "undo"
        <3>1. AtUndo(disk, opened, task)
            BY <1>2, <2>1 DEF Phased
        <3>2. Settled(disk)
            BY <3>1 DEF AtUndo
        <3>3. PICK f \in {Raw, History, Counters} :
                  (opened => Whole(disk, Files \ {f})) /\ Undoing(disk, << >>, f, opened)
            BY <1>1, <3>1 DEF AtUndo
        <3>4. ~Holds(disk, "backup", f) /\ (opened => Holds(disk, "path", f))
            BY <3>3, UndoEnds
        <3> QED BY <3>2, <3>3, <3>4, WholeFacts
    <2>2. CASE task.phase = "discard"
        BY <1>2, <2>2 DEF Phased, AtDiscard
    <2>3. CASE task.phase = "abort"
        <3>1. /\ Whole(disk, Files \ SavedFiles) /\ \A f \in SavedFiles : Kept(disk, f) # Absent
              /\ Mending(disk, << >>, SavedFiles, {})
            BY <1>1, <1>2, <2>3 DEF Phased, AtAbort
        <3>2. {} \in SUBSET SavedFiles
            OBVIOUS
        <3>3. Settled(disk) /\ \A f \in SavedFiles : ~Holds(disk, "backup", f)
            BY <3>1, <3>2, MendEnds
        <3>4. \A f \in SavedFiles : Holds(disk, "path", f)
            BY <3>1, <3>3 DEF Kept, Holds
        <3> QED BY <3>1, <3>3, <3>4, FileFacts DEF Whole
    <2> QED BY <1>1, <2>1, <2>2, <2>3
<1>4. task.phase # "idle" /\ dirty' \in BOOLEAN
    BY <1>1, <1>2
<1> QED BY <1>1, <1>3, <1>4, AnswerKeeps

LEMMA CrashKeeps ==
    ASSUME IInv, Crash
    PROVE  IInv' /\ OneCall(disk, disk')
<1>1. /\ task' = Idle /\ opened' = FALSE /\ nextId' = 1 /\ dirty' = FALSE /\ known' = known
      /\ disk' = disk \/ (task.phase = "append" /\ disk' \in {disk, Apply(disk, AddTo(Raw, {Torn}))})
    BY DEF Crash, In, CutShort
<1>2. IsStore(disk) /\ Sound(disk) /\ Phased(disk, opened, nextId, task)
    BY DEF IInv, Good
<1>3. IsStore(disk') /\ Sound(disk') /\ SameView(disk, disk')
    <2>1. CASE disk' = disk
        BY <1>2, <2>1, StaysIsOneCall
    <2>2. CASE task.phase = "append" /\ disk' \in {disk, Apply(disk, AddTo(Raw, {Torn}))}
        <3>1. Settled(disk) /\ Whole(disk, Files)
            BY <1>2, <2>2 DEF Phased, AtAppend
        <3> QED BY <1>2, <2>2, <3>1, CutShortKeeps DEF CutShortTo
    <2> QED BY <1>1, <2>1, <2>2
<1>4. IsTask(Idle) /\ Idle.phase = "idle" /\ Idle.plan = << >>
    BY BoundsAssumption DEF IsTask, Idle, Phases
<1>5. 1 \in 1 .. MaxId + 1 /\ FALSE \in BOOLEAN
    BY BoundsAssumption
<1>6. Good(disk, opened, nextId, dirty, task, known)
    BY DEF IInv
<1>7. Good(disk', FALSE, 1, FALSE, Idle, known) /\ OneCall(disk, disk')
    BY <1>3, <1>4, <1>5, <1>6, RestsElsewhere
<1> QED BY <1>1, <1>7 DEF IInv

-----------------------------------------------------------------------------
\* All steps together

\* The store is created closed and without files.
LEMMA InitHolds ==
    ASSUME Init
    PROVE  IInv
<1>1. /\ disk = [path |-> NoSlot, temp |-> NoSlot, backup |-> NoSlot,
                 manifest |-> NoManifest, commit |-> FALSE]
      /\ opened = FALSE /\ nextId = 1 /\ dirty = FALSE /\ task = Idle /\ known = {}
    BY DEF Init
<1>2. IsStore(disk)
    <2>1. \A f \in Files : Absent \in ContentsOf[f]
        BY ContentFacts
    <2>2. NoSlot \in Slots(Files, ContentsOf)
        <3>1. NoSlot \in [Files -> UNION {ContentsOf[f] : f \in Files}]
            BY <2>1 DEF NoSlot
        <3> QED BY <2>1, <3>1 DEF NoSlot, Slots
    <2>3. NoManifest \in Seq([file : Files, hadPath : BOOLEAN])
        BY DEF NoManifest
    <2> QED BY <1>1, <2>1, <2>2, <2>3 DEF IsStore, IsDisk
<1>3. Settled(disk)
    BY <1>1 DEF Settled
<1>4. Sound(disk)
    BY <1>3, TargetsInOrder DEF Sound, Settled
<1>5. \A f \in Files : Recovered(disk, f) = Absent
    <2>1. \A f \in Files : disk.path[f] = Absent /\ disk.backup[f] = Absent
        BY <1>1 DEF NoSlot
    <2>2. \A f : Recovered(disk, f) = Kept(disk, f)
        BY <1>3, WholeFacts
    <2> QED BY <2>1, <2>2 DEF Kept, Holds
<1>6. Ahead(disk, known)
    <2>1. \A f \in DataFiles : View(disk, f) = {}
        BY <1>5, FileFacts DEF View
    <2>2. IdsIn(disk) = {}
        BY <2>1 DEF IdsIn
    <2> QED BY <1>1, <1>5, <2>2, FileFacts DEF Ahead
<1>7. IsTask(task) /\ task.phase = "idle" /\ task.plan = << >>
    BY <1>1, BoundsAssumption DEF IsTask, Idle, Phases
<1>8. nextId \in 1 .. MaxId + 1
    BY <1>1, BoundsAssumption
<1>9. /\ NextAhead(disk, known, nextId, opened, task) /\ Calling(opened, nextId, dirty, task)
      /\ Phased(disk, opened, nextId, task)
    BY <1>1, <1>7 DEF NextAhead, Calling, Phased, AtIdle
<1> QED BY <1>1, <1>2, <1>4, <1>6, <1>7, <1>8, <1>9 DEF IInv, Good

LEMMA NextKeeps ==
    ASSUME UndoingSucceeds, IInv, [Next]_vars
    PROVE  IInv' /\ OneCall(disk, disk')
<1>1. CASE UNCHANGED vars
    <2>1. /\ disk' = disk /\ opened' = opened /\ nextId' = nextId /\ dirty' = dirty
          /\ task' = task /\ known' = known
        BY <1>1 DEF vars
    <2> QED BY <2>1, StaysIsOneCall DEF IInv
<1>2. CASE OpenStep
    BY <1>2, OpenKeeps, OpenRecoveredKeeps, OpenRecoversTailKeeps, OpenOtherFilesKeeps,
       OpenLoadCountersKeeps DEF OpenStep
<1>3. CASE RecordStep
    BY <1>3, StartRecordsKeeps, CountersPersistedKeeps, AppendedKeeps, ReplacedKeeps DEF RecordStep
<1>4. CASE SaveStep
    BY <1>4, StartSaveKeeps, SaveRecoveredKeeps, SaveWritesTempsKeeps, SaveSwapsKeeps,
       SaveCleansUpKeeps, SavedKeeps DEF SaveStep
<1>5. CASE Perform
    BY <1>5, PerformAll
<1>6. CASE FailureStep
    BY <1>6, GivesUpKeeps, AppendFailsKeeps, RewriteFailsKeeps, TempsFailKeeps, CommitFailsKeeps,
       UndoneKeeps DEF FailureStep
<1>7. CASE Crash
    BY <1>7, CrashKeeps
<1> QED BY <1>1, <1>2, <1>3, <1>4, <1>5, <1>6, <1>7 DEF Next

-----------------------------------------------------------------------------
\* What follows from the invariant

LEMMA TypesHold ==
    ASSUME IInv
    PROVE  TypeOK
<1>1. /\ IsStore(disk) /\ opened \in BOOLEAN /\ nextId \in 1 .. MaxId + 1 /\ dirty \in BOOLEAN
      /\ task.phase \in Phases /\ task.id \in 0 .. MaxId /\ known \subseteq Ids
    BY DEF IInv, Good, IsTask
<1>2. \A f \in Files : ContentsOf[f] \subseteq Contents
    <2>1. \A n \in 1 .. MaxId + 1 : n \in Ids \/ n = MaxId + 1
        BY BoundsAssumption DEF Ids
    <2>2. \A n \in Ids : {n} \in SUBSET (Ids \cup {Torn})
        OBVIOUS
    <2>3. \A n \in 1 .. MaxId + 1 : {n} \in Contents
        BY <2>1, <2>2 DEF Contents
    <2>4. SUBSET (Ids \cup {Torn}) \subseteq Contents /\ Absent \in Contents
        BY DEF Contents
    <2>5. ContentsOf[Counters] \subseteq Contents
        BY <2>3, <2>4, ContentFacts
    <2>6. \A f \in DataFiles : ContentsOf[f] \subseteq Contents
        BY <2>4, ContentFacts
    <2> QED BY <2>5, <2>6, FileFacts
<1>3. Slots(Files, ContentsOf) \subseteq [Files -> Contents]
    BY <1>2 DEF Slots
<1>4. disk \in [ path : [Files -> Contents], temp : [Files -> Contents],
                 backup : [Files -> Contents],
                 manifest : Seq([file : Files, hadPath : BOOLEAN]), commit : BOOLEAN ]
    BY <1>1, <1>3 DEF IsStore, IsDisk
<1> QED BY <1>1, <1>4 DEF TypeOK

LEMMA ReadingAgrees ==
    ASSUME IInv
    PROVE  ReadsAgree
<1> SUFFICES ASSUME opened, In("idle"), NEW f \in DataFiles
             PROVE  Holds(disk, "path", f) /\ disk.path[f] \ {Torn} = View(disk, f)
    BY DEF ReadsAgree
<1>1. Settled(disk) /\ Whole(disk, Files)
    BY DEF IInv, Good, Phased, AtIdle, In
<1>2. f \in Files
    BY FileFacts
<1>3. Recovered(disk, f) = disk.path[f] /\ disk.path[f] # Absent
    BY <1>1, <1>2, WholeFacts DEF Whole, Holds
<1> QED BY <1>3 DEF View, Holds

LEMMA RecoveryIsPossible ==
    ASSUME IInv
    PROVE  CanRecover(disk)
<1>1. Sound(disk)
    BY DEF IInv, Good
<1>2. SUFFICES ASSUME disk.manifest # NoManifest
               PROVE  IF disk.commit THEN CanFinish(disk) ELSE CanRollBack(disk)
    BY DEF CanRecover
<1>3. disk.manifest = SaveManifest
    BY <1>1, <1>2 DEF Sound
<1>4. AllHadPath(disk) /\ TargetFiles(disk) = SavedFiles
    BY <1>3, SaveManifestFacts
<1>5. CASE disk.commit
    BY <1>1, <1>3, <1>4, <1>5 DEF Sound, CanFinish
<1>6. CASE ~disk.commit
    <2>1. \A f \in SavedFiles : Holds(disk, "path", f) \/ Holds(disk, "backup", f)
        BY <1>1, <1>3 DEF Sound, Kept, Holds
    <2>2. CanRollBack(disk)
        BY <1>4, <2>1 DEF CanRollBack, AllHadPath, TargetFiles
    <2> QED BY <1>6, <2>2
<1> QED BY <1>5, <1>6

LEMMA SoundnessHolds ==
    ASSUME IInv
    PROVE  DiskIsSound
BY TypesHold, ReadingAgrees, RecoveryIsPossible DEF DiskIsSound, Recoverable

LEMMA FreshnessHolds ==
    ASSUME IInv
    PROVE  IdsAreFresh
<1>1. NextAhead(disk, known, nextId, opened, task)
    BY DEF IInv, Good
<1>2. InFiles = IdsIn(disk)
    BY DEF InFiles, IdsIn
<1> QED BY <1>1, <1>2 DEF IdsAreFresh, NextAhead, FreshFor

LEMMA InitMaps ==
    ASSUME Init
    PROVE  Abstract!Init
<1>1. /\ disk.path = NoSlot /\ disk.backup = NoSlot
      /\ disk.manifest = NoManifest /\ ~disk.commit
    BY DEF Init
<1>2. Settled(disk)
    BY <1>1 DEF Settled
<1>3. \A f \in DataFiles : Recovered(disk, f) = Absent
    <2>1. \A f \in DataFiles : disk.path[f] = Absent /\ disk.backup[f] = Absent
        BY <1>1, FileFacts DEF NoSlot
    <2>2. \A f : Recovered(disk, f) = Kept(disk, f)
        BY <1>2, WholeFacts
    <2> QED BY <2>1, <2>2 DEF Kept, Holds
<1>4. \A f \in DataFiles : View(disk, f) = {}
    BY <1>3 DEF View
<1> QED BY <1>4 DEF Abstract!Init

-----------------------------------------------------------------------------
\* The theorems

\* At every moment, in the middle of any call and of its failure, the plan that is
\* left fits the directory it is carried out on (native_store_file_ops.cpp).
THEOREM InvariantHolds ==
    ASSUME UndoingSucceeds
    PROVE  Spec => []IInv
<1>1. Init => IInv
    BY InitHolds
<1>2. IInv /\ [Next]_vars => IInv'
    BY NextKeeps
<1> QED BY <1>1, <1>2, PTL DEF Spec

\* Between calls the files of an open store are whole and say what recovery would
\* make of them; a closed store, after any crash, can be opened again.
THEOREM DiskStaysSound ==
    ASSUME UndoingSucceeds
    PROVE  Spec => []DiskIsSound
<1>1. IInv => DiskIsSound
    BY SoundnessHolds
<1> QED BY <1>1, InvariantHolds, PTL

\* No id is given out a second time once a caller was told that its record is
\* stored or while it is in a file, over all failures and restarts.
THEOREM IdsStayFresh ==
    ASSUME UndoingSucceeds
    PROVE  Spec => []IdsAreFresh
<1>1. IInv => IdsAreFresh
    BY FreshnessHolds
<1> QED BY <1>1, InvariantHolds, PTL

\* What recovery would make of the files changes only as a store without files
\* changes: a save replaces all of its files or none, recovery changes nothing.
THEOREM StoreIsAtomic ==
    ASSUME UndoingSucceeds
    PROVE  Spec => ImplementsAtomicStore
<1>1. Init => Abstract!Init
    BY InitMaps
<1>2. IInv /\ [Next]_vars => [Abstract!Next]_(Records(disk))
    BY NextKeeps, OneCallIsStep
<1>3. Records(disk) = [f \in DataFiles |-> View(disk, f)]
    BY DEF Records
<1>4. IInv /\ [Next]_vars => [Abstract!Next]_([f \in DataFiles |-> View(disk, f)])
    BY <1>2 DEF Records
<1> QED BY <1>1, <1>4, InvariantHolds, PTL DEF Spec, ImplementsAtomicStore, Abstract!Spec
=============================================================================
