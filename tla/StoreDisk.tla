------------------------------- MODULE StoreDisk -------------------------------
(***************************************************************************)
(* The files of the native store and what is done with them, one operation *)
(* of the file system at a time (native_store_file_ops.cpp).               *)
(*                                                                         *)
(* A record file f is up to three files of the directory: f itself, f.tmp  *)
(* and f.bak; the slots "path", "temp" and "backup".  A transaction over   *)
(* several record files adds a manifest, which lists them, and a commit    *)
(* marker.  What a file holds is the set of the ids of its records (for    *)
(* the counter file: the id that is next), and Torn after them if the last *)
(* record was cut short before its last field (a cut in the last field is  *)
(* not noticed by the code: RecordFile).  What is written behind it cannot *)
(* be read.  The temporary files of the manifest and of the marker and the *)
(* .orphan files are never read and are left out.                          *)
(*                                                                         *)
(* Each function of the code that changes files is the sequence of changes *)
(* ("plan") it makes when nothing fails.  No file of a plan is touched by  *)
(* anyone else while the plan is carried out, so what the code tests on    *)
(* the way is known when the plan is made.                                 *)
(***************************************************************************)
EXTENDS Integers, Sequences, FiniteSets, SequencesExt

CONSTANTS
    Absent             \* what a slot holds when there is no such file

Torn == 0

Holds(d, slot, f) == d[slot][f] # Absent

\* Manifests: << >> is no manifest.  A target is a record file and whether
\* there was one before.
NoManifest == << >>
Target(f, hadPath) == [file |-> f, hadPath |-> hadPath]
TargetFiles(d) == {d.manifest[i].file : i \in DOMAIN d.manifest}
Manifest(d, files) == [i \in DOMAIN files |-> Target(files[i], Holds(d, "path", files[i]))]

-----------------------------------------------------------------------------
\* Changes, and what they do to the disk

Write(slot, f, content) == [do |-> "write", slot |-> slot, file |-> f, content |-> content]
AddTo(f, content) == [do |-> "add", slot |-> "path", file |-> f, content |-> content]
Rename(from, to, f) == [do |-> "rename", from |-> from, slot |-> to, file |-> f]
Delete(slot, f) == [do |-> "remove", slot |-> slot, file |-> f]
PublishManifest(m) == [do |-> "publishManifest", manifest |-> m]
PublishCommit == [do |-> "publishCommit"]
RemoveManifest == [do |-> "removeManifest"]
RemoveCommit == [do |-> "removeCommit"]

Apply(d, change) ==
    CASE change.do = "write" -> [d EXCEPT ![change.slot][change.file] = change.content]
      [] change.do = "add" ->
             [d EXCEPT !.path[change.file] =
                 IF @ = Absent THEN change.content
                 ELSE IF Torn \in @ THEN @
                 ELSE @ \cup change.content]
      [] change.do = "rename" ->
             [d EXCEPT ![change.slot][change.file] = d[change.from][change.file],
                       ![change.from][change.file] = Absent]
      [] change.do = "remove" -> [d EXCEPT ![change.slot][change.file] = Absent]
      [] change.do = "publishManifest" -> [d EXCEPT !.manifest = change.manifest]
      [] change.do = "publishCommit" -> [d EXCEPT !.commit = TRUE]
      [] change.do = "removeManifest" -> [d EXCEPT !.manifest = NoManifest]
      [] change.do = "removeCommit" -> [d EXCEPT !.commit = FALSE]

\* The call of the file system that a change is (what can fail).
SystemCall(change) ==
    CASE change.do \in {"write", "add"} -> "write"
      [] change.do \in {"rename", "publishManifest", "publishCommit"} -> "rename"
      [] change.do \in {"remove", "removeManifest", "removeCommit"} -> "remove"

-----------------------------------------------------------------------------
\* Plans

\* removePath, remove: nothing happens to a file that is not there.
RemoveIfThere(d, slot, f) == IF Holds(d, slot, f) THEN <<Delete(slot, f)>> ELSE << >>

\* recoverReplacementArtifacts: a backup wins over the file.
RecoverArtifacts(d, f) ==
    (IF Holds(d, "backup", f)
     THEN RemoveIfThere(d, "path", f) \o <<Rename("backup", "path", f)>>
     ELSE << >>)
    \o RemoveIfThere(d, "temp", f)

\* replaceFileWithTemp, once the temporary file has been written.
ReplaceFileWithTemp(d, f) ==
    IF Holds(d, "path", f)
    THEN RemoveIfThere(d, "backup", f)
         \o <<Rename("path", "backup", f), Rename("temp", "path", f), Delete("backup", f)>>
    ELSE <<Rename("temp", "path", f)>>

\* rewriteRecords and rewriteRecordsFiltered: the temporary file first.
RewriteFile(d, f, content) == <<Write("temp", f, content)>> \o ReplaceFileWithTemp(d, f)

CanRollBack(d) ==
    \A i \in DOMAIN d.manifest :
        LET target == d.manifest[i]
        IN  IF target.hadPath
            THEN Holds(d, "path", target.file) \/ Holds(d, "backup", target.file)
            ELSE ~Holds(d, "backup", target.file)

RollBackTarget(d, target) ==
    (IF Holds(d, "backup", target.file)
     THEN RemoveIfThere(d, "path", target.file) \o <<Rename("backup", "path", target.file)>>
     ELSE IF ~target.hadPath THEN RemoveIfThere(d, "path", target.file)
     ELSE << >>)
    \o RemoveIfThere(d, "temp", target.file)

\* Mutant: what was swapped stays swapped.
ForgetTransaction(d) == <<RemoveManifest>>

\* rollbackUncommittedTransaction, the last target first.
RollBack(d) ==
    FlattenSeq([i \in DOMAIN d.manifest |-> RollBackTarget(d, Reverse(d.manifest)[i])])
    \o <<RemoveManifest>>

CanFinish(d) == \A f \in TargetFiles(d) : Holds(d, "path", f)

\* Mutant: the manifest goes first.
FinishManifestFirst(d) ==
    <<RemoveManifest>>
    \o FlattenSeq([i \in DOMAIN d.manifest |->
           RemoveIfThere(d, "backup", d.manifest[i].file)
           \o RemoveIfThere(d, "temp", d.manifest[i].file)])
    \o <<RemoveCommit>>

\* finishCommittedTransaction.  The clean-up of commitReplacementTargets, which
\* removes the backups before it calls it, makes the same changes.
Finish(d) ==
    FlattenSeq([i \in DOMAIN d.manifest |->
        RemoveIfThere(d, "backup", d.manifest[i].file)
        \o RemoveIfThere(d, "temp", d.manifest[i].file)])
    \o <<RemoveManifest, RemoveCommit>>

\* recoverReplacementTransaction: what a transaction left behind, if anything.
CanRecover(d) ==
    d.manifest # NoManifest => IF d.commit THEN CanFinish(d) ELSE CanRollBack(d)

RecoverTransaction(d) ==
    IF d.manifest = NoManifest
    THEN IF d.commit THEN <<RemoveCommit>> ELSE << >>
    ELSE IF d.commit THEN Finish(d)
    ELSE RollBack(d)

\* commitReplacementTargets up to the commit marker.
Swap(d, files) ==
    <<PublishManifest(Manifest(d, files))>>
    \o FlattenSeq([i \in DOMAIN files |->
           IF Holds(d, "path", files[i]) THEN <<Rename("path", "backup", files[i])>>
           ELSE << >>])
    \o [i \in DOMAIN files |-> Rename("temp", "path", files[i])]
    \o <<PublishCommit>>

\* What commitReplacementTargets insists on before it starts.
CanSwap(d, files) ==
    /\ d.manifest = NoManifest
    /\ ~d.commit
    /\ \A i \in DOMAIN files :
           Holds(d, "temp", files[i]) /\ ~Holds(d, "backup", files[i])

-----------------------------------------------------------------------------
\* What recovery would make of a disk if nothing fails: the records the store
\* stands for.  A file that would still be absent is created empty, a torn
\* record is cut off.

RolledBackToNothing(d, f) ==
    \E i \in DOMAIN d.manifest : d.manifest[i].file = f /\ ~d.manifest[i].hadPath

Recovered(d, f) ==
    IF f \in TargetFiles(d) /\ d.commit THEN d.path[f]
    ELSE IF Holds(d, "backup", f) THEN d.backup[f]
    ELSE IF RolledBackToNothing(d, f) THEN Absent
    ELSE d.path[f]

View(d, f) == IF Recovered(d, f) = Absent THEN {} ELSE Recovered(d, f) \ {Torn}
=============================================================================
