------------------------------ MODULE NativeStore ------------------------------
(***************************************************************************)
(* NativeSessionStore and its files: opening with recovery, appending with *)
(* compaction, rewriting one file, saving several files in a transaction   *)
(* (native_session_store.cpp, native_store_file_ops.cpp).                  *)
(*                                                                         *)
(* One thread uses a store.  What makes it hard is that the process may    *)
(* end between any two changes of the file system, and that any of these   *)
(* calls may fail and is then handled where it failed.  A call is a task   *)
(* with a plan (StoreDisk): Perform makes the next change; the actions     *)
(* named for a failure are the branches taken when it fails; an empty plan *)
(* moves the task on.  A record is its id, and ids are given out by one    *)
(* counter (the code keeps one per file, all in the same file of counters).*)
(* What the process wrote survives its end: a loss of power is not         *)
(* modelled.  An append that is cut short, by the end of the process or by *)
(* a failed write, may leave a torn record.                                *)
(***************************************************************************)
EXTENDS StoreDisk

CONSTANTS
    Raw,               \* raw_io_events.svmr: appended to, and compacted
    History,           \* send_history.svmr: rewritten on its own
    Group,             \* the files of a transaction, in order, without
    Counters,          \* id_counters.svmr
    SoftLimit,         \* rawEventSoftLimitBytes_, in records
    Calls,             \* of "append", "rewrite", "save", the calls made
    MaxId,             \* bound: ids given out
    MaxCrashes,        \* bound: ends of the process in the middle of a call
    MaxFaults,         \* bound: calls of the file system that fail
    FaultPoints        \* <<call of the file system, phase>>: what may fail where

DataFiles == {Raw, History} \cup ToSet(Group)
Files == DataFiles \cup {Counters}

ASSUME FilesAssumption ==
    /\ Group \in Seq(ToSet(Group)) /\ IsInjective(Group)
    /\ Raw # History /\ {Raw, History} \cap ToSet(Group) = {}
    /\ Counters \notin DataFiles

ASSUME BoundsAssumption == SoftLimit \in Nat \ {0} /\ MaxId \in Nat

ASSUME AbsentAssumption == \A content \in SUBSET (0 .. MaxId + 1) : content # Absent

VARIABLES
    disk,              \* the directory, see StoreDisk
    opened,            \* opened_
    nextId,            \* nextIds_
    dirty,             \* countersDirty_
    task,              \* the call in progress
    known,             \* history: ids of the calls that were answered with true
    crashes,           \* bound counters
    faults

vars == <<disk, opened, nextId, dirty, task, known, crashes, faults>>
bounds == <<crashes, faults>>
memory == <<opened, nextId, dirty>>

NoSlot == [f \in Files |-> Absent]
Idle == [phase |-> "idle", call |-> "none", id |-> 0, plan |-> << >>, answer |-> "none"]

Init ==
    /\ disk = [path |-> NoSlot, temp |-> NoSlot, backup |-> NoSlot,
               manifest |-> NoManifest, commit |-> FALSE]
    /\ opened = FALSE
    /\ nextId = 1
    /\ dirty = FALSE
    /\ task = Idle
    /\ known = {}
    /\ crashes = 0
    /\ faults = 0

-----------------------------------------------------------------------------
\* How a call begins, goes on and ends

In(phase) == task.phase = phase
Begin(call, id, phase, plan) ==
    task' = [Idle EXCEPT !.call = call, !.id = id, !.phase = phase, !.plan = plan]
Enter(phase, plan) == task' = [task EXCEPT !.phase = phase, !.plan = plan]

Answer(ok) ==
    /\ task' = [task EXCEPT !.phase = "idle", !.plan = << >>,
                            !.answer = IF ok THEN "true" ELSE "false"]
    /\ known' = IF ok /\ task.call # "open" THEN known \cup {task.id} ELSE known

Ready(call) == In("idle") /\ opened /\ call \in Calls /\ nextId <= MaxId

\* allocateId
AllocateId ==
    /\ nextId' = nextId + 1
    /\ dirty' = TRUE

\* Make the next change of the plan.
Perform ==
    /\ task.plan # << >>
    /\ disk' = Apply(disk, Head(task.plan))
    /\ task' = [task EXCEPT !.plan = Tail(@)]
    /\ UNCHANGED <<memory, known, bounds>>

Finished(phase) == In(phase) /\ task.plan = << >>

-----------------------------------------------------------------------------
\* open and initializeSchema

Created(f) ==
    IF Holds(disk, "path", f) \/ Holds(disk, "backup", f)
    THEN << >>
    ELSE <<Write("path", f, {})>>

RecoverFile(f) == RecoverArtifacts(disk, f) \o Created(f)

\* The rest of storeFiles, in its order; the counters come last.
OtherFiles ==
    LET files == <<History>> \o Group
    IN  FlattenSeq([i \in DOMAIN files |-> RecoverFile(files[i])])
        \o RecoverArtifacts(disk, Counters)

\* The store is closed, or opened again.
Open ==
    /\ In("idle")
    /\ opened' = FALSE
    /\ IF CanRecover(disk)
       THEN Begin("open", 0, "recover", RecoverTransaction(disk))
       ELSE task' = [Idle EXCEPT !.call = "open", !.answer = "false"]
    /\ UNCHANGED <<disk, nextId, dirty, known, bounds>>

OpenRecovered ==
    /\ Finished("recover")
    /\ task.call = "open"
    /\ Enter("artifacts", RecoverFile(Raw))
    /\ UNCHANGED <<disk, memory, known, bounds>>

\* recoverRecordFileTail: only appending can leave a torn record.
OpenRecoversTail ==
    /\ Finished("artifacts")
    /\ task.call = "open"
    /\ Enter("tail", IF Torn \in disk.path[Raw]
                     THEN RewriteFile(disk, Raw, disk.path[Raw] \ {Torn})
                     ELSE << >>)
    /\ UNCHANGED <<disk, memory, known, bounds>>

OpenOtherFiles ==
    /\ Finished("tail")
    /\ Enter("others", OtherFiles)
    /\ UNCHANGED <<disk, memory, known, bounds>>

\* reloadCounters: after the ids that are in the files.
FirstIdAfterRecords ==
    LET ids == UNION {disk.path[f] : f \in DataFiles}
    IN  IF ids = {} THEN 1 ELSE Max(ids) + 1

OpenLoadCounters ==
    /\ Finished("others")
    /\ IF Holds(disk, "path", Counters)
       THEN /\ nextId' \in disk.path[Counters]
            /\ dirty' = FALSE
            /\ opened' = TRUE
            /\ Answer(TRUE)
       ELSE /\ nextId' = FirstIdAfterRecords
            /\ dirty' = TRUE
            /\ Enter("counters", RewriteFile(disk, Counters, {nextId'}))
            /\ UNCHANGED <<opened, known>>
    /\ UNCHANGED <<disk, bounds>>

-----------------------------------------------------------------------------
\* appendRawEvents, saveSendHistory: the counters are persisted, then the file
\* is appended to or rewritten.

\* Mutant: the counters are persisted some other time.
PersistNothing(next) == << >>

PersistCounters(next) == RewriteFile(disk, Counters, {next})

StartAppend ==
    /\ Ready("append")
    /\ AllocateId
    /\ Begin("append", nextId, "counters", PersistCounters(nextId + 1))
    /\ UNCHANGED <<disk, opened, known, bounds>>

StartRewrite ==
    /\ Ready("rewrite")
    /\ AllocateId
    /\ Begin("rewrite", nextId, "counters", PersistCounters(nextId + 1))
    /\ UNCHANGED <<disk, opened, known, bounds>>

CountersPersisted ==
    /\ Finished("counters")
    /\ dirty' = FALSE
    /\ \/ task.call = "open" /\ opened' = TRUE /\ Answer(TRUE)
       \/ /\ task.call = "append"
          /\ Enter("append", <<AddTo(Raw, {task.id})>>)
          /\ UNCHANGED <<opened, known>>
       \/ /\ task.call = "rewrite"
          /\ Enter("replace", RewriteFile(disk, History, {task.id}))
          /\ UNCHANGED <<opened, known>>
    /\ UNCHANGED <<disk, nextId, bounds>>

\* compactRawEventsIfNeeded: the newest record is what is kept.  A file that is
\* over the limit and cannot be read to its end is not compacted; how much
\* stands behind a torn record is not known here.
Appended ==
    /\ Finished("append")
    /\ LET records == disk.path[Raw]
           over == Cardinality(records) > SoftLimit
       IN  IF Torn \in records
           THEN \E ok \in BOOLEAN : (over => ~ok) /\ Answer(ok)
           ELSE IF over
           THEN Enter("compact", RewriteFile(disk, Raw, {task.id})) /\ UNCHANGED known
           ELSE Answer(TRUE)
    /\ UNCHANGED <<disk, memory, bounds>>

Replaced ==
    /\ Finished("replace") \/ Finished("compact")
    /\ Answer(TRUE)
    /\ UNCHANGED <<disk, memory, bounds>>

-----------------------------------------------------------------------------
\* rewriteRecordsFilteredTransaction: saveScanExecution and its likes

Targets == IF dirty THEN Append(Group, Counters) ELSE Group

StartSave ==
    /\ Ready("save")
    /\ AllocateId
    /\ IF CanRecover(disk)
       THEN Begin("save", nextId, "recover", RecoverTransaction(disk))
       ELSE task' = [Idle EXCEPT !.call = "save", !.id = nextId, !.answer = "false"]
    /\ UNCHANGED <<disk, opened, known, bounds>>

SaveRecovered ==
    /\ Finished("recover")
    /\ task.call = "save"
    /\ Enter("artifacts", FlattenSeq([i \in DOMAIN Targets |-> RecoverArtifacts(disk, Targets[i])]))
    /\ UNCHANGED <<disk, memory, known, bounds>>

SaveWritesTemps ==
    /\ Finished("artifacts")
    /\ task.call = "save"
    /\ Enter("temps", [i \in DOMAIN Targets |->
                          Write("temp", Targets[i],
                                IF Targets[i] = Counters THEN {nextId} ELSE {task.id})])
    /\ UNCHANGED <<disk, memory, known, bounds>>

SaveSwaps ==
    /\ Finished("temps")
    /\ IF CanSwap(disk, Targets)
       THEN Enter("swap", Swap(disk, Targets)) /\ UNCHANGED known
       ELSE Answer(FALSE)
    /\ UNCHANGED <<disk, memory, bounds>>

SaveCleansUp ==
    /\ Finished("swap")
    /\ Enter("cleanup", Finish(disk))
    /\ UNCHANGED <<disk, memory, known, bounds>>

Saved ==
    /\ Finished("cleanup")
    /\ dirty' = FALSE
    /\ Answer(TRUE)
    /\ UNCHANGED <<disk, opened, nextId, bounds>>

-----------------------------------------------------------------------------
\* Failures of the next change

Fails(phases) ==
    /\ task.phase \in phases
    /\ task.plan # << >>
    /\ <<SystemCall(Head(task.plan)), task.phase>> \in FaultPoints
    /\ faults < MaxFaults
    /\ faults' = faults + 1
    /\ UNCHANGED <<opened, nextId, crashes>>

\* The call returns false and leaves everything as it is.
GivesUp ==
    /\ Fails({"recover", "artifacts", "others", "abort"})
    /\ Answer(FALSE)
    /\ UNCHANGED <<disk, dirty>>

\* Nothing, or part of a record, is in the file.
CutShort == disk' \in {disk, Apply(disk, AddTo(Raw, {Torn}))}

AppendFails ==
    /\ Fails({"append"})
    /\ CutShort
    /\ Answer(FALSE)
    /\ UNCHANGED dirty

\* replaceFileWithTemp, and the writing of the temporary file before it.  When the
\* old file is already aside it is put back; if that fails too it stays there, and
\* the temporary file still goes.
RewriteFails ==
    /\ Fails({"counters", "replace", "compact", "tail", "undo"})
    /\ LET change == Head(task.plan)
           rest == Tail(task.plan)
           f == change.file
       IN  IF task.phase = "undo"
           THEN /\ SystemCall(change) = "rename"
                /\ Enter("undo", rest)
                /\ UNCHANGED <<disk, known>>
           ELSE IF change.slot = "path"
           THEN /\ Enter("undo", (IF rest = << >> THEN << >>
                                  ELSE <<Rename("backup", "path", f)>>)
                                 \o <<Delete("temp", f)>>)
                /\ UNCHANGED <<disk, known>>
           ELSE \* the old backup or the one just made stays, any other failure
                \* takes the temporary file with it
                /\ disk' = IF change.do = "remove" THEN disk ELSE Apply(disk, Delete("temp", f))
                /\ Answer(FALSE)
    /\ UNCHANGED dirty

TempsFail ==
    /\ Fails({"temps"})
    /\ Enter("discard", FlattenSeq([i \in DOMAIN Targets |->
                            RemoveIfThere(disk, "temp", Targets[i])]))
    /\ UNCHANGED <<disk, dirty, known>>

\* commitReplacementTargets: before the marker is there abortTransaction, once the
\* manifest is there; after it the save has succeeded, whatever is left behind.
CommitFails ==
    /\ Fails({"swap", "cleanup"})
    /\ IF task.phase = "cleanup"
       THEN Answer(TRUE) /\ dirty' = FALSE
       ELSE /\ UNCHANGED dirty
            /\ IF disk.manifest = NoManifest \/ ~CanRollBack(disk)
               THEN Answer(FALSE)
               ELSE Enter("abort", RollBack(disk)) /\ UNCHANGED known
    /\ UNCHANGED disk

\* Mutant: the caller is told that all is well again.
UndoneIsWell ==
    /\ Finished("undo") \/ Finished("discard") \/ Finished("abort")
    /\ Answer(TRUE)
    /\ UNCHANGED <<disk, memory, bounds>>

\* abortTransaction returns false, and so does what was undone or discarded.
Undone ==
    /\ Finished("undo") \/ Finished("discard") \/ Finished("abort")
    /\ Answer(FALSE)
    /\ UNCHANGED <<disk, memory, bounds>>

\* The process ends in the middle of a call.
Crash ==
    /\ ~In("idle")
    /\ crashes < MaxCrashes
    /\ crashes' = crashes + 1
    /\ task' = Idle
    /\ opened' = FALSE
    /\ nextId' = 1
    /\ dirty' = FALSE
    /\ IF In("append") /\ task.plan # << >> THEN CutShort ELSE UNCHANGED disk
    /\ UNCHANGED <<known, faults>>

-----------------------------------------------------------------------------
OpenStep ==
    \/ Open \/ OpenRecovered \/ OpenRecoversTail
    \/ OpenOtherFiles \/ OpenLoadCounters
RecordStep == StartAppend \/ StartRewrite \/ CountersPersisted \/ Appended \/ Replaced
SaveStep ==
    \/ StartSave \/ SaveRecovered \/ SaveWritesTemps
    \/ SaveSwaps \/ SaveCleansUp \/ Saved
FailureStep ==
    \/ GivesUp \/ AppendFails \/ RewriteFails \/ TempsFail
    \/ CommitFails \/ Undone

Next == OpenStep \/ RecordStep \/ SaveStep \/ Perform \/ FailureStep \/ Crash

Spec == Init /\ [][Next]_vars

-----------------------------------------------------------------------------
\* Properties

\* The failures that the store does not come back from, taken away: what undoes or
\* cleans up goes on to its end, and a backup can be removed once the new file is in
\* its place.
UndoingSucceeds ==
    \A point \in FaultPoints :
        /\ point[2] \notin {"undo", "abort", "cleanup"}
        /\ point[1] = "remove" => point[2] \notin {"counters", "replace", "compact"}

Ids == 1 .. MaxId
Contents == (SUBSET (Ids \cup {Torn})) \cup {{MaxId + 1}, Absent}
Phases == {"idle", "recover", "artifacts", "tail", "others", "counters", "append", "compact", "replace",
           "temps", "swap", "cleanup", "undo", "discard", "abort"}

TypeOK ==
    /\ disk \in [ path : [Files -> Contents], temp : [Files -> Contents],
                  backup : [Files -> Contents],
                  manifest : Seq([file : Files, hadPath : BOOLEAN]), commit : BOOLEAN ]
    /\ opened \in BOOLEAN
    /\ nextId \in 1 .. MaxId + 1
    /\ dirty \in BOOLEAN
    /\ task.phase \in Phases
    /\ task.id \in 0 .. MaxId
    /\ known \subseteq Ids

InFiles == UNION {View(disk, f) : f \in DataFiles}

\* What the open store reads (of the raw records: as far as they are whole) is
\* what the next open would make of the files: no failed call leaves a file
\* half replaced, missing or to be rolled back.
ReadsAgree ==
    opened /\ In("idle") =>
        \A f \in DataFiles : Holds(disk, "path", f) /\ disk.path[f] \ {Torn} = View(disk, f)

\* An id is never given out again once a caller was told that its record is
\* stored, or while it is in a file: also after restarts, with the record
\* itself long deleted (the counters are persisted before the record is).
IdsAreFresh ==
    opened /\ In("idle") => \A id \in known \cup InFiles : id < nextId

\* Whatever the process left on the disk, the next open can recover it.
Recoverable == ~opened /\ In("idle") => CanRecover(disk)

\* Between calls the files are what an open store reads, or what an open can
\* make them, and of the right kind.
DiskIsSound == TypeOK /\ ReadsAgree /\ Recoverable

\* The effect of a call.
Stored(call, id) ==
    CASE call = "append" -> id \in View(disk, Raw)
      [] call = "rewrite" -> View(disk, History) = {id}
      [] call = "save" -> \A i \in DOMAIN Group : View(disk, Group[i]) = {id}

Returned == ~In("idle") /\ task'.phase = "idle" /\ task.call \in {"append", "rewrite", "save"}

\* A call that returns true has its effect in what recovery preserves; a save or
\* a rewrite that returns false has none.  (An append whose compaction fails
\* returns false with its record in place.)
ResultStep ==
    Returned =>
        /\ task'.answer = "true" => Stored(task.call, task.id)'
        /\ task'.answer = "false" /\ task.call # "append" => (task.id \notin InFiles)'

\* The store without files.
Abstract ==
    INSTANCE AtomicStore WITH
        records <- [f \in DataFiles |-> View(disk, f)],
        Groups <- {ToSet(Group), {History}}

\* What the store stands for at any moment, in the middle of a call and between
\* crash and recovery, changes as a store without files would change: saves are
\* all or nothing, and recovery changes nothing.
ImplementsAtomicStore == Abstract!Spec
=============================================================================
