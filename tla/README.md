# Verification of serial-value-matcher-native

TLA+ models of the native Windows application in this repository: a serial
terminal that queues and writes data, scans Modbus RTU registers, looks for
values in what it received, and stores its sessions on disk. The modules are
translated from the C++ sources under `src/`; TLC checks them on small instances
and TLAPS proves theorems about them for all values of their constants.
`PROJECT.json` maps every definition to the lines it stands for.

- [1. The system](#1-the-system)
- [2. Modules](#2-modules)
- [3. The write queue](#3-the-write-queue)
- [4. The serial session](#4-the-serial-session)
- [5. The native store](#5-the-native-store)
- [6. The Modbus scan](#6-the-modbus-scan)
- [7. What the window sends](#7-what-the-window-sends)
- [8. The small parts](#8-the-small-parts)
- [9. What the runs check](#9-what-the-runs-check)
- [10. Fairness](#10-fairness)
- [11. What is proved](#11-what-is-proved)
- [12. What is not modelled](#12-what-is-not-modelled)
- [13. Plan](#13-plan)

## 1. The system

| Component | State | Operations | Hard behaviour | Correct when |
|---|---|---|---|---|
| Write queue (`transport/serial_write_queue`) | generation, next id, pending requests, active reservation, counters, high-water marks | beginGeneration, reserveRequestId, enqueue, activateNext, cancelPending, cancelAllPending, completeActive | saturation of the id counter, unsigned counters kept by increments, limits that count the active request | one result per request, FIFO, limits and counters exact, generations do not mix |
| Serial session (`win32/win32_serial_session`) | lifecycle state, generation, port handle, the queue, completed results, worker thread, event, options; three locks | open, close, read, write, enqueue, cancel, take completions, line control; the worker's loop | caller threads against the worker and each other, close with a join budget, device lost at any moment, reopen while an old thread is still inside | every accepted write answered once and in the end; nothing of one generation touches the next |
| RTU transport (`transport/serial_rtu_transport`) | one exchange: generation, deadline, bytes received so far | exchange (write, wait, read, frame) | cancellation, reopen in the middle, an answer that comes after its timeout | a response is of the request it is given for |
| Scan executor (`core/modbus_scan_executor_core`, `core/modbus_core`) | block and attempt counters, results | execute; plan, frames, CRC | retries, cancellation between attempts, partial failure | every register once, counts agree with results |
| Scan thread and UI (`win32/native_modbus_scan_worker`, `win32/main_window_modbus`) | worker, result slot, posted messages, UI state | start, cancel, progress, done, timer, destroy | posts that fail, a join that times out, a disconnect deferred to the end of the scan | no batch lost or saved twice, the scan ends in the UI |
| Serial I/O of the window (`win32/main_window_send`, `…serial_io`, `native_reconnect_state`, …) | connection, send timers, file send, prompts, counters | connect, send, timers, completions, reconnect, modal confirmation | modal loops re-enter everything, cached snapshots, reconnect against the user | counters and logs agree with results, no send without its confirmation |
| Native store (`native_storage/*`) | session index, records, caches, id counters, manifests | create, append, rename, delete, compact, recover | crash between any two file operations, torn tails, failed clean-up | a replacement is all or nothing, ids are unique, nothing acknowledged is lost |
| Command sequence (`command_sequence`) | step, loop and budget counters, last response | run | stale response of an earlier step, loop limits | checks look at the step they follow |
| Evidence bundle (`report/evidence_bundle_writer`) | temporary and target directory | write | target appears in between, failure half way | all or nothing |
| Analysis core (`core/analysis_core`) | none (functions), a candidate cache | find candidates, decode, verify | cached candidates after new data | results follow from the bytes |
| Frame scheduler, layout, log view (`win32/native_frame_scheduler`, `native_log_model`, …) | pending reasons, log ring, filter revision | request, dispatch, append, filter | posts that fail, revisions that overtake | no request lost, views agree with the model |
| Dangerous operation policy, codecs, enumeration, painting, commands | little or none | | | |

How they interact. The window's thread and the scan thread call one session. The
session owns one queue and calls it under `writeLock_`; its worker takes requests
out of the same queue. Results of queued writes come back through
`takeCompletedWrites`, which the window polls from a timer; the scan thread uses
direct reads and writes through the RTU transport and talks to the window by
posted messages and a result slot. What the window receives goes to the analysis
core, the log and the store, all on the window's thread. The scan's batches also
go to the store on the window's thread.

What a test of this code hardly reaches is listed with source lines under
`hazards` in `PROJECT.json`; the properties below are aimed at that list.

## 2. Modules

| Module | What it is |
|---|---|
| `SerialWriteQueueOps` | the queue's operations as operators on the queue value, and predicates on it |
| `SerialWriteQueue` | the queue on its own: any sequence of calls |
| `SerialWriteQueueLemmas` | what each queue operation preserves, proved |
| `SerialWriteQueueProofs` | the invariants of `SerialWriteQueue`, proved |
| `SerialSession` | the session: callers, locks, worker, faults; uses the operators of `SerialWriteQueueOps` |
| `SerialSessionProofs` | the session's invariant, action by action, and the theorems about requests, the wire, the ledger and the port |
| `WriteLedger` | what the session promises about writes, with no thread in sight |
| `StoreDisk` | the directory of the native store, and what each function of `native_store_file_ops.cpp` does to it, one change at a time |
| `NativeStore` | the store that uses them: open, append, rewrite, save, failing calls, the end of the process |
| `AtomicStore` | what the store promises, with no files in sight |
| `StoreDiskProofs` | what each function on the directory does to the next recovery, proved for every point where it may be interrupted |
| `NativeStoreProofs` | the store's invariant, and that it implements `AtomicStore`, proved |
| `StoreCache` | the caches of the store's queries, over the directory of `StoreDisk` |
| `RecordFile` | the bytes of the raw event file: reading, compaction, repair |
| `ScanPlan` | how a register range is cut into requests, and what answers one |
| `RtuScan` | a scan: blocks, attempts, and each exchange over the byte stream |
| `RtuScanProofs` | the safety properties of a scan, proved |
| `ModbusScanUi` | the scan thread, the window that starts and ends it, the messages between them |
| `ModbusScanUiProofs` | nothing of a scan is lost or taken twice, proved |
| `SendFlow` | what the window sends and what it makes of the results |
| `SendFlowProofs` | that it is recorded once, or which success is thrown away; that it is waited for as long as it is owed, and that a file is alone, proved |
| `SendHistory` | the codec of what is sent, and the send history |
| `LogView` | the receive log and the frame scheduler |
| `CommandSequence` | validation and execution of a command sequence |
| `EvidenceBundle` | the publication of an evidence bundle |
| `RegisterValues` | how numbers are read from registers, and how a device sends them |
| `Candidates` | the generation of candidates for a known value |
| `AnalysisWorkflow` | from a scan over candidates and rules to an exported verification |
| `MC…` | the TLC instances; `MCParts` has ten modules in one, chosen at the start of a behavior |

`SerialSession` uses the queue's operators, `CommandSequence` and `RtuScan` share
`ScanPlan`, `Candidates` and `AnalysisWorkflow` share `RegisterValues`, `NativeStore`
and `StoreCache` share `StoreDisk`. Where a module needs another part it takes what
that part's module shows it to do: `SendFlow` and `SendHistory` a session that answers
every write once and in order (`WriteLedger`), `StoreCache` and `AnalysisWorkflow` saves
that happen or do not (`AtomicStore`), `ModbusScanUi` a scan that ends (`RtuScan`).

Some definitions come in pairs with a comment that begins "Mutant:". The mutant is
the same operator with a plausible mistake; `PROJECT.json` says which property
each of them breaks.

## 3. The write queue

A queue is a record with one field per data member. A method that returns a value
and changes the object is two operators: `EnqueueStatus` says what `enqueue`
returns, `Enqueue` what it leaves behind when it accepts; `CompletionAccepted`,
`CompletedStatus` and `CompleteActive` do the same for `completeActive`. A payload
is its length. Deadlines are stored by the queue and never read by it, and are
left out. An empty `std::optional` reservation is `NoRequest`, whose id 0 no
request can have.

`SerialWriteQueue` adds two histories: the payload length of every id that was
accepted and the sequence of terminal results every id has had. Refused calls
change nothing in the code and are stuttering steps here.

| Action | Code (`serial_write_queue.cpp`) |
|---|---|
| `DoBeginGeneration` | `beginGeneration` |
| `DoReserveRequestId` | `reserveRequestId` |
| `DoEnqueue` | `enqueue`, with the adoption of a generation by the first request |
| `DoActivateNext` | `activateNext` |
| `DoCancelPending`, `DoCancelToken`, `DoCancelAllPending` | the three cancellations |
| `DoCompleteActive` | `completeActive`, with a short "Sent" turned into a failure |

## 4. The serial session

**Processes.** `Callers` are the threads that call the session: in the program the
window's thread `ui` and the scan thread `scan`. The write worker is one more
process. Each caller has a program counter and the locals that live across a lock
(`call`), the worker likewise (`worker`).

**Steps.** `lifecycleLock_` is held over the whole of open and close, `ioLock_`
around each use of the handle, `writeLock_` around the fields; they are always
taken in that order. A step is one critical section of `writeLock_` or one call of
the operating system. Between two steps any other thread may run, and that is
exactly what the locks allow. Taking `ioLock_` is merged with the validation that
follows it under `writeLock_`, and its release with the check that precedes it:
no shared field is touched between the two.

**The operating system** is external: the port opens exclusively, every call may
fail, and the failures that occur in an instance are the members of `Faults`. A
deadline may have passed or not whenever the code looks at the clock (the Boolean
`late`). `port` records the generation the open port serves, so that the use of a
stale handle would be visible; the code has no such variable.

| Actions | Code (`win32_serial_session.cpp`) |
|---|---|
| `OpenBegin … OpenUndo` | `open`: admission, CreateFile and set-up, commit or undo |
| `CloseBegin … CloseEnd` | `close` with `stopWriteWorker`: settle, wake, join within a budget, give up, reap, close the handle |
| `EnqueueWrite`, `CancelPendingWrites`, `TakeCompletedWrites` | the queue operations of the interface, the lazy start of the worker and its rollback included |
| `ReadBegin`, `ReadNative`, `LineBegin … LineOption`, `WriteBegin … WriteNative`, `IoAcquire`, `IoDisconnected` | reads, line control and direct writes |
| `WorkerCheck … WorkerFinish` | the loop of the worker, `finalizeActiveWriteLocked` and `markWorkerFailureLocked` |

**The ledger.** `WriteLedger` is what a user of the session needs to know: a request
is admitted only while the session is open and is then owed one result; it is
settled once; the session does not call itself closed or open again before it owes
nothing. `SerialSession` implements it under the mapping `Phase`, `Entry`
(`ImplementsLedger`): `Opening` counts as closed, `Closing` and `Faulted` as shut.

## 5. The native store

**The disk.** `disk` holds, for each record file `f`, what is in `f`, `f.tmp` and
`f.bak` (the slots `path`, `temp`, `backup`; `Absent` if there is no such file), the
transaction manifest and whether the commit marker is there. The content of a
file is the set of the ids of its records, and `Torn` after them if the last one
was cut short. A record file stands for all that are used in the same way: `Raw`
(`raw_io_events`: appended to and compacted), `History` (`send_history`: rewritten
on its own), `Group` (the files saved together, such as the scan's), `Counters`
(`id_counters`).

**Plans.** Each function that changes files is translated into the sequence of
changes it makes when nothing fails: `RecoverArtifacts`, `ReplaceFileWithTemp`,
`RollBack`, `Finish`, `Swap`. One thread uses a store, so the tests the code makes
between its changes see what it has done itself, and the plan is known when the
function begins. `Perform` makes the next change; between any two of them the
process may end (`Crash`) or the next call of the file system may fail.

| Action | Code |
|---|---|
| `Open`, `OpenRecovered`, `OpenRecoversTail`, `OpenOtherFiles`, `OpenLoadCounters` | `open`, `initializeSchema`, `recoverRecordFileTail`, `loadPersistedCounters`, `reloadCounters` |
| `StartAppend`, `CountersPersisted`, `Appended` | `appendRawEvents`, `appendRecords`, `compactRawEventsIfNeeded`; `persistCounters` before the record |
| `StartRewrite`, `CountersPersisted`, `Replaced` | `saveSendHistory`, `rewriteRecords` |
| `StartSave … Saved` | `saveScanExecution`, `rewriteRecordsFilteredTransaction`, `commitReplacementTargets` |
| `GivesUp`, `AppendFails`, `RewriteFails`, `TempsFail`, `CommitFails`, `Undone` | the branches after a call that failed, with `abortTransaction` and the undoing in `replaceFileWithTemp` |

**Simplifications.** One counter stands for the counters of all files; the code
keeps them in one file and persists them together. A save or a rewrite replaces
all records of its files (the code keeps those of other sessions, or the most
recent ones; keeping more changes nothing in the order of file operations). One
append is one record. Compaction keeps the newest record. `schema.txt`, the
temporary files of manifest and marker and the `.orphan` files are written and
never read, and are left out; so is a damaged manifest, since it is published by a
rename. What a process wrote survives its end: a loss of power, where the order of
writes on the disk is not the order of the calls, is not modelled, and the code
does not flush for it.

**The abstract store.** `View(disk, f)` is what the next open would make of `f`.
`NativeStore` implements `AtomicStore` under `records <- View`: at every moment,
also between two changes of one call, in the middle of a recovery and between the
crash and the recovery, the store stands for a set of records that changes only by
whole appends, whole rewrites, whole saves and compaction. The refinement says in
particular that recovery and its interruption change nothing.

## 6. The Modbus scan

**The plan** (`ScanPlan`) is computed by the code's loop over the range, with its
limits as constants; `PlanCoversRange` compares it with what it should be, for
every range around the limits.

**One exchange** (`RtuScan`). Four parties act between any two steps of the scan
thread: the user sets the cancellation flag, the session is lost and perhaps another
one opened, the device sends its answers whole, in two pieces, late or never, and the
deadline passes. Bytes are the parts of answers, and a part remembers whose answer it
is, which no byte of Modbus RTU does.

| Actions | Code |
|---|---|
| `ExchangeBegins`, `RequestWritten`, `WriteChecked` | `SerialRtuTransport::exchange` up to the write and the checks behind it |
| `Look`, `Read`, `Received`, `ExchangeEnds` | its loop: wait for bytes, read them, look for a complete answer |
| `BlockBegins`, `AttemptBegins`, `AttemptEnds`, `CloseBlock`, `ScanFinished` | `ScanExecutor::execute` |

**The thread and the window** (`ModbusScanUi`). The thread collects raw events in
batches, posts them, stores its result in a slot and posts Done. Any
`PostMessageW` may fail; the window's handlers take messages and timers one at a time,
and the scan thread runs between any two of them. The window connects, disconnects (at
once, or after the scan), cancels, closes, reconnects, and joins the thread within a
budget that may run out; a destroyed window settles what is still in the queue.
`handleModbusScanDone` looks whether the result in the slot is of another generation than
the scan that runs (`StaleResult`). The proof shows that it never is: a result in the slot
is the one of the scan that runs (`SlotIsTheScans`), so this branch is a precaution.

## 7. What the window sends

`SendFlow` has one state `S` of window and port, and each handler is a function on
it, cut in two where the write worker can come between (for example between
`takeCompletedWrites` and `writeQueueSnapshot`). A confirmation is a modal loop: it
goes on a stack of prompts, and while it is open timers and other handlers run, open
further prompts, and change what the caller of the prompt decided before.

| Actions | Code |
|---|---|
| `SendPayload`, `ConfirmTimed`, `CancelTimed`, `ToggleTimed` | `sendPayloadFromText`, the timed send |
| `StartFile`, `ConfirmFile`, `FileTick`, `PumpDecides`, `EnqueueChunk`, `StopFileButton` | the file send, a chunk per tick |
| `PollTick`, `PollEnds` | `drainSerialWriteResults` with its second look at the queue, `handleSerialFailure` |
| `Connect`, `Reconnect`, `ReconnectEnds`, `ReconnectTick` | `connectSerial`, of a closed session and of a faulted one, which is closed first; the reconnect timer |
| `Disconnect`, `DisconnectEnds` | `closeSerialPort` |
| `WorkerStarts`, `WorkerCompletes`, `WorkerReturns`, `WorkerFails`, `DeviceLost` | the session's worker and faults, as `SerialSession` has them in detail |

The session is open, closed or faulted, and it gets faulted in different ways. It *faults
by itself* (`Faulted`) when the device is lost or the worker's wait fails: what waits is
answered, the write under way when its call returns, and the generation is unassigned
from then on (`win32_serial_session.cpp:1058`), which is what a close that follows
settles the results with. An open that fails leaves it faulted with nothing in it
(`OpenFailed`), and one that is lost before the window has seen it open is closed at once
(`OpenedInVain`). A close may not join the worker in time, or not get rid of the handle
(`Endings`): the session stays faulted. A write that a close gave up on is answered but
still in the queue (`port.told`) until the worker comes back, joined by the next close or
by itself (`WorkerReturns`). A read that fails in a poll may have faulted the session
before `handleSerialFailure` runs (`PollEnds`).

Which operations ask for a confirmation is the table of the dangerous operation
policy; here a prompt may be answered either way at any time.

## 8. The small parts

Nine models that share no state are checked by one module, `MCParts`, and with them
the write queue on its own (section 3): a behavior is about one of them (`part`), and
the variables of the others stay 0, those of the queue as `Init` leaves them.

- `CommandSequence`. All programs of up to three steps over small payloads, delays,
  waits, reads and assertions, for two sets of backends. Time is counted, so that the
  budget that validation computes can be compared with what execution spends.
- `LogView`. The bounded list, the lines queued for the control, the timer, and the
  frame message that stands for all requests until it is handled. `SetTimer` and
  `PostMessageW` may fail. A timer that could not be set leaves the queued lines
  waiting for the next one (`timerFailed`).
- `StoreCache`. A save is one step with all the ends it can come to when one call
  fails, and one of the undoing too. Excepted: files that a failed roll-back left
  changed are repaired by the next save of *another* group, which does not drop what was
  cached of the first in between (`repaired`).
- `RecordFile`. Records as the bytes written, so that a record may be cut anywhere.
  Excepted (`unclear`): a record cut within the contents of its last field is taken for
  a whole one, because `seekg` moves past the end of the file without an error
  (`native_store_record_io.cpp:176`), and a record appended behind a torn one before the
  next open goes into the orphan file with it.
- `EvidenceBundle`. Two writers with the same target, other programs, failing calls.
- `Candidates` over `RegisterValues`. One step per sample. Decoding goes from bytes to
  numbers; the reference goes the other way, from a number to the bytes a device
  sends (`SentBytes`), so the property does not repeat the code. Arithmetic is in
  tenths instead of floating point. If an address occurs twice in the samples the code
  pairs only neighbours of the sorted list and may miss a pair; then only the first part
  of the property is claimed (`OneEach`).
- `AnalysisWorkflow`. Scans, match runs, rules and verifications in the store; what
  the window cached of them; queries that fail, restarts, an open that fails. A
  candidate of the standard order of words and bytes is verified as it was; for the
  others see the finding below.
- `SendHistory`. The text and settings change while a write is pending, quick sends
  are not saved, saves and queries fail, the program restarts.
- `NativeStore` again, with two failing calls in a save or in replacing the counters, in
  undoing and cleaning up too. Appends and the replacement of single files do not fail
  here: an append that fails in the middle of a record makes later acknowledged appends
  of the same process disappear at the next open (`native_session_store.cpp:726`), and
  a removal of the old backup that fails does the same
  (`native_store_file_ops.cpp:507`). No document of the repository speaks of either,
  so no run is kept for them.

## 9. What the runs check

| Run | Question | Bounds |
|---|---|---|
| `session_queue` | Does every interleaving of callers, worker and faults keep the books? | 2 ids, 2 generations and the refused third, all faults |
| `session_order` | What reaches the wire, in which order; does a thread ever use the port of another generation; is the ledger implemented? | 2 ids shared by queued and direct writes, 2 generations, line control, failing opens, lost device, missed join (reads race the session in `session_queue`) |
| `session_live` | Are all writes answered and do all calls return? Does close return when WriteFile never does? | 2 ids, 1 generation |
| `store` | Is every call atomic under crashes and failures? Are ids fresh, can the store always be opened? | 4 ids, 2 crashes, 2 failing calls (any but those that undo, and the removals after a file or a set of files is complete), limit 1 record |
| `scan_exchange` | Whose answers does a scan believe, what does its result say, does it end? | 2 blocks of 2 registers, 1 retry, answers in up to 2 pieces, 1 cancellation, 1 change of session |
| `scan_window` | Is a batch or a result lost or taken twice; does a disconnect that was put off happen? | 2 scans of 3 events in batches of 2, 3 sessions, any post failing |
| `send_flow` | Is what was sent recorded at most once, and lost only where the code says so; does a file have the port to itself until it ends? | a file of 2 chunks, 3 writes, 2 sessions, 2 nested prompts, queue of 2 |
| `parts` | Does any sequence of calls break the queue on its own? And the small parts, as above | in `MCParts`. Queue: 3 ids (the counter saturates), 2 generations, capacity 2 requests and 3 bytes, payloads 0, 1, 2, 4 (empty, small, filling, too large). The others: 3 steps; 5 log entries; 2 saves of 2 groups; 4 appends; 2 writers; 3 samples; 2 scans, 2 candidates, 2 verifications; 3 ids, 2 crashes, 2 faults; 3 sends |
| `store_cleanup`, `scan_poll`, `send_lost`, `rule_orders` | the findings below | |

The runs of the session and those of `NativeStore` check for deadlock. In
the others the system comes to a rest: a scan ends, a window is gone, the bounds on
sends, saves, appends and runs are used up.

The properties, with what would break them:

- `ExactlyOneResult` (both modules). A result may be produced by the worker's
  completion, by a close that gave up on the worker, by a close that reaps a
  worker that ended, by a cancellation, by a rollback of an enqueue that could not
  start the worker, or by the loss of the device. The property says that for each
  id exactly one of them does, and that "Succeeded" is said only of a payload that was
  taken completely. (The converse is not promised: a write taken completely can be
  reported as cancelled when the session stops.)
- `FirstInFirstOut`, `WrittenOnceInOrder`: ids rise along the queue and on the
  wire; nothing is written twice, also not after a reopen. `NoLateWrite`: nor after
  its result said that it never would be.
- `WithinLimits` with `BytesAccounted`: the arithmetic on unsigned counters.
- `OneGeneration`, `NothingIsLeft`: nothing of a connection survives into the next;
  and the safety side of the wake-up protocol, that a pending write in an
  open session has a worker that runs, is not told to stop, and is not asleep with
  its event clear.
- `TypeOK` of `SerialSession` includes `ActiveAgrees`: the session's record, the queue's
  reservation and the worker's copy of the active write are one and the same, although
  three sections of code clear them.
- `PortIsCurrent`, `FaultHasCause`: threads of an old generation against a new session.
- `ImplementsLedger`, `ImplementsAtomicStore`: refinements.
- `DiskIsSound`, `ResultTellsEffect`: a call that failed leaves nothing that the
  next open would undo or redo, and the next open does not refuse the store; what was
  answered with true stays, a save or rewrite answered with false has left nothing.
  (`DiskIsSound` is not claimed when the rollback fails too: the files are then in
  pieces until the next open. An append whose compaction fails returns false with its
  record in place, as in the code.)
- `IdsAreFresh`: no id is given out twice, over restarts and compaction, because the
  counters are persisted before, or together with, the records.
- `RequestsAreWanted`: no request too many after a cancellation or for a block.
- `PlanCoversRange`: the blocks follow each other over the range, and no range that is
  accepted is refused for one of its blocks.
- `AnswersTheRequest`: an answer counts only for its own request, as long as no attempt
  gave its answer up. After that it may not: Modbus answers carry no address, and the
  code does not purge the receive buffer before a retry. The property says exactly how
  far the promise goes.
- `ResultTellsAll`, `ReadIsReported`: completed, failed and cancelled tell apart what
  happened to every block; every byte read from the scan's session is reported as
  evidence, with a cancellation in between too.
- `RawEventsOnce`, `ResultOnce`: a raw event is in one place until it is in the store;
  a result is saved, or dropped only when the session was lost without the scan having
  noticed.
- `DisconnectHappens`: a disconnect put off until the end of a scan is not forgotten, if
  Done is lost and the join missed too.
- `SentIsPublishedOnce`: what was reported as sent is recorded once, under prompts, lost
  devices and closes that race the worker or give up on it. A success is thrown away only
  by the close of a session that had faulted by itself, which is the finding `send_lost`;
  the property says that nothing else is, in particular no success of a session closed
  while it was open, however the close ends.
- `PendingIsOwed`: the window waits for exactly the writes the session owes (not for one
  whose result a close has published although its worker is still at it), and its cached
  look at the queue errs on the safe side.
- `FileHasThePort`: while a file is sent nothing else is in the queue, so cancelling all
  pending writes cancels the file's only. `FileEnds`: it ends.
- `SequenceKeepsItsPromises`, `LogShowsWhatCame`, `QueriesAreFresh`,
  `WholeRecordsAreReadBack`, `BundleIsWholeAndMine`, `BestExplanations`,
  `VerifiedReadsAsCandidate`, `HistorySendsAgain`: one property for each of the small
  parts, stated and explained at the end of its module.
- `AcceptedIsAnswered`, `CallsReturn`, `CloseAnswersAll`, `Ends`: liveness.

Why the bounds are enough. All the mechanisms compare neighbours: one generation
with the next, the active request with the pending one, one caller with the
worker, an attempt with the one before it, a scan with the next. Two generations give
a stale thread something to meet, the third is where the counter is used up. Two
requests are an active and a pending one. Two callers and the worker are all the
threads the program has. Capacity 2 with payload 1 is filled and refused. In the store,
two crashes interrupt a call and the recovery from it; with a limit of one record every
second append compacts; three calls after an open give each kind of call a predecessor
of each other kind, a fourth one comes after the second restart. Three events in
batches of two leave a batch that is posted at once and one that is flushed at the end.
A prompt below a prompt is where a decision is older than the state it is carried out in.

### Findings

Four runs show where the code does not do what the repository's documents and tests
say of it.

- `store_cleanup`. When the clean-up of a committed save fails, the save succeeds and
  the manifest stays (`native_store_file_ops.cpp:602`). If the process then ends
  between the two renames of a later replacement of `id_counters.svmr`, every
  following open fails: the committed file is not there, and its backup is not
  looked at.
- `scan_poll`. The poll timer is stopped while a scan owns the port and set again at
  its end if the port is open then (`main_window_modbus.cpp:380`). If the session was
  lost before, the timer stays off, and the reconnect that follows does not set it: the
  reopened port is not read.
- `send_lost`. `handleSerialFailure` and `closeSerialPort` settle what is left under the
  generation of a snapshot taken before the close. A session that faulted by itself has
  none any more, and `nativeSerialWriteShouldPublishOnClose` refuses every result
  (`native_serial_io_state.cpp:51`). A write that succeeded after the last drain and
  before the fault is therefore not recorded as sent, although the guide says that the
  complete TX records are stored (`docs/用户指南.md:78`).
- `rule_orders`. A candidate, and the rule made of it, hold the *names* of its orders of
  words and bytes (`native_analysis_workflow.cpp:89`); the verification knows *keys* and
  takes everything else for the standard order. A rule from a candidate with swapped
  words or bytes is reported as verified with another value.

The passing runs keep everything else: the failing clean-up is a point of failure of
`parts` (with two faults and no assumption about the next open beyond `ResultTellsEffect`),
`scan_window` has the lost session, `send_flow` the faulted one with everything but the
record of what it forgets, and `VerifiedReadsAsCandidate` leaves out only the
candidates of other orders.

## 10. Fairness

`SerialSession`. `FairSpec` gives a caller no reason to start a call. A thread inside an
operation goes on, and gets a critical section that is released again and again (`SF`
per thread: between two of its steps the thread has only one place to be, and Windows
critical sections and the short sections of this code do not starve a waiter for ever).
The worker goes on likewise. Two more assumptions are hypotheses of the properties that
need them: `WritesReturn`, that a native write of the worker returns, because
`configureSerialTimeouts` gives the port write timeouts; and `BudgetRunsOut`, that the
wait of close ends, which is a `WaitForSingleObject` with a budget. `CloseAnswersAll`
assumes only the second: a driver that hangs does not hang close. No fairness is assumed
of any fault.

`RtuScan`: the scan thread runs, its calls return, and time passes; nothing of the user,
the session or the device. `ModbusScanUi`: the thread goes on (each of its calls has a
limit) and the status timer keeps coming; nothing of posted messages, which may be lost,
and nothing of the user. `SendFlow`: the worker's calls return, a handler that began
ends (`[]<>Ready`: it waits for nothing, and one of its second halves can always be
taken), and neither of the two timers keeps the other away (`SF`, since a prompt or
another handler disables them again and again); nothing of the user, who need not answer
a prompt.

## 11. What is proved

| Module | Theorem | Property |
|---|---|---|
| `SerialWriteQueueProofs` | `TypeCorrect` | `TypeOK`, a part of `FirstInFirstOut` |
| | `ResultsAreExactlyOnce` | `ExactlyOneResult` |
| | `OrderIsKept` | `FirstInFirstOut` |
| | `CapacityIsKept` | `WithinLimits`, of which `BytesAccounted` is a part |
| | `GenerationsDoNotMix` | `OneGeneration` |
| `SerialSessionProofs` | `TypeCorrect` | `TypeOK`, of which `ActiveAgrees` is a part |
| | `ResultsAreUnique` | `ExactlyOneResult` |
| | `NothingLeft` | `NothingIsLeft` |
| | `WrittenInOrder` | `WrittenOnceInOrder` |
| | `FaultsAreOwn`, `NoneIsLate` | the action properties `FaultHasCause`, `NoLateWrite` |
| | `PortIsKnown` | `PortIsCurrent` |
| | `LedgerIsKept` | `ImplementsLedger`, the refinement of `WriteLedger` |
| `RtuScanProofs` | `AnswersAreOwn` | `AnswersTheRequest` |
| | `ReadsAreReported` | `ReadIsReported` |
| | `ResultsTellAll` | `ResultTellsAll` |
| | `RequestsWanted` | `RequestsAreWanted`, of which `TypeOK` is a part |
| | `PlansCoverRanges` | `PlanCoversRange` |
| `ModbusScanUiProofs` | `ScanTyped` | `TypeOK` |
| | `EventsAreStoredOnce` | `RawEventsOnce` |
| | `ResultIsKept` | `ResultOnce` |
| `NativeStoreProofs` | `InvariantHolds` | the inductive invariant |
| | `DiskStaysSound` | `DiskIsSound`, of which `TypeOK` is a part |
| | `IdsStayFresh` | `IdsAreFresh` |
| | `StoreIsAtomic` | `ImplementsAtomicStore`, the refinement of `AtomicStore` |
| `SendFlowProofs` | `InvariantHolds` | the inductive invariant |
| | `SentOnce` | `SentIsPublishedOnce`, with what may be forgotten |
| | `PendingOwed` | `PendingIsOwed` |
| | `FileAlone` | `FileHasThePort`, of which `TypeOK` is a part |

These are all the safety properties of the write queue and of the runs `session_queue`,
`session_order`, `scan_exchange`, `scan_window`, `store` and `send_flow`.

### The write queue

For every `RequestCapacity`, `ByteCapacity`, `MaxRequestId > 0`, every set of
payload lengths and timeouts and every number of generations (the assumptions
`QueueConstants` and `CallerConstants`).

*The argument.* `ExactlyOneResult` is not inductive: it does not exclude an id that
is pending twice, or one that is handed out again. The inductive invariant `IInv`
adds `Sound`, the four facts about the queue value (order, generations, accounting,
limits, over well-typed fields), and `HistoriesAgree` (whoever is outstanding was
accepted, accepted ids are below the next id). The facts about the value do not
mention the histories, so `SerialWriteQueueLemmas` proves them operator by
operator (`EnqueueSound`, `CancelPendingSound`, …) for any owner of a queue, with
one lemma per operation on which ids are outstanding afterwards (`EnqueueIds`, …).
`StepPreservesIInv` has one step per action and uses them through two lemmas:
`OneMoreResult` (an action that answers one id) and `NoResult` (one that answers
none).

*The byte counter without recursion.* That `pendingBytes_` is the sum of the
pending payloads is stated by a witness: there are running totals that start at 0,
grow by each payload, and end at `pendingBytes` (`Accounted`). Each operation
transforms the witness, and `RemovalAccounted` does it for a request taken from the
middle. Sums by recursion would need induction over data, which the installed
provers do not have.

### The serial session

For any set of callers, any assignment of calls to them, any limits of the queue, any
number of ids and generations and any set of faults: the interleavings that
`session_queue` and `session_order` check with two callers, two ids and two generations.

*The session alone.* `SessionInv` says nothing of results. Its
parts, and what each is needed for:

- `Typed`, with `Sound` for the queue: the session uses the queue's operators, so their
  lemmas are used again as they are.
- `Lifecycle`: at which state of the session a thread can be at which place of open and
  close, and that it then holds `lifecycleLock_`. Without it two closes would interfere.
- `PortOwned`: an open session has the port of its generation, a closed one none, and a
  thread in a native call has a port to use; only a close that gave up on its worker
  ends without having closed it.
- `Threads`: a worker told to stop finds an empty queue, a close reaps only a worker that
  ended, and a sleeping worker with work has its event set.
- `WriteAgrees`: the three records of the write in progress, which three sections clear.

It is proved by one lemma for each action (`OpenCommitStep`, `CloseReapStep`,
`WorkerFinishStep`, …), and from it `TypeOK` and `NothingIsLeft`.

*The requests.* In `SerialSessionProofs` every action is first reduced to what it does to
the requests (`Effects`): it leaves them alone, admits one, drains the queue, publishes
the write in progress, activates the next, or finishes the active one. Accounting
(`Accounts`) is then proved for these six rather than for three dozen actions.
`Causes` records why a session may be faulted, and `Wires` which ids may still come to
`WriteFile`, and in which order.

*The ledger.* The refinement mapping is the one the run uses (`Phase`, `Entry`).
`LedgerStep` shows that each of the six effects, with the move of the state that goes
with it (`StateMove`), is a step of `WriteLedger` or a stutter. What is owed in the
ledger is accounted for in the session (`BookIsTyped`, `OnlyOwedAreOwed`), so when the
session reopens or says that it is closed nothing is owed (`QuietOwesNothing`).

*One hypothesis.* `PortIsKnown` is proved if one thread only calls the operations of the
control line (`OneLineCaller`). Two of them could leave the option of one with the line of
the other, because the option is written after `ioLock_` was released. In the program only
the window calls them (`win32/main_window_serial.cpp:414`), and the run has one such
caller too. The other theorems need no hypothesis beyond the assumptions on the constants.

### The Modbus scan

For every plan the code accepts, any retry policy of the four statuses, both settings of
`continueOnBlockError`, and every order of the device's parts, deadlines, reads,
cancellation and loss of the session.

*The argument.* `AnswersTheRequest` says that an attempt has not taken the answer of
another request, and nothing in it says what is on the way. The invariant does:
while no attempt was given up, what has been received (`Got`: the response, the result
not yet looked at, and the driver's buffer) and what the device still has to send are
together at most one answer to the last request (`OwnAnswer`, `OneAnswer`). A successful
attempt has the whole of it, so that nothing is left when the next request is written
(`BeginningOfAnswer`, `AnswerIsJudged`); an attempt that ends otherwise has been given
up. `OwnSession` keeps apart the bytes of another session, `Exchange` says which status
belongs to which place, `Reasons` why a call failed. For `ResultsTellAll` the executor's
part is needed: `Tried` (finished blocks were tried as the policy asks), `Decided` (why
the executor goes on or stops), and for `RequestsWanted` `Counted` (requests against
blocks and attempts, and at most one after a cancellation).

*An assumption.* `ScanOptions` says that the plan of the scan is a sequence of blocks, and
TLC evaluates it for the plan of the run.

*The plan.* `PlansCoverRanges` says, for the code's limits as for any others, that the
loop of the planner cuts exactly the range asked for, and that no range the options
allow is refused for one of its blocks. The plan is a recursive function, and induction
over its argument has to be had without the library's induction theorems, which take an
operator as a parameter. `SetInduction` is the induction these provers can do: a set
that contains 0, and with each number the next, contains all of them; for if it missed `n`,
adding one would map the members below `n` one-to-one into those without 0, which the
pigeonhole theorem of the library excludes. `CuttingExists` uses it to show that there is a
function with the defining equation, `CuttingCovers` to show what it computes.

### The scan thread and the window

For any limits (`ScanUiBounds`) and every order of posts that fail or arrive, Done,
timers, lost sessions, reconnects and destruction.

*The argument.* `RawEventsOnce` is about the scan that runs; its preservation when the
next scan starts needs that all events, of earlier scans too, are parted
(`EventsParted`). That a batch is saved and not dropped by a handler that finds another
scan running needs `QueueIsTheScans`: no batch outlives its scan in the queue, because
every way to end a scan drains it. That the result is the right one needs
`SlotIsTheScans`, and both need `PortIsTheScans`: while the thread runs, the scan is the
window's, on a session that is neither closed nor replaced.

### The native store

For any sets of records and files, any limit of the compaction, any number of calls,
crashes and failing calls, and every point where they happen.

*The directory alone.* `StoreDiskProofs` knows no store. Its lemmas are of the form: if the
directory is of a certain kind before a plan, then after any number of the plan's changes
it is of the kind from which recovery makes what it would have made before - the process
may end there - and after all of them it is done (`MendGoes`, `RewriteGoes`, `SwapGoes`,
`FinishGoes`, `UndoGoes`, `TidyGoes`, `PrepareGoes`). The kinds say for a file which of
its three slots hold what, and for a set of files how far manifest and commit marker
have come. A recovery is a plan like the others, so the crash within a recovery is a case
of the same lemmas.

*The store.* `IInv` relates the phase of the call that runs to the kind of the directory and
to the rest of the plan: in `temps` nothing but the temporary files has changed, in `swap`
the manifest lists what the rest of the plan has not yet moved, after the commit marker
only the clean-up is left. It has one part per phase because `DiskIsSound` is only about
the moments between calls, and says nothing from which the next step could be argued. Each
action has its lemma, and each failing call one for the branch the code then takes.
`IdsAreFresh` needs in addition what the file of counters would say after a recovery at
each of these moments (its record is never behind an id in use).

*The refinement.* For each step the same lemmas say what happens to `View` of every file:
nothing, or, at the one change that publishes a rename or the marker, what the call asked
for. `OneCallIsStep` puts them together to the steps of `AtomicStore`.

*One hypothesis.* The theorems assume `UndoingSucceeds`: of the calls of the file system
those may fail that do the work, in any number, but not those that undo work or clear away
after it. Each exclusion is needed, and TLC shows why: with two failing calls it finds a
violation of `DiskIsSound` as soon as a rename may fail in undoing a replacement, any call in
aborting a save, a removal in the replacement of one file, or the removals behind a commit.
In the first cases the directory is in pieces until the next open, in the last the next open
may refuse it (finding `store_cleanup`). What is promised of these cases too is checked by
`parts` (`ResultTellsEffect`).

### What the window sends

For every capacity of the queue, number of chunks, and bounds on writes, sessions and
nested prompts (`SendFlowBounds`), with the worker and the device acting between any two
handlers and between the halves of one.

*The argument.* A handler is a function on the state `S` of window and port, and so is the
invariant: `Good(s)` is kept by each function the handlers are made of (`StopFileKeeps`,
`DrainKeeps`, `ClosePortKeeps`, `SettleKeeps`, `FailureKeeps`, `FaultedKeeps`,
`SubmittedKeeps`), and the
lemma of an action composes them. The three properties are not inductive. `Owes` adds to
`PendingIsOwed` that queue and results are different writes, each once and all of the
current session: without that a result could be taken for a write that is still queued.
`Recorded` adds which results say "Succeeded" (those of writes that succeeded and were
neither published nor forgotten),
`Filed` that the chunks sent and those waited for are together at most those that were read,
which bounds the progress shown. `Seen` keeps the cached look at the queue; the window's
judgement of a result after a fault depends on its generation.

Three parts are about the moments when another handler comes between. `Quiet`: a closed
session has no results left, so that a session is opened with nothing owed; and one that
owes something without being open has faulted by itself, so that a close without a
generation forgets only what `SentIsPublishedOnce` allows. (A close that fails leaves the
session faulted too, but with nothing owed: `CloseRests`.) `Prompted`: a
prompt about a file is the outermost, and no file is sent or waited for while it is open,
though timers and the worker go on below it. `Halfway`: between the halves of a handler a
session that will be closed has no file, and a chunk that will be queued was read.

### What stays with TLC

Liveness (`AcceptedIsAnswered`, `CallsReturn`, `CloseAnswersAll`, `Ends`,
`DisconnectHappens`, `FileEnds`): the prover handles neither fairness nor `ENABLED`.
The properties of the small parts (run `parts`, section 8) are
model-checked only; they are modules of many cases and little state, where the instance
covers the cases.

## 12. What is not modelled

Inside the modelled parts: the destructor of the session (it terminates the
process when a close leaves something behind), ids of operations other than
writes, the contents of payloads, the text of errors; the CRC and byte layout of
Modbus frames; the fields of each kind of store record and their escaping, and a loss
of power; progress messages of a scan; reading and logging of received bytes; splitter
and resize frames; the end of the program with a port open (`shutdownSerialPort`);
candidate stability and interpretation maps, which nothing in the
program calls.

Some things are there and hardly exercised. That a write the port took is reported as less
than that when the session stops (`win32_serial_session.cpp:1235`) is covered only as far
as "Succeeded" is never said of another: nothing is promised of the other direction. The
run of `SendHistory` has few texts, so the encodings other than ASCII play next to no part
in it. In `EvidenceBundle` the removal of a directory takes all of it or nothing, and what
another program puts in the target's place is a directory, never a file.

Not at all, with the reason in `PROJECT.json`: the dangerous operation policy (a table
without state, whose prompts `SendFlow` has), enumeration and configuration of ports,
painting and native controls, protocol and report text, the self-test, tests and build.

## 13. Plan

1. **Done:** the models of every part with state, their instances and mutants.
2. **Done:** proofs of the queue, of the session with the refinement of its ledger, of the
   scan and its plan, of the scan thread with its window, of the native store with
   the refinement of its abstract specification, and of what the window sends.
3. The small parts: their properties for every value of the constants.
