----------------------------- MODULE SerialSession -----------------------------
(***************************************************************************)
(* svm::win32::Win32SerialSession (src/win32/win32_serial_session.cpp):    *)
(* the owner of one serial port handle, its queue of writes, and the       *)
(* thread that writes them.                                                *)
(*                                                                         *)
(* Processes: the threads that call the session (Callers: in the program   *)
(* the window's thread and the Modbus scan thread) and the write worker.   *)
(* Locks, always taken in this order: lifecycleLock_ for the whole of open *)
(* and close, ioLock_ around every use of the handle, writeLock_ around    *)
(* the fields.  A step is one critical section of writeLock_, or one call  *)
(* of the operating system; taking ioLock_ is one step with the check of   *)
(* the handle that follows it, and the check after the call is one step    *)
(* with the release.                                                       *)
(*                                                                         *)
(* The operating system is external: the port is opened exclusively, and   *)
(* any call may fail in the ways listed in Faults.  A deadline may have    *)
(* passed, or not, whenever the code looks.                                *)
(***************************************************************************)
EXTENDS SerialWriteQueueOps

CONSTANTS
    Callers,           \* threads that call the session
    Calls,             \* Calls[c]: the operations thread c calls
    MaxGeneration,     \* numeric_limits<SerialSessionGeneration>::max()
    PayloadSizes,      \* lengths of the payloads callers pass
    Faults,            \* the failures the operating system may report
    NoOne, Worker      \* lock holders other than the callers

Operations == {"open", "close", "enqueue", "cancel", "take", "read", "write", "line"}

FaultKinds ==
    {"create",         \* CreateFileW or the set-up of the port fails
     "closeHandle",    \* CloseHandle of the port fails
     "startWorker",    \* CreateEventW, CreateThread or SetEvent fails
     "wait",           \* the worker's wait for the event fails
     "stopWorker",     \* CloseHandle of the thread or of the event fails
     "joinTimeout",    \* the worker does not end within the join budget
     "io",             \* a read, write or line call fails
     "unplug"}         \* a call reports that the device is gone

ASSUME SessionConstants ==
    /\ Calls \in [Callers -> SUBSET Operations]
    /\ MaxGeneration \in Nat
    /\ PayloadSizes \subseteq Nat \ {0}
    /\ Faults \subseteq FaultKinds
    /\ NoOne \notin Callers
    /\ Worker \notin Callers
    /\ NoOne # Worker

VARIABLES
    state,             \* state_
    generation,        \* generation_
    generationCounter, \* generationCounter_
    handle,            \* handle_ is a valid handle
    queue,             \* writeQueue_
    completedWrites,   \* completedWrites_
    activeWrite,       \* activeWrite_
    activeCancellation,\* activeCancellationCategory_
    stopRequested,     \* writeWorkerStopRequested_
    thread,            \* writeThread_: null, or the thread runs, or has ended
    wakeEvent,         \* writeWakeEvent_: null, clear or set
    lifecycleLock,     \* holder of lifecycleLock_
    ioLock,            \* holder of ioLock_
    lineOption,        \* options_.dataTerminalReady
    port,              \* external: the generation the open port serves
    line,              \* external: the state of the control line
    call,              \* where each caller is in its call
    worker,            \* where the worker is, and its local variables
    account,           \* history: account[id] = results given for accepted id
    accepted,          \* history: ids whose admission was reported as accepted
    wire,              \* history: the ids handed to WriteFile, in order
    sent,              \* history: the ids all of whose bytes WriteFile took
    lost               \* history: generations in which a call reported that the
                       \* device is gone, or the worker's wait failed

sessionVars == <<state, generation, generationCounter, handle, lineOption>>
writeVars == <<queue, completedWrites, activeWrite, activeCancellation>>
threadVars == <<stopRequested, thread, wakeEvent>>
locks == <<lifecycleLock, ioLock>>
external == <<port, line>>
history == <<account, accepted, wire, sent, lost>>
vars == <<sessionVars, writeVars, threadVars, locks, external, call, worker, history>>

-----------------------------------------------------------------------------
States == {"Closed", "Opening", "Open", "Closing", "Faulted"}
Categories == {"None", "SessionClosed", "Timeout", "NativeFailure", "Disconnected"}
Statuses == {"Succeeded", "Timeout", "Cancelled", "Disconnected", "Failed"}
Generations == 0 .. MaxGeneration

\* The port is closed, or open but not yet committed to a generation.
PortClosed == -1
PortIdle == 0

NoWrite == [id |-> Unassigned, generation |-> Unassigned, published |-> FALSE]
Idle == [pc |-> "idle", generation |-> Unassigned, category |-> "None",
         clean |-> TRUE, on |-> FALSE, id |-> Unassigned]
NoOutcome == [ok |-> TRUE, category |-> "None", bytes |-> 0]
Dormant == [pc |-> "none", request |-> NoRequest, outcome |-> NoOutcome]

Init ==
    /\ state = "Closed"
    /\ generation = Unassigned
    /\ generationCounter = 0
    /\ handle = FALSE
    /\ queue = NewQueue
    /\ completedWrites = << >>
    /\ activeWrite = NoWrite
    /\ activeCancellation = "None"
    /\ stopRequested = FALSE
    /\ thread = "null"
    /\ wakeEvent = "null"
    /\ lifecycleLock = NoOne
    /\ ioLock = NoOne
    /\ lineOption = FALSE
    /\ port = PortClosed
    /\ line = FALSE
    /\ call = [c \in Callers |-> Idle]
    /\ worker = Dormant
    /\ account = [id \in RequestIds |-> << >>]
    /\ accepted = {}
    /\ wire = << >>
    /\ sent = {}
    /\ lost = {}

-----------------------------------------------------------------------------
\* Shared helpers

At(c, pc) == call[c].pc = pc
Goto(c, pc) == call' = [call EXCEPT ![c].pc = pc]
Return(c) == call' = [call EXCEPT ![c] = Idle]
Starts(c, op) == At(c, "idle") /\ op \in Calls[c]

\* Mutant: any open session will do.
IsOpenAtAll(g) == state = "Open"

\* The session is open, and still the one a thread was admitted to.
IsCurrent(g) == state = "Open" /\ generation = g

\* Mutant: the handle of a later generation will do.
ValidatedAnyGeneration(g) == state = "Open" /\ handle

\* validatedHandleForGeneration: may the handle serve generation g now?
Validated(g) == IsCurrent(g) /\ handle

\* operationStatus: what a queue status is called in a terminal result.
OperationStatus(status) ==
    CASE status = "Sent" -> "Succeeded"
      [] status \in {"Cancelled", "Closed"} -> "Cancelled"
      [] OTHER -> status

\* settlePendingWritesLocked: every pending write gets one result.
SettleStatus(category) ==
    CASE category = "Disconnected" -> "Disconnected"
      [] category \in {"Cancelled", "SessionClosed"} -> "Cancelled"
      [] OTHER -> "Failed"

PendingResults(status) ==
    [i \in DOMAIN queue.pending |-> [id |-> queue.pending[i].id, status |-> status]]

Credit(acc, id, status) == [acc EXCEPT ![id] = Append(@, status)]
CreditPending(status) ==
    [id \in RequestIds |-> IF IsPending(queue, id)
                           THEN Append(account[id], status)
                           ELSE account[id]]

\* Mutant: the results are published, the requests stay queued.
SettlePendingKeepsQueue(category) ==
    /\ UNCHANGED queue
    /\ completedWrites' = completedWrites \o PendingResults(SettleStatus(category))
    /\ account' = CreditPending(SettleStatus(category))

SettlePending(category) ==
    /\ queue' = CancelAllPending(queue)
    /\ completedWrites' = completedWrites \o PendingResults(SettleStatus(category))
    /\ account' = CreditPending(SettleStatus(category))

\* Mutant: no SetEvent.
NotSignalled == wakeEvent

\* SetEvent on an auto-reset event that may not exist.
Signalled == IF wakeEvent = "null" THEN "null" ELSE "set"

\* markGenerationDisconnected(g), called with no lock held.
MarkDisconnected(g) ==
    IF IsCurrent(g)
    THEN /\ state' = "Faulted"
         /\ generation' = Unassigned
         /\ stopRequested' = TRUE
         /\ activeCancellation' = IF activeWrite # NoWrite THEN "Disconnected"
                                  ELSE activeCancellation
         /\ SettlePending("Disconnected")
         /\ wakeEvent' = Signalled
         /\ UNCHANGED <<generationCounter, handle, lineOption, activeWrite, thread>>
    ELSE UNCHANGED <<sessionVars, writeVars, threadVars, account>>

-----------------------------------------------------------------------------
\* open()

OpenBegin(c) ==
    /\ Starts(c, "open")
    /\ lifecycleLock = NoOne
    /\ state = "Closed"
    /\ \/ /\ state' = "Opening"
          /\ lifecycleLock' = c
          /\ Goto(c, "openCreate")
       \/ \* validateSerialOpenOptions refuses the options
          /\ state' = "Faulted"
          /\ UNCHANGED <<lifecycleLock, call>>
    /\ generation' = Unassigned
    /\ UNCHANGED <<generationCounter, handle, lineOption, writeVars, threadVars,
                   ioLock, external, worker, history>>

\* CreateFileW (exclusive), SetupComm, PurgeComm, configureSerialState and
\* applyControlLines, all under ioLock_.
OpenCreate(c) ==
    /\ At(c, "openCreate")
    /\ ioLock = NoOne
    /\ \/ /\ port = PortClosed
          /\ port' = PortIdle
          /\ handle' = TRUE
          /\ line' = TRUE
          /\ Goto(c, "openCommit")
       \/ /\ "create" \in Faults \/ port # PortClosed
          /\ Goto(c, "openFailed")
          /\ UNCHANGED <<port, handle, line>>
       \/ \* set-up failed, and the fresh handle could not be closed either
          /\ {"create", "closeHandle"} \subseteq Faults
          /\ port = PortClosed
          /\ port' = PortIdle
          /\ handle' = TRUE
          /\ Goto(c, "openFailed")
          /\ UNCHANGED line
    /\ UNCHANGED <<state, generation, generationCounter, lineOption, writeVars,
                   threadVars, locks, worker, history>>

OpenFailed(c) ==
    /\ At(c, "openFailed")
    /\ state' = "Faulted"
    /\ lifecycleLock' = NoOne
    /\ Return(c)
    /\ UNCHANGED <<generation, generationCounter, handle, lineOption, writeVars,
                   threadVars, ioLock, external, worker, history>>

\* Mutant: the generations are never used up.
CanCommitAlways == CanBeginGeneration(queue, generationCounter + 1)

CanCommit ==
    /\ generationCounter # MaxGeneration
    /\ CanBeginGeneration(queue, generationCounter + 1)

OpenCommit(c) ==
    /\ At(c, "openCommit")
    /\ IF CanCommit
       THEN /\ generationCounter' = generationCounter + 1
            /\ queue' = BeginGeneration(queue, generationCounter + 1)
            /\ generation' = generationCounter + 1
            /\ port' = generationCounter + 1
            /\ lineOption' = TRUE
            /\ state' = "Open"
            /\ lifecycleLock' = NoOne
            /\ Return(c)
       ELSE /\ generationCounter' = IF generationCounter = MaxGeneration
                                    THEN generationCounter
                                    ELSE generationCounter + 1
            /\ generation' = Unassigned
            /\ state' = "Faulted"
            /\ Goto(c, "openUndo")
            /\ UNCHANGED <<queue, port, lineOption, lifecycleLock>>
    /\ UNCHANGED <<handle, completedWrites, activeWrite, activeCancellation,
                   threadVars, ioLock, line, worker, history>>

\* The generations are used up: close the handle again.
OpenUndo(c) ==
    /\ At(c, "openUndo")
    /\ ioLock = NoOne
    /\ \/ port' = PortClosed /\ handle' = FALSE
       \/ "closeHandle" \in Faults /\ UNCHANGED <<port, handle>>
    /\ lifecycleLock' = NoOne
    /\ Return(c)
    /\ UNCHANGED <<state, generation, generationCounter, lineOption, writeVars,
                   threadVars, ioLock, line, worker, history>>

-----------------------------------------------------------------------------
\* close()

CloseBegin(c) ==
    /\ Starts(c, "close")
    /\ lifecycleLock = NoOne
    /\ state # "Closed"
    /\ state' = "Closing"
    /\ generation' = Unassigned
    /\ lifecycleLock' = c
    /\ Goto(c, "closeStop")
    /\ UNCHANGED <<generationCounter, handle, lineOption, writeVars, threadVars,
                   ioLock, external, worker, history>>

\* stopWriteWorker(SessionClosed), first section: from here the worker takes no
\* more work, and what is pending is settled.
CloseStop(c) ==
    /\ At(c, "closeStop")
    /\ stopRequested' = TRUE
    /\ activeCancellation' =
           IF activeWrite = NoWrite THEN "None"
           ELSE IF activeCancellation = "None" THEN "SessionClosed"
           ELSE activeCancellation
    /\ SettlePending("SessionClosed")
    /\ call' = [call EXCEPT ![c].pc = IF thread = "null" THEN "closeReap" ELSE "closeWake",
                            ![c].category = IF activeWrite = NoWrite THEN "SessionClosed"
                                            ELSE activeCancellation']
    /\ UNCHANGED <<sessionVars, activeWrite, thread, wakeEvent, locks, external,
                   worker, accepted, wire, sent, lost>>

\* A zero wait, then SetEvent, CancelSynchronousIo and PurgeComm.  What the last
\* two do to a write in progress is one of the failures WorkerWrite may report.
CloseWake(c) ==
    /\ At(c, "closeWake")
    /\ IF thread = "ended"
       THEN Goto(c, "closeReap") /\ UNCHANGED wakeEvent
       ELSE Goto(c, "closeJoin") /\ wakeEvent' = Signalled
    /\ UNCHANGED <<sessionVars, writeVars, stopRequested, thread, locks, external,
                   worker, history>>

CloseJoin(c) ==
    /\ At(c, "closeJoin")
    /\ thread = "ended"
    /\ Goto(c, "closeReap")
    /\ UNCHANGED <<sessionVars, writeVars, threadVars, locks, external, worker, history>>

CloseJoinTimeout(c) ==
    /\ At(c, "closeJoin")
    /\ "joinTimeout" \in Faults
    /\ thread = "running"
    /\ Goto(c, "closeAbandon")
    /\ UNCHANGED <<sessionVars, writeVars, threadVars, locks, external, worker, history>>

\* Mutant: the write is published again when the worker finishes.
PublishedTwice(write) == write

Published(write) == [write EXCEPT !.published = TRUE]

\* Mutant: the write in progress gets no result here.
PublishNothing(category) == UNCHANGED <<completedWrites, activeWrite, account>>

\* publishInterruptedActiveWriteLocked: the worker is left running, its write
\* gets its result now.
PublishInterrupted(category) ==
    LET status == IF category = "Disconnected" THEN "Disconnected" ELSE "Cancelled"
    IN  IF activeWrite = NoWrite \/ activeWrite.published
        THEN UNCHANGED <<completedWrites, activeWrite, account>>
        ELSE /\ completedWrites' =
                    Append(completedWrites, [id |-> activeWrite.id, status |-> status])
             /\ account' = Credit(account, activeWrite.id, status)
             /\ activeWrite' = Published(activeWrite)

CloseAbandon(c) ==
    /\ At(c, "closeAbandon")
    /\ PublishInterrupted(call[c].category)
    /\ Goto(c, "closeFaulted")
    /\ UNCHANGED <<sessionVars, queue, activeCancellation, threadVars, locks,
                   external, worker, accepted, wire, sent, lost>>

CloseFaulted(c) ==
    /\ At(c, "closeFaulted")
    /\ state' = "Faulted"
    /\ lifecycleLock' = NoOne
    /\ Return(c)
    /\ UNCHANGED <<generation, generationCounter, handle, lineOption, writeVars,
                   threadVars, ioLock, external, worker, history>>

\* finalizeActiveWriteLocked(*activeWrite_, status, bytes): complete the queue's
\* active reservation and publish the result unless that was done already.
CanFinalize(status, bytes) ==
    /\ activeWrite # NoWrite
    /\ CompletionAccepted(queue, activeWrite.id, activeWrite.generation, status, bytes)

FinalStatus(status, bytes) == OperationStatus(CompletedStatus(queue, status, bytes))

\* stopWriteWorker, after the thread has ended: its handle and the event are
\* closed, and a write it left active is finalized.
CloseReap(c) ==
    /\ At(c, "closeReap")
    /\ LET status == IF call[c].category = "Disconnected" THEN "Disconnected" ELSE "Closed"
           leftOver == CanFinalize(status, 0)
       IN  IF leftOver
           THEN /\ queue' = CompleteActive(queue)
                /\ activeWrite' = NoWrite
                /\ IF activeWrite.published
                   THEN UNCHANGED <<completedWrites, account>>
                   ELSE /\ completedWrites' = Append(completedWrites,
                               [id |-> activeWrite.id, status |-> FinalStatus(status, 0)])
                        /\ account' = Credit(account, activeWrite.id, FinalStatus(status, 0))
           ELSE UNCHANGED <<queue, activeWrite, completedWrites, account>>
    /\ stopRequested' = FALSE
    /\ activeCancellation' = "None"
    /\ \E threadClosed, eventClosed \in BOOLEAN :
           /\ ~threadClosed \/ ~eventClosed => "stopWorker" \in Faults
           /\ ~threadClosed => thread # "null"
           /\ ~eventClosed => wakeEvent # "null"
           /\ thread' = IF threadClosed THEN "null" ELSE thread
           /\ wakeEvent' = IF eventClosed THEN "null" ELSE wakeEvent
           /\ worker' = IF threadClosed THEN Dormant ELSE worker
           /\ call' = [call EXCEPT ![c].pc = "closeHandle",
                                   ![c].clean = threadClosed /\ eventClosed]
    /\ UNCHANGED <<sessionVars, locks, external, accepted, wire, sent, lost>>

CloseHandle(c) ==
    /\ At(c, "closeHandle")
    /\ ioLock = NoOne
    /\ \/ /\ handle' = FALSE
          /\ port' = IF handle THEN PortClosed ELSE port
          /\ Goto(c, "closeEnd")
       \/ /\ handle /\ "closeHandle" \in Faults
          /\ call' = [call EXCEPT ![c].pc = "closeEnd", ![c].clean = FALSE]
          /\ UNCHANGED <<handle, port>>
    /\ UNCHANGED <<state, generation, generationCounter, lineOption, writeVars,
                   threadVars, locks, line, worker, history>>

CloseEnd(c) ==
    /\ At(c, "closeEnd")
    /\ IF call[c].clean
       THEN state' = "Closed" /\ lineOption' = FALSE
       ELSE state' = "Faulted" /\ UNCHANGED lineOption
    /\ lifecycleLock' = NoOne
    /\ Return(c)
    /\ UNCHANGED <<generation, generationCounter, handle, writeVars, threadVars,
                   ioLock, external, worker, history>>

-----------------------------------------------------------------------------
\* Queued writes: one critical section each

\* Mutant: the event is only set for a worker just started.
WakeNewWorker == wakeEvent' = IF thread = "running" THEN wakeEvent ELSE "set"

WakeWorker == wakeEvent' = "set"

\* enqueueWriteCore and ensureWriteWorkerLocked.  A thread that has ended is
\* replaced; if the worker cannot be started or woken, the request just
\* admitted is taken out again and reported as failed.
EnqueueWrite(c, bytes) ==
    /\ Starts(c, "enqueue")
    /\ state = "Open"
    /\ EnqueueStatus(queue, bytes, 1, generation) = "Accepted"
    /\ \/ /\ queue' = Enqueue(queue, bytes, generation)
          /\ accepted' = accepted \cup {queue.nextRequestId}
          /\ IF thread = "running"
             THEN UNCHANGED <<stopRequested, thread, worker>>
             ELSE /\ stopRequested' = FALSE
                  /\ thread' = "running"
                  /\ worker' = [Dormant EXCEPT !.pc = "check"]
          /\ WakeWorker
       \/ /\ "startWorker" \in Faults
          /\ queue' = CancelPending(Enqueue(queue, bytes, generation), queue.nextRequestId)
          /\ \/ UNCHANGED <<stopRequested, thread, wakeEvent, worker>>
             \/ \* CreateEventW succeeded, CreateThread did not
                /\ thread # "running"
                /\ thread' = "null"
                /\ wakeEvent' = IF wakeEvent = "null" THEN "clear" ELSE wakeEvent
                /\ stopRequested' = FALSE
                /\ worker' = Dormant
             \/ \* the thread was created, SetEvent failed
                /\ thread # "running"
                /\ thread' = "running"
                /\ wakeEvent' = IF wakeEvent = "null" THEN "clear" ELSE wakeEvent
                /\ stopRequested' = FALSE
                /\ worker' = [Dormant EXCEPT !.pc = "check"]
          /\ UNCHANGED accepted
    /\ UNCHANGED <<sessionVars, completedWrites, activeWrite, activeCancellation,
                   locks, external, call, account, wire, sent, lost>>

\* cancelPendingWrites: the results go to the caller, not to completedWrites_.
CancelPendingWrites(c) ==
    /\ Starts(c, "cancel")
    /\ queue' = CancelAllPending(queue)
    /\ account' = CreditPending("Cancelled")
    /\ wakeEvent' = Signalled
    /\ UNCHANGED <<sessionVars, completedWrites, activeWrite, activeCancellation,
                   stopRequested, thread, locks, external, call, worker,
                   accepted, wire, sent, lost>>

TakeCompletedWrites(c) ==
    /\ Starts(c, "take")
    /\ completedWrites # << >>
    /\ completedWrites' = << >>
    /\ UNCHANGED <<sessionVars, queue, activeWrite, activeCancellation, threadVars,
                   locks, external, call, worker, history>>

-----------------------------------------------------------------------------
\* Operations that use the handle from the calling thread: readAvailable,
\* writeBytes and setDataTerminalReady / setRequestToSend.

ReadBegin(c) ==
    /\ Starts(c, "read")
    /\ state = "Open"
    /\ call' = [call EXCEPT ![c].pc = "readAcquire", ![c].generation = generation]
    /\ UNCHANGED <<sessionVars, writeVars, threadVars, locks, external, worker, history>>

LineBegin(c) ==
    /\ Starts(c, "line")
    /\ state = "Open"
    /\ \E on \in BOOLEAN :
           call' = [call EXCEPT ![c].pc = "lineAcquire", ![c].generation = generation,
                                ![c].on = on]
    /\ UNCHANGED <<sessionVars, writeVars, threadVars, locks, external, worker, history>>

\* writeBytes: the snapshot, then the id, then (the deadline not yet over) the
\* first check of writeBytesInternal, then the io section.
WriteBegin(c) ==
    /\ Starts(c, "write")
    /\ state = "Open"
    /\ call' = [call EXCEPT ![c].pc = "writeReserve", ![c].generation = generation]
    /\ UNCHANGED <<sessionVars, writeVars, threadVars, locks, external, worker, history>>

WriteReserve(c) ==
    /\ At(c, "writeReserve")
    /\ queue' = ReserveRequestId(queue)
    /\ \/ /\ queue.nextRequestId # Unassigned
          /\ call' = [call EXCEPT ![c].pc = "writeCheck", ![c].id = queue.nextRequestId]
       \/ \* no id is left, or the deadline is over
          Return(c)
    /\ UNCHANGED <<sessionVars, completedWrites, activeWrite, activeCancellation,
                   threadVars, locks, external, worker, history>>

WriteCheck(c) ==
    /\ At(c, "writeCheck")
    /\ IF IsCurrent(call[c].generation)
       THEN Goto(c, "writeAcquire")
       ELSE Return(c)
    /\ UNCHANGED <<sessionVars, writeVars, threadVars, locks, external, worker, history>>

AcquireSteps == {"readAcquire", "lineAcquire", "writeAcquire"}
NativeStep(pc) == CASE pc = "readAcquire"  -> "readNative"
                    [] pc = "lineAcquire"  -> "lineNative"
                    [] pc = "writeAcquire" -> "writeNative"

\* Take ioLock_ and look at the handle; without a valid one, let go again.
IoAcquire(c) ==
    /\ call[c].pc \in AcquireSteps
    /\ ioLock = NoOne
    /\ IF Validated(call[c].generation)
       THEN ioLock' = c /\ Goto(c, NativeStep(call[c].pc))
       ELSE Return(c) /\ UNCHANGED ioLock
    /\ UNCHANGED <<sessionVars, writeVars, threadVars, lifecycleLock, external,
                   worker, history>>

\* After the call: the handle is looked at again, ioLock_ released.  What a
\* superseded operation reports is "cancelled", whatever the call returned.
IoRelease(c, category, next) ==
    /\ ioLock' = NoOne
    /\ IF ~Validated(call[c].generation) THEN Return(c)
       ELSE IF category = "Disconnected" THEN Goto(c, "ioDisconnected")
       ELSE IF category = "None" /\ next # "idle" THEN Goto(c, next)
       ELSE Return(c)
    /\ lost' = IF category = "Disconnected" THEN lost \cup {port} ELSE lost

NativeCategories ==
    {"None"} \cup (IF "io" \in Faults THEN {"NativeFailure", "Timeout"} ELSE {})
             \cup (IF "unplug" \in Faults THEN {"Disconnected"} ELSE {})

ReadNative(c) ==
    /\ At(c, "readNative")
    /\ \E category \in NativeCategories : IoRelease(c, category, "idle")
    /\ UNCHANGED <<sessionVars, writeVars, threadVars, lifecycleLock, external, worker,
                   account, accepted, wire, sent>>

LineNative(c) ==
    /\ At(c, "lineNative")
    /\ \E category \in NativeCategories :
           /\ IoRelease(c, category, "lineOption")
           /\ line' = IF category = "None" THEN call[c].on ELSE line
    /\ UNCHANGED <<sessionVars, writeVars, threadVars, lifecycleLock, port, worker,
                   account, accepted, wire, sent>>

\* The option is changed only if the session is still the one that was asked.
LineOption(c) ==
    /\ At(c, "lineOption")
    /\ lineOption' = IF IsCurrent(call[c].generation) THEN call[c].on ELSE lineOption
    /\ Return(c)
    /\ UNCHANGED <<state, generation, generationCounter, handle, writeVars, threadVars,
                   locks, external, worker, history>>

\* writeBytesToHandle: the deadline may be over before the first WriteFile.
WriteNative(c) ==
    /\ At(c, "writeNative")
    /\ \/ /\ wire' = Append(wire, call[c].id)
          /\ \E category \in NativeCategories :
                 /\ IoRelease(c, category, "idle")
                 /\ sent' = IF category = "None" THEN sent \cup {call[c].id} ELSE sent
       \/ IoRelease(c, "Timeout", "idle") /\ UNCHANGED <<wire, sent>>
    /\ UNCHANGED <<sessionVars, writeVars, threadVars, lifecycleLock, external, worker,
                   account, accepted>>

IoDisconnected(c) ==
    /\ At(c, "ioDisconnected")
    /\ MarkDisconnected(call[c].generation)
    /\ Return(c)
    /\ UNCHANGED <<locks, external, worker, accepted, wire, sent, lost>>

-----------------------------------------------------------------------------
\* The write worker: writeWorkerLoop

WorkerAt(pc) == worker.pc = pc
WorkerGoto(pc) == worker' = [worker EXCEPT !.pc = pc]
Outcome(pc, ok, category, bytes) ==
    worker' = [worker EXCEPT !.pc = pc,
                             !.outcome = [ok |-> ok, category |-> category, bytes |-> bytes]]
WorkerEnds == worker' = [worker EXCEPT !.pc = "none"] /\ thread' = "ended"

\* Top of the loop: stop, take the next request, or go and wait.
WorkerCheck ==
    /\ WorkerAt("check")
    /\ IF stopRequested
       THEN /\ WorkerEnds
            /\ UNCHANGED <<queue, activeWrite, activeCancellation>>
       ELSE IF CanActivate(queue)
       THEN LET request == ActivateNext(queue).active
            IN  /\ queue' = ActivateNext(queue)
                /\ activeWrite' = [id |-> request.id, generation |-> request.generation,
                                   published |-> FALSE]
                /\ activeCancellation' = "None"
                /\ worker' = [pc |-> "start", request |-> request, outcome |-> NoOutcome]
                /\ UNCHANGED thread
       ELSE \* with a request pending that cannot be activated, round the loop
            /\ WorkerGoto(IF queue.pending = << >> THEN "wait" ELSE "check")
            /\ UNCHANGED <<queue, activeWrite, activeCancellation, thread>>
    /\ UNCHANGED <<sessionVars, completedWrites, stopRequested, wakeEvent, locks,
                   external, call, history>>

\* The event is auto-reset: the wait that it ends clears it.
WorkerWake ==
    /\ WorkerAt("wait")
    /\ wakeEvent = "set"
    /\ wakeEvent' = "clear"
    /\ WorkerGoto("check")
    /\ UNCHANGED <<sessionVars, writeVars, stopRequested, thread, locks, external,
                   call, history>>

WorkerWaitFails ==
    /\ WorkerAt("wait")
    /\ "wait" \in Faults
    /\ WorkerEnds
    /\ IF stopRequested
       THEN UNCHANGED <<state, generation, stopRequested, queue, completedWrites,
                        account, lost>>
       ELSE /\ state' = "Faulted"
            /\ generation' = Unassigned
            /\ stopRequested' = TRUE
            /\ SettlePending("NativeFailure")
            /\ lost' = lost \cup {generation}
    /\ UNCHANGED <<generationCounter, handle, lineOption, activeWrite,
                   activeCancellation, wakeEvent, locks, external, call,
                   accepted, wire, sent>>

\* The deadline, then the first check of writeBytesInternal.
WorkerStart ==
    /\ WorkerAt("start")
    /\ \/ Outcome("finish", FALSE, "Timeout", 0)
       \/ IF IsCurrent(worker.request.generation)
          THEN WorkerGoto("acquire")
          ELSE Outcome("finish", FALSE, "SessionClosed", 0)
    /\ UNCHANGED <<sessionVars, writeVars, threadVars, locks, external, call, history>>

WorkerAcquire ==
    /\ WorkerAt("acquire")
    /\ ioLock = NoOne
    /\ IF Validated(worker.request.generation)
       THEN ioLock' = Worker /\ WorkerGoto("native")
       ELSE Outcome("finish", FALSE, "SessionClosed", 0) /\ UNCHANGED ioLock
    /\ UNCHANGED <<sessionVars, writeVars, threadVars, lifecycleLock, external, call,
                   history>>

\* writeBytesToHandle and the second look at the handle.  A write that fails
\* has counted fewer bytes than the payload has.
WorkerRelease(category, bytes) ==
    /\ ioLock' = NoOne
    /\ IF ~Validated(worker.request.generation)
       THEN Outcome("finish", FALSE, "SessionClosed", bytes)
       ELSE Outcome(IF category = "Disconnected" THEN "disconnected" ELSE "finish",
                    category = "None", category, bytes)
    /\ lost' = IF category = "Disconnected" THEN lost \cup {port} ELSE lost

WorkerNative ==
    /\ WorkerAt("native")
    /\ LET request == worker.request
       IN  \/ WorkerRelease("Timeout", 0) /\ UNCHANGED <<wire, sent>>
           \/ /\ wire' = Append(wire, request.id)
              /\ sent' = sent \cup {request.id}
              /\ WorkerRelease("None", request.bytes)
           \/ /\ wire' = Append(wire, request.id)
              /\ \E category \in NativeCategories \ {"None"}, bytes \in 0 .. request.bytes - 1 :
                     WorkerRelease(category, bytes)
              /\ UNCHANGED sent
    /\ UNCHANGED <<sessionVars, writeVars, threadVars, lifecycleLock, external, call,
                   account, accepted>>

WorkerDisconnected ==
    /\ WorkerAt("disconnected")
    /\ MarkDisconnected(worker.request.generation)
    /\ WorkerGoto("finish")
    /\ UNCHANGED <<locks, external, call, accepted, wire, sent, lost>>

\* The last section of the loop: name the outcome, finalize the active write.
FinishCategory(late) ==
    IF stopRequested \/ activeCancellation # "None"
    THEN IF activeCancellation = "None" THEN "SessionClosed" ELSE activeCancellation
    ELSE IF worker.outcome.ok /\ late THEN "Timeout" ELSE worker.outcome.category

FinishStatus(late) ==
    LET category == FinishCategory(late)
    IN  IF stopRequested \/ activeCancellation # "None"
        THEN IF category = "Disconnected" THEN "Disconnected" ELSE "Closed"
        ELSE CASE category = "None" -> "Sent"
               [] category \in {"Timeout", "Disconnected", "Cancelled"} -> category
               [] OTHER -> "Failed"

WorkerFinish ==
    /\ WorkerAt("finish")
    /\ \E late \in BOOLEAN :
        LET status == FinishStatus(late)
            bytes == worker.outcome.bytes
            gone == /\ FinishCategory(late) = "Disconnected"
                    /\ IsCurrent(worker.request.generation)
            finalized == CanFinalize(status, bytes)
            faults == gone \/ ~finalized
            settled == IF ~faults THEN << >>
                       ELSE PendingResults(SettleStatus(IF gone THEN "Disconnected"
                                                        ELSE "IoFailure"))
            credited == IF ~faults THEN account
                        ELSE CreditPending(SettleStatus(IF gone THEN "Disconnected"
                                                        ELSE "IoFailure"))
            drained == IF faults THEN CancelAllPending(queue) ELSE queue
            result == [id |-> activeWrite.id, status |-> FinalStatus(status, bytes)]
            publishes == finalized /\ ~activeWrite.published
        IN  /\ queue' = IF finalized THEN CompleteActive(drained) ELSE drained
            /\ activeWrite' = IF finalized THEN NoWrite ELSE activeWrite
            /\ completedWrites' = completedWrites \o settled \o
                                  (IF publishes THEN <<result>> ELSE << >>)
            /\ account' = IF publishes THEN Credit(credited, result.id, result.status)
                          ELSE credited
            /\ state' = IF faults THEN "Faulted" ELSE state
            /\ generation' = IF faults THEN Unassigned ELSE generation
            /\ stopRequested' = (stopRequested \/ faults)
            /\ IF stopRequested \/ faults
               THEN WorkerEnds
               ELSE WorkerGoto("check") /\ UNCHANGED thread
    /\ activeCancellation' = "None"
    /\ UNCHANGED <<generationCounter, handle, lineOption, wakeEvent, locks, external,
                   call, accepted, wire, sent, lost>>

-----------------------------------------------------------------------------
OpenStep(c) ==
    OpenBegin(c) \/ OpenCreate(c) \/ OpenFailed(c) \/ OpenCommit(c) \/ OpenUndo(c)
CloseGoesOn(c) ==
    \/ CloseBegin(c) \/ CloseStop(c) \/ CloseWake(c) \/ CloseJoin(c)
    \/ CloseAbandon(c) \/ CloseFaulted(c) \/ CloseReap(c)
    \/ CloseHandle(c) \/ CloseEnd(c)
CloseStep(c) == CloseGoesOn(c) \/ CloseJoinTimeout(c)
QueueStep(c) ==
    \/ \E bytes \in PayloadSizes : EnqueueWrite(c, bytes)
    \/ CancelPendingWrites(c)
    \/ TakeCompletedWrites(c)
IoStep(c) ==
    \/ ReadBegin(c) \/ LineBegin(c) \/ WriteBegin(c) \/ WriteReserve(c) \/ WriteCheck(c)
    \/ IoAcquire(c) \/ ReadNative(c) \/ LineNative(c) \/ LineOption(c) \/ WriteNative(c)
    \/ IoDisconnected(c)
CallerStep(c) == OpenStep(c) \/ CloseStep(c) \/ QueueStep(c) \/ IoStep(c)

WorkerStep ==
    \/ WorkerCheck \/ WorkerWake \/ WorkerWaitFails \/ WorkerStart \/ WorkerAcquire
    \/ WorkerNative \/ WorkerDisconnected \/ WorkerFinish

Next == (\E c \in Callers : CallerStep(c)) \/ WorkerStep

Spec == Init /\ [][Next]_vars

-----------------------------------------------------------------------------
\* Fairness.  A thread inside an operation goes on with it; a thread waiting
\* for ioLock_, a critical section, gets it if it is released again and again
\* (a thread in a call has only the steps of the place it is at, so one strong
\* fairness condition per thread says both).  Nothing makes a caller start an
\* operation, and nothing makes the operating system fail.  Two more conditions
\* are left to the properties that need them: that the worker's WriteFile
\* returns (the port has write timeouts, configureSerialTimeouts), and that the
\* join budget of close runs out.

Continues(c) ==
    ~At(c, "idle") /\ (OpenStep(c) \/ CloseGoesOn(c) \/ IoStep(c))

WorkerContinues ==
    \/ WorkerCheck \/ WorkerWake \/ WorkerStart \/ WorkerAcquire
    \/ WorkerDisconnected \/ WorkerFinish

CallersFair == \A c \in Callers : SF_vars(Continues(c))

FairSpec == Spec /\ CallersFair /\ SF_vars(WorkerContinues)

WritesReturn == SF_vars(WorkerContinues \/ WorkerNative)
BudgetRunsOut == \A c \in Callers : SF_vars(CloseJoinTimeout(c))

-----------------------------------------------------------------------------
\* Properties

Requests == [id : RequestIds, generation : Generations, bytes : Nat \ {0}]

\* The session's record of the active write, the queue's reservation and the
\* worker's copy are the same write, so finalizeActiveWriteLocked(*activeWrite_)
\* never looks at an empty optional and never finds another request.
ActiveAgrees ==
    /\ queue.active.id = activeWrite.id
    /\ queue.active.generation = activeWrite.generation
    /\ worker.pc \in {"start", "acquire", "native", "disconnected", "finish"} =>
           worker.request = queue.active /\ activeWrite # NoWrite
    /\ worker.pc \in {"none", "check", "wait"} => activeWrite = NoWrite

\* The state, and the agreement of its parts.
TypeOK ==
    /\ state \in States
    /\ generation \in Generations
    /\ generationCounter \in Generations
    /\ handle \in BOOLEAN
    /\ queue \in [ generation : Generations, nextRequestId : 0 .. MaxRequestId,
                   pending : Seq(Requests), pendingBytes : Int, active : Requests \cup {NoRequest},
                   highWaterCount : Nat, highWaterBytes : Int ]
    /\ completedWrites \in Seq([id : RequestIds, status : Statuses])
    /\ activeWrite \in [id : RequestIds, generation : Generations, published : BOOLEAN]
                       \cup {NoWrite}
    /\ activeCancellation \in Categories
    /\ stopRequested \in BOOLEAN
    /\ thread \in {"null", "running", "ended"}
    /\ wakeEvent \in {"null", "clear", "set"}
    /\ lifecycleLock \in Callers \cup {NoOne}
    /\ ioLock \in Callers \cup {NoOne, Worker}
    /\ lineOption \in BOOLEAN /\ line \in BOOLEAN
    /\ port \in {PortClosed} \cup Generations
    /\ account \in [RequestIds -> Seq(Statuses)]
    /\ accepted \subseteq RequestIds
    /\ wire \in Seq(RequestIds)
    /\ sent \subseteq RequestIds
    /\ lost \subseteq Generations
    /\ ActiveAgrees

\* A write the session still answers for: pending, or active and not reported.
Owed(id) ==
    \/ IsPending(queue, id)
    \/ activeWrite.id = id /\ ~activeWrite.published

\* Exactly one terminal result for every accepted write, none for any other
\* request, whatever the interleaving of close, a lost device, cancellation, a
\* worker that outlives its close and the worker's own completion
\* (docs/架构说明.md:13, docs/Win32原生架构.md:147); and a result says "Succeeded"
\* only when WriteFile took every byte of the payload.
ExactlyOneResult ==
    \A id \in RequestIds :
        /\ Len(account[id]) = IF id \in accepted /\ ~Owed(id) THEN 1 ELSE 0
        /\ \A i \in DOMAIN account[id] : account[id][i] = "Succeeded" => id \in sent

\* No request is handed to WriteFile twice, and queued requests are in the
\* order they were accepted, through retries of open, lost devices and all.
WrittenOnceInOrder ==
    \A i, j \in DOMAIN wire : i < j =>
        /\ wire[i] # wire[j]
        /\ {wire[i], wire[j]} \subseteq accepted => wire[i] < wire[j]

\* A thread inside a call on the handle uses a port that is open, and open for
\* the generation the thread was admitted in: close cannot pull the handle
\* away, and a handle value the system hands out again is not mistaken.
HandleIsCurrent ==
    /\ \A c \in Callers :
           call[c].pc \in {"readNative", "lineNative", "writeNative"} =>
               ioLock = c /\ port = call[c].generation
    /\ WorkerAt("native") => ioLock = Worker /\ port = worker.request.generation

\* The option the session reports for the control line is the state of the
\* line, once the call that changed it is over.
LineAgrees ==
    state = "Open" /\ (\A c \in Callers : ~At(c, "lineOption")) => lineOption = line

\* What is done to the port is done to the port of the session, and what the
\* session says of the port is true of it.
PortIsCurrent == HandleIsCurrent /\ LineAgrees

\* While the session is open a pending write has a worker that will see it: the
\* worker runs, is not told to stop, and is not asleep without its event set.
PendingIsServed ==
    state = "Open" /\ queue.pending # << >> =>
        /\ ~stopRequested
        /\ thread = "running"
        /\ WorkerAt("wait") => wakeEvent = "set"

\* A session that reports itself closed, or is opening again, has nothing left
\* of the last generation: no worker, no handle in use, nothing queued, nothing
\* owed.  (open relies on it: beginGeneration refuses a queue that is not empty.)
ClosedIsQuiet ==
    state \in {"Closed", "Opening"} =>
        /\ thread = "null"
        /\ IsEmpty(queue)
        /\ activeWrite = NoWrite
        /\ \A id \in RequestIds : ~Owed(id)
        /\ state = "Closed" => port = PortClosed /\ ~handle

\* Neither is a write left behind in an open session, nor anything of a session
\* in a closed one.
NothingIsLeft == PendingIsServed /\ ClosedIsQuiet

\* An open session only faults for a reason of its own generation: a failure
\* reported late by a thread of an earlier one does not touch it.
FaultHasCause ==
    [][state = "Open" /\ state' = "Faulted" => generation \in lost']_vars

\* A write that was settled while pending is never written afterwards, and one
\* whose close was given up is at most the write already under way.
NoLateWrite ==
    [][\A id \in RequestIds :
          /\ Len(wire') > Len(wire)
          /\ wire'[Len(wire')] = id
          => account[id] = << >> \/ (activeWrite.id = id /\ activeWrite.published)]_vars

\* What the callers of the session see of it: whether it takes writes, and
\* what has become of each request they queued.
Phase == CASE state = "Open" -> "open"
           [] state \in {"Closed", "Opening"} -> "closed"
           [] OTHER -> "shut"

Entry(id) ==
    CASE id \notin accepted /\ account[id] = << >> -> "free"
      [] id \in accepted /\ account[id] = << >> -> "owed"
      [] id \in accepted /\ Len(account[id]) = 1 -> account[id][1]
      [] OTHER -> "wrong"

Ledger == INSTANCE WriteLedger WITH
              Ids <- RequestIds, Outcomes <- Statuses,
              phase <- Phase, ledger <- [id \in RequestIds |-> Entry(id)]

\* The session, with its threads, locks and faults, implements the ledger of
\* WriteLedger: it admits only while open, settles each request once, and is
\* neither closed nor opened again while it owes a result.
ImplementsLedger == Ledger!Spec

\* Every accepted write is answered in the end, if the driver's writes return.
AcceptedIsAnswered ==
    WritesReturn => \A id \in RequestIds : id \in accepted ~> account[id] # << >>

\* Every call of the session returns, if the driver's writes return: a close need
\* not wait for its join budget to run out.
CallsReturn ==
    WritesReturn => \A c \in Callers : ~At(c, "idle") ~> At(c, "idle")

Closing(c) ==
    call[c].pc \in {"closeStop", "closeWake", "closeJoin", "closeAbandon",
                    "closeFaulted", "closeReap", "closeHandle", "closeEnd"}

\* A close answers every write and returns even if the worker's WriteFile never
\* does: that is what the join budget and the early report are for.
CloseAnswersAll ==
  BudgetRunsOut =>
    /\ \A id \in RequestIds : state = "Closing" /\ id \in accepted ~> account[id] # << >>
    /\ \A c \in Callers : Closing(c) ~> At(c, "idle")
=============================================================================
