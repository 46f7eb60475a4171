-------------------------------- MODULE SendFlow --------------------------------
(***************************************************************************)
(* What the window sends: payloads (by the button or by the timer), files  *)
(* in chunks, and what it makes of the results (win32/main_window_send.cpp,*)
(* main_window_serial_io.cpp, main_window_serial.cpp,                      *)
(* native_serial_io_state.cpp and the small states beside it).             *)
(*                                                                         *)
(* The window's thread runs one handler at a time, but a confirmation is a *)
(* modal loop: the timers and the worker go on below it, and prompts nest. *)
(* The write worker completes writes at any moment, also between the two   *)
(* calls of a drain (takeCompletedWrites, writeQueueSnapshot).  A handler  *)
(* is a function on the state S of window and port, or the set of states   *)
(* it can end in; where another thread can come between, it is cut in two. *)
(* The session is what SerialSession shows it to be: one result for each   *)
(* write it accepted.                                                      *)
(***************************************************************************)
EXTENDS Integers, Sequences, FiniteSets, SequencesExt

CONSTANTS
    Capacity,        \* requests the write queue takes
    FileChunks,      \* chunks of the file that is sent
    MaxWrites,       \* bound: writes submitted
    MaxGeneration,   \* bound: sessions opened
    MaxPrompts       \* bound: prompts open at a time

ASSUME SendFlowBounds ==
    {Capacity, FileChunks, MaxWrites, MaxGeneration, MaxPrompts} \subseteq Nat \ {0}

NoGen == 0
Generations == 1..MaxGeneration
Writes == [id : 1..MaxWrites, source : {"Manual", "File"}, gen : Generations]

VARIABLES
    port,       \* the session: see Init
    ui,         \* the window: see Init
    prompts,    \* the stack of confirmations
    pc,         \* where the handler is that runs below them
    log         \* history: see Init

vars == <<port, ui, prompts, pc, log>>

Idle == [at |-> "idle", after |-> "none", failed |-> FALSE]

Init ==
    /\ port = [state |-> "Closed",
               gen |-> NoGen,           \* generationCounter_, and the write queue's
               queue |-> << >>,
               writing |-> FALSE,       \* the head is being written
               told |-> FALSE,          \* and its result is published already
               done |-> << >>]          \* completedWrites_
    /\ ui = [owner |-> "None",          \* NativeSerialIoState::owner_
             snapshot |-> 0,            \* countedCount of its writeQueueSnapshot_
             snapGen |-> NoGen,         \* and its generation
             pending |-> {},            \* pendingSerialWrites_
             active |-> FALSE,          \* fileSend_.active(), and IDT_FILE_SEND is set
             fileGen |-> NoGen,         \* fileSendGeneration_
             read |-> 0, sent |-> 0,    \* chunks read from the file, chunks written
             timed |-> FALSE,           \* timedSendEnabled
             confirmed |-> FALSE,       \* timedSendConfirmed_
             timer |-> FALSE,           \* IDT_TIMED_SEND is set
             reconnect |-> FALSE]       \* IDT_RECONNECT is set
    /\ prompts = << >>
    /\ pc = Idle
    /\ log = [submitted |-> 0,
              written |-> {},           \* writes that succeeded
              published |-> {},         \* writes that were recorded as sent,
              twice |-> FALSE,          \* and whether one was so twice
              forgotten |-> {},         \* those whose success was thrown away
              faulted |-> {}]           \* sessions that faulted by themselves

\* The one element of T.  (For TLC, which evaluates it once.)
Only(T) == CHOOSE x \in T : TRUE

S == [port |-> port, ui |-> ui, log |-> log]

\* The state after a handler, or after the first half of one.
Becomes(s) == \E next \in {s} : port' = next.port /\ ui' = next.ui /\ log' = next.log

IsOpen(s) == s.port.state = "Open"

\* The session's generation: unassigned as soon as it is not open any more.
Generation(s) == IF IsOpen(s) THEN s.port.gen ELSE NoGen

----------------------------------------------------------------------------
(* NativeSerialIoState.                                                    *)

AllowsManualSend(s) == s.ui.owner = "None" /\ s.ui.snapshot < Capacity

\* Mutant: a queue that is not empty does not matter.
AllowsFileSendIfIdle(s) == s.ui.owner = "None"

AllowsFileSend(s) == s.ui.owner = "None" /\ s.ui.snapshot = 0

\* updateSerialWriteQueueStatus.
Snapshot(s) == [s EXCEPT !.ui.snapshot = Len(s.port.queue), !.ui.snapGen = s.port.gen]

\* nativeSerialWriteCompletionDecision; "faulted" looks at the cached snapshot.
Decision(s, result) ==
    LET current == IsOpen(s) /\ Generation(s) = result.write.gen
        faulted == /\ s.port.state = "Faulted"
                   /\ s.ui.snapGen # NoGen /\ s.ui.snapGen = result.write.gen IN
    CASE result.status = "Succeeded" /\ (current \/ faulted) -> "Succeeded"
      [] result.status = "Cancelled" /\ current -> "Cancelled"
      [] result.status = "Failed" /\ current -> "Failed"
      [] result.status = "Disconnected" /\ (current \/ faulted) -> "Failed"
      [] OTHER -> "Ignore"

----------------------------------------------------------------------------
(* What the handlers share.                                                *)

\* updateTimedSendTimer.
UpdateTimer(s) ==
    [s EXCEPT !.ui.timer = s.ui.timed /\ IsOpen(s) /\ AllowsManualSend(s)]

\* publishSuccessfulSerialWrite.
Publish(s, writes) ==
    [s EXCEPT !.log.published = @ \cup writes,
              !.log.twice = @ \/ writes \cap s.log.published # {}]

\* What cancelPendingWrites leaves in the queue, if the file send owns the port:
\* nothing but the write under way.
KeptByStop(s) ==
    IF s.ui.fileGen # NoGen /\ Generation(s) = s.ui.fileGen /\ s.ui.owner = "FileSend"
    THEN IF s.port.writing THEN 1 ELSE 0
    ELSE Len(s.port.queue)

CancelledByStop(s) == {s.port.queue[i] : i \in KeptByStop(s) + 1 .. Len(s.port.queue)}

\* NativeSerialIoState::release(FileSend).
Released(owner) == IF owner = "FileSend" THEN "None" ELSE owner

\* Mutant: the cancelled writes stay pending.
KeptPending(pending, cancelled) == pending

\* Their entries go, as far as they are chunks of the file.
WithoutCancelled(pending, cancelled) ==
    {w \in pending : ~(w \in cancelled /\ w.source = "File")}

\* stopFileSend.
StopFile(s) ==
    IF ~s.ui.active
    THEN s
    ELSE UpdateTimer(Snapshot(
             [s EXCEPT !.port.queue = SubSeq(@, 1, KeptByStop(s)),
                       !.ui.pending = WithoutCancelled(@, CancelledByStop(s)),
                       !.ui.active = FALSE,
                       !.ui.fileGen = NoGen,
                       !.ui.owner = Released(@)]))

\* The results that are taken and belong to a write the window knows.
Taken(s) == {r \in ToSet(s.port.done) : r.write \in s.ui.pending}

WritesOf(results) == {r.write : r \in results}

\* drainSerialWriteResults, up to the look at the queue: each result of a pending
\* write is published, makes the session fail, or is ignored.
DrainResults(s) ==
    LET succeeded == {r \in Taken(s) : Decision(s, r) = "Succeeded"}
        ofFile == {r \in succeeded : /\ r.write.source = "File" /\ s.ui.active
                                     /\ s.ui.fileGen = r.write.gen}
        drained == [Publish(s, WritesOf(succeeded)) EXCEPT
                      !.port.done = << >>,
                      !.ui.pending = @ \ WritesOf(ToSet(s.port.done)),
                      !.ui.sent = @ + Cardinality(ofFile)] IN
    IF ofFile # {} /\ drained.ui.sent >= FileChunks
    THEN StopFile(drained)
    ELSE drained

DrainFails(s) == \E r \in Taken(s) : Decision(s, r) = "Failed"

\* How a close can go: the write under way has just succeeded, or is interrupted,
\* or its worker is not joined in time; and the handle is released or not.
Endings ==
    {end \in [head : {"Finished", "Interrupted", "Unjoined"}, released : BOOLEAN] :
        end.released => end.head # "Unjoined"}

\* serialLifecycle_.close: the writes that wait are cancelled.  A write whose worker
\* is not joined stays in the queue, but its result is published.
ClosePort(s, end) ==
    LET unjoined == end.head = "Unjoined" /\ s.port.writing
        owed == IF s.port.told THEN << >> ELSE s.port.queue
        status(i) == IF i = 1 /\ s.port.writing /\ end.head = "Finished" /\ IsOpen(s)
                     THEN "Succeeded" ELSE "Cancelled"
        results == [i \in DOMAIN owed |-> [write |-> owed[i], status |-> status(i)]] IN
    [s EXCEPT !.port.state = IF end.released THEN "Closed" ELSE "Faulted",
              !.port.queue = SubSeq(@, 1, IF unjoined THEN 1 ELSE 0),
              !.port.writing = unjoined, !.port.told = unjoined,
              !.port.done = @ \o results,
              !.log.written = @ \cup
                 WritesOf({r \in ToSet(results) : r.status = "Succeeded"})]

\* Mutant: nothing is published any more once the session is closed.
PublishedNever(r, closing) == FALSE

\* nativeSerialWriteShouldPublishOnClose.
PublishedOnClose(r, closing) ==
    closing # NoGen /\ r.write.gen = closing /\ r.status = "Succeeded"

\* settleClosingSerialWrites.
Settle(s, closing) ==
    LET succeeded == {r \in Taken(s) : r.status = "Succeeded"}
        published == {r \in Taken(s) : PublishedOnClose(r, closing)} IN
    Snapshot([Publish(s, WritesOf(published)) EXCEPT
                !.port.done = << >>, !.ui.pending = {},
                !.log.forgotten = @ \cup WritesOf(succeeded \ published)])

\* A close and what follows it: what is published is of the generation that the
\* session had before.
Close(s, end) ==
    Only({Settle(closed, Generation(s)) : closed \in {ClosePort(s, end)}})

\* handleSerialFailure.
Failure(s, end, waits) ==
    LET quiet == [s EXCEPT !.ui.timer = FALSE, !.ui.confirmed = FALSE] IN
    [Close(StopFile(quiet), end) EXCEPT !.ui.reconnect = @ \/ waits]

Failures(s) ==
    IF s.port.state = "Closed"
    THEN {s}
    ELSE {Failure(s, end, waits) : end \in Endings, waits \in BOOLEAN}

\* What enqueueWrite and its caller do: the write is accepted and pending, or the
\* queue is full or the session not open (a message), or the worker cannot be
\* woken, and the session fails.
Accepted(s, w) ==
    [s EXCEPT !.port.queue = Append(@, w),
              !.ui.pending = @ \cup {w},
              !.log.submitted = @ + 1]

NewWrite(s, source) == [id |-> s.log.submitted + 1, source |-> source, gen |-> s.port.gen]

Submitted(s, source) == Snapshot(Accepted(s, NewWrite(s, source)))

CanSubmit(s) == IsOpen(s) /\ Len(s.port.queue) < Capacity

\* serialLifecycle_.open: it succeeds, or fails and leaves the session faulted, and
\* is rejected if that is not closed.
Opened(s) == [s EXCEPT !.port.state = "Open", !.port.gen = @ + 1]

CanOpen(s) == s.port.state = "Closed" /\ s.port.gen < MaxGeneration

OpenFailed(s) ==
    [s EXCEPT !.port.state = IF @ = "Closed" THEN "Faulted" ELSE @]

\* The session faults by itself: the writes that wait are settled, the one under
\* way when its call returns.
Faulted(s, status) ==
    LET active == IF s.port.writing THEN 1 ELSE 0
        waiting == SubSeq(s.port.queue, active + 1, Len(s.port.queue))
        results == [i \in DOMAIN waiting |-> [write |-> waiting[i], status |-> status]] IN
    [s EXCEPT !.port.state = "Faulted",
              !.port.queue = SubSeq(@, 1, active),
              !.port.done = @ \o results,
              !.log.faulted = @ \cup {s.port.gen}]

\* The device is lost before the window sees it open: it is closed at once.
OpenedInVain(s, end) == ClosePort(Faulted(Opened(s), "Disconnected"), end)

----------------------------------------------------------------------------
(* The write worker, and the device.                                       *)

WorkerStarts ==
    /\ port.state = "Open" /\ port.queue # << >> /\ ~port.writing
    /\ port' = [port EXCEPT !.writing = TRUE]
    /\ UNCHANGED <<ui, prompts, pc, log>>

Complete(status) ==
    /\ port.writing /\ ~port.told
    /\ port' = [port EXCEPT !.queue = Tail(@), !.writing = FALSE,
                            !.done = Append(@, [write |-> Head(port.queue), status |-> status])]
    /\ log' = [log EXCEPT !.written =
                  @ \cup (IF status = "Succeeded" THEN {Head(port.queue)} ELSE {})]
    /\ UNCHANGED <<ui, prompts, pc>>

WorkerCompletes ==
    \/ port.state = "Open" /\ \E status \in {"Succeeded", "Failed"} : Complete(status)
    \/ port.state = "Faulted" /\ Complete("Disconnected")

\* The worker that a close did not wait for comes back: its result is known.
WorkerReturns ==
    /\ port.told
    /\ port' = [port EXCEPT !.queue = Tail(@), !.writing = FALSE, !.told = FALSE]
    /\ UNCHANGED <<ui, prompts, pc, log>>

DeviceLost ==
    /\ IsOpen(S)
    /\ Becomes(Faulted(S, "Disconnected"))
    /\ UNCHANGED <<prompts, pc>>

\* The worker's wait for work fails.
WorkerFails ==
    /\ IsOpen(S) /\ ~port.writing
    /\ Becomes(Faulted(S, "Failed"))
    /\ UNCHANGED <<prompts, pc>>

----------------------------------------------------------------------------
(* The handlers that drain: poll, pump and disconnect.                     *)

\* Between handlers; the user's own only with no prompt open.
Ready == pc = Idle
User == Ready /\ prompts = << >>

DrainThen(before, after) ==
    \E s \in {before} :
       /\ Becomes(DrainResults(s))
       /\ pc' = [at |-> "snapshot", after |-> after, failed |-> DrainFails(s)]
       /\ UNCHANGED prompts

\* IDT_SERIAL_POLL.
PollTick == Ready /\ DrainThen(S, "poll")

\* IDT_FILE_SEND.
FileTick == Ready /\ ui.active /\ DrainThen(S, "pump")

\* closeSerialPort, for the user's disconnect, or before a session that faulted is
\* opened again.
CloseThen(after) ==
    DrainThen(StopFile([S EXCEPT !.ui.timer = FALSE, !.ui.reconnect = FALSE,
                                 !.ui.confirmed = FALSE]), after)

Disconnect == User /\ CloseThen("close")

\* Mutant: without a failure the window looks at the queue no more.
DrainedUnseen(s) == IF pc.failed THEN Failures(Snapshot(s)) ELSE {s}

\* The second half of a drain: the look at the queue, then the failure.
Drained(s) == IF pc.failed THEN Failures(Snapshot(s)) ELSE {Snapshot(s)}

\* pollSerial: there is nothing more to do, or a read fails, and may have faulted
\* the session.
PollEnds ==
    /\ pc.at = "snapshot" /\ pc.after = "poll"
    /\ pc' = Idle
    /\ \E s \in Drained(S) :
         \/ Becomes(s)
         \/ /\ IsOpen(s)
            /\ \E read \in {s, Faulted(s, "Disconnected")} :
                 \E t \in Failures(read) : Becomes(t)
    /\ UNCHANGED prompts

\* pumpFileSend: the file is at its end, or the next chunk goes to the queue.
PumpStops(s) ==
    \/ ~IsOpen(s) \/ s.port.gen # s.ui.fileGen
    \/ s.ui.owner # "FileSend"
    \/ s.ui.snapshot = 0 /\ s.ui.read = FileChunks

PumpGoesOn(s) == s.ui.active /\ ~PumpStops(s) /\ s.ui.snapshot = 0

PumpDecides ==
    /\ pc.at = "snapshot" /\ pc.after = "pump"
    /\ \E s \in Drained(S) :
         IF PumpGoesOn(s)
         THEN \/ /\ Becomes([s EXCEPT !.ui.read = @ + 1])
                 /\ pc' = [Idle EXCEPT !.at = "enqueue"]
              \/ /\ Becomes(StopFile(s))              \* the file cannot be read
                 /\ pc' = Idle
         ELSE /\ Becomes(IF s.ui.active /\ PumpStops(s) THEN StopFile(s) ELSE s)
              /\ pc' = Idle
    /\ UNCHANGED prompts

\* enqueueFileSerialWrite.
EnqueueChunk ==
    /\ pc.at = "enqueue"
    /\ pc' = Idle
    /\ IF ~IsOpen(S) \/ port.gen # ui.fileGen
       THEN Becomes(StopFile(S))
       ELSE \/ CanSubmit(S) /\ log.submitted < MaxWrites /\ Becomes(Submitted(S, "File"))
            \/ ~CanSubmit(S) /\ Becomes(StopFile(Snapshot(S)))
            \/ \E s \in Failures(StopFile(Snapshot(S))) : Becomes(s)
    /\ UNCHANGED prompts

\* The rest of closeSerialPort.
ClosedPort(drained, end) ==
    LET s == [drained EXCEPT !.ui.reconnect = FALSE] IN
    UpdateTimer(IF s.port.state = "Closed" THEN Settle(s, NoGen) ELSE Close(s, end))

DisconnectEnds ==
    /\ pc.at = "snapshot" /\ pc.after = "close"
    /\ pc' = Idle
    /\ \E s \in Drained(S), end \in Endings : Becomes(ClosedPort(s, end))
    /\ UNCHANGED prompts

----------------------------------------------------------------------------
(* The other handlers.                                                     *)

\* connectSerial; a session that is not closed is closed first.
Connected(s) ==
    UpdateTimer([Opened(s) EXCEPT !.ui.reconnect = FALSE, !.ui.confirmed = FALSE])

\* The rest of it: the settings can be refused, the open can fail or not last.
Opening(s) ==
    \/ Becomes(s)
    \/ Becomes(OpenFailed(s))
    \/ CanOpen(s) /\ \E end \in Endings : Becomes(OpenedInVain(s, end))
    \/ CanOpen(s) /\ Becomes(Connected(s))

Connect ==
    /\ User /\ port.state = "Closed"
    /\ Opening(S)
    /\ UNCHANGED <<prompts, pc>>

Reconnect == User /\ port.state = "Faulted" /\ CloseThen("connect")

ReconnectEnds ==
    /\ pc.at = "snapshot" /\ pc.after = "connect"
    /\ pc' = Idle
    /\ \E s \in Drained(S), end \in Endings :
         \E closed \in {ClosedPort(s, end)} : Opening(closed)
    /\ UNCHANGED prompts

\* tryAutoReconnect: the port is back, or the attempt fails or is given up.
ReconnectTick ==
    /\ Ready /\ ui.reconnect
    /\ LET given == [S EXCEPT !.ui.reconnect = FALSE] IN
       \/ CanOpen(S) /\ Becomes(UpdateTimer(Opened(given)))
       \/ CanOpen(S) /\ \E end \in Endings : Becomes(OpenedInVain(given, end))
       \/ ~IsOpen(S) /\ Becomes(OpenFailed(given))
       \/ Becomes(given)
    /\ UNCHANGED <<prompts, pc>>

\* IDC_TIMED_SEND_CHECK.
ToggleTimed ==
    /\ User
    /\ Becomes(UpdateTimer([S EXCEPT !.ui.timed = ~@,
                                     !.ui.confirmed = @ /\ ~ui.timed]))
    /\ UNCHANGED <<prompts, pc>>

\* enqueueManualSerialWrite, with the port acquired before and released after.
SendManual(s) ==
    IF ~AllowsManualSend(s)
    THEN Becomes(s)
    ELSE \/ CanSubmit(s) /\ log.submitted < MaxWrites /\ Becomes(Submitted(s, "Manual"))
         \/ ~CanSubmit(s) /\ Becomes(Snapshot(s))
         \/ IsOpen(s) /\ \E failed \in Failures(Snapshot(s)) : Becomes(failed)

\* sendPayloadFromText, up to the confirmation that timed sends need.
NeedsConfirmation == ui.timed /\ ~ui.confirmed

SendPayload ==
    /\ Ready /\ (ui.timer \/ prompts = << >>)
    /\ IsOpen(S) /\ AllowsManualSend(S)
    /\ IF NeedsConfirmation
       THEN /\ Len(prompts) < MaxPrompts
            /\ prompts' = Append(prompts, [kind |-> "timed", gen |-> port.gen])
            /\ UNCHANGED <<port, ui, log>>
       ELSE /\ SendManual([S EXCEPT !.ui.confirmed = ui.timed])
            /\ UNCHANGED prompts
    /\ UNCHANGED pc

\* The answer to the innermost prompt.
Answered(kind) == Ready /\ prompts # << >> /\ Last(prompts).kind = kind

ConfirmTimed ==
    /\ Answered("timed")
    /\ prompts' = Front(prompts)
    /\ SendManual([S EXCEPT !.ui.confirmed = TRUE])
    /\ UNCHANGED pc

CancelTimed ==
    /\ Answered("timed")
    /\ prompts' = Front(prompts)
    /\ Becomes(UpdateTimer([S EXCEPT !.ui.timed = FALSE]))
    /\ UNCHANGED pc

\* startFileSend, up to the confirmation.
MayStartFile ==
    /\ IsOpen(S) /\ AllowsFileSend(S)
    /\ \A w \in ui.pending : w.source # "File"
    /\ ~ui.active

StartFile ==
    /\ User
    /\ MayStartFile
    /\ prompts' = Append(prompts, [kind |-> "file", gen |-> port.gen])
    /\ UNCHANGED <<port, ui, pc, log>>

\* The rest of startFileSend: nothing that was read before the prompt is used
\* but the session's generation.
SameSession(prompt) == IsOpen(S) /\ port.gen = prompt.gen

ConfirmFile ==
    /\ Answered("file")
    /\ prompts' = Front(prompts)
    /\ IF AllowsFileSend(S) /\ SameSession(Last(prompts))
       THEN Becomes([S EXCEPT !.ui.active = TRUE, !.ui.owner = "FileSend",
                              !.ui.fileGen = port.gen, !.ui.read = 0, !.ui.sent = 0,
                              !.ui.timer = FALSE, !.ui.confirmed = FALSE])
       ELSE UNCHANGED <<port, ui, log>>
    /\ UNCHANGED pc

\* The answer is no, or the file cannot be opened.
FileNotStarted ==
    /\ Answered("file")
    /\ prompts' = Front(prompts)
    /\ UNCHANGED <<port, ui, pc, log>>

StopFileButton ==
    /\ User /\ ui.active
    /\ Becomes(StopFile(S))
    /\ UNCHANGED <<prompts, pc>>

Next ==
    \/ WorkerStarts \/ WorkerCompletes \/ WorkerReturns \/ DeviceLost \/ WorkerFails
    \/ PollTick \/ PollEnds
    \/ FileTick \/ PumpDecides \/ EnqueueChunk
    \/ Disconnect \/ DisconnectEnds \/ Connect \/ Reconnect \/ ReconnectEnds
    \/ ReconnectTick
    \/ ToggleTimed \/ SendPayload \/ ConfirmTimed \/ CancelTimed
    \/ StartFile \/ ConfirmFile \/ FileNotStarted \/ StopFileButton

Spec == Init /\ [][Next]_vars

----------------------------------------------------------------------------
(* The worker's calls return, and a handler that began ends: it waits for  *)
(* nothing, so its next half can always be taken.  The two timers are set  *)
(* again and again: neither keeps the other away.  Nothing is assumed of   *)
(* the user.                                                               *)

FairSpec ==
    /\ Spec
    /\ WF_vars(WorkerStarts) /\ WF_vars(WorkerCompletes)
    /\ []<>Ready
    /\ SF_vars(PollTick) /\ SF_vars(FileTick)

----------------------------------------------------------------------------
(* Properties.                                                             *)

InQueue == ToSet(port.queue)
InDone == WritesOf(ToSet(port.done))

\* What the session still owes a result for, or has one for that was not taken.
Owed == InDone \cup (IF port.told THEN {} ELSE InQueue)

\* The state; the port belongs to the file send exactly while it is active, so
\* no path leaves the window busy for ever (NativeSerialIoState::release).
TypeOK ==
    /\ port.state \in {"Closed", "Open", "Faulted"} /\ port.gen \in 0..MaxGeneration
    /\ port.writing => port.queue # << >>
    /\ port.told => port.writing /\ port.state = "Faulted"
    /\ InQueue \cup InDone \cup ui.pending \subseteq Writes
    /\ ui.owner \in {"None", "FileSend"}
    /\ (ui.owner = "FileSend") = ui.active
    /\ ui.active = (ui.fileGen # NoGen)
    /\ ui.sent <= ui.read /\ ui.read <= FileChunks
    /\ Len(prompts) <= MaxPrompts
    /\ pc.at \in {"idle", "snapshot", "enqueue"}

\* A write the session reported as sent is recorded exactly once, and no other is:
\* through closes that race the worker, workers that are not joined, cancelled files
\* and handlers that run below a prompt.  Until then its result waits for the window,
\* which still knows the write (publishSuccessfulSerialWrite).  A success is thrown
\* away only by the close of a session that had faulted by itself, and even there
\* not one of another session (settleClosingSerialWrites).
SentIsPublishedOnce ==
    /\ ~log.twice
    /\ log.published \subseteq log.written
    /\ log.written \ (log.published \cup log.forgotten) \subseteq InDone \cap ui.pending
    /\ \A w \in log.forgotten : w.gen \in log.faulted /\ w \notin log.published

\* What the guide says: everything that was sent is recorded (docs/用户指南.md:78).
SentIsRecorded == log.forgotten = {}

\* The window knows exactly the writes the session still owes it: none is
\* forgotten while it is queued, and none stays pending without a result to come
\* (a pending chunk would refuse every file after it).  And its cached look at the
\* queue errs only on the safe side: when it says the queue is empty or has room,
\* it is so, at any moment (native_serial_io_state.cpp:232).
PendingIsOwed ==
    /\ ui.pending = Owed
    /\ Len(port.queue) <= ui.snapshot

\* While a file is sent, nothing else is in the queue, and every chunk goes to the
\* session the user confirmed it for: so cancelling all pending writes cancels
\* the file's only (stopFileSend); and the port is given back when it ends.
FileHasThePort ==
    /\ TypeOK
    /\ ui.active => \A w \in InQueue : w.source = "File" /\ w.gen = ui.fileGen

\* A file send ends: written, stopped, failed or with its session.
FileEnds == ui.active ~> ~ui.active
=============================================================================
