------------------------------ MODULE ModbusScanUi ------------------------------
(***************************************************************************)
(* The scan thread (win32/native_modbus_scan_worker.cpp) and the window    *)
(* that starts it, takes its messages and ends it                          *)
(* (win32/main_window_modbus.cpp, main_window_serial.cpp,                  *)
(* main_window_serial_io.cpp, main_window_messages.cpp).                   *)
(*                                                                         *)
(* The thread collects raw events in batches, posts them, puts its result  *)
(* into a slot (modbusScanTerminalResult_) and posts Done; every post can  *)
(* fail.  The window handles messages and timers one at a time; the        *)
(* status clock looks at the slot too.  The session can be lost, closed    *)
(* and opened again around all of it.  What an exchange does is RtuScan.   *)
(***************************************************************************)
EXTENDS Integers, Sequences, FiniteSets

CONSTANTS
    MaxScans,        \* bound: scans started
    MaxGeneration,   \* bound: sessions opened
    MaxEvents,       \* bound: raw events of one scan
    BatchSize        \* kModbusDataBatchMinItems

ASSUME ScanUiBounds ==
    {MaxScans, MaxGeneration, MaxEvents, BatchSize} \subseteq Nat \ {0}

Scans == 1..MaxScans
Generations == 1..MaxGeneration
Events == Scans \X (1..MaxEvents)        \* event n of a scan
NoGen == 0                               \* kUnassignedSerialSessionGeneration
NoResult == [scan |-> 0, gen |-> NoGen, serialFailed |-> FALSE]

VARIABLES
    session,      \* [state, gen] of serialLifecycle_
    window,       \* "alive", "destroyed" or "exited"
    running,      \* modbusScanRunning_, and ownership of the port by the scan
    scanGen,      \* modbusScanGeneration_
    cancel,       \* modbusScanCancelRequested_
    disconnectAfter,   \* disconnectAfterModbusScan_
    handle,       \* modbusScanThread_ is not null
    slot,         \* modbusScanTerminalResult_
    queue,        \* posted messages
    poll,         \* the timer IDT_SERIAL_POLL is set
    reconnect,    \* the timer IDT_RECONNECT is set
    \* the scan thread
    pc, scan, gen, batch, count, serialFailed,
    \* history
    unposted,     \* raw events of batches whose post failed or was withheld
    saved,        \* raw events in the store
    results,      \* scans whose result is in the store
    dropped,      \* results dropped, with the state of the session then
    again         \* an event or a result was saved a second time

port == <<session, poll, reconnect>>
ui == <<running, scanGen, cancel, disconnectAfter, handle>>
thread == <<pc, scan, gen, batch, count, serialFailed>>
history == <<unposted, saved, results, dropped, again>>
vars == <<window, port, ui, slot, queue, thread, history>>

Init ==
    /\ session = [state |-> "Closed", gen |-> NoGen]
    /\ window = "alive"
    /\ running = FALSE /\ scanGen = NoGen
    /\ cancel = FALSE /\ disconnectAfter = FALSE /\ handle = FALSE
    /\ slot = NoResult /\ queue = << >>
    /\ poll = TRUE /\ reconnect = FALSE
    /\ pc = "ended" /\ scan = 0 /\ gen = NoGen /\ batch = {} /\ count = 0
    /\ serialFailed = FALSE
    /\ unposted = {} /\ saved = {} /\ results = {} /\ dropped = {} /\ again = FALSE

IsOpen == session.state = "Open"
Opened == session' = [state |-> "Open", gen |-> session.gen + 1]
Closed == session' = [session EXCEPT !.state = "Closed"]

----------------------------------------------------------------------------
(* The scan thread.                                                        *)

GenerationCurrent == IsOpen /\ session.gen = gen

\* PostMessageW of a batch: it is in the queue, or the batch is deleted.
PostData(events) ==
    \/ /\ queue' = Append(queue, [kind |-> "data", gen |-> gen, events |-> events])
       /\ UNCHANGED unposted
    \/ /\ unposted' = unposted \cup events
       /\ UNCHANGED queue

\* One more raw event; a batch that is large enough is posted at once.
CollectEvent ==
    /\ pc = "scan" /\ count < MaxEvents /\ GenerationCurrent /\ ~cancel
    /\ count' = count + 1
    /\ LET all == batch \cup {<<scan, count + 1>>} IN
       IF Cardinality(all) < BatchSize
       THEN batch' = all /\ UNCHANGED <<queue, unposted>>
       ELSE batch' = {} /\ PostData(all)
    /\ UNCHANGED <<window, port, ui, slot, pc, scan, gen, serialFailed, saved, results,
                   dropped, again>>

\* The device is lost during a call: the session becomes Faulted; the transport
\* looks for a cancellation before it takes the call for a failure.
DeviceLost ==
    /\ pc = "scan" /\ GenerationCurrent
    /\ session' = [session EXCEPT !.state = "Faulted"]
    /\ serialFailed' = (serialFailed \/ ~cancel)
    /\ pc' = "flush"
    /\ UNCHANGED <<window, poll, reconnect, ui, slot, queue, scan, gen, batch, count, history>>

\* Any other failure leaves the session open; retries may follow.
CallFails ==
    /\ pc = "scan" /\ GenerationCurrent /\ ~serialFailed /\ ~cancel
    /\ serialFailed' = TRUE
    /\ UNCHANGED <<window, port, ui, slot, queue, pc, scan, gen, batch, count, history>>

\* Completed, failed or cancelled.
ScanOver ==
    /\ pc = "scan"
    /\ pc' = "flush"
    /\ UNCHANGED <<window, port, ui, slot, queue, scan, gen, batch, count, serialFailed, history>>

\* The last batch, unless its session is gone and the scan itself did not notice.
MayPost == GenerationCurrent \/ serialFailed

FlushBatch ==
    /\ pc = "flush"
    /\ pc' = "store"
    /\ batch' = {}
    /\ IF batch # {} /\ MayPost
       THEN PostData(batch)
       ELSE unposted' = unposted \cup batch /\ UNCHANGED queue
    /\ UNCHANGED <<window, port, ui, slot, scan, gen, count, serialFailed, saved, results,
                   dropped, again>>

StoreResult ==
    /\ pc = "store"
    /\ slot' = [scan |-> scan, gen |-> gen, serialFailed |-> serialFailed]
    /\ pc' = "notify"
    /\ UNCHANGED <<window, port, ui, queue, scan, gen, batch, count, serialFailed, history>>

NotifyDone ==
    /\ pc = "notify"
    /\ pc' = "ended"
    /\ \/ queue' = Append(queue, [kind |-> "done"])
       \/ UNCHANGED queue                           \* PostMessageW failed
    /\ UNCHANGED <<window, port, ui, slot, scan, gen, batch, count, serialFailed, history>>

ThreadStep == CollectEvent \/ DeviceLost \/ CallFails \/ ScanOver \/ FlushBatch
              \/ StoreResult \/ NotifyDone

----------------------------------------------------------------------------
(* What the window's handlers share.                                       *)

\* nativeModbusScanMessageMatchesSession.
MessageMatches(g, allowFaulted) ==
    /\ g # NoGen /\ g = scanGen
    /\ \/ IsOpen /\ session.gen = g
       \/ allowFaulted /\ session.state = "Faulted"

\* closeModbusScanThread, and what it leaves in modbusScanThread_.
ThreadCloses(result) ==
    \/ ~handle /\ result = "Settled" /\ UNCHANGED handle
    \/ handle /\ pc # "ended" /\ result = "NotJoined" /\ UNCHANGED handle
    \/ handle /\ pc = "ended" /\ result = "HandleCloseFailed" /\ UNCHANGED handle
    \/ handle /\ pc = "ended" /\ result = "Settled" /\ handle' = FALSE

\* closeModbusScanThread returns Settled before a new scan.
ThreadSettled == ~handle \/ pc = "ended"

EventsOf(messages) ==
    UNION {messages[i].events : i \in {j \in DOMAIN messages : messages[j].kind = "data"}}

\* handleModbusScanDataBatch of a sequence of messages.
SaveBatches(messages, wanted) ==
    LET events == IF wanted THEN EventsOf(messages) ELSE {} IN
    /\ saved' = saved \cup events
    /\ again' = (again \/ events \cap saved # {})

\* What a scan that is not running leaves behind: the window polls again only
\* while the session is open.
ScanIdle ==
    /\ running' = FALSE
    /\ scanGen' = NoGen
    /\ poll' = (poll \/ IsOpen)

\* handleSerialFailure: the session is closed, and opened again later if the
\* user wants it.
SerialFailure ==
    /\ Closed
    /\ reconnect' \in {TRUE, reconnect}

----------------------------------------------------------------------------
(* The window.                                                             *)

Alive == window = "alive"

Connect ==
    /\ Alive /\ ~IsOpen /\ ~running
    /\ \/ /\ session.gen < MaxGeneration
          /\ Opened
          /\ disconnectAfter' = FALSE
          /\ reconnect' = FALSE
       \/ /\ Closed                                   \* the port cannot be opened
          /\ reconnect' = (reconnect /\ session.state = "Closed")
          /\ UNCHANGED disconnectAfter
    /\ UNCHANGED <<window, running, scanGen, cancel, handle, slot, queue, poll, thread, history>>

\* disconnectSerial: put off until the scan has ended.
Disconnect ==
    /\ Alive /\ IsOpen
    /\ IF running
       THEN /\ disconnectAfter' = TRUE
            /\ cancel' = TRUE
            /\ UNCHANGED <<session, reconnect>>
       ELSE /\ Closed
            /\ reconnect' = FALSE
            /\ UNCHANGED <<disconnectAfter, cancel>>
    /\ UNCHANGED <<window, running, scanGen, handle, slot, queue, poll, thread, history>>

\* The scan button while a scan runs.
RequestCancel ==
    /\ Alive /\ running /\ ~cancel
    /\ cancel' = TRUE
    /\ UNCHANGED <<window, port, running, scanGen, disconnectAfter, handle, slot, queue,
                   thread, history>>

\* runModbusScan: what is left of the thread before must be settled first.
StartScan ==
    /\ Alive /\ ~running /\ IsOpen /\ ThreadSettled
    /\ scan < MaxScans
    /\ handle' = TRUE
    /\ slot' = NoResult
    /\ dropped' = dropped \cup
         (IF slot = NoResult THEN {} ELSE {[result |-> slot, state |-> session.state]})
    /\ cancel' = FALSE /\ disconnectAfter' = FALSE
    /\ running' = TRUE /\ scanGen' = session.gen
    /\ poll' = FALSE
    /\ scan' = scan + 1 /\ gen' = session.gen
    /\ pc' = "scan" /\ batch' = {} /\ count' = 0 /\ serialFailed' = FALSE
    /\ UNCHANGED <<window, session, reconnect, queue, unposted, saved, results, again>>

\* CreateThread fails (the handle of modbusScanThread_ is null then).
ScanNotStarted ==
    /\ Alive /\ ~running /\ IsOpen /\ ThreadSettled
    /\ handle' = FALSE
    /\ slot' = NoResult
    /\ cancel' = FALSE /\ disconnectAfter' = FALSE
    /\ ScanIdle
    /\ UNCHANGED <<window, session, reconnect, queue, thread, unposted, saved, results,
                   dropped, again>>

HandleData ==
    /\ Alive /\ queue # << >> /\ Head(queue).kind = "data"
    /\ queue' = Tail(queue)
    /\ SaveBatches(<<Head(queue)>>, running /\ MessageMatches(Head(queue).gen, TRUE))
    /\ UNCHANGED <<window, port, ui, slot, thread, unposted, results, dropped>>

\* The messages that are not data, in their order: each only says Done.
WithoutData(messages) ==
    [i \in 1..Cardinality({j \in DOMAIN messages : messages[j].kind # "data"})
        |-> [kind |-> "done"]]

\* The result is saved; then a disconnect that was put off is done, or else a
\* failure of the scan handled.
ResultTaken ==
    /\ results' = results \cup {slot.scan}
    /\ UNCHANGED dropped
    /\ IF disconnectAfter
       THEN Closed /\ reconnect' = FALSE
       ELSE IF slot.serialFailed
            THEN SerialFailure
            ELSE UNCHANGED <<session, reconnect>>

ResultDropped ==
    /\ dropped' = dropped \cup {[result |-> slot, state |-> session.state]}
    /\ UNCHANGED <<results, session, reconnect>>

\* Mutant: the messages that are still queued are left to their handler.
DrainNothing(messages) == queue' = messages /\ UNCHANGED <<saved, again>>

\* PeekMessageW of the data messages that are still queued.
DrainData(messages) ==
    /\ queue' = WithoutData(messages)
    /\ SaveBatches(messages, running /\ MessageMatches(scanGen, TRUE))

\* handleModbusScanDone with a result of the scan that runs, whose thread ended.
EndScan(messages) ==
    /\ ThreadCloses("Settled") \/ ThreadCloses("HandleCloseFailed")
    /\ slot' = NoResult
    /\ DrainData(messages)
    /\ disconnectAfter' = FALSE
    /\ ScanIdle
    /\ IF MessageMatches(slot.gen, slot.serialFailed) THEN ResultTaken ELSE ResultDropped
    /\ UNCHANGED <<cancel, unposted>>

\* The result does not belong to the scan that runs.
StaleResult(messages) ==
    /\ slot' = NoResult
    /\ queue' = messages
    /\ dropped' = dropped \cup {[result |-> slot, state |-> session.state]}
    /\ UNCHANGED <<ui, session, poll, reconnect, unposted, saved, results, again>>

\* Mutant: the result is taken out of the slot and forgotten.
PutBackNothing ==
    /\ ThreadCloses("NotJoined")
    /\ slot' = NoResult

\* The thread has not ended within kModbusThreadJoinBudgetMs: the result goes back.
PutBack ==
    /\ ThreadCloses("NotJoined")
    /\ UNCHANGED slot

HandleDone(messages) ==
    \/ slot # NoResult /\ slot.gen = scanGen /\ EndScan(messages)
    \/ slot # NoResult /\ slot.gen # scanGen /\ StaleResult(messages)
    \/ /\ slot # NoResult /\ slot.gen = scanGen /\ PutBack
       /\ queue' = messages
       /\ UNCHANGED <<port, running, scanGen, cancel, disconnectAfter, history>>
    \/ /\ slot = NoResult
       /\ queue' = messages
       /\ UNCHANGED <<port, ui, slot, history>>

DoneMessage ==
    /\ Alive /\ queue # << >> /\ Head(queue).kind = "done"
    /\ HandleDone(Tail(queue))
    /\ UNCHANGED <<window, thread>>

\* Mutant: only the message ends a scan.
ClockIgnoresSlot == FALSE /\ UNCHANGED vars

\* IDT_STATUS_CLOCK.
StatusClock ==
    /\ Alive /\ running /\ slot # NoResult
    /\ HandleDone(queue)
    /\ UNCHANGED <<window, thread>>

\* IDT_SERIAL_POLL finds the device lost.
PollFails ==
    /\ Alive /\ poll /\ IsOpen /\ ~running
    /\ SerialFailure
    /\ UNCHANGED <<window, poll, ui, slot, queue, thread, history>>

\* IDT_RECONNECT: the port is there again, or opening it fails, or the user no
\* longer wants it.
ReconnectTick ==
    /\ Alive /\ reconnect
    /\ reconnect' = FALSE
    /\ \/ session.state = "Closed" /\ session.gen < MaxGeneration /\ Opened
       \/ UNCHANGED session
    /\ UNCHANGED <<window, poll, ui, slot, queue, thread, history>>

\* handleDestroyMessage: the scan is asked to stop and waited for once; if it has
\* not ended the process exits.
Destroy ==
    /\ Alive
    /\ cancel' = (cancel \/ running)
    /\ poll' = FALSE /\ reconnect' = FALSE
    /\ \/ /\ ThreadCloses("NotJoined")
          /\ window' = "exited"
          /\ Closed
          /\ UNCHANGED <<running, scanGen, slot, queue, saved, results, again>>
       \/ /\ ThreadCloses("Settled") \/ ThreadCloses("HandleCloseFailed")
          /\ window' = "destroyed"
          /\ queue' = << >>
          /\ SaveBatches(queue, TRUE)
          /\ slot' = NoResult
          /\ results' = results \cup (IF slot = NoResult THEN {} ELSE {slot.scan})
          /\ running' = FALSE /\ scanGen' = NoGen
          /\ Closed
    /\ UNCHANGED <<disconnectAfter, thread, unposted, dropped>>

Next ==
    \/ ThreadStep /\ window # "exited"
    \/ Connect \/ Disconnect \/ RequestCancel \/ StartScan \/ ScanNotStarted
    \/ HandleData \/ DoneMessage \/ StatusClock
    \/ PollFails \/ ReconnectTick \/ Destroy

Spec == Init /\ [][Next]_vars

----------------------------------------------------------------------------
(* The thread goes on until it ends, since each of its calls has a limit,  *)
(* and the timer of the status clock keeps coming.  Nothing is assumed of  *)
(* the posted messages, nor of the user.                                   *)

Fairness == WF_vars(ThreadStep) /\ WF_vars(StatusClock)

FairSpec == Spec /\ Fairness

----------------------------------------------------------------------------
(* Properties.                                                             *)

Messages ==
    [kind : {"data"}, gen : Generations, events : SUBSET Events] \cup [kind : {"done"}]

\* The state; the port is the scan's exactly while it has a generation
\* (setModbusScanRunningUi, releaseModbusScanOwnership).
TypeOK ==
    /\ session \in [state : {"Closed", "Open", "Faulted"}, gen : 0..MaxGeneration]
    /\ window \in {"alive", "destroyed", "exited"}
    /\ {running, cancel, disconnectAfter, handle, poll, reconnect, serialFailed, again}
         \subseteq BOOLEAN
    /\ scanGen \in 0..MaxGeneration /\ running = (scanGen # NoGen)
    /\ slot \in [scan : 0..MaxScans, gen : 0..MaxGeneration, serialFailed : BOOLEAN]
    /\ \A i \in DOMAIN queue : queue[i] \in Messages
    /\ pc \in {"scan", "flush", "store", "notify", "ended"}
    /\ scan \in 0..MaxScans /\ gen \in 0..MaxGeneration /\ count \in 0..MaxEvents
    /\ UNION {batch, unposted, saved} \subseteq Events
    /\ results \subseteq Scans

\* A raw event of the scan that runs, or of the one before, is in exactly one
\* place until it is in the store: the batch, a posted message, the store, or
\* the batches whose post failed or was withheld.  So no handler that ends a
\* scan, early or late, drops a batch that was posted, and none saves it twice
\* (handleModbusScanDataBatch, drainPendingModbusScanDataMessages,
\* settlePendingModbusScanMessages).
RawEventsOnce ==
    window # "exited" =>
      /\ ~again
      /\ \A e \in {scan} \X (1..count) :
           Cardinality({p \in {<<"batch", batch>>, <<"queue", EventsOf(queue)>>,
                               <<"saved", saved>>, <<"unposted", unposted>>} : e \in p[2]}) = 1

\* The result of a scan whose thread has stored it is in the slot or in the
\* store; it is dropped only when the session was lost without the scan having
\* noticed a failure, never because the window took it too early, too late or
\* twice (handleModbusScanDone, runModbusScan, handleDestroyMessage).
ResultOnce ==
  /\ TypeOK
  /\ window # "exited" =>
      /\ \A d \in dropped : d.state = "Faulted" /\ ~d.result.serialFailed
      /\ scan > 0 /\ pc \in {"notify", "ended"} =>
           \/ slot.scan = scan
           \/ scan \in results
           \/ \E d \in dropped : d.result.scan = scan

\* A disconnect that was put off until the scan ends is carried out, or the
\* session is lost first: even if Done is never delivered and the thread misses
\* the join budget (disconnectSerial, handleTimerMessage, handleModbusScanDone).
DisconnectHappens == disconnectAfter ~> ~IsOpen

\* The docs: the poll timer is "restarted when scan UI returns to idle and the
\* serial port is open".  The code starts it only if the port is open at that
\* moment, and no open or reconnect starts it (main_window_modbus.cpp:380).
OpenIsPolled == Alive /\ IsOpen /\ ~running => poll
=============================================================================
