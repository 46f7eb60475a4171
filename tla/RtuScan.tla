-------------------------------- MODULE RtuScan --------------------------------
(***************************************************************************)
(* A Modbus scan: the executor (core/modbus_scan_executor_core.cpp) runs   *)
(* the blocks of a plan, each in up to retryCount + 1 attempts, and each   *)
(* attempt is one exchange of the transport                                *)
(* (transport/serial_rtu_transport.cpp) over the byte stream of a session. *)
(*                                                                         *)
(* Around the scan: a user who may cancel it, a session that may be lost   *)
(* and replaced by another one, a device that answers in one piece or two, *)
(* late or never, and a clock that ends the time of an exchange.           *)
(***************************************************************************)
EXTENDS ScanPlan, FiniteSets, SequencesExt

CONSTANTS
    Options,          \* the options of the plan
    RetryOn,          \* attempt statuses that are retried (ScanExecutionOptions)
    ContinueOnError   \* continueOnBlockError

ASSUME ScanOptions ==
    /\ BuildScanPlan(Options) # << >>
    /\ BuildScanPlan(Options) \in Seq([start : Nat, quantity : Nat])
    /\ RetryOn \subseteq {"Timeout", "TransportError", "ParseError", "ModbusException"}
    /\ ContinueOnError \in BOOLEAN

Plan == BuildScanPlan(Options)
MaxAttempts == Options.retryCount + 1
MaxRequests == Len(Plan) * MaxAttempts

VARIABLES
    cancel,       \* the flag the user sets: modbusScanCancelRequested_
    session,      \* "mine", then "lost", then "other": what generationIsCurrent sees
    wire,         \* parts of answers received by the driver and not yet read
    due,          \* answers the device has not (completely) sent
    expired,      \* the deadline of the exchange has passed
    pc,           \* where the scan thread is
    res,          \* result of the last byte stream call
    response,     \* parts read in this exchange
    status,       \* RtuTransportExchange::status
    cancelObserved, serialFailed,       \* of the transport
    sent,         \* requests written
    attempt,      \* attempts of the current block: how many, and the status of the last
    blocks,       \* the same of the finished blocks
    cancelled,    \* the executor has seen a cancellation
    result,       \* "none", or the status of the finished execution
    \* history
    gaveUp,       \* an attempt ended at its deadline or by a failure of the transport
    stolen,       \* before that an attempt took the answer of another request
    missing,      \* bytes were read and not reported to onIoEvidence
    afterCancel   \* requests written after cancel was set

stream == <<session, wire, due, expired>>
transport == <<res, response, status, cancelObserved, serialFailed>>
executor == <<attempt, blocks, cancelled, result>>
history == <<gaveUp, stolen, missing, afterCancel>>
vars == <<cancel, stream, pc, transport, sent, executor, history>>

Block == Len(blocks) + 1                 \* position in the plan
\* A part of an answer; "own" as long as no other request has been written since.
Parts == [of : {"own", "older", "foreign"}, piece : {"whole", "head", "tail"},
          kind : {"data", "exception"}, quantity : 1..MaxReadQuantity]
NoAttempt == [count |-> 0, last |-> "none"]
NoResult == [status |-> "none", mine |-> TRUE, bytes |-> << >>]

Init ==
    /\ cancel = FALSE
    /\ session = "mine"
    /\ wire = << >> /\ due = << >>
    /\ expired = FALSE
    /\ pc = "block"
    /\ res = NoResult
    /\ response = << >>
    /\ status = "none"
    /\ cancelObserved = FALSE /\ serialFailed = FALSE
    /\ sent = 0
    /\ attempt = NoAttempt /\ blocks = << >>
    /\ cancelled = FALSE /\ result = "none"
    /\ gaveUp = FALSE /\ stolen = FALSE /\ missing = FALSE
    /\ afterCancel = 0

----------------------------------------------------------------------------
(* The transport.                                                          *)

NeverCancelled == FALSE                   \* Mutant: the flag is never looked at.
CancellationRequested == cancel

Current == session = "mine"               \* generationCurrent
ResultMatches(r) == r.mine                \* resultMatchesGeneration

\* markCancelled and markGenerationChanged leave the same trace.
Observed == status' = "TransportError" /\ cancelObserved' = TRUE /\ UNCHANGED serialFailed
TransportFailed == status' = "TransportError" /\ serialFailed' = TRUE /\ UNCHANGED cancelObserved
Outcome(s) == status' = s /\ UNCHANGED <<cancelObserved, serialFailed>>

ExchangeBegins ==
    /\ pc = "begin"
    /\ expired' = FALSE
    /\ IF CancellationRequested \/ ~Current
       THEN Observed /\ pc' = "judge"
       ELSE Outcome("none") /\ pc' = "write"
    /\ UNCHANGED <<cancel, session, wire, due, res, response, sent, executor, history>>

\* What the device does with a request: an answer in one piece or in two, an
\* exception, or nothing.  It ignores requests while it has one to answer.
Answer(piece, kind) == <<[of |-> "own", piece |-> piece, kind |-> kind,
                          quantity |-> Plan[Block].quantity]>>
Answers == {<< >>, Answer("whole", "data"), Answer("head", "data"), Answer("whole", "exception")}

Aged(parts) ==
    [i \in DOMAIN parts |->
        IF parts[i].of = "own" THEN [parts[i] EXCEPT !.of = "older"] ELSE parts[i]]

\* What writeBytes and readAvailable can return, and in which state of the session.
FailedCalls ==
    CASE session = "mine"  -> {"Failed"} \cup (IF cancel THEN {"Cancelled"} ELSE {})
                                         \cup (IF expired THEN {"Timeout"} ELSE {})
      [] session = "lost"  -> {"RejectedClosed", "Disconnected"}
      [] session = "other" -> {}

Result(s, read) == [status |-> s, mine |-> session # "other", bytes |-> read]

\* A request that is written in part is not answered.
RequestWritten ==
    /\ pc = "write"
    /\ \/ /\ session # "lost"
          /\ res' = Result("Succeeded", << >>)
          /\ \E answer \in IF session = "mine" /\ due = << >> THEN Answers ELSE {<< >>} :
               due' = Aged(due) \o answer
       \/ /\ \E s \in FailedCalls \cup (IF session = "mine" THEN {"Partial"} ELSE {}) :
               res' = Result(s, << >>)
          /\ due' = Aged(due)
    /\ wire' = Aged(wire)
    /\ sent' = sent + 1
    /\ afterCancel' = IF cancel THEN afterCancel + 1 ELSE afterCancel
    /\ pc' = "written"
    /\ UNCHANGED <<cancel, session, expired, response, status, cancelObserved,
                   serialFailed, executor, missing, gaveUp, stolen>>

\* The checks both calls are followed by, in their order.
SessionGone ==
    \/ ~ResultMatches(res)
    \/ ~CancellationRequested /\ ~Current /\ res.status \notin {"Cancelled", "Disconnected"}
    \/ ~CancellationRequested /\ res.status = "RejectedClosed"

Stopped == SessionGone \/ CancellationRequested \/ res.status = "Cancelled"

WriteChecked ==
    /\ pc = "written"
    /\ CASE Stopped -> Observed /\ pc' = "judge"
         [] ~Stopped /\ res.status # "Succeeded" -> TransportFailed /\ pc' = "judge"
         [] ~Stopped /\ res.status = "Succeeded" -> Outcome("Timeout") /\ pc' = "look"
    /\ res' = NoResult
    /\ UNCHANGED <<cancel, stream, response, sent, executor, history>>

\* The head of the loop.
NothingReceived == expired \/ wire = << >>    \* Mutant: an empty buffer ends the wait.
WaitForAnswer == FALSE                        \* Mutant: only an answer ends it.
WaitIsOver == expired

Look ==
    /\ pc = "look"
    /\ IF WaitIsOver
       THEN Outcome(status) /\ pc' = "finish"
       ELSE IF CancellationRequested \/ ~Current
            THEN Observed /\ pc' = "finish"
            ELSE Outcome(status) /\ pc' = "read"
    /\ UNCHANGED <<cancel, stream, res, response, sent, executor, history>>

\* readAvailable takes what the driver has, which may be nothing.
Read ==
    /\ pc = "read"
    /\ \/ /\ session # "lost"
          /\ res' = Result("Succeeded", wire)
          /\ wire' = << >>
       \/ /\ \E s \in FailedCalls : res' = Result(s, << >>)
          /\ UNCHANGED wire
    /\ pc' = "received"
    /\ UNCHANGED <<cancel, session, due, expired, response, status, cancelObserved,
                   serialFailed, sent, executor, history>>

Whole(parts) ==
    /\ parts # << >>
    /\ \/ parts[1].piece = "whole"
       \/ parts[1].piece = "head" /\ Len(parts) > 1 /\ parts[2].piece = "tail"

\* A buffer that begins in the middle of an answer, or in which something else
\* follows a head, may look complete at any length; no such frame has a right CRC.
Broken(parts) ==
    /\ parts # << >> /\ ~Whole(parts)
    /\ parts[1].piece = "tail" \/ Len(parts) > 1

\* The frame handed over: bytes behind a complete answer are cut off and lost.
Frame(parts) ==
    IF Whole(parts) THEN parts[1] ELSE [of |-> "none", kind |-> "garbage"]

\* onIoEvidence is called in every case but a session that has changed.
ReportedUnlessStopped == ResultMatches(res) /\ Current /\ ~CancellationRequested  \* Mutant
IsReported == ResultMatches(res) /\ (CancellationRequested \/ Current)

Received ==
    /\ pc = "received"
    /\ missing' = (missing \/ (~IsReported /\ res.bytes # << >>))
    /\ res' = NoResult
    /\ \/ /\ Stopped
          /\ response' = IF SessionGone THEN << >> ELSE response
          /\ Observed /\ pc' = "finish"
       \/ /\ ~Stopped /\ res.status = "Timeout"
          /\ Outcome(status) /\ pc' = "finish"
          /\ UNCHANGED response
       \/ /\ ~Stopped /\ res.status \notin {"Timeout", "Succeeded"}
          /\ TransportFailed /\ pc' = "finish"
          /\ UNCHANGED response
       \/ /\ ~Stopped /\ res.status = "Succeeded"
          /\ response' = response \o res.bytes
          /\ \/ /\ Whole(response') \/ Broken(response')
                /\ Outcome("Success") /\ pc' = "finish"
             \/ /\ ~Whole(response')
                /\ Outcome(status) /\ pc' = "look"
    /\ UNCHANGED <<cancel, stream, sent, executor, afterCancel, gaveUp, stolen>>

\* After the loop the generation is looked at twice more, the second time after
\* the response was moved into the exchange.
DiscardIfGone ==
    IF Current
    THEN UNCHANGED <<response, status, cancelObserved, serialFailed>>
    ELSE /\ response' = << >>
         /\ IF status = "TransportError"
            THEN UNCHANGED <<status, cancelObserved, serialFailed>>
            ELSE Observed

ExchangeEnds ==
    /\ \/ pc = "finish" /\ pc' = "deliver"
       \/ pc = "deliver" /\ pc' = "judge"
    /\ DiscardIfGone
    /\ UNCHANGED <<cancel, stream, res, sent, executor, history>>

----------------------------------------------------------------------------
(* The executor.                                                           *)

\* ScanExecutionOptions::shouldCancel, as the scan thread sets it.
ShouldCancel == CancellationRequested \/ cancelObserved \/ (serialFailed /\ ~Current)

Ok(tried) == tried.last = "Success"

BlockBegins ==
    /\ pc = "block"
    /\ attempt' = NoAttempt
    /\ IF Block > Len(Plan) \/ ShouldCancel
       THEN pc' = "end" /\ cancelled' = (Block <= Len(Plan))
       ELSE pc' = "attempt" /\ UNCHANGED cancelled
    /\ UNCHANGED <<cancel, stream, transport, sent, blocks, result, history>>

\* The end of a block's loop: a block that was never tried is not counted.
CloseBlock(tried, stopped) ==
    /\ blocks' = IF stopped /\ tried = NoAttempt THEN blocks ELSE Append(blocks, tried)
    /\ pc' = IF stopped \/ (~Ok(tried) /\ ~ContinueOnError) THEN "end" ELSE "block"

AttemptBegins ==
    /\ pc = "attempt"
    /\ IF ShouldCancel
       THEN cancelled' = TRUE /\ CloseBlock(attempt, TRUE)
       ELSE pc' = "begin" /\ UNCHANGED <<cancelled, blocks>>
    /\ UNCHANGED <<cancel, stream, transport, sent, attempt, result, history>>

\* attemptFromExchange, parseReadResponse, and what follows from them.
AttemptStatus ==
    IF status = "Success" THEN Parsed(Frame(response), Plan[Block].quantity) ELSE status

MayRetry(s) == s \in RetryOn /\ attempt.count + 1 < MaxAttempts

\* The answer of another request, with no attempt before that could have left it.
Stolen ==
    /\ AttemptStatus \in {"Success", "ModbusException"}
    /\ \/ Frame(response).of = "foreign"
       \/ Frame(response).of = "older" /\ ~gaveUp

AttemptEnds ==
    /\ pc = "judge"
    /\ attempt' = [count |-> attempt.count + 1, last |-> AttemptStatus]
    /\ gaveUp' = (gaveUp \/ (expired /\ status = "Timeout") \/ status = "TransportError")
    /\ stolen' = (stolen \/ Stolen)
    /\ cancelled' = (AttemptStatus # "Success" /\ ShouldCancel)
    /\ IF cancelled' \/ ~MayRetry(AttemptStatus)
       THEN CloseBlock(attempt', cancelled')
       ELSE pc' = "attempt" /\ UNCHANGED blocks
    /\ response' = << >> /\ Outcome("none")
    /\ UNCHANGED <<cancel, stream, res, sent, result, missing, afterCancel>>

Successes == Cardinality({b \in DOMAIN blocks : Ok(blocks[b])})
Failures == Len(blocks) - Successes

\* Mutant: a scan without failures is complete.
StatusOfCounts ==
    CASE Failures = 0 -> "Completed"
      [] Failures > 0 /\ cancelled -> "Cancelled"
      [] Failures > 0 /\ ~cancelled /\ Successes > 0 -> "CompletedWithErrors"
      [] Failures > 0 /\ ~cancelled /\ Successes = 0 -> "Failed"

FinalStatus ==
    CASE cancelled -> "Cancelled"
      [] ~cancelled /\ Failures = 0 -> "Completed"
      [] ~cancelled /\ Failures > 0 /\ Successes > 0 -> "CompletedWithErrors"
      [] ~cancelled /\ Failures > 0 /\ Successes = 0 -> "Failed"

ScanFinished ==
    /\ pc = "end"
    /\ result' = FinalStatus
    /\ pc' = "done"
    /\ UNCHANGED <<cancel, stream, transport, sent, attempt, blocks, cancelled, history>>

----------------------------------------------------------------------------
(* The surroundings.                                                       *)

Cancel ==
    /\ ~cancel /\ pc # "done"
    /\ cancel' = TRUE
    /\ UNCHANGED <<stream, pc, transport, sent, executor, history>>

\* The device is lost, and another session may be opened, in which bytes come that
\* look like an answer.
SessionChanges ==
    /\ session = "mine" /\ pc # "done"
    /\ due' = << >>
    /\ \/ session' = "lost" /\ UNCHANGED wire
       \/ /\ session' = "other"
          /\ wire' = <<[of |-> "foreign", piece |-> "whole", kind |-> "data",
                        quantity |-> Plan[1].quantity]>>
    /\ UNCHANGED <<cancel, expired, pc, transport, sent, executor, history>>

\* (When exactly a part comes matters only to the next read.)
DeviceSends ==
    /\ pc \in {"look", "read"} /\ due # << >>
    /\ wire' = Append(wire, Head(due))
    /\ due' = IF Head(due).piece = "head"
              THEN <<[Head(due) EXCEPT !.piece = "tail"]>> \o Tail(due)
              ELSE Tail(due)
    /\ UNCHANGED <<cancel, session, expired, pc, transport, sent, executor, history>>

DeadlinePasses ==
    /\ ~expired /\ pc \in {"look", "read", "received"}
    /\ expired' = TRUE
    /\ UNCHANGED <<cancel, session, wire, due, pc, transport, sent, executor, history>>

ScanStep ==
    \/ ExchangeBegins \/ RequestWritten \/ WriteChecked \/ Look \/ Read \/ Received
    \/ ExchangeEnds \/ BlockBegins \/ AttemptBegins \/ AttemptEnds \/ ScanFinished

Next == ScanStep \/ Cancel \/ SessionChanges \/ DeviceSends \/ DeadlinePasses

\* The scan thread runs, its calls return, and time passes.
Fairness == WF_vars(ScanStep) /\ WF_vars(DeadlinePasses)

Spec == Init /\ [][Next]_vars /\ Fairness

----------------------------------------------------------------------------
TypeOK ==
    /\ cancel \in BOOLEAN /\ expired \in BOOLEAN /\ cancelled \in BOOLEAN
    /\ session \in {"mine", "lost", "other"}
    /\ Range(wire) \cup Range(due) \cup Range(response) \subseteq Parts
    /\ sent <= MaxRequests
    /\ Len(blocks) <= Len(Plan) /\ attempt.count <= MaxAttempts
    /\ afterCancel \in 0..MaxRequests
    /\ status \in {"none", "Success", "Timeout", "TransportError"}

\* Modbus answers carry no address: an answer counts for the request it was made
\* for, unless an earlier attempt of the scan gave its own answer up, because its
\* deadline had passed or its transport had failed (executor 225, transport 127).
AnswersTheRequest == ~stolen

\* The result of an execution tells what happened to every block of the plan:
\* completed means that each was read, cancelled is told apart from failed, and a
\* block that failed was tried as often as the policy asks (executor 186-330).
ResultTellsAll ==
    result # "none" =>
        /\ result = "Completed" <=> Successes = Len(Plan)
        /\ result = "Cancelled" => cancel \/ session # "mine"
        /\ result \in {"CompletedWithErrors", "Failed"} =>
              /\ Failures > 0
              /\ ContinueOnError => Len(blocks) = Len(Plan)
              /\ \A b \in DOMAIN blocks :
                    \/ blocks[b].last \notin RetryOn
                    \/ blocks[b].count = MaxAttempts
        /\ \A b \in DOMAIN blocks : blocks[b].count \in 1..MaxAttempts

\* Raw bytes are the evidence of a scan: whatever the scan read from its own
\* session was reported, with a cancellation in between too (transport 176-243).
ReadIsReported == missing => session # "mine"

\* A plan covers its range once: the blocks follow each other from the first to
\* the last address, none larger than allowed, and an accepted range is never
\* refused for one of its blocks (modbus_core 317-385).
PlanCoversRange ==
    (pc = "block" /\ sent = 0) =>      \* a fact about constants: looked at before the first request
    \A o \in [first : 0..MaxAddress, last : 0..MaxAddress,
              blockSize : 0..(MaxBlockSize + 1), retryCount : {0, MaxRetryCount + 1}] :
        LET plan == BuildScanPlan(o) IN
        /\ PlanAccepted(o) <=> plan # << >>
        /\ plan # << >> =>
              /\ plan[1].start = o.first
              /\ Last(plan).start + Last(plan).quantity - 1 = o.last
              /\ \A i \in 2..Len(plan) : plan[i].start = plan[i-1].start + plan[i-1].quantity
              /\ \A i \in DOMAIN plan : plan[i].quantity \in 1..o.blockSize

\* Requests are written for the attempts the policy asks for and no others: not
\* one too many for a block, and after the user cancelled at most the one that
\* was on its way (executor 83, 228; transport 62).
RequestsAreWanted == TypeOK /\ afterCancel <= 1

\* Every scan ends, whatever the device, the session and the user do.
Ends == <>(pc = "done")
=============================================================================
