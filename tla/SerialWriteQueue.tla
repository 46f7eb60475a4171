---------------------------- MODULE SerialWriteQueue ----------------------------
(***************************************************************************)
(* svm::transport::SerialWriteQueue on its own: every legal sequence of    *)
(* calls of its public operations (src/transport/serial_write_queue.h).    *)
(* The object has no lock of its own; its owner calls it under one, so a   *)
(* call is one step.  A call that is refused leaves the object as it was   *)
(* and is a stuttering step here.                                          *)
(***************************************************************************)
EXTENDS SerialWriteQueueOps

CONSTANTS
    MaxGeneration,     \* largest generation a caller uses
    PayloadSizes,      \* lengths of the payloads callers pass
    TimeoutValues      \* values callers pass as timeoutMs

ASSUME CallerConstants ==
    /\ MaxGeneration \in Nat
    /\ PayloadSizes \subseteq Nat
    /\ TimeoutValues \subseteq Int

VARIABLES
    queue,             \* the object
    size,              \* history: size[id] = payload length of an accepted id, else 0
    results            \* history: results[id] = terminal results returned for id, in order

vars == <<queue, size, results>>

Generations == 0 .. MaxGeneration
Requests == [id : RequestIds, generation : Generations, bytes : Nat \ {0}]
Result(status, bytes) == [status |-> status, bytes |-> bytes]
Results == [status : TerminalStatuses, bytes : Nat]

TypeOK ==
    /\ queue \in [ generation     : Generations,
                   nextRequestId  : 0 .. MaxRequestId,
                   pending        : Seq(Requests),
                   pendingBytes   : Int,
                   active         : Requests \cup {NoRequest},
                   highWaterCount : Nat,
                   highWaterBytes : Int ]
    /\ size \in [RequestIds -> Nat]
    /\ results \in [RequestIds -> Seq(Results)]

Init ==
    /\ queue = NewQueue
    /\ size = [id \in RequestIds |-> 0]
    /\ results = [id \in RequestIds |-> << >>]

-----------------------------------------------------------------------------
DoBeginGeneration(g) ==
    /\ CanBeginGeneration(queue, g)
    /\ queue' = BeginGeneration(queue, g)
    /\ UNCHANGED <<size, results>>

DoReserveRequestId ==
    /\ queue.nextRequestId # Unassigned
    /\ queue' = ReserveRequestId(queue)
    /\ UNCHANGED <<size, results>>

DoEnqueue(bytes, timeoutMs, g) ==
    /\ EnqueueStatus(queue, bytes, timeoutMs, g) = "Accepted"
    /\ queue' = Enqueue(queue, bytes, g)
    /\ size' = [size EXCEPT ![queue.nextRequestId] = bytes]
    /\ UNCHANGED results

DoActivateNext ==
    /\ CanActivate(queue)
    /\ queue' = ActivateNext(queue)
    /\ UNCHANGED <<size, results>>

DoCancelPending(id) ==
    /\ IsPending(queue, id)
    /\ queue' = CancelPending(queue, id)
    /\ results' = [results EXCEPT ![id] = Append(@, Result("Cancelled", 0))]
    /\ UNCHANGED size

\* Delegates to the cancellation by id once the token matches.
DoCancelToken(id, g) ==
    /\ IsTokenPending(queue, id, g)
    /\ DoCancelPending(id)

DoCancelAllPending ==
    /\ queue.pending # << >>
    /\ queue' = CancelAllPending(queue)
    /\ results' = [id \in RequestIds |->
                      IF IsPending(queue, id)
                      THEN Append(results[id], Result("Cancelled", 0))
                      ELSE results[id]]
    /\ UNCHANGED size

\* The caller may pass any id, generation, status and count: what does not
\* match the active reservation is refused.
DoCompleteActive(id, g, status, bytes) ==
    /\ CompletionAccepted(queue, id, g, status, bytes)
    /\ queue' = CompleteActive(queue)
    /\ results' = [results EXCEPT ![id] =
                      Append(@, Result(CompletedStatus(queue, status, bytes), bytes))]
    /\ UNCHANGED size

Next ==
    \/ \E g \in Generations : DoBeginGeneration(g)
    \/ DoReserveRequestId
    \/ \E bytes \in PayloadSizes, timeoutMs \in TimeoutValues, g \in Generations :
           DoEnqueue(bytes, timeoutMs, g)
    \/ DoActivateNext
    \/ \E id \in RequestIds : DoCancelPending(id)
    \/ \E id \in RequestIds, g \in Generations : DoCancelToken(id, g)
    \/ DoCancelAllPending
    \/ \E id \in RequestIds, g \in Generations,
          status \in TerminalStatuses \cup {"Accepted"}, bytes \in PayloadSizes \cup {0} :
           DoCompleteActive(id, g, status, bytes)

Spec == Init /\ [][Next]_vars

-----------------------------------------------------------------------------
Accepted(id) == size[id] > 0
Outstanding(id) == IsPending(queue, id) \/ queue.active.id = id

\* An id the caller was told is accepted is still in the queue or has had
\* exactly one terminal result, never both, never none and never two; an id
\* that was not accepted gets none.  (activateNext, the three cancellations and
\* completeActive each take a request out of one place; docs/架构说明.md:13.)
ExactlyOneResult ==
    \A id \in RequestIds :
        Len(results[id]) = IF Accepted(id) /\ ~Outstanding(id) THEN 1 ELSE 0

\* Requests leave in the order they came, across cancellations out of the
\* middle, and an id is given out once: ids rise along the queue from the active
\* request on, and the next id is higher than any accepted before, until the
\* counter has reached its end and stays there (TypeOK bounds it).
FirstInFirstOut ==
    /\ TypeOK
    /\ InOrder(queue)
    /\ queue.nextRequestId # Unassigned =>
           \A id \in RequestIds : Accepted(id) => id < queue.nextRequestId

\* The work the queue answers for, the active request included, stays within
\* both limits, and so do the high-water marks, which are never below it
\* (enqueue tests differences of size_t to get there without overflow).  And
\* pendingBytes_, kept by increments and decrements of an unsigned counter, is
\* always the total of the pending payloads, so it never wraps below zero.
WithinLimits == InLimits(queue) /\ Accounted(queue)

\* Everything outstanding belongs to the generation the queue is in, whether
\* the generation was begun or adopted by the first enqueue.
OneGeneration == InOneGeneration(queue)
=============================================================================
