-------------------------- MODULE SerialWriteQueueOps --------------------------
(***************************************************************************)
(* The operations of svm::transport::SerialWriteQueue as operators on the  *)
(* value of the queue object (src/transport/serial_write_queue.cpp).       *)
(*                                                                         *)
(* A C++ method that returns a result and changes the object is given by   *)
(* two operators: one says what is returned (EnqueueStatus,                *)
(* CompletionAccepted, ...), the other the object it leaves behind.  The   *)
(* queue on its own is the specification SerialWriteQueue; the session     *)
(* that owns a queue (SerialSession) composes the same operators.          *)
(*                                                                         *)
(* A payload is abstracted to its length.  Deadlines are stored by the     *)
(* queue and never looked at, so they do not appear.                       *)
(***************************************************************************)
EXTENDS Integers, Sequences, SequencesExt

CONSTANTS
    RequestCapacity,   \* SerialWriteQueueLimits::requestCapacity
    ByteCapacity,      \* SerialWriteQueueLimits::byteCapacity
    MaxRequestId       \* numeric_limits<SerialWriteRequestId>::max()

ASSUME QueueConstants ==
    /\ RequestCapacity \in Nat
    /\ ByteCapacity \in Nat
    /\ MaxRequestId \in Nat \ {0}

RequestIds == 1 .. MaxRequestId

\* kUnassignedSerialOperationId and kUnassignedSerialSessionGeneration.
Unassigned == 0

TerminalStatuses ==
    {"Sent", "Failed", "Timeout", "Cancelled", "Disconnected", "Closed"}
RejectedStatuses == {"RejectedInvalid", "RejectedFull"}

\* An empty std::optional<ActiveReservation>: ids of requests start at 1.
NoRequest == [id |-> Unassigned, generation |-> Unassigned, bytes |-> 0]

LimitsValid == RequestCapacity > 0 /\ ByteCapacity > 0

NewQueue ==
    [ generation     |-> Unassigned,
      nextRequestId  |-> 1,
      pending        |-> << >>,
      pendingBytes   |-> 0,
      active         |-> NoRequest,
      highWaterCount |-> 0,
      highWaterBytes |-> 0 ]

HasActive(q) == q.active.id # Unassigned
CountedCount(q) == Len(q.pending) + (IF HasActive(q) THEN 1 ELSE 0)
CountedBytes(q) == q.pendingBytes + q.active.bytes
IsEmpty(q) == q.pending = << >> /\ ~HasActive(q)

\* SerialWriteQueueSnapshot::full()
Full(q) ==
    \/ ~LimitsValid
    \/ CountedCount(q) >= RequestCapacity
    \/ CountedBytes(q) >= ByteCapacity

Higher(a, b) == IF a >= b THEN a ELSE b

-----------------------------------------------------------------------------
\* Generations

\* Mutant: only the pending requests are looked at.
CanBeginWithActive(q, g) == g # Unassigned /\ q.pending = << >>

CanBeginGeneration(q, g) == g # Unassigned /\ IsEmpty(q)

BeginGeneration(q, g) ==
    [q EXCEPT !.generation = g, !.highWaterCount = 0, !.highWaterBytes = 0]

-----------------------------------------------------------------------------
\* Admission

\* The counter saturates: after the largest id it holds 0, and stays there.
NextId(id) == IF id = Unassigned \/ id = MaxRequestId THEN Unassigned ELSE id + 1

ReserveRequestId(q) == [q EXCEPT !.nextRequestId = NextId(@)]

\* Mutant: the active request does not count.
EnqueueStatusPendingOnly(q, bytes, timeoutMs, g) ==
    IF bytes = 0 \/ timeoutMs <= 0 \/ ~LimitsValid \/ g # q.generation
    THEN "RejectedInvalid"
    ELSE IF \/ Len(q.pending) >= RequestCapacity
            \/ q.pendingBytes + bytes > ByteCapacity
    THEN "RejectedFull"
    ELSE IF q.nextRequestId = Unassigned THEN "RejectedInvalid" ELSE "Accepted"

EnqueueStatus(q, bytes, timeoutMs, g) ==
    IF \/ bytes = 0
       \/ timeoutMs <= 0
       \/ ~LimitsValid
       \/ g # q.generation /\ (~IsEmpty(q) \/ q.generation # Unassigned)
    THEN "RejectedInvalid"
    ELSE IF \/ CountedCount(q) >= RequestCapacity
            \/ bytes > ByteCapacity
            \/ CountedBytes(q) > ByteCapacity - bytes
    THEN "RejectedFull"
    ELSE IF q.nextRequestId = Unassigned THEN "RejectedInvalid" ELSE "Accepted"

\* The queue after an enqueue whose status is "Accepted".
Enqueue(q, bytes, g) ==
    LET adopts == q.generation = Unassigned /\ g # Unassigned
    IN  [ generation     |-> IF adopts THEN g ELSE q.generation,
          nextRequestId  |-> NextId(q.nextRequestId),
          pending        |-> Append(q.pending, [id |-> q.nextRequestId,
                                                generation |-> g,
                                                bytes |-> bytes]),
          pendingBytes   |-> q.pendingBytes + bytes,
          active         |-> q.active,
          highWaterCount |-> Higher(IF adopts THEN 0 ELSE q.highWaterCount,
                                    CountedCount(q) + 1),
          highWaterBytes |-> Higher(IF adopts THEN 0 ELSE q.highWaterBytes,
                                    CountedBytes(q) + bytes) ]

-----------------------------------------------------------------------------
\* Activation, cancellation and completion

CanActivate(q) == ~HasActive(q) /\ q.pending # << >>

\* Mutant: the newest request first.
ActivateNewest(q) ==
    [q EXCEPT !.pending = Front(@),
              !.pendingBytes = @ - Last(q.pending).bytes,
              !.active = Last(q.pending)]

ActivateNext(q) ==
    [q EXCEPT !.pending = Tail(@),
              !.pendingBytes = @ - Head(q.pending).bytes,
              !.active = Head(q.pending)]

PendingIndices(q, id) == {i \in DOMAIN q.pending : q.pending[i].id = id}
IsPending(q, id) == PendingIndices(q, id) # {}

\* std::find_if: the first pending request with that id.
CancelPending(q, id) ==
    LET i == CHOOSE i \in PendingIndices(q, id) :
                 \A j \in PendingIndices(q, id) : i <= j
    IN  [q EXCEPT !.pending = RemoveAt(@, i),
                  !.pendingBytes = @ - q.pending[i].bytes]

\* cancelPending(SerialWriteCancellationToken): the id and the generation match.
IsTokenPending(q, id, g) ==
    \E i \in PendingIndices(q, id) : q.pending[i].generation = g

\* Mutant: the results are made, the requests stay.
CancelAllPendingKeeps(q) == [q EXCEPT !.pendingBytes = 0]

CancelAllPending(q) == [q EXCEPT !.pending = << >>, !.pendingBytes = 0]

CompletionAccepted(q, id, g, status, bytes) ==
    /\ status \in TerminalStatuses
    /\ HasActive(q)
    /\ q.active.id = id
    /\ q.active.generation = g
    /\ bytes <= q.active.bytes

\* A short "Sent" is reported as a failure.
CompletedStatus(q, status, bytes) ==
    IF status = "Sent" /\ bytes # q.active.bytes THEN "Failed" ELSE status

\* Mutant: the reservation is not released.
CompleteActiveKeeps(q) == q

CompleteActive(q) == [q EXCEPT !.active = NoRequest]

-----------------------------------------------------------------------------
\* What the operations maintain, as predicates on a queue.  The properties of
\* SerialWriteQueue are stated with them.

\* Ids rise along the queue, the active request is older than every pending
\* one, and the next id (unless they are used up) is higher than all of them.
InOrder(q) ==
    /\ \A i, j \in DOMAIN q.pending : i < j => q.pending[i].id < q.pending[j].id
    /\ \A i \in DOMAIN q.pending : q.active.id < q.pending[i].id
    /\ q.nextRequestId # Unassigned =>
           /\ q.active.id < q.nextRequestId
           /\ \A i \in DOMAIN q.pending : q.pending[i].id < q.nextRequestId

\* Everything outstanding belongs to the generation the queue is in.
InOneGeneration(q) ==
    /\ \A i \in DOMAIN q.pending : q.pending[i].generation = q.generation
    /\ HasActive(q) => q.active.generation = q.generation

\* pendingBytes is where the running totals of the pending requests end.
RunningTotals(q, total) ==
    /\ total[0] = 0
    /\ \A i \in 1 .. Len(q.pending) : total[i] = total[i - 1] + q.pending[i].bytes
    /\ \A i, j \in 0 .. Len(q.pending) : i <= j => total[i] <= total[j]
    /\ total[Len(q.pending)] = q.pendingBytes

Accounted(q) ==
    \E total \in [0 .. Len(q.pending) -> 0 .. q.pendingBytes] : RunningTotals(q, total)

\* The load is within the high-water marks, and they within the limits.
InLimits(q) ==
    /\ CountedCount(q) <= q.highWaterCount
    /\ q.highWaterCount <= RequestCapacity
    /\ CountedBytes(q) <= q.highWaterBytes
    /\ q.highWaterBytes <= ByteCapacity
=============================================================================
