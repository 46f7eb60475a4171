-------------------------- MODULE SerialSessionProofs --------------------------
(***************************************************************************)
(* The inductive invariant of SerialSession, and the theorems that follow. *)
(*                                                                         *)
(* The first part proves, action by action, what concerns the session      *)
(* itself: its life cycle, its port, its threads and the write in progress *)
(* (SessionInv).  The second is about results, generations and the wire:   *)
(* what becomes of a request, what is written, and that the session        *)
(* implements the ledger of WriteLedger.  There a step is first reduced to *)
(* what it does to the requests (Effects): every action of the session has *)
(* one of six.  The parts of the invariant about results are then proved   *)
(* for those six only.                                                     *)
(***************************************************************************)
EXTENDS SerialSession, SerialWriteQueueLemmas

-----------------------------------------------------------------------------
\* The parts of the invariant

OpeningPlaces == {"openCreate", "openCommit", "openFailed"}
ClosingPlaces == {"closeStop", "closeWake", "closeJoin", "closeAbandon",
                  "closeFaulted", "closeReap", "closeHandle", "closeEnd"}
LockedPlaces == OpeningPlaces \cup {"openUndo"} \cup ClosingPlaces
NativePlaces == {"readNative", "lineNative", "writeNative"}
IoPlaces == NativePlaces \cup
    {"readAcquire", "lineAcquire", "lineOption", "writeReserve", "writeCheck",
     "writeAcquire", "ioDisconnected"}

CallStates ==
    [pc : {"idle"} \cup LockedPlaces \cup IoPlaces, generation : Generations,
     category : Categories, clean : BOOLEAN, on : BOOLEAN, id : 0 .. MaxRequestId]

BusyPlaces == {"start", "acquire", "native", "disconnected", "finish"}

WorkerStates ==
    [pc : {"none", "check", "wait"} \cup BusyPlaces,
     request : RequestsIn(Generations) \cup {NoRequest},
     outcome : [ok : BOOLEAN, category : Categories, bytes : Nat]]

\* Every variable but the histories holds a value of its type.
Typed ==
    /\ state \in States
    /\ generation \in Generations
    /\ generationCounter \in Generations
    /\ handle \in BOOLEAN
    /\ Sound(queue, Generations)
    /\ completedWrites \in Seq([id : RequestIds, status : Statuses])
    /\ activeWrite \in [id : RequestIds, generation : Generations, published : BOOLEAN]
                       \cup {NoWrite}
    /\ activeCancellation \in Categories
    /\ stopRequested \in BOOLEAN
    /\ thread \in {"null", "running", "ended"}
    /\ wakeEvent \in {"null", "clear", "set"}
    /\ lifecycleLock \in Callers \cup {NoOne}
    /\ ioLock \in Callers \cup {NoOne, Worker}
    /\ lineOption \in BOOLEAN
    /\ line \in BOOLEAN
    /\ port \in {PortClosed} \cup Generations
    /\ call \in [Callers -> CallStates]
    /\ worker \in WorkerStates

\* The histories, too.
HistoriesTyped ==
    /\ account \in [RequestIds -> Seq(Statuses)]
    /\ accepted \subseteq RequestIds
    /\ wire \in Seq(RequestIds)
    /\ sent \subseteq RequestIds
    /\ lost \subseteq Generations

\* open and close hold lifecycleLock_ from their first step to their last, and
\* say what state the session is in meanwhile.
Lifecycle ==
    /\ \A c \in Callers : call[c].pc \in LockedPlaces <=> lifecycleLock = c
    /\ lifecycleLock = NoOne => state \in {"Closed", "Open", "Faulted"}
    /\ \A c \in Callers :
           /\ call[c].pc \in OpeningPlaces => state = "Opening"
           /\ At(c, "openUndo") => state = "Faulted"
           /\ call[c].pc \in ClosingPlaces => state \in {"Closing", "Faulted"}

\* An open session has the port it opened; a thread that uses the port has it
\* for itself.
PortOwned ==
    /\ handle <=> port # PortClosed
    /\ state = "Open" => port = generation /\ generation # Unassigned
    /\ state = "Closed" => port = PortClosed
    /\ \A c \in Callers :
           /\ At(c, "openCreate") => port = PortClosed
           /\ At(c, "openCommit") => port = PortIdle
           /\ At(c, "closeEnd") /\ call[c].clean => port = PortClosed
           /\ call[c].pc \in NativePlaces => port \notin {PortClosed, PortIdle}
    /\ WorkerAt("native") => port \notin {PortClosed, PortIdle}
    /\ HandleIsCurrent

\* The worker runs while the session needs it; told to stop, it finds no work.
Threads ==
    /\ thread = "running" <=> ~WorkerAt("none")
    /\ thread = "running" => wakeEvent # "null"
    /\ \A c \in Callers :
           /\ call[c].pc \in {"closeWake", "closeJoin", "closeAbandon", "closeFaulted",
                              "closeReap"} => stopRequested
           /\ call[c].pc \in {"closeReap", "closeHandle", "closeEnd"} => thread # "running"
           /\ call[c].pc \in {"closeHandle", "closeEnd"} =>
                  ~stopRequested /\ activeCancellation = "None"
           /\ call[c].pc \in {"closeHandle", "closeEnd"} /\ call[c].clean => thread = "null"
    /\ state \in {"Closed", "Opening"} => thread = "null"
    /\ state = "Open" => thread # "ended"
    /\ state \in {"Closed", "Opening", "Open"} =>
           ~stopRequested /\ activeCancellation = "None"
    /\ stopRequested \/ thread # "running" => queue.pending = << >>
    /\ WorkerAt("wait") /\ queue.pending # << >> => wakeEvent = "set"

\* The three records of the write in progress agree.
WriteAgrees ==
    /\ ActiveAgrees
    /\ worker.pc \in BusyPlaces => worker.outcome.bytes <= worker.request.bytes

SessionInv == Typed /\ Lifecycle /\ PortOwned /\ Threads /\ WriteAgrees

-----------------------------------------------------------------------------
\* What the operations of the queue leave behind, as far as the session needs
\* to know.

\* The same requests are in it, in the same places.
SameRequests(q, r) ==
    /\ r.pending = << >> <=> q.pending = << >>
    /\ r.active = q.active
    /\ \A id : IsPending(r, id) <=> IsPending(q, id)

LEMMA EmptyMeans ==
    ASSUME NEW G, NEW q \in QueuesIn(G)
    PROVE  q.pending = << >> <=> \A id : ~IsPending(q, id)
<1>1. q.pending \in Seq(RequestsIn(G)) /\ DOMAIN q.pending = 1 .. Len(q.pending)
  BY QueueFacts DEF QueuesIn
<1>2. ASSUME q.pending # << >>
      PROVE  \E id : IsPending(q, id)
  <2>1. Len(q.pending) \in Nat /\ Len(q.pending) # 0
    BY <1>1, <1>2, EmptySeq, LenProperties
  <2>2. 1 \in 1 .. Len(q.pending)
    BY <2>1
  <2>3. IsPending(q, q.pending[1].id)
    BY <2>2, PendingMeaning
  <2> QED
    BY <2>3
<1>3. ASSUME q.pending = << >>, NEW id
      PROVE  ~IsPending(q, id)
  <2>1. DOMAIN q.pending = {}
    BY <1>3
  <2> QED
    BY <2>1 DEF IsPending, PendingIndices
<1> QED
  BY <1>2, <1>3

LEMMA BeginGenerationFacts ==
    ASSUME NEW G, NEW q, NEW g \in G, Sound(q, G), CanBeginGeneration(q, g)
    PROVE  LET r == BeginGeneration(q, g)
           IN  /\ Sound(r, G)
               /\ SameRequests(q, r)
               /\ r.nextRequestId = q.nextRequestId
<1>1. Sound(BeginGeneration(q, g), G)
  BY BeginGenerationSound
<1>2. q \in QueuesIn(G)
  BY DEF Sound
<1>3. /\ BeginGeneration(q, g).pending = q.pending
      /\ BeginGeneration(q, g).active = q.active
      /\ BeginGeneration(q, g).nextRequestId = q.nextRequestId
  BY <1>2 DEF BeginGeneration, QueuesIn
<1> QED
  BY <1>1, <1>3 DEF SameRequests, IsPending, PendingIndices

LEMMA ReserveFacts ==
    ASSUME NEW G, NEW q, Sound(q, G)
    PROVE  LET r == ReserveRequestId(q)
           IN  /\ Sound(r, G)
               /\ SameRequests(q, r)
               /\ r.nextRequestId = NextId(q.nextRequestId)
<1>1. Sound(ReserveRequestId(q), G)
  BY ReserveRequestIdSound
<1>2. q \in QueuesIn(G)
  BY DEF Sound
<1>3. /\ ReserveRequestId(q).pending = q.pending
      /\ ReserveRequestId(q).active = q.active
      /\ ReserveRequestId(q).nextRequestId = NextId(q.nextRequestId)
  BY <1>2 DEF ReserveRequestId, QueuesIn
<1> QED
  BY <1>1, <1>3 DEF SameRequests, IsPending, PendingIndices

LEMMA CancelAllFacts ==
    ASSUME NEW G, NEW q, Sound(q, G)
    PROVE  LET r == CancelAllPending(q)
           IN  /\ Sound(r, G)
               /\ r.pending = << >>
               /\ r.active = q.active
               /\ r.nextRequestId = q.nextRequestId
               /\ \A id : ~IsPending(r, id)
<1>1. Sound(CancelAllPending(q), G)
  BY CancelAllPendingSound
<1>2. q \in QueuesIn(G)
  BY DEF Sound
<1>3. CancelAllPending(q).pending = << >>
  BY <1>2 DEF CancelAllPending, QueuesIn
<1> QED
  BY <1>1, <1>3, CancelAllPendingIds

LEMMA CompleteFacts ==
    ASSUME NEW G, NEW q, Sound(q, G), HasActive(q)
    PROVE  LET r == CompleteActive(q)
           IN  /\ Sound(r, G)
               /\ r.pending = q.pending
               /\ r.active = NoRequest
               /\ r.nextRequestId = q.nextRequestId
               /\ \A id : IsPending(r, id) <=> IsPending(q, id)
<1>1. Sound(CompleteActive(q), G)
  BY CompleteActiveSound
<1>2. q \in QueuesIn(G)
  BY DEF Sound
<1>3. /\ CompleteActive(q).pending = q.pending
      /\ CompleteActive(q).active = NoRequest
  BY <1>2 DEF CompleteActive, QueuesIn
<1> QED
  BY <1>1, <1>3, CompleteActiveIds

\* The request that becomes active was the first pending one.
LEMMA ActivateFacts ==
    ASSUME NEW G, NEW q, Sound(q, G), CanActivate(q)
    PROVE  LET r == ActivateNext(q)
           IN  /\ Sound(r, G)
               /\ r.active \in RequestsIn(G)
               /\ r.active.id \in RequestIds
               /\ r.nextRequestId = q.nextRequestId
               /\ IsPending(q, r.active.id)
               /\ \A id : IsPending(r, id) => IsPending(q, id) /\ r.active.id < id
               /\ \A id : IsPending(q, id) => IsPending(r, id) \/ id = r.active.id
<1> DEFINE r == ActivateNext(q)
<1>1. q \in QueuesIn(G) /\ Sound(r, G) /\ r \in QueuesIn(G)
  BY ActivateNextSound DEF Sound
<1>2. q.pending \in Seq(RequestsIn(G)) /\ q.pending # << >>
  BY <1>1 DEF QueuesIn, CanActivate
<1>3. r.active = Head(q.pending) /\ r.nextRequestId = q.nextRequestId
  BY <1>1 DEF ActivateNext, QueuesIn
<1>4. r.active \in RequestsIn(G)
  BY <1>2, <1>3, HeadTailProperties
<1>5. r.active.id \in RequestIds
  BY <1>4 DEF RequestsIn
<1>6. Len(q.pending) \in Nat /\ 1 \in 1 .. Len(q.pending) /\ r.active = q.pending[1]
  BY <1>2, <1>3, EmptySeq, LenProperties
<1> HIDE DEF r
<1>7. IsPending(q, r.active.id)
  BY <1>1, <1>6, PendingMeaning
<1>8. \A id \in RequestIds :
          IsPending(r, id) \/ r.active.id = id <=> IsPending(q, id) \/ q.active.id = id
  BY ActivateNextIds DEF r
<1>9. q.active.id \notin RequestIds
  BY QueueConstants DEF CanActivate, HasActive, RequestIds, Unassigned
<1>10. ASSUME NEW id, IsPending(r, id)
       PROVE  IsPending(q, id) /\ r.active.id < id
  <2>1. id \in RequestIds
    BY <1>1, <1>10, PendingIds
  <2>2. PICK i \in 1 .. Len(r.pending) : r.pending[i].id = id
    BY <1>1, <1>10, PendingMeaning
  <2>3. DOMAIN r.pending = 1 .. Len(r.pending)
    BY <1>1, QueueFacts
  <2> QED
    BY <1>1, <1>8, <1>9, <1>10, <2>1, <2>2, <2>3 DEF Sound, InOrder
<1>11. ASSUME NEW id, IsPending(q, id)
       PROVE  IsPending(r, id) \/ id = r.active.id
  <2>1. id \in RequestIds
    BY <1>11, PendingIds
  <2> QED
    BY <1>8, <1>11, <2>1
<1> QED
  BY <1>1, <1>3, <1>4, <1>5, <1>7, <1>10, <1>11 DEF r

LEMMA EnqueueFacts ==
    ASSUME NEW G, NEW q, NEW bytes \in Nat, NEW g \in G,
           Sound(q, G), EnqueueStatus(q, bytes, 1, g) = "Accepted"
    PROVE  LET r == Enqueue(q, bytes, g)
           IN  /\ Sound(r, G)
               /\ r.active = q.active
               /\ q.nextRequestId \in RequestIds
               /\ r.nextRequestId = NextId(q.nextRequestId)
               /\ \A id : IsPending(r, id) <=> IsPending(q, id) \/ id = q.nextRequestId
<1>1. Sound(Enqueue(q, bytes, g), G)
  BY EnqueueSound
<1>2. q.nextRequestId \in RequestIds
  <2>1. q \in QueuesIn(G)
    BY DEF Sound
  <2> QED
    BY <2>1, EnqueueGuard
<1>3. /\ Enqueue(q, bytes, g).active = q.active
      /\ Enqueue(q, bytes, g).nextRequestId = NextId(q.nextRequestId)
  BY DEF Enqueue
<1>4. \A id : IsPending(Enqueue(q, bytes, g), id) <=> IsPending(q, id) \/ id = q.nextRequestId
  BY EnqueueIds
<1> QED
  BY <1>1, <1>2, <1>3, <1>4

\* A request that is admitted and taken out again leaves only its id used.
LEMMA WithdrawFacts ==
    ASSUME NEW G, NEW q, NEW bytes \in Nat, NEW g \in G,
           Sound(q, G), EnqueueStatus(q, bytes, 1, g) = "Accepted"
    PROVE  LET r == CancelPending(Enqueue(q, bytes, g), q.nextRequestId)
           IN  /\ Sound(r, G)
               /\ SameRequests(q, r)
               /\ q.nextRequestId \in RequestIds
               /\ r.nextRequestId = NextId(q.nextRequestId)
<1> DEFINE p == Enqueue(q, bytes, g)
           new == q.nextRequestId
           r == CancelPending(p, new)
<1>1. /\ Sound(p, G)
      /\ p.active = q.active
      /\ new \in RequestIds
      /\ p.nextRequestId = NextId(new)
      /\ \A id : IsPending(p, id) <=> IsPending(q, id) \/ id = new
  BY EnqueueFacts
<1> HIDE DEF p
<1>2. IsPending(p, new)
  BY <1>1
<1>3. /\ Sound(r, G)
      /\ r.active = p.active
      /\ r.nextRequestId = p.nextRequestId
      /\ \A id : IsPending(r, id) <=> IsPending(p, id) /\ id # new
  <2>1. Sound(r, G)
    BY <1>1, <1>2, CancelPendingSound
  <2>2. ASSUME NEW id
        PROVE  /\ IsPending(r, id) <=> IsPending(p, id) /\ id # new
               /\ r.active = p.active
               /\ r.nextRequestId = p.nextRequestId
    BY <1>1, <1>2, CancelPendingIds
  <2> QED
    BY <2>1, <2>2
<1>4. ~IsPending(q, new)
  <2>1. SUFFICES ASSUME IsPending(q, new) PROVE FALSE
    OBVIOUS
  <2>2. q \in QueuesIn(G) /\ InOrder(q) /\ DOMAIN q.pending = 1 .. Len(q.pending)
    BY QueueFacts DEF Sound
  <2>3. PICK i \in 1 .. Len(q.pending) : q.pending[i].id = new
    BY <2>1, <2>2, PendingMeaning
  <2>4. new \in Int /\ new # Unassigned
    BY <1>1, QueueConstants DEF RequestIds, Unassigned
  <2>5. q.pending[i].id < new
    BY <2>2, <2>3, <2>4 DEF InOrder
  <2> QED
    BY <2>3, <2>4, <2>5
<1>5. \A id : IsPending(r, id) <=> IsPending(q, id)
  BY <1>1, <1>3, <1>4
<1>6. r.pending = << >> <=> q.pending = << >>
  <2>1. r \in QueuesIn(G) /\ q \in QueuesIn(G)
    BY <1>3 DEF Sound
  <2> HIDE DEF r
  <2> QED
    BY <1>5, <2>1, EmptyMeans
<1> HIDE DEF r
<1>7. SameRequests(q, r)
  BY <1>1, <1>3, <1>5, <1>6 DEF SameRequests
<1> QED
  BY <1>1, <1>3, <1>7 DEF p, r

-----------------------------------------------------------------------------
\* Results that are published are well-formed.
WriteResults == [id : RequestIds, status : Statuses]

LEMMA PendingResultsTyped ==
    ASSUME Typed, NEW status \in Statuses
    PROVE  PendingResults(status) \in Seq(WriteResults)
<1>1. queue \in QueuesIn(Generations)
  BY DEF Typed, Sound
<1>2. /\ DOMAIN queue.pending = 1 .. Len(queue.pending)
      /\ Len(queue.pending) \in Nat
      /\ \A i \in 1 .. Len(queue.pending) : queue.pending[i].id \in RequestIds
  BY <1>1, QueueFacts DEF RequestIds
<1>3. PendingResults(status) \in [1 .. Len(queue.pending) -> WriteResults]
  BY <1>2 DEF PendingResults, WriteResults
<1> QED
  BY <1>2, <1>3, SeqDef

LEMMA SettleFacts ==
    ASSUME Typed, NEW category, SettlePending(category)
    PROVE  /\ Sound(queue', Generations)
           /\ queue'.pending = << >>
           /\ queue'.active = queue.active
           /\ completedWrites' \in Seq(WriteResults)
<1>1. SettleStatus(category) \in Statuses
  BY DEF SettleStatus, Statuses
<1>2. PendingResults(SettleStatus(category)) \in Seq(WriteResults)
  BY <1>1, PendingResultsTyped
<1>3. completedWrites' \in Seq(WriteResults)
  BY <1>2, ConcatProperties DEF SettlePending, Typed, WriteResults
<1>4. queue' = CancelAllPending(queue)
  BY DEF SettlePending
<1> QED
  BY <1>3, <1>4, CancelAllFacts DEF Typed

\* What markGenerationDisconnected does to the session.
LEMMA MarkDisconnectedFacts ==
    ASSUME Typed, NEW g, MarkDisconnected(g)
    PROVE  /\ UNCHANGED <<generationCounter, handle, lineOption, activeWrite, thread>>
           /\ IsCurrent(g) =>
                  /\ state' = "Faulted"
                  /\ generation' = Unassigned
                  /\ stopRequested' = TRUE
                  /\ queue'.pending = << >>
           /\ ~IsCurrent(g) =>
                  UNCHANGED <<state, generation, stopRequested, activeCancellation, queue,
                              wakeEvent>>
           /\ wakeEvent' = wakeEvent \/ (wakeEvent # "null" /\ wakeEvent' = "set")
           /\ activeCancellation' \in Categories
           /\ Sound(queue', Generations)
           /\ queue'.active = queue.active
           /\ completedWrites' \in Seq(WriteResults)
<1>1. CASE IsCurrent(g)
  <2>1. SettlePending("Disconnected")
    BY <1>1 DEF MarkDisconnected
  <2>2. /\ Sound(queue', Generations)
        /\ queue'.pending = << >>
        /\ queue'.active = queue.active
        /\ completedWrites' \in Seq(WriteResults)
    BY <2>1, SettleFacts
  <2> QED
    BY <1>1, <2>2 DEF MarkDisconnected, Signalled, Typed, Categories
<1>2. CASE ~IsCurrent(g)
  BY <1>2 DEF MarkDisconnected, sessionVars, writeVars, threadVars, Typed, WriteResults
<1> QED
  BY <1>1, <1>2

-----------------------------------------------------------------------------
\* Where a caller goes.
Places == {"idle"} \cup LockedPlaces \cup IoPlaces

LEMMA GotoFacts ==
    ASSUME Typed, NEW c \in Callers, NEW pc \in Places, Goto(c, pc)
    PROVE  /\ call' \in [Callers -> CallStates]
           /\ call'[c].pc = pc
           /\ call'[c].generation = call[c].generation
           /\ call'[c].category = call[c].category
           /\ call'[c].clean = call[c].clean
           /\ call'[c].on = call[c].on
           /\ call'[c].id = call[c].id
           /\ \A d \in Callers : d # c => call'[d] = call[d]
<1>1. call \in [Callers -> CallStates] /\ call[c] \in CallStates
  BY DEF Typed
<1>2. [call[c] EXCEPT !.pc = pc] \in CallStates
  BY <1>1 DEF CallStates, Places
<1>3. call' = [call EXCEPT ![c] = [call[c] EXCEPT !.pc = pc]]
  BY DEF Goto
<1> QED
  BY <1>1, <1>2, <1>3 DEF CallStates

LEMMA ReturnFacts ==
    ASSUME Typed, NEW c \in Callers, Return(c)
    PROVE  /\ call' \in [Callers -> CallStates]
           /\ call'[c].pc = "idle"
           /\ \A d \in Callers : d # c => call'[d] = call[d]
<1>1. Idle \in CallStates
  BY SessionConstants, QueueConstants
  DEF Idle, CallStates, Categories, Unassigned, Generations
<1>2. Idle.pc = "idle"
  BY DEF Idle
<1> QED
  BY <1>1, <1>2 DEF Return, Typed

-----------------------------------------------------------------------------
\* Steps of calls on the handle: a caller that does not hold lifecycleLock_ goes
\* from one place to another, with or without ioLock_.
LEMMA IoMove ==
    ASSUME SessionInv, NEW c \in Callers,
           call[c].pc \notin LockedPlaces,
           call' \in [Callers -> CallStates],
           call'[c].pc \notin LockedPlaces,
           \A d \in Callers : d # c => call'[d] = call[d],
           UNCHANGED <<state, generation, generationCounter, handle, port, activeWrite,
                       activeCancellation, threadVars, lifecycleLock, worker>>,
           Sound(queue', Generations), SameRequests(queue, queue'),
           completedWrites' \in Seq(WriteResults),
           lineOption' \in BOOLEAN, line' \in BOOLEAN,
           \/ UNCHANGED ioLock /\ call'[c].pc \notin NativePlaces
           \/ ioLock = NoOne /\ ioLock' = c /\ Validated(call'[c].generation)
           \/ call[c].pc \in NativePlaces /\ ioLock' = NoOne /\ call'[c].pc \notin NativePlaces
    PROVE  SessionInv'
<1> USE SessionConstants DEF threadVars
<1>1. Typed'
  BY DEF SessionInv, Typed, WriteResults
<1>2. Lifecycle'
  BY DEF SessionInv, Lifecycle, At, LockedPlaces, OpeningPlaces, ClosingPlaces
<1>3. PortOwned'
  <2>1. \A d \in Callers : call'[d].pc \in LockedPlaces => call'[d] = call[d]
    OBVIOUS
  <2>2. HandleIsCurrent'
    BY DEF SessionInv, PortOwned, HandleIsCurrent, Validated, IsCurrent, NativePlaces, WorkerAt
  <2>3. \A d \in Callers : call'[d].pc \in NativePlaces => port \notin {PortClosed, PortIdle}
    BY DEF SessionInv, PortOwned, Validated, IsCurrent, NativePlaces, PortClosed, PortIdle,
           Unassigned
  <2> QED
    BY <2>1, <2>2, <2>3
    DEF SessionInv, PortOwned, At, WorkerAt, LockedPlaces, OpeningPlaces, ClosingPlaces
<1>4. Threads'
  <2>1. \A d \in Callers : call'[d].pc \in LockedPlaces => call'[d] = call[d]
    OBVIOUS
  <2> QED
    BY <2>1 DEF SessionInv, Threads, WorkerAt, SameRequests, LockedPlaces, ClosingPlaces
<1>5. WriteAgrees'
  BY DEF SessionInv, WriteAgrees, ActiveAgrees, SameRequests
<1> QED
  BY <1>1, <1>2, <1>3, <1>4, <1>5 DEF SessionInv

LEMMA QueueUnchanged ==
    ASSUME Typed, UNCHANGED queue
    PROVE  Sound(queue', Generations) /\ SameRequests(queue, queue')
  BY DEF Typed, SameRequests

LEMMA BeginStep ==
    ASSUME SessionInv, NEW c \in Callers,
           ReadBegin(c) \/ LineBegin(c) \/ WriteBegin(c)
    PROVE  /\ call' \in [Callers -> CallStates]
           /\ call'[c].pc \in {"readAcquire", "lineAcquire", "writeReserve"}
           /\ call'[c].generation = generation
           /\ call'[c].pc = "lineAcquire" => "line" \in Calls[c]
           /\ \A d \in Callers : d # c => call'[d] = call[d]
           /\ SessionInv'
<1>1. /\ call[c] \in CallStates
      /\ generation \in Generations
      /\ call[c].pc = "idle"
  BY DEF ReadBegin, LineBegin, WriteBegin, Starts, At, SessionInv, Typed
<1>2. PICK pc \in {"readAcquire", "lineAcquire", "writeReserve"}, on \in BOOLEAN :
          /\ call' = [call EXCEPT ![c] =
                         [call[c] EXCEPT !.pc = pc, !.generation = generation, !.on = on]]
          /\ pc = "lineAcquire" => "line" \in Calls[c]
  <2>1. ASSUME NEW on \in BOOLEAN
        PROVE  [call EXCEPT ![c].pc = "lineAcquire", ![c].generation = generation, ![c].on = on]
               = [call EXCEPT ![c] = [call[c] EXCEPT !.pc = "lineAcquire",
                                                     !.generation = generation, !.on = on]]
    OBVIOUS
  <2>2. ASSUME NEW pc
        PROVE  [call EXCEPT ![c].pc = pc, ![c].generation = generation]
               = [call EXCEPT ![c] = [call[c] EXCEPT !.pc = pc, !.generation = generation,
                                                     !.on = call[c].on]]
    BY <1>1 DEF CallStates, SessionInv, Typed
  <2>3. call[c].on \in BOOLEAN
    BY <1>1 DEF CallStates
  <2> QED
    BY <2>1, <2>2, <2>3, ZenonT(40) DEF ReadBegin, LineBegin, WriteBegin, Starts
<1>3. [call[c] EXCEPT !.pc = pc, !.generation = generation, !.on = on] \in CallStates
  BY <1>1, <1>2 DEF CallStates, IoPlaces
<1>4. /\ call' \in [Callers -> CallStates]
      /\ call'[c].pc = pc
      /\ call'[c].generation = generation
      /\ \A d \in Callers : d # c => call'[d] = call[d]
  BY <1>1, <1>2, <1>3 DEF SessionInv, Typed, CallStates
<1>5. Sound(queue', Generations) /\ SameRequests(queue, queue')
  BY QueueUnchanged DEF ReadBegin, LineBegin, WriteBegin, writeVars, SessionInv
<1> QED
  BY <1>1, <1>2, <1>4, <1>5, IoMove, ZenonT(40)
  DEF ReadBegin, LineBegin, WriteBegin, SessionInv, Typed, sessionVars, writeVars, locks, external,
      LockedPlaces, OpeningPlaces, ClosingPlaces, NativePlaces, WriteResults

LEMMA WriteReserveStep ==
    ASSUME SessionInv, NEW c \in Callers, WriteReserve(c)
    PROVE  /\ call' \in [Callers -> CallStates]
           /\ \/ /\ call'[c].pc = "writeCheck"
                 /\ call'[c].id = queue.nextRequestId
                 /\ queue.nextRequestId \in RequestIds
              \/ call'[c].pc = "idle"
           /\ \A d \in Callers : d # c => call'[d] = call[d]
           /\ Sound(queue', Generations)
           /\ SameRequests(queue, queue')
           /\ queue'.nextRequestId = NextId(queue.nextRequestId)
           /\ SessionInv'
<1>1. Typed /\ call[c] \in CallStates /\ call[c].pc = "writeReserve"
  BY DEF WriteReserve, At, SessionInv, Typed
<1>2. /\ Sound(queue', Generations)
      /\ SameRequests(queue, queue')
      /\ queue'.nextRequestId = NextId(queue.nextRequestId)
  BY <1>1, ReserveFacts DEF WriteReserve, Typed
<1>3. queue.nextRequestId \in 0 .. MaxRequestId
  BY <1>1 DEF Typed, Sound, QueuesIn
<1>4. /\ call' \in [Callers -> CallStates]
      /\ \/ /\ call'[c].pc = "writeCheck"
            /\ call'[c].id = queue.nextRequestId
            /\ queue.nextRequestId # Unassigned
         \/ call'[c].pc = "idle"
      /\ \A d \in Callers : d # c => call'[d] = call[d]
  <2>1. CASE Return(c)
    BY <1>1, <2>1, ReturnFacts
  <2>2. CASE /\ queue.nextRequestId # Unassigned
             /\ call' = [call EXCEPT ![c].pc = "writeCheck", ![c].id = queue.nextRequestId]
    <3>1. [call[c] EXCEPT !.pc = "writeCheck", !.id = queue.nextRequestId] \in CallStates
      BY <1>1, <1>3 DEF CallStates, IoPlaces
    <3> QED
      BY <1>1, <2>2, <3>1 DEF Typed, CallStates
  <2> QED
    BY <2>1, <2>2 DEF WriteReserve
<1>5. SessionInv'
  BY <1>1, <1>2, <1>4, IoMove
  DEF WriteReserve, SessionInv, Typed, sessionVars, locks, external,
      LockedPlaces, OpeningPlaces, ClosingPlaces, NativePlaces, WriteResults
<1>6. queue.nextRequestId # Unassigned => queue.nextRequestId \in RequestIds
  BY <1>3, QueueConstants DEF RequestIds, Unassigned
<1> QED
  BY <1>2, <1>4, <1>5, <1>6

LEMMA WriteCheckStep ==
    ASSUME SessionInv, NEW c \in Callers, WriteCheck(c)
    PROVE  /\ \/ Goto(c, "writeAcquire") /\ call'[c].pc = "writeAcquire"
                 /\ call'[c].id = call[c].id
              \/ Return(c) /\ call'[c].pc = "idle"
           /\ \A d \in Callers : d # c => call'[d] = call[d]
           /\ SessionInv'
<1>1. Typed /\ call[c].pc = "writeCheck"
  BY DEF WriteCheck, At, SessionInv
<1>2. "writeAcquire" \in Places
  BY DEF Places, IoPlaces
<1>3. /\ call' \in [Callers -> CallStates]
      /\ \/ Goto(c, "writeAcquire") /\ call'[c].pc = "writeAcquire"
            /\ call'[c].id = call[c].id
         \/ Return(c) /\ call'[c].pc = "idle"
      /\ \A d \in Callers : d # c => call'[d] = call[d]
  BY <1>1, <1>2, GotoFacts, ReturnFacts DEF WriteCheck
<1>4. Sound(queue', Generations) /\ SameRequests(queue, queue')
  BY <1>1, QueueUnchanged DEF WriteCheck, writeVars
<1>5. SessionInv'
  BY <1>1, <1>3, <1>4, IoMove
  DEF WriteCheck, SessionInv, Typed, sessionVars, writeVars, locks, external,
      LockedPlaces, OpeningPlaces, ClosingPlaces, NativePlaces, WriteResults
<1> QED
  BY <1>3, <1>5

LEMMA IoAcquireStep ==
    ASSUME SessionInv, NEW c \in Callers, IoAcquire(c)
    PROVE  /\ \/ /\ call'[c].pc = NativeStep(call[c].pc)
                 /\ call'[c].pc \in NativePlaces
                 /\ call'[c].id = call[c].id
                 /\ call'[c].generation = call[c].generation
              \/ call'[c].pc = "idle"
           /\ \A d \in Callers : d # c => call'[d] = call[d]
           /\ SessionInv'
<1>1. Typed /\ call[c].pc \in AcquireSteps
  BY DEF IoAcquire, SessionInv
<1>2. NativeStep(call[c].pc) \in NativePlaces /\ NativeStep(call[c].pc) \in Places
  BY <1>1 DEF NativeStep, AcquireSteps, NativePlaces, Places, IoPlaces
<1>3. /\ call' \in [Callers -> CallStates]
      /\ \A d \in Callers : d # c => call'[d] = call[d]
      /\ \/ /\ call'[c].pc = NativeStep(call[c].pc)
            /\ call'[c].id = call[c].id
            /\ call'[c].generation = call[c].generation
            /\ Validated(call[c].generation)
            /\ ioLock' = c
         \/ call'[c].pc = "idle" /\ UNCHANGED ioLock
  BY <1>1, <1>2, GotoFacts, ReturnFacts DEF IoAcquire
<1>4. Sound(queue', Generations) /\ SameRequests(queue, queue')
  BY <1>1, QueueUnchanged DEF IoAcquire, writeVars
<1>5. call[c].pc \notin LockedPlaces /\ call'[c].pc \notin LockedPlaces
  BY <1>1, <1>2, <1>3
  DEF AcquireSteps, NativePlaces, LockedPlaces, OpeningPlaces, ClosingPlaces
<1>6. SessionInv'
  <2>1. \/ UNCHANGED ioLock /\ call'[c].pc \notin NativePlaces
        \/ ioLock = NoOne /\ ioLock' = c /\ Validated(call'[c].generation)
    BY <1>3 DEF IoAcquire, NativePlaces
  <2> QED
    BY <1>3, <1>4, <1>5, <2>1, IoMove
    DEF IoAcquire, SessionInv, Typed, sessionVars, writeVars, external, WriteResults
<1> QED
  BY <1>2, <1>3, <1>6

\* The end of a call of the operating system; the handle is still the caller's
\* if the session is open again.
LEMMA IoReleaseFacts ==
    ASSUME SessionInv, NEW c \in Callers, NEW category, NEW next \in {"idle", "lineOption"},
           call[c].pc \in NativePlaces, IoRelease(c, category, next)
    PROVE  /\ call' \in [Callers -> CallStates]
           /\ \/ /\ call'[c].pc = "idle"
              \/ /\ category = "Disconnected"
                 /\ call'[c].pc = "ioDisconnected"
                 /\ call'[c].generation = call[c].generation
              \/ /\ category = "None"
                 /\ next = "lineOption"
                 /\ call'[c].pc = "lineOption"
                 /\ call'[c].generation = call[c].generation
                 /\ call'[c].on = call[c].on
                 /\ Validated(call[c].generation)
           /\ category = "None" /\ Validated(call[c].generation) => call'[c].pc = next
           /\ \A d \in Callers : d # c => call'[d] = call[d]
           /\ ioLock' = NoOne
           /\ port = call[c].generation
           /\ port \in Generations
<1>1. Typed
  BY DEF SessionInv
<1>2. "ioDisconnected" \in Places /\ "lineOption" \in Places
  BY DEF Places, IoPlaces
<1>3. port = call[c].generation /\ port \in Generations
  BY DEF SessionInv, PortOwned, HandleIsCurrent, NativePlaces, Typed, PortClosed
<1>4. CASE Return(c) /\ ~(category = "None" /\ Validated(call[c].generation) /\ next # "idle")
  BY <1>1, <1>3, <1>4, ReturnFacts DEF IoRelease
<1>5. CASE category = "Disconnected" /\ Goto(c, "ioDisconnected")
  BY <1>1, <1>2, <1>3, <1>5, GotoFacts DEF IoRelease
<1>6. CASE /\ category = "None" /\ next = "lineOption" /\ Goto(c, "lineOption")
           /\ Validated(call[c].generation)
  BY <1>1, <1>2, <1>3, <1>6, GotoFacts DEF IoRelease
<1> QED
  BY <1>4, <1>5, <1>6 DEF IoRelease

LEMMA NativeStepOfCaller ==
    ASSUME SessionInv, NEW c \in Callers,
           ReadNative(c) \/ LineNative(c) \/ WriteNative(c)
    PROVE  SessionInv'
<1>1. Typed /\ call[c].pc \in NativePlaces
  BY DEF ReadNative, LineNative, WriteNative, At, NativePlaces, SessionInv
<1>2. PICK category \in Categories, next \in {"idle", "lineOption"} :
          IoRelease(c, category, next)
  <2>0. NativeCategories \subseteq Categories /\ "Timeout" \in Categories
    BY DEF NativeCategories, Categories
  <2>1. CASE ReadNative(c)
    <3>1. PICK category \in Categories : IoRelease(c, category, "idle")
      BY <2>0, <2>1 DEF ReadNative
    <3> QED
      BY <3>1
  <2>2. CASE LineNative(c)
    <3>1. PICK category \in Categories : IoRelease(c, category, "lineOption")
      BY <2>0, <2>2 DEF LineNative
    <3> QED
      BY <3>1
  <2>3. CASE WriteNative(c)
    <3>1. PICK category \in Categories : IoRelease(c, category, "idle")
      BY <2>0, <2>3 DEF WriteNative
    <3> QED
      BY <3>1
  <2> QED
    BY <2>1, <2>2, <2>3
<1>3. /\ call' \in [Callers -> CallStates]
      /\ call'[c].pc \in {"idle", "ioDisconnected", "lineOption"}
      /\ \A d \in Callers : d # c => call'[d] = call[d]
      /\ ioLock' = NoOne
  BY <1>1, <1>2, IoReleaseFacts
<1>4. /\ UNCHANGED <<sessionVars, writeVars, threadVars, lifecycleLock, port, worker>>
      /\ line' \in BOOLEAN
  BY <1>1 DEF ReadNative, LineNative, WriteNative, external, Typed, CallStates
<1>5. Sound(queue', Generations) /\ SameRequests(queue, queue')
  BY <1>1, <1>4, QueueUnchanged DEF writeVars
<1>6. call[c].pc \notin LockedPlaces /\ call'[c].pc \notin LockedPlaces \cup NativePlaces
  BY <1>1, <1>3 DEF NativePlaces, LockedPlaces, OpeningPlaces, ClosingPlaces
<1> QED
  BY <1>1, <1>3, <1>4, <1>5, <1>6, IoMove
  DEF SessionInv, Typed, sessionVars, writeVars, WriteResults

LEMMA LineOptionStep ==
    ASSUME SessionInv, NEW c \in Callers, LineOption(c)
    PROVE  SessionInv'
<1>1. Typed /\ call[c].pc = "lineOption" /\ call[c] \in CallStates
  BY DEF LineOption, At, SessionInv, Typed
<1>2. /\ call' \in [Callers -> CallStates]
      /\ call'[c].pc = "idle"
      /\ \A d \in Callers : d # c => call'[d] = call[d]
  BY <1>1, ReturnFacts DEF LineOption
<1>3. lineOption' \in BOOLEAN
  BY <1>1 DEF LineOption, Typed, CallStates
<1>4. Sound(queue', Generations) /\ SameRequests(queue, queue')
  BY <1>1, QueueUnchanged DEF LineOption, writeVars
<1> QED
  BY <1>1, <1>2, <1>3, <1>4, IoMove
  DEF LineOption, SessionInv, Typed, writeVars, locks, external,
      LockedPlaces, OpeningPlaces, ClosingPlaces, NativePlaces, WriteResults

LEMMA TakeCompletedWritesStep ==
    ASSUME SessionInv, NEW c \in Callers, TakeCompletedWrites(c)
    PROVE  SessionInv'
<1>1. Typed /\ call[c].pc = "idle" /\ UNCHANGED call
  BY DEF TakeCompletedWrites, Starts, At, SessionInv
<1>2. Sound(queue', Generations) /\ SameRequests(queue, queue')
  BY <1>1, QueueUnchanged DEF TakeCompletedWrites
<1>3. completedWrites' \in Seq(WriteResults)
  BY EmptySeq DEF TakeCompletedWrites
<1> QED
  BY <1>1, <1>2, <1>3, IoMove
  DEF TakeCompletedWrites, SessionInv, Typed, sessionVars, locks, external,
      LockedPlaces, OpeningPlaces, ClosingPlaces, NativePlaces

-----------------------------------------------------------------------------
\* open().  The caller has lifecycleLock_ for itself, so no other caller is at a
\* place of open or close.

LEMMA OpenBeginStep ==
    ASSUME SessionInv, NEW c \in Callers, OpenBegin(c)
    PROVE  SessionInv'
<1> USE SessionConstants
    DEF sessionVars, writeVars, threadVars, locks, external, history
<1>1. /\ call' \in [Callers -> CallStates]
      /\ \A d \in Callers : d # c => call'[d] = call[d]
      /\ \/ state' = "Opening" /\ lifecycleLock' = c /\ call'[c].pc = "openCreate"
         \/ state' = "Faulted" /\ UNCHANGED <<lifecycleLock, call>>
  <2>1. CASE state' = "Faulted" /\ UNCHANGED <<lifecycleLock, call>>
    BY <2>1 DEF SessionInv, Typed
  <2>2. CASE state' = "Opening" /\ lifecycleLock' = c /\ Goto(c, "openCreate")
    <3>1. "openCreate" \in Places
      BY DEF Places, LockedPlaces, OpeningPlaces
    <3>2. Typed
      BY DEF SessionInv
    <3> QED
      BY <2>2, <3>1, <3>2, GotoFacts
  <2> QED
    BY <2>1, <2>2 DEF OpenBegin
<1>2. Typed'
  BY <1>1 DEF OpenBegin, SessionInv, Typed, States, Generations, Unassigned
<1>3. Lifecycle'
  BY <1>1 DEF OpenBegin, SessionInv, Lifecycle, Typed, Starts, At,
              LockedPlaces, OpeningPlaces, ClosingPlaces
<1>4. PortOwned'
  BY <1>1 DEF OpenBegin, SessionInv, PortOwned, HandleIsCurrent, Starts, At, NativePlaces, WorkerAt
<1>5. Threads'
  BY <1>1 DEF OpenBegin, SessionInv, Threads, Starts, At, WorkerAt
<1>6. WriteAgrees'
  BY DEF OpenBegin, SessionInv, WriteAgrees, ActiveAgrees
<1> QED
  BY <1>2, <1>3, <1>4, <1>5, <1>6 DEF SessionInv

LEMMA OpenCreateStep ==
    ASSUME SessionInv, NEW c \in Callers, OpenCreate(c)
    PROVE  SessionInv'
<1> USE SessionConstants
    DEF sessionVars, writeVars, threadVars, locks, external, history
<1>1. /\ call' \in [Callers -> CallStates]
      /\ \A d \in Callers : d # c => call'[d] = call[d]
      /\ \/ /\ call'[c].pc = "openCommit" /\ port' = PortIdle /\ handle' = TRUE
            /\ line' = TRUE
         \/ /\ call'[c].pc = "openFailed" /\ UNCHANGED line
            /\ UNCHANGED <<port, handle>> \/ (port' = PortIdle /\ handle' = TRUE)
  <2>1. Typed /\ {"openCommit", "openFailed"} \subseteq Places
    BY DEF SessionInv, Places, LockedPlaces, OpeningPlaces
  <2>2. CASE Goto(c, "openCommit") /\ port' = PortIdle /\ handle' = TRUE /\ line' = TRUE
    BY <2>1, <2>2, GotoFacts
  <2>3. CASE /\ Goto(c, "openFailed")
             /\ UNCHANGED line
             /\ UNCHANGED <<port, handle>> \/ (port' = PortIdle /\ handle' = TRUE)
    BY <2>1, <2>3, GotoFacts
  <2> QED
    BY <2>2, <2>3 DEF OpenCreate
<1>2. /\ UNCHANGED <<state, generation, generationCounter, lineOption, queue, completedWrites,
                     activeWrite, activeCancellation, stopRequested, thread, wakeEvent,
                     lifecycleLock, ioLock, worker>>
      /\ call[c].pc = "openCreate"
      /\ ioLock = NoOne
      /\ lifecycleLock = c
      /\ state = "Opening"
  BY DEF OpenCreate, At, SessionInv, Lifecycle, LockedPlaces, OpeningPlaces
<1>3. Typed'
  <2>1. port' \in {PortClosed} \cup Generations /\ handle' \in BOOLEAN /\ line' \in BOOLEAN
    <3>1. PortIdle \in Generations
      BY DEF PortIdle, Generations
    <3>2. port' = port \/ port' = PortIdle
      BY <1>1
    <3>3. handle' = handle \/ handle' = TRUE
      BY <1>1
    <3>4. line' = line \/ line' = TRUE
      BY <1>1
    <3> QED
      BY <3>1, <3>2, <3>3, <3>4 DEF SessionInv, Typed
  <2> QED
    BY <1>1, <1>2, <2>1 DEF SessionInv, Typed
<1>4. Lifecycle'
  BY <1>1, <1>2 DEF SessionInv, Lifecycle, At, LockedPlaces, OpeningPlaces, ClosingPlaces
<1>5. PortOwned'
  <2>1. \A d \in Callers : call[d].pc \notin NativePlaces /\ call'[d].pc \notin NativePlaces
    BY <1>1, <1>2 DEF SessionInv, PortOwned, HandleIsCurrent, NativePlaces
  <2>2. ~WorkerAt("native")
    BY <1>2 DEF SessionInv, PortOwned, HandleIsCurrent
  <2>3. \A d \in Callers : d # c => call[d].pc \notin LockedPlaces
    BY <1>2 DEF SessionInv, Lifecycle
  <2> QED
    BY <1>1, <1>2, <2>1, <2>2, <2>3
    DEF SessionInv, PortOwned, HandleIsCurrent, At, WorkerAt, PortIdle, PortClosed,
        LockedPlaces, OpeningPlaces, ClosingPlaces, NativePlaces
<1>6. Threads'
  BY <1>1, <1>2 DEF SessionInv, Threads, WorkerAt
<1>7. WriteAgrees'
  BY <1>2 DEF SessionInv, WriteAgrees, ActiveAgrees
<1> QED
  BY <1>3, <1>4, <1>5, <1>6, <1>7 DEF SessionInv

\* Steps that end open or close: lifecycleLock_ is let go, the state is named.
LEMMA LifecycleEnds ==
    ASSUME SessionInv, NEW c \in Callers,
           call[c].pc \in LockedPlaces,
           Return(c),
           lifecycleLock' = NoOne,
           \/ state' = "Faulted"
           \/ /\ state' = "Closed"
              /\ port' = PortClosed /\ thread = "null"
              /\ ~stopRequested /\ activeCancellation = "None",
           \/ UNCHANGED <<handle, port>>
           \/ handle' = FALSE /\ port' = PortClosed /\ ioLock = NoOne,
           lineOption' \in BOOLEAN,
           UNCHANGED <<generation, generationCounter, writeVars, threadVars, ioLock, line,
                       worker>>
    PROVE  SessionInv'
<1> USE SessionConstants DEF writeVars, threadVars
<1>1. /\ call' \in [Callers -> CallStates]
      /\ call'[c].pc = "idle"
      /\ \A d \in Callers : d # c => call'[d] = call[d]
  BY ReturnFacts DEF SessionInv
<1>2. lifecycleLock = c
  BY DEF SessionInv, Lifecycle
<1>3. Typed'
  BY <1>1 DEF SessionInv, Typed, States, PortClosed
<1>4. Lifecycle'
  BY <1>1, <1>2 DEF SessionInv, Lifecycle, At, LockedPlaces, OpeningPlaces, ClosingPlaces
<1>5. PortOwned'
  <2>1. \A d \in Callers : d # c => call[d].pc \notin LockedPlaces
    BY <1>2 DEF SessionInv, Lifecycle
  <2>2. ioLock = NoOne =>
            /\ \A d \in Callers : call[d].pc \notin NativePlaces
            /\ ~WorkerAt("native")
    BY DEF SessionInv, PortOwned, HandleIsCurrent, NativePlaces
  <2> QED
    BY <1>1, <2>1, <2>2
    DEF SessionInv, PortOwned, HandleIsCurrent, At, WorkerAt,
        LockedPlaces, OpeningPlaces, ClosingPlaces, NativePlaces
<1>6. Threads'
  BY <1>1 DEF SessionInv, Threads, WorkerAt
<1>7. WriteAgrees'
  BY DEF SessionInv, WriteAgrees, ActiveAgrees
<1> QED
  BY <1>3, <1>4, <1>5, <1>6, <1>7 DEF SessionInv

LEMMA OpenFailedStep ==
    ASSUME SessionInv, NEW c \in Callers, OpenFailed(c)
    PROVE  SessionInv'
<1>1. call[c].pc \in LockedPlaces
  BY DEF OpenFailed, At, LockedPlaces, OpeningPlaces
<1>2. lineOption \in BOOLEAN
  BY DEF SessionInv, Typed
<1> QED
  BY <1>1, <1>2, LifecycleEnds DEF OpenFailed, external

LEMMA OpenUndoStep ==
    ASSUME SessionInv, NEW c \in Callers, OpenUndo(c)
    PROVE  SessionInv'
<1>1. call[c].pc \in LockedPlaces /\ state' = "Faulted"
  BY DEF OpenUndo, At, LockedPlaces, SessionInv, Lifecycle
<1>2. lineOption \in BOOLEAN
  BY DEF SessionInv, Typed
<1> QED
  BY <1>1, <1>2, LifecycleEnds DEF OpenUndo

LEMMA CloseFaultedStep ==
    ASSUME SessionInv, NEW c \in Callers, CloseFaulted(c)
    PROVE  SessionInv'
<1>1. call[c].pc \in LockedPlaces
  BY DEF CloseFaulted, At, LockedPlaces, ClosingPlaces
<1>2. lineOption \in BOOLEAN
  BY DEF SessionInv, Typed
<1> QED
  BY <1>1, <1>2, LifecycleEnds DEF CloseFaulted, external

LEMMA CloseEndStep ==
    ASSUME SessionInv, NEW c \in Callers, CloseEnd(c)
    PROVE  SessionInv'
<1>1. call[c].pc \in LockedPlaces /\ call[c].pc = "closeEnd"
  BY DEF CloseEnd, At, LockedPlaces, ClosingPlaces
<1>2. lineOption' \in BOOLEAN
  BY DEF CloseEnd, SessionInv, Typed
<1>3. call[c].clean => port = PortClosed /\ thread = "null"
                       /\ ~stopRequested /\ activeCancellation = "None"
  BY <1>1 DEF SessionInv, PortOwned, Threads, At
<1> QED
  BY <1>1, <1>2, <1>3, LifecycleEnds DEF CloseEnd, external

\* A generation begins only when none of an earlier one is left.
LEMMA OpenCommitStep ==
    ASSUME SessionInv, NEW c \in Callers, OpenCommit(c)
    PROVE  SessionInv'
<1> USE SessionConstants DEF threadVars
<1>1. /\ Typed
      /\ call[c].pc = "openCommit"
      /\ UNCHANGED <<handle, completedWrites, activeWrite, activeCancellation, stopRequested,
                     thread, wakeEvent, ioLock, line, worker>>
  BY DEF OpenCommit, At, SessionInv
<1>2. /\ state = "Opening" /\ lifecycleLock = c
      /\ port = PortIdle /\ handle = TRUE
      /\ thread = "null" /\ ~stopRequested /\ activeCancellation = "None"
      /\ queue.pending = << >>
  BY <1>1 DEF SessionInv, Lifecycle, PortOwned, Threads, At, LockedPlaces, OpeningPlaces,
              PortIdle, PortClosed
<1>3. /\ \A d \in Callers : call[d].pc \notin NativePlaces
      /\ \A d \in Callers : d # c => call[d].pc \notin LockedPlaces
      /\ ~WorkerAt("native")
  BY <1>1, <1>2 DEF SessionInv, Lifecycle, PortOwned
<1>4. CASE CanCommit
  <2>1. /\ generationCounter + 1 \in Generations
        /\ generationCounter + 1 # Unassigned
        /\ generationCounter + 1 # PortClosed
    BY <1>1, <1>4 DEF CanCommit, Typed, Generations, Unassigned, PortClosed
  <2> DEFINE next == generationCounter + 1
  <2>2. /\ generationCounter' = next /\ generation' = next /\ port' = next
        /\ queue' = BeginGeneration(queue, next)
        /\ CanBeginGeneration(queue, next)
        /\ lineOption' = TRUE
        /\ state' = "Open"
        /\ lifecycleLock' = NoOne
        /\ Return(c)
    BY <1>4 DEF OpenCommit, CanCommit
  <2> HIDE DEF next
  <2>3. next \in Generations /\ next # Unassigned /\ next # PortClosed
    BY <2>1 DEF next
  <2>4. Sound(queue', Generations) /\ SameRequests(queue, queue')
    BY <1>1, <2>2, <2>3, BeginGenerationFacts DEF Typed
  <2>5. /\ call' \in [Callers -> CallStates]
        /\ call'[c].pc = "idle"
        /\ \A d \in Callers : d # c => call'[d] = call[d]
    BY <1>1, <2>2, ReturnFacts
  <2>6. Typed'
    BY <1>1, <2>2, <2>3, <2>4, <2>5 DEF Typed, States
  <2>7. Lifecycle'
    BY <1>2, <2>2, <2>5 DEF SessionInv, Lifecycle, At,
                            LockedPlaces, OpeningPlaces, ClosingPlaces
  <2>8. PortOwned'
    BY <1>1, <1>2, <1>3, <2>2, <2>3, <2>5
    DEF PortOwned, HandleIsCurrent, At, WorkerAt,
        LockedPlaces, OpeningPlaces, ClosingPlaces, NativePlaces
  <2>9. Threads'
    BY <1>1, <1>2, <2>2, <2>4, <2>5 DEF SessionInv, Threads, WorkerAt, SameRequests
  <2>10. WriteAgrees'
    BY <1>1, <2>4 DEF SessionInv, WriteAgrees, ActiveAgrees, SameRequests
  <2> QED
    BY <2>6, <2>7, <2>8, <2>9, <2>10 DEF SessionInv
<1>5. CASE ~CanCommit
  <2>1. /\ generationCounter' = IF generationCounter = MaxGeneration
                                THEN generationCounter ELSE generationCounter + 1
        /\ generation' = Unassigned
        /\ state' = "Faulted"
        /\ Goto(c, "openUndo")
        /\ UNCHANGED <<queue, port, lineOption, lifecycleLock>>
    BY <1>5 DEF OpenCommit
  <2>2. generationCounter' \in Generations /\ generation' \in Generations
    BY <1>1, <2>1 DEF Typed, Generations, Unassigned
  <2>3. "openUndo" \in Places
    BY DEF Places, LockedPlaces
  <2>4. /\ call' \in [Callers -> CallStates]
        /\ call'[c].pc = "openUndo"
        /\ \A d \in Callers : d # c => call'[d] = call[d]
    BY <1>1, <2>1, <2>3, GotoFacts
  <2>5. Typed'
    BY <1>1, <2>1, <2>2, <2>4 DEF Typed, States
  <2>6. Lifecycle'
    BY <1>2, <1>3, <2>1, <2>4 DEF SessionInv, Lifecycle, At,
                                  LockedPlaces, OpeningPlaces, ClosingPlaces
  <2>7. PortOwned'
    BY <1>1, <1>2, <1>3, <2>1, <2>4
    DEF SessionInv, PortOwned, HandleIsCurrent, At, WorkerAt,
        LockedPlaces, OpeningPlaces, ClosingPlaces, NativePlaces
  <2>8. Threads'
    BY <1>1, <1>2, <2>1, <2>4 DEF SessionInv, Threads, WorkerAt
  <2>9. WriteAgrees'
    BY <1>1, <2>1 DEF SessionInv, WriteAgrees, ActiveAgrees
  <2> QED
    BY <2>5, <2>6, <2>7, <2>8, <2>9 DEF SessionInv
<1> QED
  BY <1>4, <1>5

-----------------------------------------------------------------------------
\* close()

LEMMA CloseBeginStep ==
    ASSUME SessionInv, NEW c \in Callers, CloseBegin(c)
    PROVE  SessionInv'
<1> USE SessionConstants DEF writeVars, threadVars, external
<1>1. /\ Typed
      /\ call[c].pc = "idle"
      /\ lifecycleLock = NoOne /\ lifecycleLock' = c
      /\ state # "Closed" /\ state' = "Closing" /\ generation' = Unassigned
      /\ UNCHANGED <<generationCounter, handle, lineOption, writeVars, threadVars, ioLock,
                     external, worker>>
  BY DEF CloseBegin, Starts, At, SessionInv
<1>2. "closeStop" \in Places
  BY DEF Places, LockedPlaces, ClosingPlaces
<1>3. /\ call' \in [Callers -> CallStates]
      /\ call'[c].pc = "closeStop"
      /\ \A d \in Callers : d # c => call'[d] = call[d]
  BY <1>1, <1>2, GotoFacts DEF CloseBegin
<1>4. \A d \in Callers : call[d].pc \notin LockedPlaces
  BY <1>1 DEF SessionInv, Lifecycle
<1>5. Typed'
  BY <1>1, <1>3 DEF Typed, States, Generations, Unassigned
<1>6. Lifecycle'
  BY <1>1, <1>3, <1>4 DEF Lifecycle, At, LockedPlaces, OpeningPlaces, ClosingPlaces
<1>7. PortOwned'
  BY <1>1, <1>3, <1>4 DEF SessionInv, PortOwned, HandleIsCurrent, At, WorkerAt,
                          LockedPlaces, OpeningPlaces, ClosingPlaces, NativePlaces
<1>8. Threads'
  BY <1>1, <1>3, <1>4 DEF SessionInv, Threads, WorkerAt, LockedPlaces, ClosingPlaces
<1>9. WriteAgrees'
  BY <1>1 DEF SessionInv, WriteAgrees, ActiveAgrees
<1> QED
  BY <1>5, <1>6, <1>7, <1>8, <1>9 DEF SessionInv

\* A step inside close that leaves the port and the worker alone.
LEMMA CloseMove ==
    ASSUME SessionInv, NEW c \in Callers,
           call[c].pc \in {"closeStop", "closeWake", "closeJoin", "closeAbandon"},
           call' \in [Callers -> CallStates],
           call'[c].pc \in {"closeWake", "closeJoin", "closeAbandon", "closeFaulted",
                            "closeReap"},
           \A d \in Callers : d # c => call'[d] = call[d],
           call'[c].pc = "closeReap" => thread # "running",
           stopRequested',
           Sound(queue', Generations),
           queue'.active = queue.active,
           queue'.pending = << >>,
           completedWrites' \in Seq(WriteResults),
           \/ UNCHANGED activeWrite
           \/ activeWrite # NoWrite /\ activeWrite' = Published(activeWrite),
           activeCancellation' \in Categories,
           wakeEvent' = wakeEvent \/ (wakeEvent # "null" /\ wakeEvent' = "set"),
           UNCHANGED <<sessionVars, thread, locks, external, worker>>
    PROVE  SessionInv'
<1> USE SessionConstants DEF sessionVars, locks, external
<1>1. /\ lifecycleLock = c
      /\ state \in {"Closing", "Faulted"}
      /\ \A d \in Callers : d # c => call[d].pc \notin LockedPlaces
  BY DEF SessionInv, Lifecycle, LockedPlaces, ClosingPlaces
<1>2. /\ activeWrite' \in [id : RequestIds, generation : Generations, published : BOOLEAN]
                          \cup {NoWrite}
      /\ activeWrite'.id = activeWrite.id
      /\ activeWrite'.generation = activeWrite.generation
      /\ activeWrite' = NoWrite <=> activeWrite = NoWrite
  <2>1. CASE UNCHANGED activeWrite
    BY <2>1 DEF SessionInv, Typed
  <2>2. CASE activeWrite # NoWrite /\ activeWrite' = Published(activeWrite)
    <3>1. activeWrite \in [id : RequestIds, generation : Generations, published : BOOLEAN]
      BY <2>2 DEF SessionInv, Typed
    <3>2. /\ activeWrite' = [activeWrite EXCEPT !.published = TRUE]
          /\ activeWrite'.id = activeWrite.id
          /\ activeWrite'.generation = activeWrite.generation
          /\ activeWrite' \in [id : RequestIds, generation : Generations, published : BOOLEAN]
      BY <2>2, <3>1 DEF Published
    <3>3. activeWrite'.id # Unassigned
      BY <3>1, <3>2 DEF RequestIds, Unassigned
    <3>4. activeWrite' # NoWrite
      BY <3>3 DEF NoWrite
    <3> QED
      BY <2>2, <3>2, <3>4
  <2> QED
    BY <2>1, <2>2
<1>3. Typed'
  BY <1>2 DEF SessionInv, Typed, WriteResults
<1>4. Lifecycle'
  BY <1>1 DEF SessionInv, Lifecycle, At, LockedPlaces, OpeningPlaces, ClosingPlaces
<1>5. PortOwned'
  BY <1>1 DEF SessionInv, PortOwned, HandleIsCurrent, At, WorkerAt,
              LockedPlaces, OpeningPlaces, ClosingPlaces, NativePlaces
<1>6. Threads'
  BY <1>1 DEF SessionInv, Threads, WorkerAt, LockedPlaces, ClosingPlaces
<1>7. WriteAgrees'
  BY <1>2 DEF SessionInv, WriteAgrees, ActiveAgrees
<1> QED
  BY <1>3, <1>4, <1>5, <1>6, <1>7 DEF SessionInv

LEMMA CloseStopStep ==
    ASSUME SessionInv, NEW c \in Callers, CloseStop(c)
    PROVE  SessionInv'
<1>1. Typed /\ call[c].pc = "closeStop" /\ call[c] \in CallStates
  BY DEF CloseStop, At, SessionInv, Typed
<1>2. activeCancellation' \in Categories
  BY <1>1 DEF CloseStop, Typed, Categories
<1>3. PICK category \in Categories :
          call' = [call EXCEPT ![c] =
              [call[c] EXCEPT !.pc = IF thread = "null" THEN "closeReap" ELSE "closeWake",
                              !.category = category]]
  <2>1. (IF activeWrite = NoWrite THEN "SessionClosed" ELSE activeCancellation') \in Categories
    BY <1>2 DEF Categories
  <2> QED
    BY <2>1 DEF CloseStop
<1>4. [call[c] EXCEPT !.pc = IF thread = "null" THEN "closeReap" ELSE "closeWake",
                      !.category = category] \in CallStates
  BY <1>1 DEF CallStates, LockedPlaces, ClosingPlaces
<1>5. /\ call' \in [Callers -> CallStates]
      /\ call'[c].pc = IF thread = "null" THEN "closeReap" ELSE "closeWake"
      /\ \A d \in Callers : d # c => call'[d] = call[d]
  BY <1>1, <1>3, <1>4 DEF Typed, CallStates
<1>6. /\ Sound(queue', Generations)
      /\ queue'.pending = << >>
      /\ queue'.active = queue.active
      /\ completedWrites' \in Seq(WriteResults)
  <2>1. SettlePending("SessionClosed")
    BY DEF CloseStop
  <2> QED
    BY <1>1, <2>1, SettleFacts
<1> QED
  BY <1>1, <1>2, <1>5, <1>6, CloseMove DEF CloseStop

LEMMA CloseWakeStep ==
    ASSUME SessionInv, NEW c \in Callers,
           CloseWake(c) \/ CloseJoin(c) \/ CloseJoinTimeout(c)
    PROVE  SessionInv'
<1>1. /\ Typed
      /\ call[c].pc \in {"closeWake", "closeJoin"}
      /\ UNCHANGED <<sessionVars, writeVars, stopRequested, thread, locks, external, worker>>
  BY DEF CloseWake, CloseJoin, CloseJoinTimeout, At, SessionInv, threadVars
<1>2. stopRequested /\ queue.pending = << >>
  BY <1>1 DEF SessionInv, Threads
<1>3. PICK pc \in {"closeReap", "closeJoin", "closeAbandon"} :
          Goto(c, pc) /\ (pc = "closeReap" => thread # "running")
  BY DEF CloseWake, CloseJoin, CloseJoinTimeout
<1>4. pc \in Places
  BY <1>3 DEF Places, LockedPlaces, ClosingPlaces
<1>5. /\ call' \in [Callers -> CallStates]
      /\ call'[c].pc = pc
      /\ \A d \in Callers : d # c => call'[d] = call[d]
  BY <1>1, <1>3, <1>4, GotoFacts
<1>6. wakeEvent' = wakeEvent \/ (wakeEvent # "null" /\ wakeEvent' = "set")
  BY DEF CloseWake, CloseJoin, CloseJoinTimeout, Signalled, threadVars
<1> QED
  BY <1>1, <1>2, <1>3, <1>5, <1>6, CloseMove DEF writeVars, Typed, WriteResults

LEMMA CloseAbandonStep ==
    ASSUME SessionInv, NEW c \in Callers, CloseAbandon(c)
    PROVE  SessionInv'
<1>1. Typed /\ call[c].pc = "closeAbandon"
  BY DEF CloseAbandon, At, SessionInv
<1>2. stopRequested /\ queue.pending = << >>
  BY <1>1 DEF SessionInv, Threads
<1>3. "closeFaulted" \in Places
  BY DEF Places, LockedPlaces, ClosingPlaces
<1>4. /\ call' \in [Callers -> CallStates]
      /\ call'[c].pc = "closeFaulted"
      /\ \A d \in Callers : d # c => call'[d] = call[d]
  BY <1>1, <1>3, GotoFacts DEF CloseAbandon
<1>5. /\ \/ UNCHANGED activeWrite
         \/ activeWrite # NoWrite /\ activeWrite' = Published(activeWrite)
      /\ completedWrites' \in Seq(WriteResults)
  <2>1. CASE UNCHANGED <<completedWrites, activeWrite>>
    BY <1>1, <2>1 DEF Typed, WriteResults
  <2>2. CASE /\ activeWrite # NoWrite
             /\ activeWrite' = Published(activeWrite)
             /\ \E status \in {"Disconnected", "Cancelled"} :
                    completedWrites' = Append(completedWrites,
                                              [id |-> activeWrite.id, status |-> status])
    <3>1. activeWrite.id \in RequestIds
      BY <1>1, <2>2 DEF Typed
    <3>2. PICK status \in {"Disconnected", "Cancelled"} :
              completedWrites' = Append(completedWrites,
                                        [id |-> activeWrite.id, status |-> status])
      BY <2>2
    <3>3. [id |-> activeWrite.id, status |-> status] \in WriteResults
      BY <3>1, <3>2 DEF WriteResults, Statuses
    <3>4. completedWrites \in Seq(WriteResults)
      BY <1>1 DEF Typed, WriteResults
    <3> HIDE DEF WriteResults
    <3> QED
      BY <2>2, <3>2, <3>3, <3>4, AppendProperties
  <2> QED
    BY <2>1, <2>2 DEF CloseAbandon, PublishInterrupted
<1> QED
  BY <1>1, <1>2, <1>4, <1>5, CloseMove DEF CloseAbandon, threadVars, Typed

\* The worker has ended, so there is no write in progress left to finalize.
LEMMA CloseReapFacts ==
    ASSUME SessionInv, NEW c \in Callers, CloseReap(c)
    PROVE  /\ call[c].pc = "closeReap"
           /\ activeWrite = NoWrite
           /\ UNCHANGED <<queue, activeWrite, completedWrites, account>>
           /\ stopRequested' = FALSE
           /\ activeCancellation' = "None"
           /\ worker' = worker \/ worker' = Dormant
           /\ worker'.pc = "none"
           /\ thread' \in {"null", thread}
           /\ wakeEvent' \in {"null", wakeEvent}
           /\ call'[c].pc = "closeHandle"
           /\ call'[c].clean => thread' = "null"
           /\ call' \in [Callers -> CallStates]
           /\ \A d \in Callers : d # c => call'[d] = call[d]
<1>1. Typed /\ call[c].pc = "closeReap" /\ call[c] \in CallStates
  BY DEF CloseReap, At, SessionInv, Typed
<1>2. thread # "running" /\ worker.pc = "none"
  BY <1>1 DEF SessionInv, Threads, WorkerAt
<1>3. activeWrite = NoWrite
  BY <1>2 DEF SessionInv, WriteAgrees, ActiveAgrees
<1>4. UNCHANGED <<queue, activeWrite, completedWrites, account>>
  BY <1>3 DEF CloseReap, CanFinalize
<1>5. PICK threadClosed, eventClosed \in BOOLEAN :
          /\ thread' = IF threadClosed THEN "null" ELSE thread
          /\ wakeEvent' = IF eventClosed THEN "null" ELSE wakeEvent
          /\ worker' = IF threadClosed THEN Dormant ELSE worker
          /\ call' = [call EXCEPT ![c].pc = "closeHandle",
                                  ![c].clean = threadClosed /\ eventClosed]
  BY DEF CloseReap
<1> DEFINE both == threadClosed /\ eventClosed
<1>6. both \in BOOLEAN /\ (both => thread' = "null")
  BY <1>5
<1>7. call' = [call EXCEPT ![c] = [call[c] EXCEPT !.pc = "closeHandle", !.clean = both]]
  BY <1>5
<1> HIDE DEF both
<1>8. [call[c] EXCEPT !.pc = "closeHandle", !.clean = both] \in CallStates
  BY <1>1, <1>6 DEF CallStates, LockedPlaces, ClosingPlaces
<1>9. /\ call' \in [Callers -> CallStates]
      /\ call'[c].pc = "closeHandle"
      /\ call'[c].clean = both
      /\ \A d \in Callers : d # c => call'[d] = call[d]
  BY <1>1, <1>7, <1>8 DEF Typed, CallStates
<1>10. /\ worker' = worker \/ worker' = Dormant
       /\ worker'.pc = "none"
       /\ thread' \in {"null", thread}
       /\ wakeEvent' \in {"null", wakeEvent}
  BY <1>2, <1>5 DEF Dormant
<1>11. stopRequested' = FALSE /\ activeCancellation' = "None"
  BY DEF CloseReap
<1> QED
  BY <1>1, <1>3, <1>4, <1>6, <1>9, <1>10, <1>11

LEMMA DormantTyped == Dormant \in WorkerStates /\ Dormant.pc = "none"
<1>1. NoRequest \in RequestsIn(Generations) \cup {NoRequest}
  OBVIOUS
<1>2. NoOutcome \in [ok : BOOLEAN, category : Categories, bytes : Nat]
  BY DEF NoOutcome, Categories
<1> QED
  BY <1>1, <1>2 DEF Dormant, WorkerStates

LEMMA CloseReapStep ==
    ASSUME SessionInv, NEW c \in Callers, CloseReap(c)
    PROVE  SessionInv'
<1> USE SessionConstants DEF sessionVars, locks, external
<1>1. /\ call[c].pc = "closeReap"
      /\ activeWrite = NoWrite
      /\ UNCHANGED <<queue, activeWrite, completedWrites, account>>
      /\ stopRequested' = FALSE
      /\ activeCancellation' = "None"
      /\ worker' = worker \/ worker' = Dormant
      /\ worker'.pc = "none"
      /\ thread' \in {"null", thread}
      /\ wakeEvent' \in {"null", wakeEvent}
      /\ call'[c].pc = "closeHandle"
      /\ call'[c].clean => thread' = "null"
      /\ call' \in [Callers -> CallStates]
      /\ \A d \in Callers : d # c => call'[d] = call[d]
  BY CloseReapFacts
<1>2. UNCHANGED <<state, generation, generationCounter, handle, lineOption, lifecycleLock,
                  ioLock, port, line>>
  BY DEF CloseReap
<1>3. /\ lifecycleLock = c
      /\ state \in {"Closing", "Faulted"}
      /\ \A d \in Callers : d # c => call[d].pc \notin LockedPlaces
      /\ thread # "running"
      /\ queue.pending = << >>
      /\ worker.pc = "none"
  BY <1>1 DEF SessionInv, Lifecycle, Threads, WorkerAt, LockedPlaces, ClosingPlaces
<1>4. Typed'
  <2>1. worker' \in WorkerStates
    BY <1>1, DormantTyped DEF SessionInv, Typed
  <2>2. activeCancellation' \in Categories
    BY <1>1 DEF Categories
  <2> QED
    BY <1>1, <1>2, <2>1, <2>2, ZenonT(40) DEF SessionInv, Typed
<1>5. Lifecycle'
  BY <1>1, <1>2, <1>3 DEF SessionInv, Lifecycle, At, LockedPlaces, OpeningPlaces, ClosingPlaces
<1>6. PortOwned'
  BY <1>1, <1>2, <1>3
  DEF SessionInv, PortOwned, HandleIsCurrent, At, WorkerAt,
      LockedPlaces, OpeningPlaces, ClosingPlaces, NativePlaces
<1>7. Threads'
  BY <1>1, <1>2, <1>3 DEF SessionInv, Threads, WorkerAt, LockedPlaces, ClosingPlaces
<1>8. WriteAgrees'
  BY <1>1 DEF SessionInv, WriteAgrees, ActiveAgrees, BusyPlaces
<1> QED
  BY <1>4, <1>5, <1>6, <1>7, <1>8 DEF SessionInv

LEMMA CloseHandleStep ==
    ASSUME SessionInv, NEW c \in Callers, CloseHandle(c)
    PROVE  SessionInv'
<1> USE SessionConstants DEF writeVars, threadVars, locks
<1>1. /\ Typed
      /\ call[c].pc = "closeHandle"
      /\ call[c] \in CallStates
      /\ ioLock = NoOne
      /\ UNCHANGED <<state, generation, generationCounter, lineOption, writeVars, threadVars,
                     locks, line, worker>>
  BY DEF CloseHandle, At, SessionInv, Typed
<1>2. /\ lifecycleLock = c
      /\ state \in {"Closing", "Faulted"}
      /\ \A d \in Callers : d # c => call[d].pc \notin LockedPlaces
      /\ \A d \in Callers : call[d].pc \notin NativePlaces
      /\ ~WorkerAt("native")
      /\ handle <=> port # PortClosed
  BY <1>1 DEF SessionInv, Lifecycle, PortOwned, HandleIsCurrent, LockedPlaces, ClosingPlaces,
              NativePlaces
<1>3. /\ call' \in [Callers -> CallStates]
      /\ call'[c].pc = "closeEnd"
      /\ \A d \in Callers : d # c => call'[d] = call[d]
      /\ \/ handle' = FALSE /\ port' = PortClosed /\ call'[c].clean = call[c].clean
         \/ UNCHANGED <<handle, port>> /\ call'[c].clean = FALSE
  <2>1. "closeEnd" \in Places
    BY DEF Places, LockedPlaces, ClosingPlaces
  <2>2. CASE handle' = FALSE /\ port' = PortClosed /\ Goto(c, "closeEnd")
    BY <1>1, <2>1, <2>2, GotoFacts
  <2>3. CASE /\ UNCHANGED <<handle, port>>
             /\ call' = [call EXCEPT ![c].pc = "closeEnd", ![c].clean = FALSE]
    <3>1. call' = [call EXCEPT ![c] = [call[c] EXCEPT !.pc = "closeEnd", !.clean = FALSE]]
      BY <2>3
    <3>2. [call[c] EXCEPT !.pc = "closeEnd", !.clean = FALSE] \in CallStates
      BY <1>1 DEF CallStates, LockedPlaces, ClosingPlaces
    <3> QED
      BY <1>1, <2>3, <3>1, <3>2 DEF Typed, CallStates
  <2> QED
    BY <1>2, <2>2, <2>3 DEF CloseHandle
<1>4. Typed'
  BY <1>1, <1>3, ZenonT(40) DEF Typed
<1>5. Lifecycle'
  BY <1>1, <1>2, <1>3 DEF SessionInv, Lifecycle, At, LockedPlaces, OpeningPlaces, ClosingPlaces
<1>6. PortOwned'
  <2>1. handle' <=> port' # PortClosed
    BY <1>2, <1>3
  <2>2. call'[c].clean => port' = PortClosed
    <3>1. handle \in BOOLEAN
      BY <1>1 DEF Typed
    <3> QED
      BY <1>3, <3>1
  <2> QED
    BY <1>1, <1>2, <1>3, <2>1, <2>2
    DEF SessionInv, PortOwned, HandleIsCurrent, At, WorkerAt,
        LockedPlaces, OpeningPlaces, ClosingPlaces, NativePlaces
<1>7. Threads'
  BY <1>1, <1>2, <1>3 DEF SessionInv, Threads, WorkerAt, LockedPlaces, ClosingPlaces
<1>8. WriteAgrees'
  BY <1>1 DEF SessionInv, WriteAgrees, ActiveAgrees
<1> QED
  BY <1>4, <1>5, <1>6, <1>7, <1>8 DEF SessionInv

-----------------------------------------------------------------------------
\* Queued writes

\* What enqueueWrite does, whether the request stays in the queue or not.
LEMMA EnqueueWriteFacts ==
    ASSUME SessionInv, NEW c \in Callers, NEW bytes \in PayloadSizes, EnqueueWrite(c, bytes)
    PROVE  /\ state = "Open"
           /\ queue.nextRequestId \in RequestIds
           /\ queue'.nextRequestId = NextId(queue.nextRequestId)
           /\ Sound(queue', Generations)
           /\ queue'.active = queue.active
           /\ \/ /\ accepted' = accepted \cup {queue.nextRequestId}
                 /\ \A id : IsPending(queue', id) <=>
                                IsPending(queue, id) \/ id = queue.nextRequestId
                 /\ thread' = "running"
                 /\ wakeEvent' = "set"
              \/ /\ UNCHANGED accepted
                 /\ SameRequests(queue, queue')
                 /\ wakeEvent' \in {wakeEvent, "clear"}
                 /\ wakeEvent # "null" => wakeEvent' = wakeEvent
           /\ \/ UNCHANGED <<thread, worker>>
              \/ /\ worker.pc = "none"
                 /\ worker' \in WorkerStates
                 /\ \/ thread' = "null" /\ worker'.pc = "none"
                    \/ thread' = "running" /\ worker'.pc = "check" /\ wakeEvent' # "null"
           /\ stopRequested' = FALSE
<1>1. /\ Typed
      /\ state = "Open"
      /\ EnqueueStatus(queue, bytes, 1, generation) = "Accepted"
      /\ bytes \in Nat
      /\ generation \in Generations
      /\ Sound(queue, Generations)
  BY SessionConstants DEF EnqueueWrite, SessionInv, Typed
<1>2. thread # "running" => worker.pc = "none"
  BY DEF SessionInv, Threads, WorkerAt
<1>3. stopRequested = FALSE
  BY <1>1 DEF SessionInv, Threads, Typed
<1>4. Dormant \in WorkerStates /\ Dormant.pc = "none"
  BY DormantTyped
<1>5. [Dormant EXCEPT !.pc = "check"] \in WorkerStates
      /\ [Dormant EXCEPT !.pc = "check"].pc = "check"
  BY <1>4 DEF WorkerStates
<1> HIDE DEF Dormant, WorkerStates
<1>6. CASE /\ queue' = Enqueue(queue, bytes, generation)
           /\ accepted' = accepted \cup {queue.nextRequestId}
           /\ IF thread = "running"
              THEN UNCHANGED <<stopRequested, thread, worker>>
              ELSE /\ stopRequested' = FALSE
                   /\ thread' = "running"
                   /\ worker' = [Dormant EXCEPT !.pc = "check"]
           /\ WakeWorker
  <2>1. /\ Sound(queue', Generations)
        /\ queue'.active = queue.active
        /\ queue.nextRequestId \in RequestIds
        /\ queue'.nextRequestId = NextId(queue.nextRequestId)
        /\ \A id : IsPending(queue', id) <=> IsPending(queue, id) \/ id = queue.nextRequestId
    BY <1>1, <1>6, EnqueueFacts
  <2> QED
    BY <1>1, <1>2, <1>3, <1>5, <1>6, <2>1 DEF WakeWorker
<1>7. CASE /\ queue' = CancelPending(Enqueue(queue, bytes, generation), queue.nextRequestId)
           /\ \/ UNCHANGED <<stopRequested, thread, wakeEvent, worker>>
              \/ /\ thread # "running"
                 /\ thread' = "null"
                 /\ wakeEvent' = IF wakeEvent = "null" THEN "clear" ELSE wakeEvent
                 /\ stopRequested' = FALSE
                 /\ worker' = Dormant
              \/ /\ thread # "running"
                 /\ thread' = "running"
                 /\ wakeEvent' = IF wakeEvent = "null" THEN "clear" ELSE wakeEvent
                 /\ stopRequested' = FALSE
                 /\ worker' = [Dormant EXCEPT !.pc = "check"]
           /\ UNCHANGED accepted
  <2>1. /\ Sound(queue', Generations)
        /\ SameRequests(queue, queue')
        /\ queue.nextRequestId \in RequestIds
        /\ queue'.nextRequestId = NextId(queue.nextRequestId)
    BY <1>1, <1>7, WithdrawFacts
  <2>2. queue'.active = queue.active
    BY <2>1 DEF SameRequests
  <2> QED
    BY <1>1, <1>2, <1>3, <1>4, <1>5, <1>7, <2>1, <2>2
<1> QED
  BY <1>6, <1>7 DEF EnqueueWrite

LEMMA EnqueueWriteStep ==
    ASSUME SessionInv, NEW c \in Callers, NEW bytes \in PayloadSizes, EnqueueWrite(c, bytes)
    PROVE  SessionInv'
<1> USE SessionConstants DEF sessionVars, locks, external
<1>1. /\ UNCHANGED <<state, generation, generationCounter, handle, lineOption, completedWrites,
                     activeWrite, activeCancellation, lifecycleLock, ioLock, port, line, call>>
      /\ stopRequested' = FALSE
      /\ state = "Open"
      /\ Sound(queue', Generations)
      /\ queue'.active = queue.active
      /\ \/ UNCHANGED <<thread, worker>>
         \/ /\ worker.pc = "none"
            /\ worker' \in WorkerStates
            /\ \/ thread' = "null" /\ worker'.pc = "none"
               \/ thread' = "running" /\ worker'.pc = "check" /\ wakeEvent' # "null"
      /\ \/ thread' = "running" /\ wakeEvent' = "set"
         \/ /\ SameRequests(queue, queue')
            /\ wakeEvent' \in {wakeEvent, "clear"}
            /\ wakeEvent # "null" => wakeEvent' = wakeEvent
  BY EnqueueWriteFacts DEF EnqueueWrite
<1>2. \A d \in Callers : call[d].pc \notin LockedPlaces
  BY <1>1 DEF SessionInv, Lifecycle, LockedPlaces, At
<1>3. Typed'
  <2>1. /\ stopRequested' \in BOOLEAN
        /\ thread' \in {"null", "running", "ended"}
        /\ wakeEvent' \in {"null", "clear", "set"}
        /\ worker' \in WorkerStates
    BY <1>1 DEF SessionInv, Typed
  <2> QED
    BY <1>1, <2>1 DEF SessionInv, Typed
<1>4. Lifecycle'
  BY <1>1 DEF SessionInv, Lifecycle, At
<1>5. PortOwned'
  BY <1>1 DEF SessionInv, PortOwned, HandleIsCurrent, At, WorkerAt
<1>6. Threads'
  BY <1>1, <1>2 DEF SessionInv, Threads, WorkerAt, SameRequests, LockedPlaces, ClosingPlaces
<1>7. WriteAgrees'
  BY <1>1 DEF SessionInv, WriteAgrees, ActiveAgrees, BusyPlaces
<1> QED
  BY <1>3, <1>4, <1>5, <1>6, <1>7 DEF SessionInv

LEMMA CancelPendingWritesStep ==
    ASSUME SessionInv, NEW c \in Callers, CancelPendingWrites(c)
    PROVE  SessionInv'
<1> USE SessionConstants DEF sessionVars, locks, external
<1>1. /\ UNCHANGED <<state, generation, generationCounter, handle, lineOption, completedWrites,
                     activeWrite, activeCancellation, stopRequested, thread, lifecycleLock,
                     ioLock, port, line, call, worker>>
      /\ queue' = CancelAllPending(queue)
      /\ wakeEvent' = IF wakeEvent = "null" THEN "null" ELSE "set"
  BY DEF CancelPendingWrites, Signalled
<1>2. Sound(queue', Generations) /\ queue'.pending = << >> /\ queue'.active = queue.active
  BY <1>1, CancelAllFacts DEF SessionInv, Typed
<1>3. Typed'
  BY <1>1, <1>2 DEF SessionInv, Typed
<1>4. Lifecycle'
  BY <1>1 DEF SessionInv, Lifecycle, At
<1>5. PortOwned'
  BY <1>1 DEF SessionInv, PortOwned, HandleIsCurrent, At, WorkerAt
<1>6. Threads'
  BY <1>1, <1>2 DEF SessionInv, Threads, WorkerAt
<1>7. WriteAgrees'
  BY <1>1, <1>2 DEF SessionInv, WriteAgrees, ActiveAgrees
<1> QED
  BY <1>3, <1>4, <1>5, <1>6, <1>7 DEF SessionInv

LEMMA IoDisconnectedStep ==
    ASSUME SessionInv, NEW c \in Callers, IoDisconnected(c)
    PROVE  SessionInv'
<1> USE SessionConstants DEF locks, external
<1>1. /\ Typed
      /\ call[c].pc = "ioDisconnected"
      /\ UNCHANGED <<lifecycleLock, ioLock, port, line, worker>>
  BY DEF IoDisconnected, At, SessionInv
<1>2. /\ call' \in [Callers -> CallStates]
      /\ call'[c].pc = "idle"
      /\ \A d \in Callers : d # c => call'[d] = call[d]
  BY <1>1, ReturnFacts DEF IoDisconnected
<1>3. /\ UNCHANGED <<generationCounter, handle, lineOption, activeWrite, thread>>
      /\ \/ UNCHANGED <<state, generation, stopRequested, activeCancellation, queue, wakeEvent>>
         \/ /\ state = "Open" /\ state' = "Faulted"
            /\ generation' = Unassigned
            /\ stopRequested' = TRUE
            /\ queue'.pending = << >>
      /\ wakeEvent' = wakeEvent \/ (wakeEvent # "null" /\ wakeEvent' = "set")
      /\ activeCancellation' \in Categories
      /\ Sound(queue', Generations)
      /\ queue'.active = queue.active
      /\ completedWrites' \in Seq(WriteResults)
  <2>1. MarkDisconnected(call[c].generation)
    BY DEF IoDisconnected
  <2> QED
    BY <1>1, <2>1, MarkDisconnectedFacts DEF IsCurrent
<1>4. call[c].pc \notin LockedPlaces \cup NativePlaces
  BY <1>1 DEF LockedPlaces, OpeningPlaces, ClosingPlaces, NativePlaces
<1>5. Typed'
  <2>1. Unassigned \in Generations /\ "Faulted" \in States
    BY DEF States, Generations, Unassigned
  <2>2. state' \in States
    BY <1>1, <1>3, <2>1 DEF Typed
  <2>3. generation' \in Generations
    BY <1>1, <1>3, <2>1 DEF Typed
  <2>4. stopRequested' \in BOOLEAN
    BY <1>1, <1>3 DEF Typed
  <2> QED
    BY <1>1, <1>2, <1>3, <2>2, <2>3, <2>4 DEF Typed, WriteResults
<1>6. Lifecycle'
  <2>1. state = "Open" => \A d \in Callers : call[d].pc \notin LockedPlaces
    BY DEF SessionInv, Lifecycle, LockedPlaces, At
  <2> QED
    BY <1>1, <1>2, <1>3, <1>4, <2>1
    DEF SessionInv, Lifecycle, At, LockedPlaces, OpeningPlaces, ClosingPlaces
<1>7. PortOwned'
  BY <1>1, <1>2, <1>3, <1>4 DEF SessionInv, PortOwned, HandleIsCurrent, At, WorkerAt, NativePlaces
<1>8. Threads'
  <2>1. state = "Open" => \A d \in Callers : call[d].pc \notin LockedPlaces
    BY DEF SessionInv, Lifecycle, LockedPlaces, At
  <2> QED
    BY <1>1, <1>2, <1>3, <2>1 DEF SessionInv, Threads, WorkerAt, LockedPlaces, ClosingPlaces
<1>9. WriteAgrees'
  BY <1>1, <1>3 DEF SessionInv, WriteAgrees, ActiveAgrees
<1> QED
  BY <1>5, <1>6, <1>7, <1>8, <1>9 DEF SessionInv

-----------------------------------------------------------------------------
\* Steps of the worker: it goes from one place to another, may take or release
\* ioLock_, may fault the session it works for, and may end.
LEMMA WorkerMove ==
    ASSUME SessionInv,
           worker.pc # "none",
           worker' \in WorkerStates,
           UNCHANGED <<generationCounter, handle, lineOption, lifecycleLock, call, port, line>>,
           \/ UNCHANGED <<state, generation, stopRequested>>
           \/ /\ state' = "Faulted"
              /\ generation' = Unassigned
              /\ stopRequested' = TRUE
              /\ queue'.pending = << >>,
           Sound(queue', Generations),
           queue.pending = << >> => queue'.pending = << >>,
           completedWrites' \in Seq(WriteResults),
           activeWrite' \in [id : RequestIds, generation : Generations, published : BOOLEAN]
                            \cup {NoWrite},
           activeCancellation' \in Categories,
           \/ activeCancellation' \in {"None", activeCancellation}
           \/ state' = "Faulted",
           \/ UNCHANGED thread /\ worker'.pc # "none"
           \/ thread' = "ended" /\ worker'.pc = "none" /\ stopRequested',
           stopRequested => stopRequested',
           stopRequested' \in BOOLEAN,
           wakeEvent' = wakeEvent \/ wakeEvent' \in {"clear", "set"},
           worker'.pc = "wait" /\ queue'.pending # << >> => wakeEvent' = "set",
           \/ UNCHANGED ioLock /\ worker.pc # "native" /\ worker'.pc # "native"
           \/ /\ ioLock = NoOne /\ ioLock' = Worker
              /\ worker'.pc = "native" /\ Validated(worker'.request.generation)
           \/ worker.pc = "native" /\ ioLock' = NoOne /\ worker'.pc # "native",
           WriteAgrees'
    PROVE  SessionInv'
<1> USE SessionConstants
<1>1. /\ thread = "running"
      /\ wakeEvent # "null"
      /\ state \notin {"Closed", "Opening"}
      /\ \A d \in Callers : call[d].pc \notin {"closeReap", "closeHandle", "closeEnd"}
  BY DEF SessionInv, Threads, WorkerAt
<1>2. state = "Open" => \A d \in Callers : call[d].pc \notin LockedPlaces
  BY DEF SessionInv, Lifecycle, LockedPlaces, At
<1>3. Typed'
  <2>1. Unassigned \in Generations /\ "Faulted" \in States
    BY DEF States, Generations, Unassigned
  <2>2. state' \in States
    BY <2>1 DEF SessionInv, Typed
  <2>3. generation' \in Generations
    BY <2>1 DEF SessionInv, Typed
  <2>4. /\ thread' \in {"null", "running", "ended"}
        /\ wakeEvent' \in {"null", "clear", "set"}
        /\ ioLock' \in Callers \cup {NoOne, Worker}
    BY DEF SessionInv, Typed
  <2> QED
    BY <2>2, <2>3, <2>4 DEF SessionInv, Typed, WriteResults
<1>4. Lifecycle'
  BY <1>1, <1>2 DEF SessionInv, Lifecycle, At, LockedPlaces, OpeningPlaces, ClosingPlaces
<1>5. PortOwned'
  <2>1. HandleIsCurrent'
    BY DEF SessionInv, PortOwned, HandleIsCurrent, WorkerAt, Validated, IsCurrent
  <2>2. worker'.pc = "native" => port \notin {PortClosed, PortIdle}
    BY DEF SessionInv, PortOwned, Validated, IsCurrent, PortClosed, PortIdle, Unassigned
  <2> QED
    BY <2>1, <2>2 DEF SessionInv, PortOwned, WorkerAt, At
<1>6. Threads'
  BY <1>1, <1>2 DEF SessionInv, Threads, WorkerAt, LockedPlaces, ClosingPlaces
<1> QED
  BY <1>3, <1>4, <1>5, <1>6 DEF SessionInv

\* Where the worker goes without taking other work.
LEMMA WorkerFacts ==
    ASSUME Typed, NEW pc \in {"none", "check", "wait"} \cup BusyPlaces
    PROVE  /\ worker.request \in RequestsIn(Generations) \cup {NoRequest}
           /\ worker.outcome.bytes \in Nat
           /\ WorkerGoto(pc) =>
                  /\ worker' \in WorkerStates
                  /\ worker'.pc = pc
                  /\ worker'.request = worker.request
                  /\ worker'.outcome = worker.outcome
           /\ \A ok \in BOOLEAN, category \in Categories, bytes \in Nat :
                  Outcome(pc, ok, category, bytes) =>
                      /\ worker' \in WorkerStates
                      /\ worker'.pc = pc
                      /\ worker'.request = worker.request
                      /\ worker'.outcome = [ok |-> ok, category |-> category, bytes |-> bytes]
                      /\ worker'.outcome.category = category
                      /\ worker'.outcome.bytes = bytes
<1>1. worker \in WorkerStates
  BY DEF Typed
<1>2. WorkerGoto(pc) =>
          /\ worker' \in WorkerStates
          /\ worker'.pc = pc
          /\ worker'.request = worker.request
          /\ worker'.outcome = worker.outcome
  BY <1>1 DEF WorkerGoto, WorkerStates
<1>3. ASSUME NEW ok \in BOOLEAN, NEW category \in Categories, NEW bytes \in Nat,
             Outcome(pc, ok, category, bytes)
      PROVE  /\ worker' \in WorkerStates
             /\ worker'.pc = pc
             /\ worker'.request = worker.request
             /\ worker'.outcome = [ok |-> ok, category |-> category, bytes |-> bytes]
             /\ worker'.outcome.category = category
             /\ worker'.outcome.bytes = bytes
  BY <1>1, <1>3 DEF Outcome, WorkerStates
<1>4. worker.request \in RequestsIn(Generations) \cup {NoRequest} /\ worker.outcome.bytes \in Nat
  BY <1>1 DEF WorkerStates
<1> QED
  BY <1>2, <1>3, <1>4

LEMMA OutcomeFacts ==
    ASSUME Typed, NEW pc \in BusyPlaces, NEW ok \in BOOLEAN, NEW category \in Categories,
           NEW bytes \in Nat, Outcome(pc, ok, category, bytes)
    PROVE  /\ worker' \in WorkerStates
           /\ worker'.pc = pc
           /\ worker'.request = worker.request
           /\ worker'.outcome.category = category
           /\ worker'.outcome.bytes = bytes
  BY WorkerFacts, ZenonT(40)

\* While the worker is busy its request is the active one.
LEMMA BusyFacts ==
    ASSUME SessionInv, worker.pc \in BusyPlaces
    PROVE  /\ queue.active = worker.request
           /\ queue.active \in RequestsIn(Generations)
           /\ queue.active.id \in RequestIds
           /\ HasActive(queue)
           /\ activeWrite # NoWrite
           /\ activeWrite \in [id : RequestIds, generation : Generations, published : BOOLEAN]
           /\ activeWrite.id = queue.active.id
           /\ activeWrite.generation = queue.active.generation
           /\ worker.outcome.bytes \in Nat
           /\ worker.outcome.bytes <= worker.request.bytes
           /\ worker.outcome.category \in Categories
<1>1. /\ queue.active = worker.request
      /\ activeWrite # NoWrite
      /\ activeWrite.id = queue.active.id
      /\ activeWrite.generation = queue.active.generation
      /\ worker.outcome.bytes <= worker.request.bytes
  BY DEF SessionInv, WriteAgrees, ActiveAgrees, BusyPlaces
<1>2. activeWrite \in [id : RequestIds, generation : Generations, published : BOOLEAN]
  BY <1>1 DEF SessionInv, Typed
<1>3. queue.active.id \in RequestIds /\ queue.active.id # Unassigned
  BY <1>1, <1>2 DEF RequestIds, Unassigned
<1>4. queue.active \in RequestsIn(Generations) \cup {NoRequest}
  BY DEF SessionInv, Typed, Sound, QueuesIn
<1>5. queue.active \in RequestsIn(Generations)
  BY <1>3, <1>4 DEF NoRequest
<1>6. worker.outcome.bytes \in Nat /\ worker.outcome.category \in Categories
  BY DEF SessionInv, Typed, WorkerStates
<1> QED
  BY <1>1, <1>2, <1>3, <1>5, <1>6 DEF HasActive

\* The worker ends, takes the first pending request, or goes on waiting.
LEMMA WorkerCheckFacts ==
    ASSUME SessionInv, WorkerCheck
    PROVE  /\ activeWrite = NoWrite
           /\ \/ /\ stopRequested
                 /\ UNCHANGED <<queue, activeWrite, activeCancellation>>
                 /\ worker' \in WorkerStates
                 /\ worker'.pc = "none"
                 /\ thread' = "ended"
              \/ /\ ~stopRequested
                 /\ CanActivate(queue)
                 /\ queue' = ActivateNext(queue)
                 /\ queue'.active \in RequestsIn(Generations)
                 /\ queue'.active.id \in RequestIds
                 /\ activeWrite' = [id |-> queue'.active.id,
                                    generation |-> queue'.active.generation,
                                    published |-> FALSE]
                 /\ activeCancellation' = "None"
                 /\ worker' \in WorkerStates
                 /\ worker'.pc = "start"
                 /\ worker'.request = queue'.active
                 /\ worker'.outcome = NoOutcome
                 /\ UNCHANGED thread
              \/ /\ ~stopRequested
                 /\ UNCHANGED <<queue, activeWrite, activeCancellation, thread>>
                 /\ worker' \in WorkerStates
                 /\ worker'.pc \in {"wait", "check"}
                 /\ worker'.pc = "wait" => queue.pending = << >>
<1>1. /\ Typed
      /\ worker.pc = "check"
      /\ activeWrite = NoWrite
  BY DEF WorkerCheck, WorkerAt, SessionInv, WriteAgrees, ActiveAgrees
<1>2. CASE stopRequested
  BY <1>1, <1>2, WorkerFacts DEF WorkerCheck, WorkerEnds, WorkerGoto
<1>3. CASE ~stopRequested /\ CanActivate(queue)
  <2>1. /\ queue' = ActivateNext(queue)
        /\ activeWrite' = [id |-> queue'.active.id, generation |-> queue'.active.generation,
                           published |-> FALSE]
        /\ activeCancellation' = "None"
        /\ worker' = [pc |-> "start", request |-> queue'.active, outcome |-> NoOutcome]
        /\ UNCHANGED thread
    BY <1>3 DEF WorkerCheck
  <2>2. queue'.active \in RequestsIn(Generations) /\ queue'.active.id \in RequestIds
    BY <1>1, <1>3, <2>1, ActivateFacts DEF Typed
  <2>3. NoOutcome \in [ok : BOOLEAN, category : Categories, bytes : Nat]
    BY DEF NoOutcome, Categories
  <2>4. worker' \in WorkerStates
    BY <2>1, <2>2, <2>3 DEF WorkerStates, BusyPlaces
  <2>5. worker'.pc = "start" /\ worker'.request = queue'.active /\ worker'.outcome = NoOutcome
    BY <2>1
  <2> QED
    BY <1>1, <1>3, <2>1, <2>2, <2>4, <2>5
<1>4. CASE ~stopRequested /\ ~CanActivate(queue)
  <2>1. PICK pc \in {"wait", "check"} :
            WorkerGoto(pc) /\ (pc = "wait" => queue.pending = << >>)
    BY <1>4 DEF WorkerCheck
  <2>2. worker' \in WorkerStates /\ worker'.pc = pc
    BY <1>1, <2>1, WorkerFacts
  <2>3. UNCHANGED <<queue, activeWrite, activeCancellation, thread>>
    BY <1>4 DEF WorkerCheck
  <2> QED
    BY <1>1, <1>4, <2>1, <2>2, <2>3
<1> QED
  BY <1>2, <1>3, <1>4

LEMMA WorkerCheckStep ==
    ASSUME SessionInv, WorkerCheck
    PROVE  SessionInv'
<1>1. /\ Typed
      /\ worker.pc = "check"
      /\ UNCHANGED <<sessionVars, completedWrites, stopRequested, wakeEvent, locks, external,
                     call>>
  BY DEF WorkerCheck, WorkerAt, SessionInv
<1>2. /\ worker' \in WorkerStates
      /\ worker'.pc \notin {"native", "disconnected", "finish", "acquire"}
      /\ activeCancellation' \in {"None", activeCancellation}
      /\ \/ UNCHANGED thread /\ worker'.pc # "none"
         \/ thread' = "ended" /\ worker'.pc = "none" /\ stopRequested
      /\ worker'.pc = "wait" => queue.pending = << >> /\ UNCHANGED queue
  BY WorkerCheckFacts
<1>3. /\ Sound(queue', Generations)
      /\ queue.pending = << >> => queue'.pending = << >>
  <2>1. CASE UNCHANGED queue
    BY <1>1, <2>1 DEF Typed
  <2>2. CASE queue' = ActivateNext(queue) /\ CanActivate(queue)
    BY <1>1, <2>2, ActivateFacts DEF Typed, CanActivate
  <2> QED
    BY <2>1, <2>2, WorkerCheckFacts
<1>4. activeWrite' \in [id : RequestIds, generation : Generations, published : BOOLEAN]
                       \cup {NoWrite}
  <2>1. CASE UNCHANGED activeWrite
    BY <1>1, <2>1 DEF Typed
  <2>2. CASE /\ queue'.active \in RequestsIn(Generations)
             /\ activeWrite' = [id |-> queue'.active.id,
                                generation |-> queue'.active.generation,
                                published |-> FALSE]
    BY <2>2 DEF RequestsIn
  <2> QED
    BY <2>1, <2>2, WorkerCheckFacts
<1>5. WriteAgrees'
  <2>1. CASE UNCHANGED <<queue, activeWrite>> /\ worker'.pc \in {"none", "wait", "check"}
    BY <1>1, <2>1, WorkerCheckFacts DEF SessionInv, WriteAgrees, ActiveAgrees, BusyPlaces
  <2>2. CASE /\ queue'.active \in RequestsIn(Generations)
             /\ queue'.active.id \in RequestIds
             /\ activeWrite' = [id |-> queue'.active.id,
                                generation |-> queue'.active.generation,
                                published |-> FALSE]
             /\ worker'.pc = "start"
             /\ worker'.request = queue'.active
             /\ worker'.outcome = NoOutcome
    <3>1. activeWrite' # NoWrite
      BY <2>2 DEF NoWrite, RequestIds, Unassigned
    <3>2. worker'.outcome.bytes <= worker'.request.bytes
      BY <2>2 DEF NoOutcome, RequestsIn
    <3> QED
      BY <2>2, <3>1, <3>2 DEF WriteAgrees, ActiveAgrees
  <2> QED
    BY <2>1, <2>2, WorkerCheckFacts
<1> QED
  BY <1>1, <1>2, <1>3, <1>4, <1>5, WorkerMove
  DEF sessionVars, locks, external, Typed, WriteResults, Categories

\* A step of the worker that leaves the queue, the write and the session alone.
LEMMA WorkerGoesOn ==
    ASSUME SessionInv, worker.pc # "none",
           worker' \in WorkerStates,
           worker'.pc \notin {"none", "wait"},
           worker'.pc \in BusyPlaces <=> worker.pc \in BusyPlaces,
           worker'.request = worker.request,
           worker'.pc \in BusyPlaces => worker'.outcome.bytes <= worker'.request.bytes,
           UNCHANGED <<sessionVars, writeVars, stopRequested, thread, lifecycleLock, external,
                       call>>,
           wakeEvent' = wakeEvent \/ wakeEvent' = "clear",
           \/ UNCHANGED ioLock /\ worker.pc # "native" /\ worker'.pc # "native"
           \/ /\ ioLock = NoOne /\ ioLock' = Worker
              /\ worker'.pc = "native" /\ Validated(worker'.request.generation)
           \/ worker.pc = "native" /\ ioLock' = NoOne /\ worker'.pc # "native"
    PROVE  SessionInv'
<1> USE DEF sessionVars, writeVars, external
<1>1. WriteAgrees'
  BY DEF SessionInv, WriteAgrees, ActiveAgrees, BusyPlaces, Typed, WorkerStates
<1>2. Sound(queue', Generations) /\ stopRequested' \in BOOLEAN
  BY DEF SessionInv, Typed
<1>3. completedWrites' \in Seq(WriteResults) /\ activeCancellation' \in Categories
  BY DEF SessionInv, Typed, WriteResults
<1> QED
  BY <1>1, <1>2, <1>3, WorkerMove DEF SessionInv, Typed

LEMMA WorkerWakeStep ==
    ASSUME SessionInv, WorkerWake
    PROVE  SessionInv'
<1>1. Typed /\ worker.pc = "wait" /\ WorkerGoto("check") /\ wakeEvent' = "clear"
  BY DEF WorkerWake, WorkerAt, SessionInv
<1>2. /\ worker' \in WorkerStates
      /\ worker'.pc = "check"
      /\ worker'.request = worker.request
  BY <1>1, WorkerFacts
<1> QED
  BY <1>1, <1>2, WorkerGoesOn DEF WorkerWake, locks, BusyPlaces

LEMMA WorkerStartStep ==
    ASSUME SessionInv, WorkerStart
    PROVE  SessionInv'
<1>1. /\ Typed
      /\ worker.pc = "start"
      /\ \/ Outcome("finish", FALSE, "Timeout", 0)
         \/ Outcome("finish", FALSE, "SessionClosed", 0)
         \/ WorkerGoto("acquire")
  BY DEF WorkerStart, WorkerAt, SessionInv
<1>2. /\ queue.active = worker.request
      /\ queue.active \in RequestsIn(Generations)
      /\ worker.outcome.bytes <= worker.request.bytes
  BY <1>1, BusyFacts DEF BusyPlaces
<1>3. worker.request.bytes \in Nat
  BY <1>2 DEF RequestsIn
<1>4. /\ worker' \in WorkerStates
      /\ worker'.pc \in {"finish", "acquire"}
      /\ worker'.request = worker.request
      /\ worker'.outcome.bytes = 0 \/ worker'.outcome = worker.outcome
  <2>1. {"finish", "acquire"} \subseteq BusyPlaces /\ {"Timeout", "SessionClosed"} \subseteq Categories
    BY DEF BusyPlaces, Categories
  <2> QED
    BY <1>1, <2>1, WorkerFacts
<1>5. worker'.outcome.bytes <= worker'.request.bytes
  BY <1>2, <1>3, <1>4
<1> QED
  BY <1>1, <1>4, <1>5, WorkerGoesOn DEF WorkerStart, locks, threadVars, BusyPlaces

LEMMA WorkerAcquireStep ==
    ASSUME SessionInv, WorkerAcquire
    PROVE  SessionInv'
<1>1. /\ Typed
      /\ worker.pc = "acquire"
      /\ ioLock = NoOne
      /\ \/ /\ Outcome("finish", FALSE, "SessionClosed", 0) /\ UNCHANGED ioLock
         \/ /\ Validated(worker.request.generation) /\ ioLock' = Worker
            /\ WorkerGoto("native")
  BY DEF WorkerAcquire, WorkerAt, SessionInv
<1>2. /\ queue.active = worker.request
      /\ queue.active \in RequestsIn(Generations)
      /\ worker.outcome.bytes <= worker.request.bytes
  BY <1>1, BusyFacts DEF BusyPlaces
<1>3. worker.request.bytes \in Nat
  BY <1>2 DEF RequestsIn
<1>4. /\ worker' \in WorkerStates
      /\ worker'.request = worker.request
      /\ \/ worker'.pc = "finish" /\ UNCHANGED ioLock
         \/ /\ worker'.pc = "native" /\ ioLock' = Worker
            /\ Validated(worker.request.generation)
      /\ worker'.outcome.bytes = 0 \/ worker'.outcome = worker.outcome
  <2>1. {"finish", "native"} \subseteq BusyPlaces /\ "SessionClosed" \in Categories
    BY DEF BusyPlaces, Categories
  <2> QED
    BY <1>1, <2>1, WorkerFacts
<1>5. worker'.outcome.bytes <= worker'.request.bytes
  BY <1>2, <1>3, <1>4
<1> QED
  BY <1>1, <1>4, <1>5, WorkerGoesOn DEF WorkerAcquire, threadVars, BusyPlaces

\* What a write of the worker leaves: its outcome says no more than happened.
LEMMA WorkerNativeFacts ==
    ASSUME SessionInv, WorkerNative
    PROVE  /\ worker.pc = "native"
           /\ worker' \in WorkerStates
           /\ worker'.pc \in {"disconnected", "finish"}
           /\ worker'.pc = "disconnected" => worker'.outcome.category = "Disconnected"
           /\ worker'.request = worker.request
           /\ worker.request.id \in RequestIds
           /\ worker'.outcome.bytes <= worker'.request.bytes
           /\ ioLock' = NoOne
           /\ wire' = wire \/ wire' = Append(wire, worker.request.id)
           /\ sent' = sent \/ sent' = sent \cup {worker.request.id}
           /\ worker'.outcome.category = "None" => worker.request.id \in sent'
           /\ lost' = lost \/ lost' = lost \cup {worker.request.generation}
           /\ worker'.outcome.category = "Disconnected" =>
                  worker.request.generation \in lost'
           /\ port \in Generations
<1>1. Typed /\ worker.pc = "native" /\ worker \in WorkerStates
  BY DEF WorkerNative, WorkerAt, SessionInv, Typed
<1>2. /\ queue.active = worker.request
      /\ queue.active \in RequestsIn(Generations)
      /\ queue.active.id \in RequestIds
  BY <1>1, BusyFacts DEF BusyPlaces
<1>3. worker.request.bytes \in Nat \ {0} /\ worker.request.id \in RequestIds
      /\ worker.request.generation \in Generations
  BY <1>2 DEF RequestsIn
<1>4. port = worker.request.generation
  BY <1>1 DEF SessionInv, PortOwned, HandleIsCurrent, WorkerAt
<1>5. PICK category \in Categories, bytes \in 0 .. worker.request.bytes :
          /\ WorkerRelease(category, bytes)
          /\ \/ category # "None" /\ UNCHANGED sent
             \/ sent' = sent \cup {worker.request.id}
          /\ wire' = wire \/ wire' = Append(wire, worker.request.id)
  <2>0. NativeCategories \subseteq Categories /\ {"None", "Timeout"} \subseteq Categories
    BY DEF NativeCategories, Categories
  <2>1. CASE WorkerRelease("Timeout", 0) /\ UNCHANGED <<wire, sent>>
    BY <1>3, <2>0, <2>1
  <2>2. CASE /\ wire' = Append(wire, worker.request.id)
             /\ sent' = sent \cup {worker.request.id}
             /\ WorkerRelease("None", worker.request.bytes)
    BY <1>3, <2>0, <2>2
  <2>3. CASE /\ wire' = Append(wire, worker.request.id)
             /\ \E category \in NativeCategories \ {"None"},
                   bytes \in 0 .. worker.request.bytes - 1 : WorkerRelease(category, bytes)
             /\ UNCHANGED sent
    <3>1. PICK category \in NativeCategories \ {"None"}, bytes \in 0 .. worker.request.bytes - 1 :
              WorkerRelease(category, bytes)
      BY <2>3
    <3>2. bytes \in 0 .. worker.request.bytes /\ category \in Categories
      BY <1>3, <2>0
    <3> QED
      BY <2>3, <3>1, <3>2
  <2> QED
    BY <2>1, <2>2, <2>3 DEF WorkerNative
<1>6. bytes \in Nat /\ bytes <= worker.request.bytes
  BY <1>3
<1>7. PICK pc \in {"disconnected", "finish"}, ok \in BOOLEAN, named \in {"SessionClosed", category} :
          /\ Outcome(pc, ok, named, bytes)
          /\ pc = "disconnected" => named = "Disconnected"
  <2>1. (category = "None") \in BOOLEAN
    OBVIOUS
  <2> QED
    BY <1>5, <2>1 DEF WorkerRelease
<1>8. named \in Categories /\ pc \in BusyPlaces
  BY DEF Categories, BusyPlaces
<1>9. /\ worker' \in WorkerStates
      /\ worker'.pc = pc
      /\ worker'.request = worker.request
      /\ worker'.outcome.category = named
      /\ worker'.outcome.bytes = bytes
  BY <1>1, <1>6, <1>7, <1>8, OutcomeFacts
<1>10. ioLock' = NoOne /\ lost' = IF category = "Disconnected" THEN lost \cup {port} ELSE lost
  BY <1>5 DEF WorkerRelease
<1>11. port \in Generations
  BY <1>3, <1>4
<1> QED
  BY <1>1, <1>3, <1>4, <1>5, <1>6, <1>7, <1>9, <1>10, <1>11

LEMMA WorkerNativeStep ==
    ASSUME SessionInv, WorkerNative
    PROVE  SessionInv'
<1>1. /\ worker.pc = "native"
      /\ worker' \in WorkerStates
      /\ worker'.pc \in {"disconnected", "finish"}
      /\ worker'.request = worker.request
      /\ worker'.outcome.bytes <= worker'.request.bytes
      /\ ioLock' = NoOne
  BY WorkerNativeFacts
<1> QED
  BY <1>1, WorkerGoesOn DEF WorkerNative, threadVars, BusyPlaces

LEMMA WorkerDisconnectedStep ==
    ASSUME SessionInv, WorkerDisconnected
    PROVE  SessionInv'
<1>1. /\ Typed
      /\ worker.pc = "disconnected"
      /\ MarkDisconnected(worker.request.generation)
      /\ WorkerGoto("finish")
      /\ UNCHANGED <<locks, external, call>>
  BY DEF WorkerDisconnected, WorkerAt, SessionInv
<1>2. /\ worker' \in WorkerStates
      /\ worker'.pc = "finish"
      /\ worker'.request = worker.request
      /\ worker'.outcome = worker.outcome
  BY <1>1, WorkerFacts DEF BusyPlaces
<1>3. /\ UNCHANGED <<generationCounter, handle, lineOption, activeWrite, thread>>
      /\ \/ UNCHANGED <<state, generation, stopRequested, activeCancellation, queue, wakeEvent>>
         \/ /\ state' = "Faulted"
            /\ generation' = Unassigned
            /\ stopRequested' = TRUE
            /\ queue'.pending = << >>
      /\ wakeEvent' = wakeEvent \/ wakeEvent' = "set"
      /\ activeCancellation' \in Categories
      /\ Sound(queue', Generations)
      /\ queue'.active = queue.active
      /\ completedWrites' \in Seq(WriteResults)
  BY <1>1, MarkDisconnectedFacts
<1>4. WriteAgrees'
  BY <1>1, <1>2, <1>3 DEF SessionInv, WriteAgrees, ActiveAgrees, BusyPlaces
<1>5. stopRequested' \in BOOLEAN /\ (stopRequested => stopRequested')
  <2>1. CASE UNCHANGED stopRequested
    BY <1>1, <2>1 DEF Typed
  <2>2. CASE stopRequested' = TRUE
    BY <2>2
  <2> QED
    BY <1>3, <2>1, <2>2
<1>6. queue.pending = << >> => queue'.pending = << >>
  BY <1>3
<1>7. \/ UNCHANGED <<state, generation, stopRequested>>
      \/ /\ state' = "Faulted"
         /\ generation' = Unassigned
         /\ stopRequested' = TRUE
         /\ queue'.pending = << >>
  BY <1>3
<1>8. \/ activeCancellation' \in {"None", activeCancellation}
      \/ state' = "Faulted"
  BY <1>3
<1>9. UNCHANGED <<generationCounter, handle, lineOption, lifecycleLock, call, port, line>>
      /\ UNCHANGED ioLock /\ UNCHANGED thread
  BY <1>1, <1>3 DEF locks, external
<1>10. activeWrite' \in [id : RequestIds, generation : Generations, published : BOOLEAN]
                        \cup {NoWrite}
  BY <1>1, <1>3 DEF Typed
<1> QED
  BY <1>1, <1>2, <1>3, <1>4, <1>5, <1>6, <1>7, <1>8, <1>9, <1>10, WorkerMove

LEMMA WorkerWaitFailsStep ==
    ASSUME SessionInv, WorkerWaitFails
    PROVE  SessionInv'
<1>1. /\ Typed
      /\ worker.pc = "wait"
      /\ WorkerGoto("none")
      /\ thread' = "ended"
      /\ UNCHANGED <<generationCounter, handle, lineOption, activeWrite, activeCancellation,
                     wakeEvent, locks, external, call>>
  BY DEF WorkerWaitFails, WorkerEnds, WorkerGoto, WorkerAt, SessionInv
<1>2. worker' \in WorkerStates /\ worker'.pc = "none"
  BY <1>1, WorkerFacts
<1>3. /\ \/ UNCHANGED <<state, generation, stopRequested>> /\ stopRequested
         \/ /\ state' = "Faulted"
            /\ generation' = Unassigned
            /\ stopRequested' = TRUE
      /\ Sound(queue', Generations)
      /\ queue'.pending = << >>
      /\ queue'.active = queue.active
      /\ completedWrites' \in Seq(WriteResults)
  <2>1. CASE stopRequested
    <3>1. queue.pending = << >>
      BY <2>1 DEF SessionInv, Threads
    <3> QED
      BY <1>1, <2>1, <3>1 DEF WorkerWaitFails, Typed, WriteResults
  <2>2. CASE ~stopRequested
    <3>1. SettlePending("NativeFailure")
      BY <2>2 DEF WorkerWaitFails
    <3>2. /\ Sound(queue', Generations)
          /\ queue'.pending = << >>
          /\ queue'.active = queue.active
          /\ completedWrites' \in Seq(WriteResults)
      BY <1>1, <3>1, SettleFacts
    <3> QED
      BY <2>2, <3>2 DEF WorkerWaitFails
  <2> QED
    BY <2>1, <2>2
<1>4. stopRequested' \in BOOLEAN /\ stopRequested'
  BY <1>1, <1>3 DEF Typed
<1>5. WriteAgrees'
  BY <1>1, <1>2, <1>3 DEF SessionInv, WriteAgrees, ActiveAgrees, BusyPlaces
<1> QED
  BY <1>1, <1>2, <1>3, <1>4, <1>5, WorkerMove DEF locks, external, Typed

\* What the outcome of the worker is called, and that it can be said of the
\* write in progress.
LEMMA FinishStatusFacts ==
    ASSUME SessionInv, worker.pc \in BusyPlaces, NEW late \in BOOLEAN
    PROVE  /\ FinishCategory(late) \in Categories
           /\ FinishStatus(late) \in TerminalStatuses
           /\ FinishStatus(late) = "Sent" => worker.outcome.category = "None"
<1>1. /\ worker.outcome.category \in Categories
      /\ activeCancellation \in Categories
  BY BusyFacts DEF SessionInv, Typed
<1>2. FinishCategory(late) \in Categories
  BY <1>1 DEF FinishCategory, Categories
<1>3. ~(stopRequested \/ activeCancellation # "None") /\ FinishCategory(late) = "None"
          => worker.outcome.category = "None"
  BY <1>1 DEF FinishCategory
<1> DEFINE Named(x) == CASE x = "None" -> "Sent"
                         [] x \in {"Timeout", "Disconnected", "Cancelled"} -> x
                         [] OTHER -> "Failed"
<1>4. ASSUME NEW x
      PROVE  /\ Named(x) \in TerminalStatuses
             /\ Named(x) = "Sent" => x = "None"
  BY DEF TerminalStatuses
<1>5. FinishStatus(late) =
          IF stopRequested \/ activeCancellation # "None"
          THEN IF FinishCategory(late) = "Disconnected" THEN "Disconnected" ELSE "Closed"
          ELSE Named(FinishCategory(late))
  BY DEF FinishStatus
<1> HIDE DEF Named
<1> QED
  BY <1>2, <1>3, <1>4, <1>5 DEF TerminalStatuses

LEMMA FinalStatusFacts ==
    ASSUME NEW status \in TerminalStatuses, NEW bytes
    PROVE  /\ FinalStatus(status, bytes) \in Statuses
           /\ FinalStatus(status, bytes) = "Succeeded" => status = "Sent"
<1>1. /\ CompletedStatus(queue, status, bytes) \in TerminalStatuses
      /\ CompletedStatus(queue, status, bytes) = "Sent" => status = "Sent"
  BY DEF CompletedStatus, TerminalStatuses
<1>2. ASSUME NEW x \in TerminalStatuses
      PROVE  /\ OperationStatus(x) \in Statuses
             /\ OperationStatus(x) = "Succeeded" => x = "Sent"
  BY DEF OperationStatus, TerminalStatuses, Statuses
<1> QED
  BY <1>1, <1>2 DEF FinalStatus

\* The end of a write: the write in progress is always finalized, and the
\* session faults only when the write found the device of the open session gone.
FinishedWith(gone, status) ==
    LET drained == IF gone THEN CancelAllPending(queue) ELSE queue
        credited == IF gone THEN CreditPending("Disconnected") ELSE account
    IN  /\ queue' = CompleteActive(drained)
        /\ activeWrite' = NoWrite
        /\ account' = IF activeWrite.published THEN credited
                      ELSE Credit(credited, activeWrite.id, status)
        /\ state' = IF gone THEN "Faulted" ELSE state
        /\ generation' = IF gone THEN Unassigned ELSE generation
        /\ stopRequested' = (stopRequested \/ gone)
        /\ IF stopRequested \/ gone
           THEN WorkerEnds
           ELSE WorkerGoto("check") /\ UNCHANGED thread

LEMMA FinishFacts ==
    ASSUME SessionInv, WorkerFinish
    PROVE  /\ worker.pc = "finish"
           /\ completedWrites' \in Seq(WriteResults)
           /\ activeCancellation' = "None"
           /\ \E gone \in BOOLEAN, status \in Statuses :
                  /\ FinishedWith(gone, status)
                  /\ gone => /\ state = "Open"
                             /\ generation = worker.request.generation
                             /\ worker.outcome.category = "Disconnected"
                  /\ status = "Succeeded" => worker.outcome.category = "None"
<1>1. Typed /\ worker.pc = "finish" /\ worker.pc \in BusyPlaces
  BY DEF WorkerFinish, WorkerAt, SessionInv, BusyPlaces
<1>2. PICK late \in BOOLEAN :
        LET status == FinishStatus(late)
            bytes == worker.outcome.bytes
            gone == /\ FinishCategory(late) = "Disconnected"
                    /\ IsCurrent(worker.request.generation)
            finalized == CanFinalize(status, bytes)
            faults == gone \/ ~finalized
            settled == IF ~faults THEN << >>
                       ELSE PendingResults(SettleStatus(IF gone THEN "Disconnected"
                                                        ELSE "IoFailure"))
            credited == IF ~faults THEN account
                        ELSE CreditPending(SettleStatus(IF gone THEN "Disconnected"
                                                        ELSE "IoFailure"))
            drained == IF faults THEN CancelAllPending(queue) ELSE queue
            result == [id |-> activeWrite.id, status |-> FinalStatus(status, bytes)]
            publishes == finalized /\ ~activeWrite.published
        IN  /\ queue' = IF finalized THEN CompleteActive(drained) ELSE drained
            /\ activeWrite' = IF finalized THEN NoWrite ELSE activeWrite
            /\ completedWrites' = completedWrites \o settled \o
                                  (IF publishes THEN <<result>> ELSE << >>)
            /\ account' = IF publishes THEN Credit(credited, result.id, result.status)
                          ELSE credited
            /\ state' = IF faults THEN "Faulted" ELSE state
            /\ generation' = IF faults THEN Unassigned ELSE generation
            /\ stopRequested' = (stopRequested \/ faults)
            /\ IF stopRequested \/ faults
               THEN WorkerEnds
               ELSE WorkerGoto("check") /\ UNCHANGED thread
  BY Zenon DEF WorkerFinish
<1> DEFINE bytes == worker.outcome.bytes
           gone == FinishCategory(late) = "Disconnected" /\ IsCurrent(worker.request.generation)
           status == FinalStatus(FinishStatus(late), bytes)
           settled == IF gone THEN PendingResults("Disconnected") ELSE << >>
<1>3. /\ FinishStatus(late) \in TerminalStatuses
      /\ FinishStatus(late) = "Sent" => worker.outcome.category = "None"
  BY <1>1, FinishStatusFacts
<1>4. CanFinalize(FinishStatus(late), bytes)
  BY <1>1, <1>3, BusyFacts DEF CanFinalize, CompletionAccepted
<1>5. status \in Statuses /\ (status = "Succeeded" => worker.outcome.category = "None")
  BY <1>3, FinalStatusFacts
<1>6. SettleStatus("Disconnected") = "Disconnected"
  BY DEF SettleStatus
<1>7. FinishedWith(gone, status)
  BY <1>2, <1>4, <1>6 DEF FinishedWith
<1>8. gone => /\ state = "Open"
              /\ generation = worker.request.generation
              /\ worker.outcome.category = "Disconnected"
  <2>1. SUFFICES ASSUME gone
                 PROVE  worker.outcome.category = "Disconnected"
    BY DEF IsCurrent
  <2>2. ~stopRequested /\ activeCancellation = "None"
    BY <2>1 DEF IsCurrent, SessionInv, Threads
  <2> QED
    BY <2>1, <2>2 DEF FinishCategory
<1>9. completedWrites' \in Seq(WriteResults)
  <2>1. completedWrites' = completedWrites \o settled \o
            (IF ~activeWrite.published THEN <<[id |-> activeWrite.id, status |-> status]>>
             ELSE << >>)
    BY <1>2, <1>4, <1>6
  <2>2. completedWrites \in Seq(WriteResults)
    BY <1>1 DEF Typed, WriteResults
  <2>3. settled \in Seq(WriteResults)
    <3>1. "Disconnected" \in Statuses
      BY DEF Statuses
    <3>2. PendingResults("Disconnected") \in Seq(WriteResults)
      BY <1>1, <3>1, PendingResultsTyped
    <3> QED
      BY <3>2, EmptySeq
  <2>4. activeWrite.id \in RequestIds
    BY <1>1, BusyFacts
  <2> HIDE DEF settled, status
  <2>5. [id |-> activeWrite.id, status |-> status] \in WriteResults
    BY <1>5, <2>4 DEF WriteResults, status
  <2> DEFINE last == IF ~activeWrite.published
                     THEN <<[id |-> activeWrite.id, status |-> status]>> ELSE << >>
  <2>6. last \in Seq(WriteResults)
    BY <2>5, EmptySeq, <2>5
  <2>7. completedWrites' = (completedWrites \o settled) \o last
    BY <2>1
  <2> HIDE DEF last
  <2>8. completedWrites \o settled \in Seq(WriteResults)
    BY <2>2, <2>3, ConcatProperties
  <2> QED
    BY <2>6, <2>7, <2>8, ConcatProperties
<1>10. activeCancellation' = "None"
  BY DEF WorkerFinish
<1>11. gone \in BOOLEAN
  OBVIOUS
<1> HIDE DEF gone, status
<1> QED
  BY <1>1, <1>5, <1>7, <1>8, <1>9, <1>10, <1>11

\* What is left in the queue after it.
LEMMA FinishedQueue ==
    ASSUME SessionInv, worker.pc = "finish", NEW gone \in BOOLEAN, NEW status,
           FinishedWith(gone, status)
    PROVE  /\ Sound(queue', Generations)
           /\ queue'.active = NoRequest
           /\ queue'.nextRequestId = queue.nextRequestId
           /\ gone => queue'.pending = << >>
           /\ ~gone => queue'.pending = queue.pending
           /\ \A id : IsPending(queue', id) <=> ~gone /\ IsPending(queue, id)
<1>1. Sound(queue, Generations) /\ HasActive(queue)
  BY BusyFacts DEF SessionInv, Typed, BusyPlaces
<1>2. CASE gone
  <2>1. /\ Sound(CancelAllPending(queue), Generations)
        /\ HasActive(CancelAllPending(queue))
        /\ CancelAllPending(queue).pending = << >>
        /\ CancelAllPending(queue).nextRequestId = queue.nextRequestId
        /\ \A id : ~IsPending(CancelAllPending(queue), id)
    BY <1>1, CancelAllFacts DEF HasActive
  <2>2. queue' = CompleteActive(CancelAllPending(queue))
    BY <1>2 DEF FinishedWith
  <2> QED
    BY <1>2, <2>1, <2>2, CompleteFacts
<1>3. CASE ~gone
  <2>1. queue' = CompleteActive(queue)
    BY <1>3 DEF FinishedWith
  <2> QED
    BY <1>1, <1>3, <2>1, CompleteFacts
<1> QED
  BY <1>2, <1>3

LEMMA WorkerFinishStep ==
    ASSUME SessionInv, WorkerFinish
    PROVE  SessionInv'
<1>1. /\ Typed
      /\ worker.pc = "finish"
      /\ completedWrites' \in Seq(WriteResults)
      /\ activeCancellation' = "None"
      /\ UNCHANGED <<generationCounter, handle, lineOption, wakeEvent, locks, external, call>>
  BY FinishFacts DEF WorkerFinish, SessionInv
<1>2. PICK gone \in BOOLEAN, status \in Statuses : FinishedWith(gone, status)
  BY FinishFacts
<1>3. /\ Sound(queue', Generations)
      /\ queue'.active = NoRequest
      /\ gone => queue'.pending = << >>
      /\ ~gone => queue'.pending = queue.pending
  BY <1>1, <1>2, FinishedQueue
<1>4. /\ activeWrite' = NoWrite
      /\ state' = IF gone THEN "Faulted" ELSE state
      /\ generation' = IF gone THEN Unassigned ELSE generation
      /\ stopRequested' = (stopRequested \/ gone)
  BY <1>2 DEF FinishedWith
<1>5. /\ worker' \in WorkerStates
      /\ \/ UNCHANGED thread /\ worker'.pc = "check"
         \/ thread' = "ended" /\ worker'.pc = "none" /\ stopRequested'
  <2>1. CASE WorkerEnds /\ (stopRequested \/ gone)
    <3>1. WorkerGoto("none") /\ thread' = "ended"
      BY <2>1 DEF WorkerEnds, WorkerGoto
    <3> QED
      BY <1>1, <1>4, <2>1, <3>1, WorkerFacts
  <2>2. CASE WorkerGoto("check") /\ UNCHANGED thread
    BY <1>1, <2>2, WorkerFacts
  <2> QED
    BY <1>2, <2>1, <2>2 DEF FinishedWith
<1>6. WriteAgrees'
  BY <1>3, <1>4, <1>5 DEF WriteAgrees, ActiveAgrees, BusyPlaces, NoWrite, NoRequest
<1>7. /\ stopRequested' \in BOOLEAN
      /\ stopRequested => stopRequested'
      /\ gone => stopRequested' = TRUE
      /\ ~gone => stopRequested' = stopRequested
  BY <1>1, <1>4 DEF Typed
<1>8. \/ UNCHANGED <<state, generation, stopRequested>>
      \/ /\ state' = "Faulted"
         /\ generation' = Unassigned
         /\ stopRequested' = TRUE
         /\ queue'.pending = << >>
  BY <1>3, <1>4, <1>7
<1>9. /\ queue.pending = << >> => queue'.pending = << >>
      /\ worker'.pc # "wait" /\ worker'.pc # "native"
      /\ "None" \in Categories
  BY <1>3, <1>5 DEF Categories
<1> QED
  BY <1>1, <1>3, <1>4, <1>5, <1>6, <1>7, <1>8, <1>9, WorkerMove DEF locks, external

-----------------------------------------------------------------------------
\* The parts together

LEMMA SessionInvInit ==
    ASSUME Init
    PROVE  SessionInv
<1> USE SessionConstants, QueueConstants
<1>1. Unassigned \in Generations
  BY DEF Unassigned, Generations
<1>2. Sound(queue, Generations)
  BY <1>1, NewQueueSound DEF Init
<1>3. Idle \in CallStates /\ Idle.pc = "idle"
  BY DEF Idle, CallStates, Categories, Unassigned, Generations
<1>4. \A c \in Callers : call[c].pc = "idle" /\ call[c] \in CallStates
  BY <1>3 DEF Init
<1>5. worker \in WorkerStates /\ worker.pc = "none"
  BY DormantTyped DEF Init
<1>6. Typed
  <2>1. call \in [Callers -> CallStates]
    BY <1>3 DEF Init
  <2>2. generationCounter \in Generations
    BY DEF Init, Generations
  <2> QED
    BY <1>1, <1>2, <1>5, <2>1, <2>2, EmptySeq
    DEF Init, Typed, States, Categories
<1>7. Lifecycle
  BY <1>4 DEF Init, Lifecycle, At, LockedPlaces, OpeningPlaces, ClosingPlaces
<1>8. PortOwned
  BY <1>4, <1>5 DEF Init, PortOwned, HandleIsCurrent, At, WorkerAt, NativePlaces
<1>9. Threads
  BY <1>4, <1>5 DEF Init, Threads, WorkerAt, NewQueue
<1>10. WriteAgrees
  BY <1>5 DEF Init, WriteAgrees, ActiveAgrees, BusyPlaces, NewQueue, NoRequest, NoWrite
<1> QED
  BY <1>6, <1>7, <1>8, <1>9, <1>10 DEF SessionInv

LEMMA SessionInvStutters ==
    ASSUME SessionInv, UNCHANGED vars
    PROVE  SessionInv'
<1> USE DEF vars, sessionVars, writeVars, threadVars, locks, external
<1>1. Typed'
  BY DEF SessionInv, Typed
<1>2. Lifecycle'
  BY DEF SessionInv, Lifecycle, At
<1>3. PortOwned'
  BY DEF SessionInv, PortOwned, HandleIsCurrent, At, WorkerAt
<1>4. Threads'
  BY DEF SessionInv, Threads, WorkerAt
<1>5. WriteAgrees'
  BY DEF SessionInv, WriteAgrees, ActiveAgrees
<1> QED
  BY <1>1, <1>2, <1>3, <1>4, <1>5 DEF SessionInv

\* Every step preserves the invariant.
LEMMA SessionInvNext ==
    ASSUME SessionInv, [Next]_vars
    PROVE  SessionInv'
<1>1. ASSUME NEW c \in Callers, OpenStep(c)
      PROVE  SessionInv'
  BY <1>1, OpenBeginStep, OpenCreateStep, OpenFailedStep, OpenCommitStep, OpenUndoStep
  DEF OpenStep
<1>2. ASSUME NEW c \in Callers, CloseStep(c)
      PROVE  SessionInv'
  BY <1>2, CloseBeginStep, CloseStopStep, CloseWakeStep, CloseAbandonStep, CloseFaultedStep,
     CloseReapStep, CloseHandleStep, CloseEndStep
  DEF CloseStep, CloseGoesOn
<1>3. ASSUME NEW c \in Callers, QueueStep(c)
      PROVE  SessionInv'
  BY <1>3, EnqueueWriteStep, CancelPendingWritesStep, TakeCompletedWritesStep DEF QueueStep
<1>4. ASSUME NEW c \in Callers, IoStep(c)
      PROVE  SessionInv'
  BY <1>4, BeginStep, WriteReserveStep, WriteCheckStep, IoAcquireStep, NativeStepOfCaller,
     LineOptionStep, IoDisconnectedStep
  DEF IoStep
<1>5. ASSUME WorkerStep
      PROVE  SessionInv'
  BY <1>5, WorkerCheckStep, WorkerWakeStep, WorkerWaitFailsStep, WorkerStartStep,
     WorkerAcquireStep, WorkerNativeStep, WorkerDisconnectedStep, WorkerFinishStep
  DEF WorkerStep
<1> QED
  BY <1>1, <1>2, <1>3, <1>4, <1>5, SessionInvStutters DEF Next, CallerStep

-----------------------------------------------------------------------------
(* The requests.                                                           *)
-----------------------------------------------------------------------------
\* What a step does to the requests.

\* Nothing, except perhaps use up an id.
Rests ==
    /\ UNCHANGED <<account, accepted, activeWrite>>
    /\ SameRequests(queue, queue')
    /\ queue'.nextRequestId \in {queue.nextRequestId, NextId(queue.nextRequestId)}

\* A request is accepted.
Admits ==
    /\ state = "Open"
    /\ queue.nextRequestId \in RequestIds
    /\ accepted' = accepted \cup {queue.nextRequestId}
    /\ UNCHANGED <<account, activeWrite, state>>
    /\ \A id : IsPending(queue', id) <=> IsPending(queue, id) \/ id = queue.nextRequestId
    /\ queue'.active = queue.active
    /\ queue'.nextRequestId = NextId(queue.nextRequestId)

\* All that is pending is settled.
Drains(status) ==
    /\ account' = CreditPending(status)
    /\ UNCHANGED <<accepted, activeWrite>>
    /\ \A id : ~IsPending(queue', id)
    /\ queue'.active = queue.active
    /\ queue'.nextRequestId = queue.nextRequestId

\* The write in progress is reported before it is over.
Publishes(status) ==
    /\ activeWrite # NoWrite
    /\ ~activeWrite.published
    /\ activeWrite' = Published(activeWrite)
    /\ account' = Credit(account, activeWrite.id, status)
    /\ UNCHANGED <<queue, accepted>>

\* The first pending request becomes the write in progress.
Activates ==
    /\ activeWrite = NoWrite
    /\ CanActivate(queue)
    /\ queue' = ActivateNext(queue)
    /\ queue'.active.id \in RequestIds
    /\ activeWrite' = [id |-> queue'.active.id, generation |-> queue'.active.generation,
                       published |-> FALSE]
    /\ UNCHANGED <<account, accepted>>

\* The write in progress is over.
Finishes(gone, status) ==
    /\ worker.pc = "finish"
    /\ FinishedWith(gone, status)
    /\ gone => /\ state = "Open"
               /\ generation = worker.request.generation
               /\ worker.outcome.category = "Disconnected"
    /\ status = "Succeeded" => worker.outcome.category = "None"
    /\ UNCHANGED accepted

Unsent == {"Timeout", "Cancelled", "Disconnected", "Failed"}

Effect ==
    \/ Rests
    \/ Admits
    \/ \E status \in Unsent : Drains(status)
    \/ \E status \in Unsent : Publishes(status)
    \/ Activates
    \/ \E gone \in BOOLEAN, status \in Statuses : Finishes(gone, status)

LEMMA SettleStatusUnsent ==
    ASSUME NEW category
    PROVE  SettleStatus(category) \in Unsent
  BY DEF SettleStatus, Unsent

LEMMA SettleDrains ==
    ASSUME SessionInv, NEW category, SettlePending(category),
           UNCHANGED <<accepted, activeWrite>>
    PROVE  Drains(SettleStatus(category))
<1>1. Sound(queue, Generations) /\ queue' = CancelAllPending(queue)
  BY DEF SessionInv, Typed, SettlePending
<1> QED
  BY <1>1, CancelAllFacts DEF Drains, SettlePending

LEMMA MarkEffect ==
    ASSUME SessionInv, NEW g, MarkDisconnected(g), UNCHANGED accepted
    PROVE  Rests \/ \E status \in Unsent : Drains(status)
<1>1. CASE IsCurrent(g)
  <2>1. SettlePending("Disconnected") /\ UNCHANGED activeWrite
    BY <1>1 DEF MarkDisconnected
  <2> QED
    BY <2>1, SettleDrains, SettleStatusUnsent
<1>2. CASE ~IsCurrent(g)
  BY <1>2 DEF MarkDisconnected, writeVars, Rests, SameRequests
<1> QED
  BY <1>1, <1>2

LEMMA OpenEffect ==
    ASSUME SessionInv, NEW c \in Callers, OpenStep(c)
    PROVE  Rests
<1>1. CASE UNCHANGED <<queue, activeWrite, account, accepted>>
  BY <1>1 DEF Rests, SameRequests
<1>2. CASE OpenCommit(c)
  <2>1. UNCHANGED <<activeWrite, account, accepted>>
    BY <1>2 DEF OpenCommit, history
  <2>2. CASE UNCHANGED queue
    BY <2>1, <2>2 DEF Rests, SameRequests
  <2>3. CASE CanCommit /\ queue' = BeginGeneration(queue, generationCounter + 1)
    <3>1. /\ Sound(queue, Generations)
          /\ generationCounter + 1 \in Generations
          /\ CanBeginGeneration(queue, generationCounter + 1)
      BY <2>3, SessionConstants DEF CanCommit, SessionInv, Typed, Generations
    <3>2. /\ SameRequests(queue, queue')
          /\ queue'.nextRequestId = queue.nextRequestId
      BY <2>3, <3>1, BeginGenerationFacts
    <3> QED
      BY <2>1, <3>2 DEF Rests
  <2> QED
    BY <1>2, <2>2, <2>3 DEF OpenCommit
<1> QED
  BY <1>1, <1>2 DEF OpenStep, OpenBegin, OpenCreate, OpenFailed, OpenUndo, writeVars, history

LEMMA CloseEffect ==
    ASSUME SessionInv, NEW c \in Callers, CloseStep(c)
    PROVE  \/ Rests
           \/ \E status \in Unsent : Drains(status) \/ Publishes(status)
<1>1. CASE UNCHANGED <<queue, activeWrite, account, accepted>>
  BY <1>1 DEF Rests, SameRequests
<1>2. CASE CloseStop(c)
  <2>1. SettlePending("SessionClosed") /\ UNCHANGED <<accepted, activeWrite>>
    BY <1>2 DEF CloseStop
  <2> QED
    BY <2>1, SettleDrains, SettleStatusUnsent
<1>3. CASE CloseAbandon(c)
  <2>1. UNCHANGED <<queue, accepted>> /\ PublishInterrupted(call[c].category)
    BY <1>3 DEF CloseAbandon
  <2>2. CASE UNCHANGED <<activeWrite, account>>
    BY <1>1, <2>1, <2>2
  <2>3. CASE /\ activeWrite # NoWrite /\ ~activeWrite.published
             /\ activeWrite' = Published(activeWrite)
             /\ \E status \in {"Disconnected", "Cancelled"} :
                    account' = Credit(account, activeWrite.id, status)
    BY <2>1, <2>3 DEF Publishes, Unsent
  <2> QED
    BY <2>1, <2>2, <2>3 DEF PublishInterrupted
<1>4. CASE CloseReap(c)
  BY <1>1, <1>4, CloseReapFacts DEF CloseReap
<1> QED
  BY <1>1, <1>2, <1>3, <1>4
  DEF CloseStep, CloseGoesOn, CloseBegin, CloseWake, CloseJoin, CloseJoinTimeout, CloseFaulted,
      CloseHandle, CloseEnd, writeVars, history

LEMMA QueueEffect ==
    ASSUME SessionInv, NEW c \in Callers, QueueStep(c)
    PROVE  Rests \/ Admits \/ \E status \in Unsent : Drains(status)
<1>1. ASSUME NEW bytes \in PayloadSizes, EnqueueWrite(c, bytes)
      PROVE  Rests \/ Admits
  <2>1. UNCHANGED <<account, activeWrite, state>>
    BY <1>1 DEF EnqueueWrite, sessionVars
  <2> QED
    BY <1>1, <2>1, EnqueueWriteFacts DEF Rests, Admits
<1>2. CASE CancelPendingWrites(c)
  <2>1. Sound(queue, Generations)
    BY DEF SessionInv, Typed
  <2>2. Drains("Cancelled")
    BY <1>2, <2>1, CancelAllFacts DEF CancelPendingWrites, Drains
  <2> QED
    BY <2>2 DEF Unsent
<1>3. CASE TakeCompletedWrites(c)
  BY <1>3 DEF TakeCompletedWrites, Rests, SameRequests, history
<1> QED
  BY <1>1, <1>2, <1>3 DEF QueueStep

LEMMA IoEffect ==
    ASSUME SessionInv, NEW c \in Callers, IoStep(c)
    PROVE  Rests \/ \E status \in Unsent : Drains(status)
<1>1. CASE UNCHANGED <<queue, activeWrite, account, accepted>>
  BY <1>1 DEF Rests, SameRequests
<1>2. CASE WriteReserve(c)
  <2>1. UNCHANGED <<activeWrite, account, accepted>>
    BY <1>2 DEF WriteReserve, history
  <2> QED
    BY <1>2, <2>1, WriteReserveStep DEF Rests
<1>3. CASE IoDisconnected(c)
  BY <1>3, MarkEffect DEF IoDisconnected
<1> QED
  BY <1>1, <1>2, <1>3
  DEF IoStep, ReadBegin, LineBegin, WriteBegin, WriteCheck, IoAcquire, ReadNative, LineNative,
      LineOption, WriteNative, writeVars, history

LEMMA WorkerEffect ==
    ASSUME SessionInv, WorkerStep
    PROVE  Effect
<1>1. CASE UNCHANGED <<queue, activeWrite, account, accepted>>
  BY <1>1 DEF Rests, SameRequests, Effect
<1>2. CASE WorkerCheck
  <2>1. UNCHANGED <<account, accepted>>
    BY <1>2 DEF WorkerCheck, history
  <2> QED
    BY <1>1, <1>2, <2>1, WorkerCheckFacts DEF Activates, Effect
<1>3. CASE WorkerWaitFails
  <2>1. UNCHANGED <<accepted, activeWrite>>
    BY <1>3 DEF WorkerWaitFails
  <2>2. UNCHANGED <<queue, account>> \/ SettlePending("NativeFailure")
    BY <1>3 DEF WorkerWaitFails
  <2> QED
    BY <1>1, <2>1, <2>2, SettleDrains, SettleStatusUnsent DEF Effect
<1>4. CASE WorkerDisconnected
  BY <1>4, MarkEffect DEF WorkerDisconnected, Effect
<1>5. CASE WorkerFinish
  <2>1. UNCHANGED accepted
    BY <1>5 DEF WorkerFinish
  <2> QED
    BY <1>5, <2>1, FinishFacts DEF Finishes, Effect
<1> QED
  BY <1>1, <1>2, <1>3, <1>4, <1>5
  DEF WorkerStep, WorkerWake, WorkerStart, WorkerAcquire, WorkerNative, writeVars, history

LEMMA Effects ==
    ASSUME SessionInv, [Next]_vars
    PROVE  Effect
<1>1. CASE UNCHANGED vars
  BY <1>1 DEF vars, writeVars, history, Rests, SameRequests, Effect
<1>2. ASSUME NEW c \in Callers, CallerStep(c)
      PROVE  Effect
  BY <1>2, OpenEffect, CloseEffect, QueueEffect, IoEffect DEF CallerStep, Effect
<1> QED
  BY <1>1, <1>2, WorkerEffect DEF Next

-----------------------------------------------------------------------------
\* Results

\* The id has been given out: the counter is past it, or used up.
Issued(id) == queue.nextRequestId = Unassigned \/ id < queue.nextRequestId

\* Each accepted request is counted once: owed, or with its one result.
Accounts ==
    /\ \A id \in RequestIds : IsPending(queue, id) \/ activeWrite.id = id => id \in accepted
    /\ \A id \in accepted : Issued(id)
    /\ ExactlyOneResult
    /\ worker.pc \in {"disconnected", "finish"} /\ worker.outcome.category = "None" =>
           worker.request.id \in sent

\* What a step does to the result of one request.
Keeps(id) ==
    /\ account'[id] = account[id]
    /\ Owed(id)' <=> Owed(id)
    /\ id \in accepted' <=> id \in accepted
    /\ activeWrite'.id = id => IsPending(queue, id) \/ activeWrite.id = id
    /\ IsPending(queue', id) => IsPending(queue, id)

Answers(id) ==
    /\ \E status \in Statuses :
           /\ account'[id] = Append(account[id], status)
           /\ status = "Succeeded" => id \in sent
    /\ Owed(id)
    /\ ~Owed(id)'
    /\ id \in accepted' <=> id \in accepted
    /\ activeWrite'.id = id => activeWrite.id = id
    /\ ~IsPending(queue', id)

IsAdmitted(id) ==
    /\ state = "Open" /\ UNCHANGED state
    /\ UNCHANGED account
    /\ id = queue.nextRequestId
    /\ id \notin accepted
    /\ accepted' = accepted \cup {id}
    /\ Owed(id)'
    /\ activeWrite'.id # id

LEMMA AcceptedIsNotNew ==
    ASSUME SessionInv, HistoriesTyped, Accounts, queue.nextRequestId \in RequestIds
    PROVE  queue.nextRequestId \notin accepted
  BY DEF HistoriesTyped, Accounts, Issued, RequestIds, Unassigned

LEMMA IssuedGrows ==
    ASSUME Typed, NEW id \in RequestIds, Issued(id),
           queue'.nextRequestId \in {queue.nextRequestId, NextId(queue.nextRequestId)}
    PROVE  Issued(id)'
<1>1. queue.nextRequestId \in 0 .. MaxRequestId /\ id \in Int
  BY DEF Typed, Sound, QueuesIn, RequestIds
<1> QED
  BY <1>1, QueueConstants DEF Issued, NextId, Unassigned

\* The id just given out.
LEMMA NowIssued ==
    ASSUME Typed, NEW id \in RequestIds, id = queue.nextRequestId,
           queue'.nextRequestId = NextId(id)
    PROVE  Issued(id)'
  BY QueueConstants DEF Issued, NextId, Unassigned, RequestIds

LEMMA ActiveIsNotPending ==
    ASSUME SessionInv, NEW id, IsPending(queue, id)
    PROVE  id \in RequestIds /\ activeWrite.id # id
<1>1. Sound(queue, Generations) /\ queue.active.id = activeWrite.id
  BY DEF SessionInv, Typed, WriteAgrees, ActiveAgrees
<1> QED
  BY <1>1, PendingIds

LEMMA RestsResult ==
    ASSUME SessionInv, Rests, NEW id \in RequestIds
    PROVE  Keeps(id)
  BY DEF Rests, SameRequests, Keeps, Owed

LEMMA AdmitsResult ==
    ASSUME SessionInv, HistoriesTyped, Accounts, Admits, NEW id \in RequestIds
    PROVE  Keeps(id) \/ IsAdmitted(id)
<1>1. CASE id = queue.nextRequestId
  <2>1. id \notin accepted
    BY <1>1, AcceptedIsNotNew
  <2>2. activeWrite.id # id
    BY <2>1 DEF Accounts
  <2> QED
    BY <1>1, <2>1, <2>2 DEF Admits, IsAdmitted, Owed
<1>2. CASE id # queue.nextRequestId
  BY <1>2 DEF Admits, Keeps, Owed
<1> QED
  BY <1>1, <1>2

LEMMA DrainsResult ==
    ASSUME SessionInv, HistoriesTyped, NEW status \in Unsent, Drains(status),
           NEW id \in RequestIds
    PROVE  Keeps(id) \/ Answers(id)
<1>1. account'[id] = IF IsPending(queue, id) THEN Append(account[id], status) ELSE account[id]
  BY DEF Drains, CreditPending
<1>2. status \in Statuses /\ status # "Succeeded"
  BY DEF Unsent, Statuses
<1>3. CASE IsPending(queue, id)
  BY <1>1, <1>2, <1>3, ActiveIsNotPending DEF Drains, Answers, Owed
<1>4. CASE ~IsPending(queue, id)
  BY <1>1, <1>4 DEF Drains, Keeps, Owed
<1> QED
  BY <1>3, <1>4

LEMMA PublishesResult ==
    ASSUME SessionInv, HistoriesTyped, NEW status \in Unsent, Publishes(status),
           NEW id \in RequestIds
    PROVE  Keeps(id) \/ Answers(id)
<1>1. /\ activeWrite \in [id : RequestIds, generation : Generations, published : BOOLEAN]
      /\ account \in [RequestIds -> Seq(Statuses)]
  BY DEF Publishes, SessionInv, Typed, HistoriesTyped
<1>2. activeWrite'.id = activeWrite.id /\ activeWrite'.published = TRUE
  BY <1>1 DEF Publishes, Published
<1>3. account'[id] = IF id = activeWrite.id THEN Append(account[id], status) ELSE account[id]
  BY <1>1 DEF Publishes, Credit
<1>4. status \in Statuses /\ status # "Succeeded"
  BY DEF Unsent, Statuses
<1>5. CASE id = activeWrite.id
  BY <1>2, <1>3, <1>4, <1>5, ActiveIsNotPending DEF Publishes, Answers, Owed
<1>6. CASE id # activeWrite.id
  BY <1>2, <1>3, <1>6 DEF Publishes, Keeps, Owed
<1> QED
  BY <1>5, <1>6

LEMMA ActivatesResult ==
    ASSUME SessionInv, Activates, NEW id \in RequestIds
    PROVE  Keeps(id)
<1>1. Sound(queue, Generations) /\ CanActivate(queue) /\ queue' = ActivateNext(queue)
  BY DEF Activates, SessionInv, Typed
<1>2. /\ IsPending(queue, queue'.active.id)
      /\ \A x : IsPending(queue', x) => IsPending(queue, x) /\ queue'.active.id < x
      /\ \A x : IsPending(queue, x) => IsPending(queue', x) \/ x = queue'.active.id
  BY <1>1, ActivateFacts
<1>3. activeWrite.id # id
  BY QueueConstants DEF Activates, NoWrite, RequestIds, Unassigned
<1>4. activeWrite'.id = queue'.active.id /\ ~activeWrite'.published
  BY DEF Activates
<1>5. UNCHANGED <<account, accepted>>
  BY DEF Activates
<1> QED
  BY <1>2, <1>3, <1>4, <1>5 DEF Keeps, Owed

LEMMA FinishesResult ==
    ASSUME SessionInv, HistoriesTyped, Accounts,
           NEW gone \in BOOLEAN, NEW status \in Statuses, Finishes(gone, status),
           NEW id \in RequestIds
    PROVE  Keeps(id) \/ Answers(id)
<1> DEFINE credited == IF gone THEN CreditPending("Disconnected") ELSE account
           a == activeWrite.id
<1>1. /\ worker.pc = "finish"
      /\ UNCHANGED accepted
      /\ activeWrite' = NoWrite
      /\ account' = IF activeWrite.published THEN credited ELSE Credit(credited, a, status)
      /\ \A x : IsPending(queue', x) <=> ~gone /\ IsPending(queue, x)
  BY FinishedQueue DEF Finishes, FinishedWith
<1>2. /\ activeWrite \in [id : RequestIds, generation : Generations, published : BOOLEAN]
      /\ a = worker.request.id
  BY <1>1, BusyFacts DEF BusyPlaces
<1>3. credited \in [RequestIds -> Seq(Statuses)]
      /\ \A x \in RequestIds :
             credited[x] = IF gone /\ IsPending(queue, x)
                           THEN Append(account[x], "Disconnected") ELSE account[x]
  <2>1. "Disconnected" \in Statuses
    BY DEF Statuses
  <2>2. account \in [RequestIds -> Seq(Statuses)]
    BY DEF HistoriesTyped
  <2>3. \A x \in RequestIds : Append(account[x], "Disconnected") \in Seq(Statuses)
    BY <2>1, <2>2, AppendProperties
  <2> QED
    BY <2>2, <2>3 DEF CreditPending
<1>4. activeWrite'.id # id
  BY <1>1, QueueConstants DEF NoWrite, RequestIds, Unassigned
<1>5. CASE id = a /\ activeWrite.published
  <2>1. ~IsPending(queue, id)
    BY <1>5, ActiveIsNotPending
  <2> QED
    BY <1>1, <1>3, <1>4, <1>5, <2>1 DEF Keeps, Owed
<1>6. CASE id = a /\ ~activeWrite.published
  <2>1. ~IsPending(queue, id)
    BY <1>6, ActiveIsNotPending
  <2>2. account'[id] = Append(account[id], status)
    BY <1>1, <1>2, <1>3, <1>6, <2>1 DEF Credit
  <2>3. status = "Succeeded" => id \in sent
    BY <1>1, <1>2, <1>6 DEF Finishes, Accounts
  <2> QED
    BY <1>1, <1>4, <1>6, <2>1, <2>2, <2>3 DEF Answers, Owed
<1>7. CASE id # a
  <2>1. account'[id] = credited[id]
    BY <1>1, <1>2, <1>3, <1>7 DEF Credit
  <2> HIDE DEF credited
  <2>2. CASE gone /\ IsPending(queue, id)
    <3>1. account'[id] = Append(account[id], "Disconnected") /\ "Disconnected" \in Statuses
      BY <1>3, <2>1, <2>2 DEF Statuses
    <3> QED
      BY <1>1, <1>4, <2>2, <3>1 DEF Answers, Owed
  <2>3. CASE ~(gone /\ IsPending(queue, id))
    <3>1. account'[id] = account[id]
      BY <1>3, <2>1, <2>3
    <3> QED
      BY <1>1, <1>4, <1>7, <2>3, <3>1 DEF Keeps, Owed
  <2> QED
    BY <2>2, <2>3
<1> QED
  BY <1>5, <1>6, <1>7

LEMMA ResultStep ==
    ASSUME SessionInv, HistoriesTyped, Accounts, [Next]_vars, NEW id \in RequestIds
    PROVE  Keeps(id) \/ Answers(id) \/ IsAdmitted(id)
<1>1. Effect
  BY Effects
<1> QED
  BY <1>1, RestsResult, AdmitsResult, DrainsResult, PublishesResult, ActivatesResult,
     FinishesResult
  DEF Effect

\* The counter of ids only moves on, and accepted ids are behind it.
LEMMA IssuedStep ==
    ASSUME SessionInv, HistoriesTyped, Accounts, [Next]_vars
    PROVE  /\ \A id \in RequestIds : Issued(id) => Issued(id)'
           /\ accepted' \subseteq RequestIds
           /\ \A id \in accepted' : Issued(id)'
<1>1. Typed /\ accepted \subseteq RequestIds /\ \A id \in accepted : Issued(id)
  BY DEF SessionInv, HistoriesTyped, Accounts
<1>2. queue'.nextRequestId \in {queue.nextRequestId, NextId(queue.nextRequestId)}
  <2>1. Effect
    BY Effects
  <2>2. ASSUME Activates
        PROVE  queue'.nextRequestId = queue.nextRequestId
    BY <1>1, <2>2, ActivateFacts DEF Activates, Typed
  <2>3. ASSUME NEW gone \in BOOLEAN, NEW status \in Statuses, Finishes(gone, status)
        PROVE  queue'.nextRequestId = queue.nextRequestId
    BY <2>3, FinishedQueue DEF Finishes
  <2> QED
    BY <2>1, <2>2, <2>3 DEF Effect, Rests, Admits, Drains, Publishes
<1>3. \A id \in RequestIds : Issued(id) => Issued(id)'
  BY <1>1, <1>2, IssuedGrows
<1>4. \/ accepted' = accepted
      \/ /\ queue.nextRequestId \in RequestIds
         /\ accepted' = accepted \cup {queue.nextRequestId}
         /\ queue'.nextRequestId = NextId(queue.nextRequestId)
  <2>1. Effect
    BY Effects
  <2> QED
    BY <2>1 DEF Effect, Rests, Admits, Drains, Publishes, Activates, Finishes
<1>5. ASSUME NEW id \in accepted'
      PROVE  id \in RequestIds /\ Issued(id)'
  <2>1. CASE id \in accepted
    BY <1>1, <1>3, <2>1
  <2>2. CASE /\ id = queue.nextRequestId
             /\ id \in RequestIds
             /\ queue'.nextRequestId = NextId(id)
    BY <1>1, <2>2, NowIssued
  <2> QED
    BY <1>4, <1>5, <2>1, <2>2
<1> QED
  BY <1>3, <1>5

\* What has been sent, and what was lost, stays so; a worker that says it sent
\* its request, or lost the device, did.
WorkerTells ==
    /\ sent \subseteq sent'
    /\ lost \subseteq lost'
    /\ worker'.pc \in {"disconnected", "finish"} =>
           \/ /\ worker'.request = worker.request
              /\ worker'.outcome = worker.outcome
              /\ worker.pc \in {"disconnected", "finish"}
              /\ worker'.pc = "disconnected" => worker.pc = "disconnected"
           \/ /\ worker'.pc = "disconnected" => worker'.outcome.category = "Disconnected"
              /\ worker'.outcome.category = "None" => worker'.request.id \in sent'
              /\ worker'.outcome.category = "Disconnected" =>
                     worker'.request.generation \in lost'

LEMMA WorkerHistory ==
    ASSUME SessionInv, [Next]_vars
    PROVE  WorkerTells
<1>1. Typed
  BY DEF SessionInv
<1>2. CASE UNCHANGED <<sent, lost>> /\ worker'.pc \notin {"disconnected", "finish"}
  BY <1>2 DEF WorkerTells
<1>3. CASE UNCHANGED <<sent, lost, worker>>
  BY <1>3 DEF WorkerTells
<1>4. ASSUME NEW c \in Callers, CallerStep(c)
      PROVE  WorkerTells
  <2>1. ASSUME OpenStep(c)
        PROVE  UNCHANGED <<sent, lost, worker>>
    BY <2>1 DEF OpenStep, OpenBegin, OpenCreate, OpenFailed, OpenCommit, OpenUndo, history
  <2>2. CASE CloseReap(c)
    BY <1>2, <2>2, CloseReapFacts DEF CloseReap
  <2>3. ASSUME CloseStep(c), ~CloseReap(c)
        PROVE  UNCHANGED <<sent, lost, worker>>
    BY <2>3 DEF CloseStep, CloseGoesOn, CloseBegin, CloseStop, CloseWake, CloseJoin,
                CloseJoinTimeout, CloseAbandon, CloseFaulted, CloseHandle, CloseEnd, history
  <2>4. ASSUME NEW bytes \in PayloadSizes, EnqueueWrite(c, bytes)
        PROVE  WorkerTells
    BY <1>2, <1>3, <2>4, EnqueueWriteFacts DEF EnqueueWrite
  <2>5. ASSUME CancelPendingWrites(c) \/ TakeCompletedWrites(c)
        PROVE  UNCHANGED <<sent, lost, worker>>
    BY <2>5 DEF CancelPendingWrites, TakeCompletedWrites, history
  <2>6. ASSUME IoStep(c)
        PROVE  sent \subseteq sent' /\ lost \subseteq lost' /\ UNCHANGED worker
    <3>1. ASSUME ReadNative(c) \/ LineNative(c) \/ WriteNative(c)
          PROVE  sent \subseteq sent' /\ lost \subseteq lost' /\ UNCHANGED worker
      BY <3>1 DEF ReadNative, LineNative, WriteNative, IoRelease
    <3> QED
      BY <2>6, <3>1 DEF IoStep, ReadBegin, LineBegin, WriteBegin, WriteReserve, WriteCheck,
                        IoAcquire, LineOption, IoDisconnected, history
  <2>7. ASSUME sent \subseteq sent', lost \subseteq lost', UNCHANGED worker
        PROVE  WorkerTells
    BY <2>7 DEF WorkerTells
  <2> QED
    BY <1>3, <1>4, <2>1, <2>2, <2>3, <2>4, <2>5, <2>6, <2>7 DEF CallerStep, QueueStep
<1>5. ASSUME WorkerStep
      PROVE  WorkerTells
  <2>1. CASE WorkerCheck
    BY <1>2, <2>1, WorkerCheckFacts DEF WorkerCheck, history
  <2>2. CASE WorkerWake
    <3>1. worker'.pc = "check"
      BY <1>1, <2>2, WorkerFacts DEF WorkerWake
    <3> QED
      BY <1>2, <2>2, <3>1 DEF WorkerWake, history
  <2>3. CASE WorkerWaitFails
    <3>1. worker'.pc = "none"
      BY <1>1, <2>3, WorkerFacts DEF WorkerWaitFails, WorkerEnds, WorkerGoto
    <3> QED
      BY <2>3, <3>1 DEF WorkerWaitFails, WorkerTells
  <2>4. ASSUME WorkerStart \/ WorkerAcquire
        PROVE  WorkerTells
    <3>1. /\ UNCHANGED <<sent, lost>>
          /\ \/ \E category \in {"Timeout", "SessionClosed"} :
                    Outcome("finish", FALSE, category, 0)
             \/ \E pc \in {"acquire", "native"} : WorkerGoto(pc)
      BY <2>4 DEF WorkerStart, WorkerAcquire, history
    <3>2. ASSUME NEW category \in {"Timeout", "SessionClosed"},
                 Outcome("finish", FALSE, category, 0)
          PROVE  worker'.pc = "finish" /\ worker'.outcome.category = category
      <4>1. category \in Categories /\ "finish" \in BusyPlaces /\ 0 \in Nat
        BY DEF Categories, BusyPlaces
      <4> QED
        BY <1>1, <3>2, <4>1, OutcomeFacts
    <3>3. ASSUME NEW pc \in {"acquire", "native"}, WorkerGoto(pc)
          PROVE  worker'.pc = pc
      BY <1>1, <3>3, WorkerFacts DEF BusyPlaces
    <3> QED
      BY <3>1, <3>2, <3>3 DEF WorkerTells
  <2>5. CASE WorkerNative
    BY <2>5, WorkerNativeFacts DEF WorkerTells
  <2>6. CASE WorkerDisconnected
    <3>1. /\ worker.pc = "disconnected"
          /\ worker'.pc = "finish"
          /\ worker'.request = worker.request
          /\ worker'.outcome = worker.outcome
      BY <1>1, <2>6, WorkerFacts DEF WorkerDisconnected, WorkerAt, BusyPlaces
    <3> QED
      BY <2>6, <3>1 DEF WorkerDisconnected, WorkerTells
  <2>7. CASE WorkerFinish
    <3>1. worker'.pc \in {"none", "check"}
      BY <1>1, <2>7, WorkerFacts, FinishFacts DEF FinishedWith, WorkerEnds, WorkerGoto
    <3> QED
      BY <1>2, <2>7, <3>1 DEF WorkerFinish
  <2> QED
    BY <1>5, <2>1, <2>2, <2>3, <2>4, <2>5, <2>6, <2>7 DEF WorkerStep
<1>6. CASE UNCHANGED vars
  BY <1>3, <1>6 DEF vars, history
<1> QED
  BY <1>4, <1>5, <1>6 DEF Next

LEMMA AccountsStep ==
    ASSUME SessionInv, HistoriesTyped, Accounts, [Next]_vars
    PROVE  Accounts'
<1>1. \A id \in RequestIds : Keeps(id) \/ Answers(id) \/ IsAdmitted(id)
  BY ResultStep
<1>2. \A id \in RequestIds : IsPending(queue', id) \/ activeWrite'.id = id => id \in accepted'
  <2>1. ASSUME NEW id \in RequestIds, IsPending(queue', id) \/ activeWrite'.id = id
        PROVE  id \in accepted'
    <3>1. CASE Keeps(id)
      BY <2>1, <3>1 DEF Keeps, Accounts
    <3>2. CASE Answers(id)
      BY <2>1, <3>2 DEF Answers, Accounts
    <3>3. CASE IsAdmitted(id)
      BY <3>3 DEF IsAdmitted
    <3> QED
      BY <1>1, <3>1, <3>2, <3>3
  <2> QED
    BY <2>1
<1>3. \A id \in accepted' : Issued(id)'
  BY IssuedStep
<1>4. ExactlyOneResult'
  <2>1. SUFFICES ASSUME NEW id \in RequestIds
                 PROVE  /\ Len(account'[id]) = IF id \in accepted' /\ ~Owed(id)' THEN 1 ELSE 0
                        /\ \A i \in DOMAIN account'[id] :
                               account'[id][i] = "Succeeded" => id \in sent'
    BY DEF ExactlyOneResult, Owed
  <2>2. /\ Len(account[id]) = IF id \in accepted /\ ~Owed(id) THEN 1 ELSE 0
        /\ \A i \in DOMAIN account[id] : account[id][i] = "Succeeded" => id \in sent
        /\ Owed(id) => id \in accepted
        /\ account[id] \in Seq(Statuses)
    BY DEF Accounts, ExactlyOneResult, Owed, HistoriesTyped
  <2>3. sent \subseteq sent'
    BY WorkerHistory DEF WorkerTells
  <2>4. CASE Keeps(id)
    BY <2>2, <2>3, <2>4 DEF Keeps
  <2>5. CASE Answers(id)
    <3>1. PICK status \in Statuses :
              /\ account'[id] = Append(account[id], status)
              /\ status = "Succeeded" => id \in sent
      BY <2>5 DEF Answers
    <3>2. Len(account[id]) = 0 /\ id \in accepted' /\ ~Owed(id)'
      BY <2>2, <2>5 DEF Answers
    <3>3. /\ Len(account'[id]) = 1
          /\ \A i \in DOMAIN account'[id] : account'[id][i] = status
      <4>1. account[id] = << >>
        BY <2>2, <3>2, EmptySeq
      <4> QED
        BY <3>1, <4>1
    <3> QED
      BY <2>3, <3>1, <3>2, <3>3
  <2>6. CASE IsAdmitted(id)
    BY <2>2, <2>3, <2>6 DEF IsAdmitted
  <2> QED
    BY <1>1, <2>4, <2>5, <2>6
<1>5. worker'.pc \in {"disconnected", "finish"} /\ worker'.outcome.category = "None" =>
          worker'.request.id \in sent'
  BY WorkerHistory DEF WorkerTells, Accounts
<1> QED
  BY <1>2, <1>3, <1>4, <1>5 DEF Accounts

-----------------------------------------------------------------------------
\* Where the callers, the worker and the wire go in a step.

\* Inside writeBytes, with an id.
Holding == {"writeCheck", "writeAcquire", "writeNative"}

CallerMoves(c) ==
    \/ call'[c] = call[c]
    \/ call'[c].pc \in {"idle", "readAcquire", "writeReserve", "readNative"} \cup LockedPlaces
    \/ /\ call'[c].pc = "lineAcquire"
       /\ "line" \in Calls[c]
    \/ /\ call[c].pc \in {"lineAcquire", "lineNative"}
       /\ call'[c].pc \in {"lineNative", "lineOption"}
    \/ /\ call'[c].pc = "writeCheck"
       /\ call'[c].id = queue.nextRequestId
       /\ queue.nextRequestId \in RequestIds
       /\ queue'.nextRequestId = NextId(queue.nextRequestId)
       /\ UNCHANGED <<accepted, wire>>
       /\ \A d \in Callers : d # c => call'[d] = call[d]
    \/ /\ call[c].pc \in Holding
       /\ call'[c].pc \in {"writeAcquire", "writeNative"}
       /\ call'[c].id = call[c].id
    \/ /\ call'[c].pc = "ioDisconnected"
       /\ call'[c].generation \in lost'

LEMMA LifecycleCalls ==
    ASSUME SessionInv, NEW c \in Callers, OpenStep(c) \/ CloseStep(c), NEW d \in Callers
    PROVE  CallerMoves(d)
<1>1. Typed
  BY DEF SessionInv
<1> USE DEF CallerMoves
<1>2. CASE UNCHANGED call
  BY <1>2
<1>3. CASE Return(c)
  BY <1>1, <1>3, ReturnFacts
<1>4. ASSUME NEW pc \in LockedPlaces, Goto(c, pc)
      PROVE  CallerMoves(d)
  <2>1. pc \in Places
    BY DEF Places
  <2>2. call'[c].pc = pc /\ \A e \in Callers : e # c => call'[e] = call[e]
    BY <1>1, <1>4, <2>1, GotoFacts
  <2> QED
    BY <2>2
<1>5. ASSUME NEW pc \in LockedPlaces, NEW category,
             call' = [call EXCEPT ![c].pc = pc, ![c].category = category]
      PROVE  CallerMoves(d)
  BY <1>1, <1>5 DEF Typed, CallStates
<1>6. CASE OpenBegin(c) \/ OpenCreate(c) \/ OpenFailed(c) \/ OpenCommit(c) \/ OpenUndo(c)
  BY <1>2, <1>3, <1>4, <1>6
  DEF OpenBegin, OpenCreate, OpenFailed, OpenCommit, OpenUndo, LockedPlaces, OpeningPlaces
<1>7. CASE CloseStop(c)
  BY <1>5, <1>7 DEF CloseStop, LockedPlaces, ClosingPlaces
<1>8. CASE CloseReap(c)
  BY <1>8, CloseReapFacts DEF LockedPlaces, ClosingPlaces
<1>9. CASE CloseHandle(c)
  <2>1. CASE Goto(c, "closeEnd")
    BY <1>4, <2>1 DEF LockedPlaces, ClosingPlaces
  <2>2. CASE call' = [call EXCEPT ![c].pc = "closeEnd", ![c].clean = FALSE]
    BY <1>1, <2>2 DEF Typed, CallStates, LockedPlaces, ClosingPlaces
  <2> QED
    BY <1>9, <2>1, <2>2 DEF CloseHandle
<1>10. CASE \/ CloseBegin(c) \/ CloseWake(c) \/ CloseJoin(c) \/ CloseJoinTimeout(c)
            \/ CloseAbandon(c) \/ CloseFaulted(c) \/ CloseEnd(c)
  BY <1>3, <1>4, <1>10
  DEF CloseBegin, CloseWake, CloseJoin, CloseJoinTimeout, CloseAbandon, CloseFaulted, CloseEnd,
      LockedPlaces, ClosingPlaces
<1> QED
  BY <1>6, <1>7, <1>8, <1>9, <1>10 DEF OpenStep, CloseStep, CloseGoesOn

LEMMA IoCalls ==
    ASSUME SessionInv, NEW c \in Callers, IoStep(c), NEW d \in Callers
    PROVE  CallerMoves(d)
<1>1. Typed
  BY DEF SessionInv
<1> USE DEF CallerMoves
<1>2. CASE ReadBegin(c) \/ LineBegin(c) \/ WriteBegin(c)
  BY <1>2, BeginStep
<1>3. CASE WriteReserve(c)
  BY <1>3, WriteReserveStep DEF WriteReserve, history
<1>4. CASE WriteCheck(c)
  BY <1>4, WriteCheckStep DEF WriteCheck, At, Holding
<1>5. CASE IoAcquire(c)
  <2>1. call[c].pc \in AcquireSteps
    BY <1>5 DEF IoAcquire
  <2>2. \/ call[c].pc = "readAcquire" /\ NativeStep(call[c].pc) = "readNative"
        \/ call[c].pc = "lineAcquire" /\ NativeStep(call[c].pc) = "lineNative"
        \/ call[c].pc = "writeAcquire" /\ NativeStep(call[c].pc) = "writeNative"
    BY <2>1 DEF AcquireSteps, NativeStep
  <2> QED
    BY <1>5, <2>2, IoAcquireStep DEF Holding
<1>6. ASSUME NEW category \in Categories, NEW next \in {"idle", "lineOption"},
             call[c].pc \in NativePlaces, IoRelease(c, category, next),
             next = "lineOption" => call[c].pc = "lineNative"
      PROVE  CallerMoves(d)
  <2>1. /\ \/ /\ call'[c].pc = "idle"
           \/ /\ category = "Disconnected"
              /\ call'[c].pc = "ioDisconnected"
              /\ call'[c].generation = call[c].generation
           \/ /\ next = "lineOption"
              /\ call'[c].pc = "lineOption"
        /\ \A e \in Callers : e # c => call'[e] = call[e]
        /\ port = call[c].generation
    BY <1>6, IoReleaseFacts
  <2>2. category = "Disconnected" => port \in lost'
    BY <1>6 DEF IoRelease
  <2> QED
    BY <1>6, <2>1, <2>2
<1>7. NativeCategories \subseteq Categories /\ "Timeout" \in Categories
  BY DEF NativeCategories, Categories
<1>8. CASE ReadNative(c)
  BY <1>6, <1>7, <1>8 DEF ReadNative, At, NativePlaces
<1>9. CASE LineNative(c)
  BY <1>6, <1>7, <1>9 DEF LineNative, At, NativePlaces
<1>10. CASE WriteNative(c)
  BY <1>6, <1>7, <1>10 DEF WriteNative, At, NativePlaces
<1>11. CASE LineOption(c) \/ IoDisconnected(c)
  BY <1>1, <1>11, ReturnFacts DEF LineOption, IoDisconnected
<1> QED
  BY <1>2, <1>3, <1>4, <1>5, <1>8, <1>9, <1>10, <1>11 DEF IoStep

LEMMA CallsMove ==
    ASSUME SessionInv, [Next]_vars, NEW d \in Callers
    PROVE  CallerMoves(d)
<1>1. CASE UNCHANGED call
  BY <1>1 DEF CallerMoves
<1>2. ASSUME NEW c \in Callers, CallerStep(c)
      PROVE  CallerMoves(d)
  <2>1. CASE QueueStep(c)
    BY <1>1, <2>1 DEF QueueStep, EnqueueWrite, CancelPendingWrites, TakeCompletedWrites
  <2> QED
    BY <1>2, <2>1, LifecycleCalls, IoCalls DEF CallerStep
<1>3. CASE WorkerStep
  BY <1>1, <1>3 DEF WorkerStep, WorkerCheck, WorkerWake, WorkerWaitFails, WorkerStart,
                    WorkerAcquire, WorkerNative, WorkerDisconnected, WorkerFinish
<1> QED
  BY <1>1, <1>2, <1>3 DEF Next, vars

\* The worker has taken a request and its WriteFile has not returned.
Writing == {"start", "acquire", "native"}

LEMMA WorkerTakes ==
    ASSUME SessionInv, [Next]_vars, worker'.pc \in Writing
    PROVE  worker.pc \in Writing \/ Activates
<1>1. Typed
  BY DEF SessionInv
<1>2. CASE UNCHANGED worker
  BY <1>2
<1>3. ASSUME NEW c \in Callers, CallerStep(c)
      PROVE  worker.pc \in Writing
  <2>1. CASE CloseReap(c)
    BY <2>1, CloseReapFacts DEF Writing
  <2>2. ASSUME NEW bytes \in PayloadSizes, EnqueueWrite(c, bytes)
        PROVE  worker.pc \in Writing
    BY <2>2, EnqueueWriteFacts DEF Writing
  <2>3. CASE ~CloseReap(c) /\ \A bytes \in PayloadSizes : ~EnqueueWrite(c, bytes)
    <3>1. ASSUME OpenStep(c)
          PROVE  UNCHANGED worker
      BY <3>1 DEF OpenStep, OpenBegin, OpenCreate, OpenFailed, OpenCommit, OpenUndo
    <3>2. ASSUME CloseStep(c)
          PROVE  UNCHANGED worker
      BY <2>3, <3>2 DEF CloseStep, CloseGoesOn, CloseBegin, CloseStop, CloseWake, CloseJoin,
                        CloseJoinTimeout, CloseAbandon, CloseFaulted, CloseHandle, CloseEnd
    <3>3. ASSUME QueueStep(c)
          PROVE  UNCHANGED worker
      BY <2>3, <3>3 DEF QueueStep, CancelPendingWrites, TakeCompletedWrites
    <3>4. ASSUME IoStep(c)
          PROVE  UNCHANGED worker
      BY <3>4 DEF IoStep, ReadBegin, LineBegin, WriteBegin, WriteReserve, WriteCheck, IoAcquire,
                  ReadNative, LineNative, WriteNative, LineOption, IoDisconnected
    <3> QED
      BY <1>2, <1>3, <3>1, <3>2, <3>3, <3>4 DEF CallerStep
  <2> QED
    BY <2>1, <2>2, <2>3
<1>4. CASE WorkerCheck
  BY <1>4, WorkerCheckFacts DEF WorkerCheck, history, Activates, Writing
<1>5. CASE WorkerStart \/ WorkerAcquire
  BY <1>5 DEF WorkerStart, WorkerAcquire, WorkerAt, Writing
<1>6. CASE WorkerWake \/ WorkerWaitFails \/ WorkerDisconnected
  <2>1. PICK pc \in {"check", "none", "finish"} : WorkerGoto(pc)
    BY <1>6 DEF WorkerWake, WorkerWaitFails, WorkerDisconnected, WorkerEnds, WorkerGoto
  <2>2. worker'.pc = pc
    BY <1>1, <2>1, WorkerFacts DEF BusyPlaces
  <2> QED
    BY <2>2 DEF Writing
<1>7. CASE WorkerNative
  BY <1>7, WorkerNativeFacts DEF Writing
<1>8. CASE WorkerFinish
  <2>1. PICK pc \in {"check", "none"} : WorkerGoto(pc)
    BY <1>8, FinishFacts DEF FinishedWith, WorkerEnds, WorkerGoto
  <2>2. worker'.pc = pc
    BY <1>1, <2>1, WorkerFacts
  <2> QED
    BY <2>2 DEF Writing
<1> QED
  BY <1>2, <1>3, <1>4, <1>5, <1>6, <1>7, <1>8 DEF Next, WorkerStep, vars

\* Only two steps write.
WireGrows ==
    \/ UNCHANGED wire
    \/ /\ WorkerNative
       /\ wire' = Append(wire, worker.request.id)
       /\ worker'.pc \notin Writing
       /\ UNCHANGED <<queue, accepted, call, account, activeWrite>>
    \/ \E c \in Callers :
           /\ call[c].pc = "writeNative"
           /\ call'[c].pc \notin Holding
           /\ \A d \in Callers : d # c => call'[d] = call[d]
           /\ wire' = Append(wire, call[c].id)
           /\ UNCHANGED <<queue, accepted, worker, account, activeWrite>>

LEMMA WireStep ==
    ASSUME SessionInv, [Next]_vars
    PROVE  WireGrows
<1>1. CASE UNCHANGED wire
  BY <1>1 DEF WireGrows
<1>2. ASSUME NEW c \in Callers, WriteNative(c)
      PROVE  WireGrows
  <2>1. call[c].pc = "writeNative" /\ call[c].pc \in NativePlaces
    BY <1>2 DEF WriteNative, At, NativePlaces
  <2>2. PICK category : IoRelease(c, category, "idle")
    BY <1>2 DEF WriteNative
  <2>3. /\ call'[c].pc \in {"idle", "ioDisconnected"}
        /\ \A d \in Callers : d # c => call'[d] = call[d]
    BY <2>1, <2>2, IoReleaseFacts
  <2>4. /\ UNCHANGED wire \/ wire' = Append(wire, call[c].id)
        /\ UNCHANGED <<queue, accepted, worker, account, activeWrite>>
    BY <1>2 DEF WriteNative, writeVars
  <2> QED
    BY <1>1, <2>1, <2>3, <2>4 DEF WireGrows, Holding
<1>3. CASE WorkerNative
  BY <1>1, <1>3, WorkerNativeFacts DEF WorkerNative, WireGrows, Writing, writeVars
<1>4. ASSUME NEW c \in Callers, CallerStep(c), ~WriteNative(c)
      PROVE  UNCHANGED wire
  <2>1. ASSUME OpenStep(c)
        PROVE  UNCHANGED wire
    BY <2>1 DEF OpenStep, OpenBegin, OpenCreate, OpenFailed, OpenCommit, OpenUndo, history
  <2>2. ASSUME CloseStep(c)
        PROVE  UNCHANGED wire
    BY <2>2 DEF CloseStep, CloseGoesOn, CloseBegin, CloseStop, CloseWake, CloseJoin,
                CloseJoinTimeout, CloseAbandon, CloseFaulted, CloseReap, CloseHandle, CloseEnd,
                history
  <2>3. ASSUME QueueStep(c)
        PROVE  UNCHANGED wire
    BY <2>3 DEF QueueStep, EnqueueWrite, CancelPendingWrites, TakeCompletedWrites, history
  <2>4. ASSUME IoStep(c)
        PROVE  UNCHANGED wire
    BY <1>4, <2>4 DEF IoStep, ReadBegin, LineBegin, WriteBegin, WriteReserve, WriteCheck,
                      IoAcquire, ReadNative, LineNative, LineOption, IoDisconnected, history
  <2> QED
    BY <1>4, <2>1, <2>2, <2>3, <2>4 DEF CallerStep
<1>5. ASSUME WorkerStep, ~WorkerNative
      PROVE  UNCHANGED wire
  BY <1>5 DEF WorkerStep, WorkerCheck, WorkerWake, WorkerWaitFails, WorkerStart, WorkerAcquire,
              WorkerDisconnected, WorkerFinish, history
<1> QED
  BY <1>1, <1>2, <1>3, <1>4, <1>5 DEF Next, vars, history

-----------------------------------------------------------------------------
\* Causes: whoever says the device is gone was told so in that generation.

Causes ==
    /\ \A c \in Callers : At(c, "ioDisconnected") => call[c].generation \in lost
    /\ WorkerAt("disconnected") => worker.outcome.category = "Disconnected"
    /\ worker.pc \in {"disconnected", "finish"} /\ worker.outcome.category = "Disconnected" =>
           worker.request.generation \in lost

LEMMA CausesStep ==
    ASSUME SessionInv, Causes, [Next]_vars
    PROVE  Causes'
<1>1. WorkerTells
  BY WorkerHistory
<1>2. ASSUME NEW c \in Callers, call'[c].pc = "ioDisconnected"
      PROVE  call'[c].generation \in lost'
  <2>1. CallerMoves(c)
    BY CallsMove
  <2>2. call'[c] = call[c] \/ call'[c].generation \in lost'
    BY <1>2, <2>1 DEF CallerMoves, LockedPlaces, OpeningPlaces, ClosingPlaces
  <2> QED
    BY <1>1, <1>2, <2>2 DEF Causes, At, WorkerTells
<1>3. WorkerAt("disconnected")' => worker'.outcome.category = "Disconnected"
  BY <1>1 DEF Causes, WorkerAt, WorkerTells
<1>4. worker'.pc \in {"disconnected", "finish"} /\ worker'.outcome.category = "Disconnected" =>
          worker'.request.generation \in lost'
  BY <1>1 DEF Causes, WorkerTells
<1> QED
  BY <1>2, <1>3, <1>4 DEF Causes, At

\* The steps that may fault an open session.
LEMMA FaultStep ==
    ASSUME SessionInv, Causes, [Next]_vars, state = "Open", state' = "Faulted"
    PROVE  generation \in lost'
<1>1. WorkerTells
  BY WorkerHistory
<1>2. ASSUME NEW g, MarkDisconnected(g), g \in lost
      PROVE  generation \in lost'
  BY <1>1, <1>2 DEF MarkDisconnected, IsCurrent, sessionVars, WorkerTells
<1>3. CASE UNCHANGED state
  BY <1>3
<1>4. ASSUME NEW c \in Callers, CallerStep(c)
      PROVE  generation \in lost'
  <2>1. call[c].pc \notin LockedPlaces
    BY DEF SessionInv, Lifecycle, LockedPlaces, At
  <2>2. ASSUME OpenStep(c)
        PROVE  FALSE
    BY <2>1, <2>2 DEF OpenStep, OpenBegin, OpenCreate, OpenFailed, OpenCommit, OpenUndo, At,
                      LockedPlaces, OpeningPlaces
  <2>3. CASE CloseBegin(c)
    BY <2>3 DEF CloseBegin
  <2>4. ASSUME CloseStep(c), ~CloseBegin(c)
        PROVE  FALSE
    BY <2>1, <2>4 DEF CloseStep, CloseGoesOn, CloseStop, CloseWake, CloseJoin,
                      CloseJoinTimeout, CloseAbandon, CloseFaulted, CloseReap, CloseHandle,
                      CloseEnd, At, LockedPlaces, ClosingPlaces
  <2>5. CASE QueueStep(c)
    BY <1>3, <2>5 DEF QueueStep, EnqueueWrite, CancelPendingWrites, TakeCompletedWrites,
                      sessionVars
  <2>6. CASE IoDisconnected(c)
    BY <1>2, <2>6 DEF IoDisconnected, Causes
  <2>7. ASSUME IoStep(c), ~IoDisconnected(c)
        PROVE  UNCHANGED state
    BY <2>7 DEF IoStep, ReadBegin, LineBegin, WriteBegin, WriteReserve, WriteCheck, IoAcquire,
                ReadNative, LineNative, LineOption, WriteNative, sessionVars
  <2> QED
    BY <1>3, <1>4, <2>2, <2>3, <2>4, <2>5, <2>6, <2>7 DEF CallerStep
<1>5. CASE WorkerWaitFails
  <2>1. ~stopRequested
    BY DEF SessionInv, Threads
  <2> QED
    BY <1>5, <2>1 DEF WorkerWaitFails
<1>6. CASE WorkerDisconnected
  <2>1. worker.request.generation \in lost
    BY <1>6 DEF WorkerDisconnected, WorkerAt, Causes
  <2> QED
    BY <1>2, <1>6, <2>1 DEF WorkerDisconnected
<1>7. CASE WorkerFinish
  <2>1. PICK gone \in BOOLEAN, status \in Statuses :
            /\ FinishedWith(gone, status)
            /\ gone => /\ generation = worker.request.generation
                       /\ worker.outcome.category = "Disconnected"
    BY <1>7, FinishFacts
  <2>2. gone
    BY <2>1 DEF FinishedWith
  <2>3. worker.pc = "finish"
    BY <1>7, FinishFacts
  <2> QED
    BY <1>1, <2>1, <2>2, <2>3 DEF Causes, WorkerTells
<1>8. CASE WorkerCheck \/ WorkerWake \/ WorkerStart \/ WorkerAcquire \/ WorkerNative
  BY <1>3, <1>8 DEF WorkerCheck, WorkerWake, WorkerStart, WorkerAcquire, WorkerNative,
                    sessionVars
<1> QED
  BY <1>3, <1>4, <1>5, <1>6, <1>7, <1>8 DEF Next, WorkerStep, vars, sessionVars

-----------------------------------------------------------------------------
\* Wires: what has been written, and what may be written next.

\* The request will be written, if nothing settles it before.
Waiting(id) == IsPending(queue, id) \/ (worker.pc \in Writing /\ queue.active.id = id)

\* The id of a writeBytes that has not come to its WriteFile is nobody else's.
IdIsOwn(c) ==
    /\ call[c].id \in RequestIds
    /\ call[c].id \notin accepted
    /\ Issued(call[c].id)
    /\ \A i \in DOMAIN wire : wire[i] # call[c].id
    /\ \A d \in Callers : d # c /\ call[d].pc \in Holding => call[c].id # call[d].id

Wires ==
    /\ WrittenOnceInOrder
    /\ \A i \in DOMAIN wire : Issued(wire[i])
    /\ \A id \in RequestIds : Waiting(id) =>
           \A i \in DOMAIN wire : wire[i] # id /\ (wire[i] \in accepted => wire[i] < id)
    /\ \A c \in Callers : call[c].pc \in Holding => IdIsOwn(c)

LEMMA WireAppended ==
    ASSUME HistoriesTyped, NEW x \in RequestIds, wire' = Append(wire, x)
    PROVE  /\ \A i \in DOMAIN wire' :
                  \/ i \in DOMAIN wire /\ wire'[i] = wire[i]
                  \/ i = Len(wire) + 1 /\ wire'[i] = x
           /\ \A i \in DOMAIN wire' : i \in Int /\ i <= Len(wire) + 1
           /\ wire'[Len(wire')] = x
<1>1. wire \in Seq(RequestIds) /\ Len(wire) \in Nat /\ DOMAIN wire = 1 .. Len(wire)
  BY LenProperties DEF HistoriesTyped
<1>2. /\ Len(wire') = Len(wire) + 1
      /\ \A i \in 1 .. Len(wire) : wire'[i] = wire[i]
      /\ wire'[Len(wire) + 1] = x
      /\ DOMAIN wire' = 1 .. Len(wire) + 1
  BY <1>1, AppendProperties, LenProperties
<1> QED
  BY <1>1, <1>2

LEMMA OrderIsExtended ==
    ASSUME HistoriesTyped, WrittenOnceInOrder, UNCHANGED accepted,
           NEW x \in RequestIds, wire' = Append(wire, x),
           \A i \in DOMAIN wire :
               wire[i] # x /\ ({wire[i], x} \subseteq accepted => wire[i] < x)
    PROVE  WrittenOnceInOrder'
<1>1. /\ \A i \in DOMAIN wire' :
             \/ i \in DOMAIN wire /\ wire'[i] = wire[i]
             \/ i = Len(wire) + 1 /\ wire'[i] = x
      /\ \A i \in DOMAIN wire' : i \in Int /\ i <= Len(wire) + 1
      /\ Len(wire) \in Nat
  BY WireAppended, LenProperties DEF HistoriesTyped
<1>2. SUFFICES ASSUME NEW i \in DOMAIN wire', NEW j \in DOMAIN wire', i < j
               PROVE  /\ wire'[i] # wire'[j]
                      /\ {wire'[i], wire'[j]} \subseteq accepted => wire'[i] < wire'[j]
  BY DEF WrittenOnceInOrder
<1>3. i \in DOMAIN wire /\ wire'[i] = wire[i]
  BY <1>1, <1>2
<1>4. CASE j \in DOMAIN wire /\ wire'[j] = wire[j]
  BY <1>2, <1>3, <1>4 DEF WrittenOnceInOrder
<1>5. CASE wire'[j] = x
  BY <1>3, <1>5
<1> QED
  BY <1>1, <1>4, <1>5

\* The worker writes its request.
LEMMA WiresWorker ==
    ASSUME SessionInv, HistoriesTyped, Accounts, Wires,
           WorkerNative,
           wire' = Append(wire, worker.request.id),
           worker'.pc \notin Writing,
           UNCHANGED <<queue, accepted, call, account, activeWrite>>
    PROVE  Wires'
<1> DEFINE x == worker.request.id
<1>1. /\ worker.pc \in Writing
      /\ queue.active.id = x
      /\ x \in RequestIds
      /\ activeWrite.id = x
  BY BusyFacts DEF WorkerNative, WorkerAt, Writing, BusyPlaces
<1>2. x \in accepted /\ Waiting(x)
  BY <1>1 DEF Accounts, Waiting
<1> HIDE DEF x
<1>3. wire' = Append(wire, x)
  BY DEF x
<1>4. \A i \in DOMAIN wire' :
          \/ i \in DOMAIN wire /\ wire'[i] = wire[i]
          \/ wire'[i] = x
  BY <1>1, <1>3, WireAppended
<1>5. \A i \in DOMAIN wire : wire[i] # x /\ (wire[i] \in accepted => wire[i] < x)
  BY <1>1, <1>2 DEF Wires
<1>6. WrittenOnceInOrder'
  BY <1>1, <1>3, <1>5, OrderIsExtended DEF Wires
<1>7. \A i \in DOMAIN wire' : Issued(wire[i])'
  BY <1>2, <1>4 DEF Wires, Accounts, Issued
<1>8. ASSUME NEW id \in RequestIds, Waiting(id)', NEW i \in DOMAIN wire'
      PROVE  wire'[i] # id /\ (wire'[i] \in accepted' => wire'[i] < id)
  <2>1. IsPending(queue, id) /\ Waiting(id)
    BY <1>8 DEF Waiting
  <2>2. x # id /\ x < id
    <3>1. Sound(queue, Generations) /\ queue \in QueuesIn(Generations)
      BY DEF SessionInv, Typed, Sound
    <3>2. PICK j \in DOMAIN queue.pending : queue.pending[j].id = id
      BY <2>1 DEF IsPending, PendingIndices
    <3>3. queue.active.id < queue.pending[j].id
      BY <3>1 DEF Sound, InOrder
    <3> QED
      BY <1>1, <3>2, <3>3 DEF RequestIds
  <2> QED
    BY <1>4, <2>1, <2>2 DEF Wires
<1>9. ASSUME NEW c \in Callers, call'[c].pc \in Holding
      PROVE  IdIsOwn(c)'
  <2>1. IdIsOwn(c) /\ call[c].id # x
    BY <1>2, <1>9 DEF Wires, IdIsOwn
  <2> QED
    BY <1>4, <2>1 DEF IdIsOwn, Issued
<1> QED
  BY <1>6, <1>7, <1>8, <1>9 DEF Wires

\* A writeBytes writes.
LEMMA WiresCaller ==
    ASSUME SessionInv, HistoriesTyped, Accounts, Wires, NEW c \in Callers,
           call[c].pc = "writeNative",
           call'[c].pc \notin Holding,
           \A d \in Callers : d # c => call'[d] = call[d],
           wire' = Append(wire, call[c].id),
           UNCHANGED <<queue, accepted, worker, account, activeWrite>>
    PROVE  Wires'
<1> DEFINE x == call[c].id
<1>1. /\ IdIsOwn(c)
      /\ x \in RequestIds
      /\ x \notin accepted
  BY DEF Wires, IdIsOwn, Holding
<1>2. \A i \in DOMAIN wire' :
          \/ i \in DOMAIN wire /\ wire'[i] = wire[i]
          \/ wire'[i] = x
  BY <1>1, WireAppended
<1>3. WrittenOnceInOrder'
  <2>1. \A i \in DOMAIN wire : wire[i] # x /\ ({wire[i], x} \subseteq accepted => wire[i] < x)
    BY <1>1 DEF IdIsOwn
  <2>2. wire' = Append(wire, x)
    OBVIOUS
  <2> HIDE DEF x
  <2> QED
    BY <1>1, <2>1, <2>2, OrderIsExtended DEF Wires
<1>4. \A i \in DOMAIN wire' : Issued(wire[i])'
  BY <1>1, <1>2 DEF Wires, IdIsOwn, Issued
<1>5. ASSUME NEW id \in RequestIds, Waiting(id)', NEW i \in DOMAIN wire'
      PROVE  wire'[i] # id /\ (wire'[i] \in accepted' => wire'[i] < id)
  <2>1. Waiting(id)
    BY <1>5 DEF Waiting
  <2>2. id \in accepted
    <3>1. worker.pc \in Writing => activeWrite.id = queue.active.id
      BY DEF SessionInv, WriteAgrees, ActiveAgrees
    <3> QED
      BY <2>1, <3>1 DEF Waiting, Accounts
  <2> QED
    BY <1>1, <1>2, <2>1, <2>2 DEF Wires
<1>6. ASSUME NEW d \in Callers, call'[d].pc \in Holding
      PROVE  IdIsOwn(d)'
  <2>1. d # c /\ call'[d] = call[d] /\ IdIsOwn(d)
    BY <1>6 DEF Wires
  <2>2. call[d].id # x
    BY <2>1 DEF IdIsOwn, Holding
  <2>3. \A e \in Callers : e # d /\ call'[e].pc \in Holding => call'[d].id # call'[e].id
    BY <2>1 DEF IdIsOwn
  <2> QED
    BY <1>2, <2>1, <2>2, <2>3 DEF IdIsOwn, Issued
<1> QED
  BY <1>3, <1>4, <1>5, <1>6 DEF Wires

\* Nothing is written: an id may be given out or accepted, a request may become
\* active, a caller may go on.
LEMMA WiresRest ==
    ASSUME SessionInv, HistoriesTyped, Accounts, Wires, [Next]_vars, UNCHANGED wire
    PROVE  Wires'
<1>1. /\ \A id \in RequestIds : Issued(id) => Issued(id)'
      /\ accepted' \subseteq RequestIds
      /\ \A id \in accepted' : Issued(id)'
  BY IssuedStep
<1>2. Effect
  BY Effects
<1>3. \/ accepted' = accepted
      \/ Admits /\ accepted' = accepted \cup {queue.nextRequestId}
  BY <1>2 DEF Effect, Rests, Admits, Drains, Publishes, Activates, Finishes
<1>4. \A i \in DOMAIN wire : wire[i] \in RequestIds /\ Issued(wire[i])
  BY ElementOfSeq, LenProperties DEF HistoriesTyped, Wires
<1>5. queue.nextRequestId \in RequestIds =>
          \A i \in DOMAIN wire : wire[i] < queue.nextRequestId /\ wire[i] # queue.nextRequestId
  BY <1>4 DEF Issued, RequestIds, Unassigned
<1>6. WrittenOnceInOrder'
  <2>1. \A i \in DOMAIN wire : wire[i] \in accepted' => wire[i] \in accepted
    BY <1>3, <1>5 DEF Admits
  <2> QED
    BY <2>1 DEF Wires, WrittenOnceInOrder
<1>7. \A i \in DOMAIN wire' : Issued(wire[i])'
  BY <1>1, <1>4 DEF Issued
<1>8. ASSUME NEW id \in RequestIds, Waiting(id)'
      PROVE  \A i \in DOMAIN wire' :
                 wire'[i] # id /\ (wire'[i] \in accepted' => wire'[i] < id)
  <2>1. \/ Waiting(id)
        \/ Admits /\ id = queue.nextRequestId
    <3>1. worker'.pc \in Writing => worker.pc \in Writing \/ Activates
      BY WorkerTakes
    <3>2. CASE Activates
      <4>1. Sound(queue, Generations)
        BY DEF SessionInv, Typed
      <4>2. IsPending(queue, queue'.active.id)
            /\ \A x : IsPending(queue', x) => IsPending(queue, x)
        BY <3>2, <4>1, ActivateFacts DEF Activates
      <4> QED
        BY <1>8, <4>2 DEF Waiting
    <3>3. CASE ~Activates /\ \E gone \in BOOLEAN, status \in Statuses : Finishes(gone, status)
      <4>1. /\ worker.pc = "finish"
            /\ \A x : IsPending(queue', x) => IsPending(queue, x)
        BY <3>3, FinishedQueue DEF Finishes
      <4> QED
        BY <1>8, <3>1, <3>3, <4>1 DEF Waiting, Writing
    <3>4. CASE ~Activates /\ Admits
      BY <1>8, <3>1, <3>4 DEF Admits, Waiting
    <3>5. CASE ~Activates /\ Rests
      BY <1>8, <3>1, <3>5 DEF Rests, SameRequests, Waiting
    <3>6. CASE ~Activates /\ \E status \in Unsent : Drains(status) \/ Publishes(status)
      BY <1>8, <3>1, <3>6 DEF Drains, Publishes, Waiting
    <3> QED
      BY <1>2, <3>2, <3>3, <3>4, <3>5, <3>6 DEF Effect
  <2>2. CASE Waiting(id)
    <3>1. \A i \in DOMAIN wire : wire[i] # id /\ (wire[i] \in accepted => wire[i] < id)
      BY <2>2 DEF Wires
    <3> QED
      BY <1>3, <1>5, <3>1 DEF Admits
  <2>3. CASE Admits /\ id = queue.nextRequestId
    BY <1>5, <2>3
  <2> QED
    BY <2>1, <2>2, <2>3
<1>9. ASSUME NEW c \in Callers, call'[c].pc \in Holding
      PROVE  IdIsOwn(c)'
  <2>1. \/ call[c].pc \in Holding /\ call'[c].id = call[c].id
        \/ /\ call'[c].id = queue.nextRequestId
           /\ queue.nextRequestId \in RequestIds
           /\ queue'.nextRequestId = NextId(queue.nextRequestId)
           /\ UNCHANGED accepted
           /\ \A d \in Callers : d # c => call'[d] = call[d]
    <3>1. CallerMoves(c)
      BY CallsMove
    <3> QED
      BY <1>9, <3>1 DEF CallerMoves, Holding, LockedPlaces, OpeningPlaces, ClosingPlaces
  <2>2. ASSUME NEW d \in Callers, call'[d].pc \in Holding, d # c
        PROVE  call'[c].id # call'[d].id
    <3>1. \/ call[d].pc \in Holding /\ call'[d].id = call[d].id
          \/ /\ call'[d].id = queue.nextRequestId
             /\ queue.nextRequestId \in RequestIds
             /\ \A e \in Callers : e # d => call'[e] = call[e]
      <4>1. CallerMoves(d)
        BY CallsMove
      <4> QED
        BY <2>2, <4>1 DEF CallerMoves, Holding, LockedPlaces, OpeningPlaces, ClosingPlaces
    <3>2. ASSUME NEW e \in Callers, call[e].pc \in Holding, queue.nextRequestId \in RequestIds
          PROVE  call[e].id # queue.nextRequestId
      BY <3>2 DEF Wires, IdIsOwn, Issued, RequestIds, Unassigned
    <3>3. CASE call[c].pc \in Holding /\ call[d].pc \in Holding
               /\ call'[c].id = call[c].id /\ call'[d].id = call[d].id
      BY <2>2, <3>3 DEF Wires, IdIsOwn
    <3>4. call[c].pc \in Holding \/ call[d].pc \in Holding
      BY <1>9, <2>1, <2>2, <3>1
    <3> QED
      BY <1>9, <2>1, <2>2, <3>1, <3>2, <3>3, <3>4
  <2>3. CASE call[c].pc \in Holding /\ call'[c].id = call[c].id
    <3>1. IdIsOwn(c)
      BY <2>3 DEF Wires
    <3>2. call[c].id \notin accepted'
      BY <1>3, <3>1 DEF IdIsOwn, Admits, Issued, RequestIds, Unassigned
    <3> QED
      BY <1>1, <2>2, <2>3, <3>1, <3>2 DEF IdIsOwn, Issued
  <2>4. CASE /\ call'[c].id = queue.nextRequestId
             /\ queue.nextRequestId \in RequestIds
             /\ queue'.nextRequestId = NextId(queue.nextRequestId)
             /\ UNCHANGED accepted
    <3>1. queue.nextRequestId \notin accepted
      BY <2>4, AcceptedIsNotNew
    <3>2. PICK id \in RequestIds : id = queue.nextRequestId
      BY <2>4
    <3>3. Issued(id)'
      BY <2>4, <3>2, NowIssued DEF SessionInv
    <3> QED
      BY <1>5, <2>2, <2>4, <3>1, <3>2, <3>3 DEF IdIsOwn, Issued
  <2> QED
    BY <2>1, <2>3, <2>4
<1> QED
  BY <1>6, <1>7, <1>8, <1>9 DEF Wires

LEMMA WiresStep ==
    ASSUME SessionInv, HistoriesTyped, Accounts, Wires, [Next]_vars
    PROVE  Wires'
  BY WireStep, WiresRest, WiresWorker, WiresCaller DEF WireGrows

-----------------------------------------------------------------------------
\* The histories keep their types.

LEMMA AccountTyped ==
    ASSUME SessionInv, HistoriesTyped, [Next]_vars
    PROVE  account' \in [RequestIds -> Seq(Statuses)]
<1>1. Effect /\ account \in [RequestIds -> Seq(Statuses)]
  BY Effects DEF HistoriesTyped
<1>2. ASSUME NEW acc \in [RequestIds -> Seq(Statuses)], NEW id, NEW status \in Statuses
      PROVE  Credit(acc, id, status) \in [RequestIds -> Seq(Statuses)]
  <2>1. id \in RequestIds => Append(acc[id], status) \in Seq(Statuses)
    BY <1>2, AppendProperties
  <2> QED
    BY <1>2, <2>1 DEF Credit
<1>3. ASSUME NEW status \in Statuses
      PROVE  CreditPending(status) \in [RequestIds -> Seq(Statuses)]
  <2>1. \A id \in RequestIds : Append(account[id], status) \in Seq(Statuses)
    BY <1>1, <1>3, AppendProperties
  <2> QED
    BY <1>1, <2>1 DEF CreditPending
<1>4. Unsent \subseteq Statuses /\ "Disconnected" \in Statuses
  BY DEF Unsent, Statuses
<1>5. ASSUME NEW gone \in BOOLEAN, NEW status \in Statuses, Finishes(gone, status)
      PROVE  account' \in [RequestIds -> Seq(Statuses)]
  <2> DEFINE credited == IF gone THEN CreditPending("Disconnected") ELSE account
  <2>1. credited \in [RequestIds -> Seq(Statuses)]
    BY <1>1, <1>3, <1>4
  <2>2. account' = IF activeWrite.published THEN credited
                   ELSE Credit(credited, activeWrite.id, status)
    BY <1>5 DEF Finishes, FinishedWith
  <2> HIDE DEF credited
  <2> QED
    BY <1>2, <2>1, <2>2
<1>6. ASSUME NEW status \in Unsent, Drains(status) \/ Publishes(status)
      PROVE  account' \in [RequestIds -> Seq(Statuses)]
  <2>1. status \in Statuses
    BY <1>4
  <2>2. account' = CreditPending(status) \/ account' = Credit(account, activeWrite.id, status)
    BY <1>6 DEF Drains, Publishes
  <2> QED
    BY <1>1, <1>2, <1>3, <2>1, <2>2
<1>7. CASE UNCHANGED account
  BY <1>1, <1>7
<1> QED
  BY <1>1, <1>5, <1>6, <1>7 DEF Effect, Rests, Admits, Activates

LEMMA SentTyped ==
    ASSUME SessionInv, HistoriesTyped, Wires, [Next]_vars
    PROVE  sent' \subseteq RequestIds /\ lost' \subseteq Generations
<1> DEFINE Good == sent' \subseteq RequestIds /\ lost' \subseteq Generations
<1>1. /\ sent \subseteq RequestIds
      /\ lost \subseteq Generations
      /\ generation \in Generations
  BY DEF HistoriesTyped, SessionInv, Typed
<1>2. CASE UNCHANGED <<sent, lost>>
  BY <1>1, <1>2
<1>3. ASSUME NEW c \in Callers, IoStep(c)
      PROVE  Good
  <2>1. CASE call[c].pc \in NativePlaces
    <3>1. port \in Generations
      BY <2>1 DEF SessionInv, Typed, PortOwned
    <3>2. ASSUME WriteNative(c)
          PROVE  call[c].id \in RequestIds
      BY <3>2 DEF WriteNative, At, Wires, Holding, IdIsOwn
    <3>3. sent' \subseteq sent \cup {call[c].id}
          /\ (~WriteNative(c) => sent' \subseteq sent)
          /\ lost' \subseteq lost \cup {port}
      <4>1. CASE ReadNative(c)
        BY <4>1 DEF ReadNative, IoRelease
      <4>2. CASE LineNative(c)
        BY <4>2 DEF LineNative, IoRelease
      <4>3. CASE WriteNative(c)
        BY <4>3 DEF WriteNative, IoRelease
      <4>4. CASE ~(ReadNative(c) \/ LineNative(c) \/ WriteNative(c))
        BY <1>3, <4>4 DEF IoStep, ReadBegin, LineBegin, WriteBegin, WriteReserve, WriteCheck,
                          IoAcquire, LineOption, IoDisconnected, history
      <4> QED
        BY <4>1, <4>2, <4>3, <4>4
    <3> QED
      BY <1>1, <3>1, <3>2, <3>3
  <2>2. CASE call[c].pc \notin NativePlaces
    BY <1>2, <1>3, <2>2
    DEF IoStep, ReadBegin, LineBegin, WriteBegin, WriteReserve, WriteCheck, IoAcquire, ReadNative,
        LineNative, WriteNative, LineOption, IoDisconnected, At, NativePlaces, history
  <2> QED
    BY <2>1, <2>2
<1>4. ASSUME NEW c \in Callers, OpenStep(c) \/ CloseStep(c) \/ QueueStep(c)
      PROVE  Good
  BY <1>2, <1>4
  DEF OpenStep, OpenBegin, OpenCreate, OpenFailed, OpenCommit, OpenUndo,
      CloseStep, CloseGoesOn, CloseBegin, CloseStop, CloseWake, CloseJoin, CloseJoinTimeout,
      CloseAbandon, CloseFaulted, CloseReap, CloseHandle, CloseEnd,
      QueueStep, EnqueueWrite, CancelPendingWrites, TakeCompletedWrites, history
<1>5. CASE WorkerNative
  <2>1. port \in Generations /\ worker.request.id \in RequestIds
    BY <1>5, BusyFacts DEF WorkerNative, WorkerAt, BusyPlaces, SessionInv, Typed, PortOwned
  <2>2. sent' \subseteq sent \cup {worker.request.id} /\ lost' \subseteq lost \cup {port}
    BY <1>5 DEF WorkerNative, WorkerRelease
  <2> QED
    BY <1>1, <2>1, <2>2
<1>6. ASSUME WorkerStep, ~WorkerNative
      PROVE  Good
  <2>1. UNCHANGED sent /\ lost' \subseteq lost \cup {generation}
    BY <1>6 DEF WorkerStep, WorkerCheck, WorkerWake, WorkerWaitFails, WorkerStart, WorkerAcquire,
                WorkerDisconnected, WorkerFinish, history
  <2> QED
    BY <1>1, <2>1
<1> QED
  BY <1>2, <1>3, <1>4, <1>5, <1>6 DEF Next, CallerStep, vars, history

LEMMA WireTyped ==
    ASSUME SessionInv, HistoriesTyped, Wires, [Next]_vars
    PROVE  wire' \in Seq(RequestIds)
<1>1. wire \in Seq(RequestIds)
  BY DEF HistoriesTyped
<1>2. WireGrows
  BY WireStep
<1>3. CASE UNCHANGED wire
  BY <1>1, <1>3
<1>4. CASE WorkerNative /\ wire' = Append(wire, worker.request.id)
  <2>1. worker.request.id \in RequestIds
    BY <1>4, BusyFacts DEF WorkerNative, WorkerAt, BusyPlaces
  <2> QED
    BY <1>1, <1>4, <2>1, AppendProperties
<1>5. ASSUME NEW c \in Callers, call[c].pc = "writeNative", wire' = Append(wire, call[c].id)
      PROVE  wire' \in Seq(RequestIds)
  <2>1. call[c].id \in RequestIds
    BY <1>5 DEF Wires, Holding, IdIsOwn
  <2> QED
    BY <1>1, <1>5, <2>1, AppendProperties
<1> QED
  BY <1>2, <1>3, <1>4, <1>5 DEF WireGrows

-----------------------------------------------------------------------------
\* The inductive invariant.

Inv == SessionInv /\ HistoriesTyped /\ Accounts /\ Causes /\ Wires

LEMMA InvInit ==
    ASSUME Init
    PROVE  Inv
<1>1. SessionInv
  BY SessionInvInit
<1>2. \A id : ~IsPending(queue, id)
  <2>1. queue \in QueuesIn(Generations) /\ queue.pending = << >>
    BY <1>1 DEF SessionInv, Typed, Sound, Init, NewQueue
  <2> QED
    BY <2>1, EmptyMeans
<1>3. HistoriesTyped
  BY EmptySeq DEF Init, HistoriesTyped
<1>4. /\ \A c \in Callers : call[c].pc = "idle"
      /\ worker.pc = "none"
      /\ activeWrite = NoWrite
      /\ NoWrite.id \notin RequestIds
  BY QueueConstants DEF Init, Idle, Dormant, NoWrite, RequestIds, Unassigned
<1>5. Accounts
  <2>1. \A id \in RequestIds : account[id] = << >> /\ id \notin accepted
    BY DEF Init
  <2>2. ExactlyOneResult
    BY <2>1 DEF ExactlyOneResult
  <2> QED
    BY <1>2, <1>4, <2>2 DEF Init, Accounts
<1>6. Causes
  BY <1>4 DEF Causes, At, WorkerAt
<1>7. Wires
  <2>1. DOMAIN wire = {}
    BY DEF Init
  <2> QED
    BY <1>2, <1>4, <2>1 DEF Wires, WrittenOnceInOrder, Waiting, Writing, Holding
<1> QED
  BY <1>1, <1>3, <1>5, <1>6, <1>7 DEF Inv

LEMMA InvNext ==
    ASSUME Inv, [Next]_vars
    PROVE  Inv'
<1>1. SessionInv /\ HistoriesTyped /\ Accounts /\ Causes /\ Wires
  BY DEF Inv
<1>2. HistoriesTyped'
  <2>1. accepted' \subseteq RequestIds
    BY <1>1, IssuedStep
  <2> QED
    BY <1>1, <2>1, AccountTyped, SentTyped, WireTyped DEF HistoriesTyped
<1> QED
  BY <1>1, <1>2, SessionInvNext, AccountsStep, CausesStep, WiresStep DEF Inv

LEMMA Invariance == Spec => []Inv
<1>1. Init => Inv
  BY InvInit
<1>2. Inv /\ [Next]_vars => Inv'
  BY InvNext
<1> QED
  BY <1>1, <1>2, PTL DEF Spec

-----------------------------------------------------------------------------
\* The safety properties.

LEMMA TypeFollows == Inv => TypeOK
<1>1. SUFFICES ASSUME Inv
               PROVE  TypeOK
  OBVIOUS
<1>2. Typed /\ HistoriesTyped /\ ActiveAgrees
  BY <1>1 DEF Inv, SessionInv, WriteAgrees
<1>3. RequestsIn(Generations) = Requests
  BY DEF RequestsIn, Requests
<1>4. queue \in [ generation : Generations, nextRequestId : 0 .. MaxRequestId,
                  pending : Seq(Requests), pendingBytes : Int,
                  active : Requests \cup {NoRequest},
                  highWaterCount : Nat, highWaterBytes : Int ]
  BY <1>2, <1>3 DEF Typed, Sound, QueuesIn
<1> QED
  BY <1>2, <1>4 DEF Typed, HistoriesTyped, TypeOK

LEMMA NothingLeftFollows == Inv => NothingIsLeft
<1>1. SUFFICES ASSUME Inv
               PROVE  NothingIsLeft
  OBVIOUS
<1>2. Typed /\ PortOwned /\ Threads /\ ActiveAgrees
  BY <1>1 DEF Inv, SessionInv, WriteAgrees
<1>3. PendingIsServed
  BY <1>2 DEF PendingIsServed, Threads, WorkerAt
<1>4. ASSUME state \in {"Closed", "Opening"}
      PROVE  /\ thread = "null"
             /\ queue.pending = << >>
             /\ activeWrite = NoWrite
  BY <1>2, <1>4 DEF Threads, ActiveAgrees, WorkerAt
<1>5. ASSUME activeWrite = NoWrite, queue.pending = << >>
      PROVE  IsEmpty(queue) /\ \A id \in RequestIds : ~Owed(id)
  <2>1. queue \in QueuesIn(Generations)
    BY <1>2 DEF Typed, Sound
  <2>2. \A id : ~IsPending(queue, id)
    BY <1>5, <2>1, EmptyMeans
  <2>3. queue.active.id = Unassigned
    BY <1>2, <1>5 DEF ActiveAgrees, NoWrite
  <2> QED
    BY <1>5, <2>2, <2>3, QueueConstants
    DEF IsEmpty, HasActive, Owed, NoWrite, RequestIds, Unassigned
<1>6. state = "Closed" => port = PortClosed /\ ~handle
  BY <1>2 DEF PortOwned
<1>7. ClosedIsQuiet
  BY <1>4, <1>5, <1>6 DEF ClosedIsQuiet
<1> QED
  BY <1>3, <1>7 DEF NothingIsLeft

\* Every variable of the session holds a value of its type; and the record of
\* the write in progress, the reservation of the queue and the copy of the
\* worker are the same write, whichever thread moves.
THEOREM TypeCorrect == Spec => []TypeOK
BY Invariance, TypeFollows, PTL

\* Every write the session has accepted gets one terminal result and no other
\* request gets any, for any number of calling threads, whatever fails and
\* however close, a lost device, cancellation and the worker interleave; and
\* a result says "Succeeded" only when WriteFile took the whole payload.
THEOREM ResultsAreUnique == Spec => []ExactlyOneResult
<1>1. Inv => ExactlyOneResult
  BY DEF Inv, Accounts
<1> QED
  BY <1>1, Invariance, PTL

\* A pending write of an open session has a worker that will see it, and a
\* closed session has no worker, no handle and nothing it owes.
THEOREM NothingLeft == Spec => []NothingIsLeft
BY Invariance, NothingLeftFollows, PTL

\* No request is handed to WriteFile twice, and queued requests are handed to
\* it in the order they were accepted, over all the generations of a session.
THEOREM WrittenInOrder == Spec => []WrittenOnceInOrder
<1>1. Inv => WrittenOnceInOrder
  BY DEF Inv, Wires
<1> QED
  BY <1>1, Invariance, PTL

\* An open session becomes faulted only for a failure reported in its own
\* generation: a thread that comes late from an earlier one does not fault it.
THEOREM FaultsAreOwn == Spec => FaultHasCause
<1>1. Inv /\ [Next]_vars => [state = "Open" /\ state' = "Faulted" => generation \in lost']_vars
  BY FaultStep DEF Inv
<1> QED
  BY <1>1, Invariance, PTL DEF Spec, FaultHasCause

LEMMA NoLateWriteStep ==
    ASSUME Inv, [Next]_vars, NEW id \in RequestIds,
           Len(wire') > Len(wire), wire'[Len(wire')] = id
    PROVE  account[id] = << >> \/ (activeWrite.id = id /\ activeWrite.published)
<1>1. SessionInv /\ HistoriesTyped /\ ExactlyOneResult /\ Wires
  BY DEF Inv, Accounts
<1>2. account[id] \in Seq(Statuses)
  BY <1>1 DEF HistoriesTyped
<1>3. ~UNCHANGED wire /\ WireGrows
  BY <1>1, WireStep, LenProperties DEF HistoriesTyped
<1>4. CASE WorkerNative /\ wire' = Append(wire, worker.request.id)
  <2>1. worker.request.id = activeWrite.id /\ worker.request.id \in RequestIds
    BY <1>1, <1>4, BusyFacts DEF WorkerNative, WorkerAt, BusyPlaces
  <2>2. id = activeWrite.id
    BY <1>1, <1>4, <2>1, WireAppended
  <2>3. CASE ~activeWrite.published
    BY <1>1, <1>2, <2>2, <2>3, EmptySeq DEF ExactlyOneResult, Owed
  <2> QED
    BY <2>2, <2>3
<1>5. ASSUME NEW c \in Callers, call[c].pc = "writeNative", wire' = Append(wire, call[c].id)
      PROVE  account[id] = << >>
  <2>1. call[c].id \in RequestIds /\ call[c].id \notin accepted
    BY <1>1, <1>5 DEF Wires, Holding, IdIsOwn
  <2>2. id = call[c].id
    BY <1>1, <1>5, <2>1, WireAppended
  <2> QED
    BY <1>1, <1>2, <2>1, <2>2, EmptySeq DEF ExactlyOneResult
<1> QED
  BY <1>3, <1>4, <1>5 DEF WireGrows

\* A write that was settled while it was pending is never written afterwards;
\* only one that was reported while under way, by a close that gave up waiting
\* for it, may still be.
THEOREM NoneIsLate == Spec => NoLateWrite
<1>1. Inv /\ [Next]_vars =>
          [\A id \in RequestIds :
              /\ Len(wire') > Len(wire)
              /\ wire'[Len(wire')] = id
              => account[id] = << >> \/ (activeWrite.id = id /\ activeWrite.published)]_vars
  BY NoLateWriteStep
<1> QED
  BY <1>1, Invariance, PTL DEF Spec, NoLateWrite

-----------------------------------------------------------------------------
\* How the state of the session and the generation move.

Stays ==
    /\ UNCHANGED <<state, generation>>
    /\ UNCHANGED lineOption \/ \E c \in Callers : LineOption(c)
    /\ UNCHANGED line \/ \E c \in Callers : LineNative(c)

Opens == \E c \in Callers : OpenCommit(c) /\ CanCommit

StateMoves ==
    /\ state' = "Open" => Stays \/ Opens
    /\ state' \in {"Closed", "Opening"} =>
           state \in {"Closed", "Opening"} \/ \E c \in Callers : CloseEnd(c)
    /\ generationCounter' \in {generationCounter, generationCounter + 1}
    /\ generation' \in {generation, Unassigned} \/ Opens

LEMMA StateMove ==
    ASSUME SessionInv, [Next]_vars
    PROVE  StateMoves
<1>1. CASE UNCHANGED <<state, generation, generationCounter, lineOption, line>>
  BY <1>1 DEF StateMoves, Stays
<1>2. CASE /\ state' \notin {"Open", "Closed", "Opening"}
           /\ UNCHANGED generationCounter
           /\ generation' \in {generation, Unassigned}
  BY <1>2 DEF StateMoves
<1>3. ASSUME NEW c \in Callers, OpenStep(c)
      PROVE  StateMoves
  <2>1. CASE OpenBegin(c)
    BY <1>2, <2>1 DEF OpenBegin, StateMoves
  <2>2. CASE OpenCreate(c)
    <3>1. state = "Opening"
      BY <2>2 DEF OpenCreate, At, OpeningPlaces, SessionInv, Lifecycle
    <3> QED
      BY <2>2, <3>1 DEF OpenCreate, StateMoves
  <2>3. CASE OpenFailed(c)
    BY <1>2, <2>3 DEF OpenFailed
  <2>4. CASE OpenCommit(c) /\ CanCommit
    BY <2>4 DEF OpenCommit, Opens, StateMoves
  <2>5. CASE OpenCommit(c) /\ ~CanCommit
    BY <2>5 DEF OpenCommit, StateMoves
  <2>6. CASE OpenUndo(c)
    BY <1>1, <2>6 DEF OpenUndo
  <2> QED
    BY <1>3, <2>1, <2>2, <2>3, <2>4, <2>5, <2>6 DEF OpenStep
<1>4. ASSUME NEW c \in Callers, CloseStep(c)
      PROVE  StateMoves
  <2>1. CASE CloseBegin(c) \/ CloseFaulted(c)
    BY <1>2, <2>1 DEF CloseBegin, CloseFaulted
  <2>2. CASE CloseEnd(c)
    BY <2>2 DEF CloseEnd, StateMoves
  <2>3. CASE ~(CloseBegin(c) \/ CloseFaulted(c) \/ CloseEnd(c))
    BY <1>1, <1>4, <2>3
    DEF CloseStep, CloseGoesOn, CloseStop, CloseWake, CloseJoin, CloseJoinTimeout, CloseAbandon,
        CloseReap, CloseHandle, sessionVars, external
  <2> QED
    BY <2>1, <2>2, <2>3
<1>5. ASSUME NEW c \in Callers, QueueStep(c)
      PROVE  StateMoves
  BY <1>1, <1>5
  DEF QueueStep, EnqueueWrite, CancelPendingWrites, TakeCompletedWrites, sessionVars, external
<1>6. ASSUME NEW g, MarkDisconnected(g), UNCHANGED line
      PROVE  StateMoves
  <2>1. CASE IsCurrent(g)
    BY <1>2, <1>6, <2>1 DEF MarkDisconnected
  <2>2. CASE ~IsCurrent(g)
    BY <1>1, <1>6, <2>2 DEF MarkDisconnected, sessionVars
  <2> QED
    BY <2>1, <2>2
<1>7. ASSUME NEW c \in Callers, IoStep(c)
      PROVE  StateMoves
  <2>1. CASE LineNative(c)
    BY <2>1 DEF LineNative, sessionVars, StateMoves, Stays
  <2>2. CASE LineOption(c)
    BY <2>2 DEF LineOption, external, StateMoves, Stays
  <2>3. CASE IoDisconnected(c)
    BY <1>6, <2>3 DEF IoDisconnected, external
  <2>4. CASE ~(LineNative(c) \/ LineOption(c) \/ IoDisconnected(c))
    BY <1>1, <1>7, <2>4
    DEF IoStep, ReadBegin, LineBegin, WriteBegin, WriteReserve, WriteCheck, IoAcquire,
        ReadNative, WriteNative, sessionVars, external
  <2> QED
    BY <2>1, <2>2, <2>3, <2>4
<1>8. ASSUME WorkerStep
      PROVE  StateMoves
  <2>1. CASE WorkerWaitFails
    BY <1>1, <1>2, <2>1 DEF WorkerWaitFails, external
  <2>2. CASE WorkerDisconnected
    BY <1>6, <2>2 DEF WorkerDisconnected, external
  <2>3. CASE WorkerFinish
    <3>1. UNCHANGED <<generationCounter, lineOption, line>>
      BY <2>3 DEF WorkerFinish, external
    <3>2. PICK gone \in BOOLEAN, status \in Statuses : FinishedWith(gone, status)
      BY <2>3, FinishFacts
    <3> QED
      BY <1>1, <1>2, <3>1, <3>2 DEF FinishedWith
  <2>4. CASE ~(WorkerWaitFails \/ WorkerDisconnected \/ WorkerFinish)
    BY <1>1, <1>8, <2>4
    DEF WorkerStep, WorkerCheck, WorkerWake, WorkerStart, WorkerAcquire, WorkerNative,
        sessionVars, external
  <2> QED
    BY <2>1, <2>2, <2>3, <2>4
<1>9. CASE UNCHANGED vars
  BY <1>1, <1>9 DEF vars, sessionVars, external
<1> QED
  BY <1>3, <1>4, <1>5, <1>7, <1>8, <1>9 DEF Next, CallerStep

-----------------------------------------------------------------------------
\* The refinement of the ledger.

\* What the ledger says of a request, in terms of the invariant.
EntriesAgree ==
    \A id \in RequestIds :
        /\ id \notin accepted => Entry(id) = "free" /\ ~Owed(id)
        /\ Owed(id) => Entry(id) = "owed"
        /\ id \in accepted /\ ~Owed(id) =>
               Entry(id) \in Statuses /\ Entry(id) = account[id][1]

LEMMA EntryAgrees == Inv => EntriesAgree
<1>1. SUFFICES ASSUME Inv, NEW id \in RequestIds
               PROVE  /\ id \notin accepted => Entry(id) = "free" /\ ~Owed(id)
                      /\ Owed(id) => Entry(id) = "owed"
                      /\ id \in accepted /\ ~Owed(id) =>
                             Entry(id) \in Statuses /\ Entry(id) = account[id][1]
  BY DEF EntriesAgree
<1>2. /\ account[id] \in Seq(Statuses)
      /\ Len(account[id]) = IF id \in accepted /\ ~Owed(id) THEN 1 ELSE 0
      /\ Owed(id) => id \in accepted
  BY <1>1 DEF Inv, HistoriesTyped, Accounts, ExactlyOneResult, Owed
<1>3. CASE id \notin accepted
  <2>1. ~Owed(id) /\ account[id] = << >>
    BY <1>2, <1>3, EmptySeq
  <2>2. Entry(id) = "free"
    BY <1>3, <2>1, Zenon DEF Entry
  <2> QED
    BY <1>3, <2>1, <2>2
<1>4. CASE Owed(id)
  <2>1. id \in accepted /\ account[id] = << >>
    BY <1>2, <1>4, EmptySeq
  <2>2. Len(account[id]) # 1
    BY <1>2, <1>4
  <2>3. Entry(id) = "owed"
    BY <2>1, <2>2, Zenon DEF Entry
  <2> QED
    BY <1>4, <2>1, <2>3
<1>5. CASE id \in accepted /\ ~Owed(id)
  <2>1. Len(account[id]) = 1 /\ account[id] # << >>
    BY <1>2, <1>5, EmptySeq
  <2>2. account[id][1] \in Statuses
    BY <1>2, <2>1, ElementOfSeq
  <2>3. Entry(id) = account[id][1]
    BY <1>5, <2>1, Zenon DEF Entry
  <2> QED
    BY <1>5, <2>2, <2>3
<1> QED
  BY <1>2, <1>3, <1>4, <1>5

\* The same of the phase.
PhaseAgrees ==
    /\ state = "Open" => Phase = "open"
    /\ state \in {"Closed", "Opening"} => Phase = "closed"
    /\ state \notin {"Open", "Closed", "Opening"} => Phase = "shut"

LEMMA PhaseMeans == PhaseAgrees
<1>1. state = "Open" => Phase = "open"
  BY Zenon DEF Phase
<1>2. state \in {"Closed", "Opening"} => Phase = "closed"
  BY Zenon DEF Phase
<1>3. state \notin {"Open", "Closed", "Opening"} => Phase = "shut"
  BY Zenon DEF Phase
<1> QED
  BY <1>1, <1>2, <1>3 DEF PhaseAgrees

\* What a step does to one entry of the ledger.
LEMMA EntryStep ==
    ASSUME Inv, [Next]_vars, NEW id \in RequestIds
    PROVE  \/ Entry(id)' = Entry(id)
           \/ Owed(id) /\ Entry(id) = "owed" /\ Entry(id)' \in Statuses
           \/ IsAdmitted(id) /\ Entry(id) = "free" /\ Entry(id)' = "owed"
<1>1. EntriesAgree
  BY EntryAgrees
<1>2. EntriesAgree'
  BY InvNext, EntryAgrees, PTL
<1>3. Keeps(id) \/ Answers(id) \/ IsAdmitted(id)
  BY ResultStep DEF Inv
<1>4. CASE Keeps(id)
  <2>1. CASE id \notin accepted
    BY <1>1, <1>2, <1>4, <2>1 DEF EntriesAgree, Keeps
  <2>2. CASE Owed(id)
    BY <1>1, <1>2, <1>4, <2>2 DEF EntriesAgree, Keeps
  <2>3. CASE id \in accepted /\ ~Owed(id)
    BY <1>1, <1>2, <1>4, <2>3 DEF EntriesAgree, Keeps
  <2> QED
    BY <2>1, <2>2, <2>3
<1>5. CASE Answers(id)
  <2>1. Owed(id) /\ ~Owed(id)' /\ (id \in accepted' <=> id \in accepted)
    BY <1>5 DEF Answers
  <2>2. Entry(id) = "owed" /\ id \in accepted
    BY <1>1, <2>1 DEF EntriesAgree
  <2>3. Entry(id)' \in Statuses
    BY <1>2, <2>1, <2>2 DEF EntriesAgree
  <2> QED
    BY <2>1, <2>2, <2>3
<1>6. CASE IsAdmitted(id)
  BY <1>1, <1>2, <1>6 DEF EntriesAgree, IsAdmitted
<1> QED
  BY <1>3, <1>4, <1>5, <1>6

\* An id that is admitted is the only one to change.
LEMMA AdmittedAlone ==
    ASSUME Inv, [Next]_vars, NEW id \in RequestIds, IsAdmitted(id),
           NEW other \in RequestIds, other # id
    PROVE  Entry(other)' = Entry(other)
<1>1. account'[other] = account[other] /\ (other \in accepted' <=> other \in accepted)
  BY DEF IsAdmitted
<1>2. ~IsAdmitted(other)
  BY DEF IsAdmitted
<1>3. CASE Owed(other) /\ Entry(other) = "owed" /\ Entry(other)' \in Statuses
  <2>1. Len(account[other]) = 0
    BY <1>3 DEF Inv, Accounts, ExactlyOneResult
  <2>2. Answers(other) => Len(account'[other]) = 1
    <3>1. ASSUME NEW status \in Statuses, account'[other] = Append(account[other], status)
          PROVE  Len(account'[other]) = 1
      <4>1. account[other] \in Seq(Statuses)
        BY DEF Inv, HistoriesTyped
      <4> QED
        BY <2>1, <3>1, <4>1, AppendProperties
    <3> QED
      BY <3>1 DEF Answers
  <2>3. ~Answers(other)
    BY <1>1, <2>1, <2>2
  <2>4. Keeps(other)
    BY <1>2, <2>3, ResultStep DEF Inv
  <2>5. Owed(other)' => Entry(other)' = "owed"
    <3>1. EntriesAgree'
      BY InvNext, EntryAgrees, PTL
    <3> QED
      BY <3>1 DEF EntriesAgree
  <2> QED
    BY <1>3, <2>4, <2>5 DEF Keeps
<1> QED
  BY <1>2, <1>3, EntryStep

\* While the session is closed nothing is owed, so no entry changes.
LEMMA QuietOwesNothing ==
    ASSUME Inv, state \in {"Closed", "Opening"}
    PROVE  \A id \in RequestIds : ~Owed(id)
  BY NothingLeftFollows DEF NothingIsLeft, ClosedIsQuiet

LEMMA OnlyOwedAreOwed ==
    ASSUME Inv, NEW id \in RequestIds, ~Owed(id)
    PROVE  Entry(id) # "owed"
<1>1. EntriesAgree
  BY EntryAgrees
<1> QED
  BY <1>1 DEF EntriesAgree, Statuses

\* The ledger that the session keeps, and the same after a step.
Book == [id \in RequestIds |-> Entry(id)]

BookIsTyped == Book \in [RequestIds -> {"free", "owed"} \cup Statuses]

LEMMA BookTyped == Inv => BookIsTyped
<1>1. Inv => EntriesAgree
  BY EntryAgrees
<1>2. Inv => \A id \in RequestIds : Entry(id) \in {"free", "owed"} \cup Statuses
  BY <1>1 DEF EntriesAgree
<1> QED
  BY <1>2 DEF Book, BookIsTyped

\* A step in which nothing is admitted settles some of what is owed.
LEMMA BookSettles ==
    ASSUME Inv, [Next]_vars, \A id \in RequestIds : ~IsAdmitted(id)
    PROVE  /\ Book' \in [RequestIds -> {"free", "owed"} \cup Statuses]
           /\ \A id \in RequestIds : Book'[id] # Book[id] =>
                  Book[id] = "owed" /\ Book'[id] \in Statuses
<1>1. Inv'
  BY InvNext
<1>2. Book' \in [RequestIds -> {"free", "owed"} \cup Statuses]
  <2>1. BookIsTyped'
    BY <1>1, BookTyped, PTL
  <2> QED
    BY <2>1 DEF BookIsTyped
<1>3. \A id \in RequestIds : Book[id] = Entry(id) /\ Book'[id] = Entry(id)'
  BY DEF Book
<1>4. \A id \in RequestIds :
          \/ Entry(id)' = Entry(id)
          \/ Entry(id) = "owed" /\ Entry(id)' \in Statuses
  BY EntryStep
<1> QED
  BY <1>2, <1>3, <1>4

\* While the session is closed nothing is owed, so nothing changes.
LEMMA BookRests ==
    ASSUME Inv, [Next]_vars, \A id \in RequestIds : ~Owed(id) /\ ~IsAdmitted(id)
    PROVE  UNCHANGED Book
<1>1. \A id \in RequestIds : Entry(id)' = Entry(id)
  BY EntryStep
<1> QED
  BY <1>1 DEF Book

LEMMA BookAdmits ==
    ASSUME Inv, [Next]_vars, NEW id \in RequestIds, IsAdmitted(id)
    PROVE  /\ Book[id] = "free"
           /\ Book' = [Book EXCEPT ![id] = "owed"]
<1>1. Entry(id) = "free" /\ Entry(id)' = "owed"
  <2>1. ~Owed(id)
    BY DEF IsAdmitted, Inv, Accounts, Owed
  <2>2. Entry(id)' = "owed"
    <3>1. EntriesAgree'
      BY InvNext, EntryAgrees, PTL
    <3> QED
      BY <3>1 DEF EntriesAgree, IsAdmitted
  <2>3. Entry(id) = "free"
    <3>1. EntriesAgree
      BY EntryAgrees
    <3> QED
      BY <3>1 DEF EntriesAgree, IsAdmitted
  <2> QED
    BY <2>2, <2>3
<1>2. \A other \in RequestIds : other # id => Entry(other)' = Entry(other)
  BY AdmittedAlone
<1> QED
  BY <1>1, <1>2 DEF Book

\* A close that ends, and a commit of open, are about a session that owes
\* nothing.
LEMMA TurnsAreQuiet ==
    ASSUME Inv, [Next]_vars, NEW c \in Callers, CloseEnd(c) \/ OpenCommit(c)
    PROVE  /\ \A id \in RequestIds : ~IsAdmitted(id)
           /\ state' = "Open" \/ state' = "Closed" => \A id \in RequestIds : ~Owed(id)
           /\ CloseEnd(c) => state \in {"Closing", "Faulted"}
           /\ OpenCommit(c) => state = "Opening"
<1>1. /\ CloseEnd(c) => state \in {"Closing", "Faulted"}
      /\ OpenCommit(c) => state = "Opening"
  BY DEF Inv, SessionInv, Lifecycle, CloseEnd, OpenCommit, At, ClosingPlaces, OpeningPlaces
<1>2. \A id \in RequestIds : ~IsAdmitted(id)
  BY <1>1 DEF IsAdmitted
<1>3. CASE OpenCommit(c)
  BY <1>1, <1>2, <1>3, QuietOwesNothing
<1>4. CASE CloseEnd(c) /\ state' \in {"Open", "Closed"}
  <2>1. state' \in {"Closed", "Opening"}
    BY <1>4 DEF CloseEnd
  <2>2. \A id \in RequestIds : ~Owed(id)'
    <3>1. NothingIsLeft'
      BY InvNext, NothingLeftFollows, PTL
    <3> QED
      BY <2>1, <3>1 DEF NothingIsLeft, ClosedIsQuiet
  <2>3. UNCHANGED <<queue, activeWrite>>
    BY <1>4 DEF CloseEnd, writeVars
  <2> QED
    BY <1>1, <1>2, <2>2, <2>3 DEF Owed
<1> QED
  BY <1>1, <1>2, <1>3, <1>4

LEMMA LedgerStep ==
    ASSUME Inv, [Next]_vars
    PROVE  [Ledger!Next]_(Ledger!vars)
<1>1. Phase = Phase /\ PhaseAgrees
  BY PhaseMeans
<1>2. PhaseAgrees'
  BY PhaseMeans, PTL
<1>3. StateMoves
  BY StateMove DEF Inv
<1>4. ASSUME NEW id \in RequestIds, IsAdmitted(id)
      PROVE  Ledger!Admit(id)
  <2>1. Phase = "open" /\ Phase' = "open"
    BY <1>1, <1>2, <1>4 DEF PhaseAgrees, IsAdmitted
  <2> QED
    BY <1>4, <2>1, BookAdmits DEF Book, Ledger!Admit
<1>5. ASSUME \A id \in RequestIds : ~IsAdmitted(id)
      PROVE  Ledger!Settles
  BY <1>5, BookSettles DEF Book, Ledger!Settles, Ledger!Entries
<1>6. ASSUME \A id \in RequestIds : ~IsAdmitted(id) /\ ~Owed(id)
      PROVE  /\ UNCHANGED [id \in RequestIds |-> Entry(id)]
             /\ Ledger!OwedIds = {}
  <2>1. UNCHANGED [id \in RequestIds |-> Entry(id)]
    BY <1>6, BookRests DEF Book
  <2>2. \A id \in RequestIds : Entry(id) # "owed"
    BY <1>6, OnlyOwedAreOwed
  <2> QED
    BY <2>1, <2>2 DEF Ledger!OwedIds
<1>7. CASE \E id \in RequestIds : IsAdmitted(id)
  BY <1>4, <1>7 DEF Ledger!Next
<1>8. CASE ~\E id \in RequestIds : IsAdmitted(id)
  <2>1. CASE state' \notin {"Open", "Closed", "Opening"}
    BY <1>2, <1>5, <1>8, <2>1 DEF PhaseAgrees, Ledger!Shut, Ledger!Next
  <2>2. CASE state' = "Open"
    <3>1. CASE Stays
      <4>1. Phase = "open" /\ Phase' = "open"
        BY <1>1, <1>2, <2>2, <3>1 DEF PhaseAgrees, Stays
      <4> QED
        BY <1>5, <1>8, <4>1 DEF Ledger!Settle, Ledger!Next
    <3>2. CASE Opens
      <4>1. state = "Opening" /\ \A id \in RequestIds : ~Owed(id)
        BY <2>2, <3>2, TurnsAreQuiet DEF Opens
      <4>2. Phase = "closed" /\ Phase' = "open"
        BY <1>1, <1>2, <2>2, <4>1 DEF PhaseAgrees
      <4> QED
        BY <1>6, <1>8, <4>1, <4>2 DEF Ledger!Open, Ledger!Next
    <3> QED
      BY <1>3, <2>2, <3>1, <3>2 DEF StateMoves
  <2>3. CASE state' \in {"Closed", "Opening"}
    <3>1. CASE state \in {"Closed", "Opening"}
      <4>1. Phase = "closed" /\ Phase' = "closed"
        BY <1>1, <1>2, <2>3, <3>1 DEF PhaseAgrees
      <4>2. \A id \in RequestIds : ~Owed(id)
        BY <3>1, QuietOwesNothing
      <4> QED
        BY <1>6, <1>8, <4>1, <4>2 DEF Ledger!vars
    <3>2. ASSUME NEW c \in Callers, CloseEnd(c)
          PROVE  Ledger!Close
      <4>1. state \in {"Closing", "Faulted"} /\ \A id \in RequestIds : ~Owed(id)
        <5>1. state' = "Closed"
          BY <2>3, <3>2 DEF CloseEnd
        <5> QED
          BY <3>2, <5>1, TurnsAreQuiet
      <4>2. Phase = "shut" /\ Phase' = "closed"
        BY <1>1, <1>2, <2>3, <4>1 DEF PhaseAgrees
      <4> QED
        BY <1>6, <1>8, <4>1, <4>2 DEF Ledger!Close
    <3> QED
      BY <1>3, <2>3, <3>1, <3>2 DEF StateMoves, Ledger!Next
  <2> QED
    BY <2>1, <2>2, <2>3
<1> QED
  BY <1>7, <1>8

\* The session, with its threads, locks and faults, implements the ledger of
\* WriteLedger: it admits requests only while it is open, settles each of them
\* once, and is neither closed nor opened again while it owes a result.
THEOREM LedgerIsKept == Spec => ImplementsLedger
<1>1. Init => Ledger!Init
  <2>1. SUFFICES ASSUME Init
                 PROVE  Ledger!Init
    OBVIOUS
  <2>2. Phase = "closed"
    BY <2>1, PhaseMeans DEF PhaseAgrees, Init
  <2>3. \A id \in RequestIds : Entry(id) = "free"
    <3>1. EntriesAgree
      BY <2>1, InvInit, EntryAgrees
    <3> QED
      BY <2>1, <3>1 DEF EntriesAgree, Init
  <2> QED
    BY <2>2, <2>3 DEF Ledger!Init
<1>2. Inv /\ [Next]_vars => [Ledger!Next]_(Ledger!vars)
  BY LedgerStep
<1> QED
  BY <1>1, <1>2, Invariance, PTL DEF Spec, ImplementsLedger, Ledger!Spec

-----------------------------------------------------------------------------
\* The control line.  One thread only may change it: two of them could leave
\* the option of the one with the line of the other.

OneLineCaller == \A c, d \in Callers : "line" \in Calls[c] \cap Calls[d] => c = d

LinePlaces == {"lineAcquire", "lineNative", "lineOption"}

\* The option of the open session is, or is about to be made, the state of the
\* line; and no thread is about to do that for a session that is yet to come.
Lines ==
    /\ generation <= generationCounter
    /\ \A c \in Callers :
           /\ call[c].pc \in LinePlaces =>
                  "line" \in Calls[c] /\ call[c].generation <= generationCounter
           /\ At(c, "openCommit") => line
           /\ state = "Open" /\ At(c, "lineOption") /\ call[c].generation = generation =>
                  call[c].on = line
    /\ state = "Open" /\ lineOption # line =>
           \E c \in Callers : At(c, "lineOption") /\ call[c].generation = generation

LineMoves(d) ==
    \/ call'[d] = call[d]
    \/ /\ call'[d].pc \notin LinePlaces \cup {"openCommit"}
       /\ call[d].pc # "lineOption" \/ LineOption(d)
    \/ call'[d].pc = "openCommit" /\ line' /\ call[d].pc # "lineOption"
    \/ /\ call[d].pc = "idle"
       /\ call'[d].pc = "lineAcquire"
       /\ call'[d].generation = generation
       /\ "line" \in Calls[d]
    \/ /\ call[d].pc = "lineAcquire"
       /\ call'[d].pc = "lineNative"
       /\ call'[d].generation = call[d].generation
    \/ /\ LineNative(d)
       /\ call'[d].pc = "lineOption"
       /\ call'[d].generation = call[d].generation
       /\ call'[d].on = line'

LEMMA LineMoveOfLifecycle ==
    ASSUME SessionInv, NEW c \in Callers, OpenStep(c) \/ CloseStep(c), NEW d \in Callers
    PROVE  LineMoves(d)
<1>1. Typed
  BY DEF SessionInv
<1>2. call[c].pc # "lineOption"
  BY DEF OpenStep, OpenBegin, OpenCreate, OpenFailed, OpenCommit, OpenUndo,
         CloseStep, CloseGoesOn, CloseBegin, CloseStop, CloseWake, CloseJoin, CloseJoinTimeout,
         CloseAbandon, CloseFaulted, CloseReap, CloseHandle, CloseEnd, Starts, At
<1>3. CASE Return(c)
  BY <1>1, <1>2, <1>3, ReturnFacts DEF LineMoves, LinePlaces
<1>4. ASSUME NEW pc \in LockedPlaces, Goto(c, pc), pc # "openCommit"
      PROVE  LineMoves(d)
  <2>1. pc \in Places
    BY DEF Places
  <2>2. call'[c].pc = pc /\ \A e \in Callers : e # c => call'[e] = call[e]
    BY <1>1, <1>4, <2>1, GotoFacts
  <2> QED
    BY <1>2, <1>4, <2>2
    DEF LineMoves, LinePlaces, LockedPlaces, OpeningPlaces, ClosingPlaces
<1>5. ASSUME NEW pc \in ClosingPlaces, call'[c].pc = pc,
             \A e \in Callers : e # c => call'[e] = call[e]
      PROVE  LineMoves(d)
  BY <1>2, <1>5 DEF LineMoves, LinePlaces, ClosingPlaces
<1>6. CASE OpenCreate(c) /\ Goto(c, "openCommit")
  <2>1. "openCommit" \in Places
    BY DEF Places, LockedPlaces, OpeningPlaces
  <2>2. call'[c].pc = "openCommit" /\ \A e \in Callers : e # c => call'[e] = call[e]
    BY <1>1, <1>6, <2>1, GotoFacts
  <2>3. line' = TRUE
    <3>1. ~Goto(c, "openFailed")
      <4>1. "openFailed" \in Places
        BY DEF Places, LockedPlaces, OpeningPlaces
      <4> QED
        BY <1>1, <2>2, <4>1, GotoFacts
    <3> QED
      BY <1>6, <3>1 DEF OpenCreate
  <2> QED
    BY <1>2, <2>2, <2>3 DEF LineMoves
<1>7. CASE UNCHANGED call
  BY <1>7 DEF LineMoves
<1>8. CASE OpenBegin(c) \/ OpenFailed(c) \/ OpenCommit(c) \/ OpenUndo(c)
  BY <1>3, <1>4, <1>7, <1>8
  DEF OpenBegin, OpenFailed, OpenCommit, OpenUndo, LockedPlaces, OpeningPlaces
<1>9. CASE OpenCreate(c)
  BY <1>4, <1>6, <1>9 DEF OpenCreate, LockedPlaces, OpeningPlaces
<1>10. CASE CloseStop(c)
  <2>1. PICK pc \in {"closeReap", "closeWake"}, category \in Categories :
            call' = [call EXCEPT ![c].pc = pc, ![c].category = category]
    <3>1. activeCancellation \in Categories
      BY <1>1 DEF Typed
    <3>2. activeCancellation' \in Categories
      BY <1>10, <3>1 DEF CloseStop, Categories
    <3> QED
      BY <1>10, <3>2 DEF CloseStop, Categories
  <2>2. call'[c].pc = pc /\ \A e \in Callers : e # c => call'[e] = call[e]
    BY <1>1, <2>1 DEF Typed, CallStates
  <2> QED
    BY <1>5, <2>1, <2>2 DEF ClosingPlaces
<1>11. CASE CloseReap(c)
  BY <1>5, <1>11, CloseReapFacts DEF ClosingPlaces
<1>12. CASE CloseHandle(c)
  <2>1. CASE Goto(c, "closeEnd")
    BY <1>4, <2>1 DEF LockedPlaces, ClosingPlaces
  <2>2. CASE call' = [call EXCEPT ![c].pc = "closeEnd", ![c].clean = FALSE]
    <3>1. call'[c].pc = "closeEnd" /\ \A e \in Callers : e # c => call'[e] = call[e]
      BY <1>1, <2>2 DEF Typed, CallStates
    <3> QED
      BY <1>5, <3>1 DEF ClosingPlaces
  <2> QED
    BY <1>12, <2>1, <2>2 DEF CloseHandle
<1>13. CASE \/ CloseBegin(c) \/ CloseWake(c) \/ CloseJoin(c) \/ CloseJoinTimeout(c)
            \/ CloseAbandon(c) \/ CloseFaulted(c) \/ CloseEnd(c)
  BY <1>3, <1>4, <1>13
  DEF CloseBegin, CloseWake, CloseJoin, CloseJoinTimeout, CloseAbandon, CloseFaulted, CloseEnd,
      LockedPlaces, ClosingPlaces
<1> QED
  BY <1>8, <1>9, <1>10, <1>11, <1>12, <1>13 DEF OpenStep, CloseStep, CloseGoesOn

LEMMA LineMoveOfIo ==
    ASSUME SessionInv, NEW c \in Callers, IoStep(c), NEW d \in Callers
    PROVE  LineMoves(d)
<1>1. Typed
  BY DEF SessionInv
<1>2. ASSUME call[c].pc # "lineOption" \/ LineOption(c),
             call'[c].pc \notin LinePlaces \cup {"openCommit"},
             \A e \in Callers : e # c => call'[e] = call[e]
      PROVE  LineMoves(d)
  BY <1>2 DEF LineMoves
<1>3. CASE ReadBegin(c) \/ LineBegin(c) \/ WriteBegin(c)
  <2>1. call[c].pc = "idle"
    BY <1>3 DEF ReadBegin, LineBegin, WriteBegin, Starts, At
  <2> QED
    BY <1>2, <1>3, <2>1, BeginStep DEF LineMoves, LinePlaces
<1>4. CASE WriteReserve(c)
  BY <1>2, <1>4, WriteReserveStep DEF WriteReserve, At, LinePlaces
<1>5. CASE WriteCheck(c)
  BY <1>2, <1>5, WriteCheckStep DEF WriteCheck, At, LinePlaces
<1>6. CASE IoAcquire(c)
  <2>1. \/ call[c].pc = "readAcquire" /\ NativeStep(call[c].pc) = "readNative"
        \/ call[c].pc = "lineAcquire" /\ NativeStep(call[c].pc) = "lineNative"
        \/ call[c].pc = "writeAcquire" /\ NativeStep(call[c].pc) = "writeNative"
    BY <1>6 DEF IoAcquire, AcquireSteps, NativeStep
  <2>2. /\ \/ /\ call'[c].pc = NativeStep(call[c].pc)
              /\ call'[c].generation = call[c].generation
           \/ call'[c].pc = "idle"
        /\ \A e \in Callers : e # c => call'[e] = call[e]
    BY <1>6, IoAcquireStep
  <2> QED
    BY <1>2, <2>1, <2>2 DEF LineMoves, LinePlaces
<1>7. ASSUME NEW category, call[c].pc \in NativePlaces, IoRelease(c, category, "idle")
      PROVE  LineMoves(d)
  <2>1. /\ call'[c].pc \in {"idle", "ioDisconnected"}
        /\ \A e \in Callers : e # c => call'[e] = call[e]
    BY <1>7, IoReleaseFacts
  <2> QED
    BY <1>2, <1>7, <2>1 DEF NativePlaces, LinePlaces
<1>8. CASE ReadNative(c)
  BY <1>7, <1>8 DEF ReadNative, At, NativePlaces
<1>9. CASE WriteNative(c)
  BY <1>7, <1>9 DEF WriteNative, At, NativePlaces
<1>10. CASE LineNative(c)
  <2>1. PICK category \in NativeCategories :
            /\ IoRelease(c, category, "lineOption")
            /\ line' = IF category = "None" THEN call[c].on ELSE line
    BY <1>10 DEF LineNative
  <2>2. call[c].pc = "lineNative" /\ call[c].pc \in NativePlaces
    BY <1>10 DEF LineNative, At, NativePlaces
  <2>3. /\ \/ call'[c].pc \in {"idle", "ioDisconnected"}
           \/ /\ category = "None"
              /\ call'[c].pc = "lineOption"
              /\ call'[c].generation = call[c].generation
              /\ call'[c].on = call[c].on
        /\ \A e \in Callers : e # c => call'[e] = call[e]
    BY <2>1, <2>2, IoReleaseFacts
  <2> QED
    BY <1>2, <1>10, <2>1, <2>2, <2>3 DEF LineMoves, LinePlaces
<1>11. CASE LineOption(c) \/ IoDisconnected(c)
  <2>1. call'[c].pc = "idle" /\ \A e \in Callers : e # c => call'[e] = call[e]
    BY <1>1, <1>11, ReturnFacts DEF LineOption, IoDisconnected
  <2> QED
    BY <1>2, <1>11, <2>1 DEF IoDisconnected, At, LinePlaces
<1> QED
  BY <1>3, <1>4, <1>5, <1>6, <1>8, <1>9, <1>10, <1>11 DEF IoStep

LEMMA LineMove ==
    ASSUME SessionInv, [Next]_vars, NEW d \in Callers
    PROVE  LineMoves(d)
<1>1. CASE UNCHANGED call
  BY <1>1 DEF LineMoves
<1>2. ASSUME NEW c \in Callers, CallerStep(c)
      PROVE  LineMoves(d)
  <2>1. CASE QueueStep(c)
    BY <1>1, <2>1 DEF QueueStep, EnqueueWrite, CancelPendingWrites, TakeCompletedWrites
  <2> QED
    BY <1>2, <2>1, LineMoveOfLifecycle, LineMoveOfIo DEF CallerStep
<1>3. CASE WorkerStep
  BY <1>1, <1>3 DEF WorkerStep, WorkerCheck, WorkerWake, WorkerWaitFails, WorkerStart,
                    WorkerAcquire, WorkerNative, WorkerDisconnected, WorkerFinish
<1> QED
  BY <1>1, <1>2, <1>3 DEF Next, vars

\* The thread that changes the line finds the session open: nobody took the
\* handle away from it.
LEMMA LineIsValidated ==
    ASSUME SessionInv, NEW c \in Callers, LineNative(c), state = "Open"
    PROVE  Validated(call[c].generation) /\ call[c].generation = generation
<1>1. port = call[c].generation
  BY DEF LineNative, At, SessionInv, PortOwned, HandleIsCurrent
<1>2. handle /\ port = generation
  BY DEF SessionInv, PortOwned, PortClosed, Typed, Generations
<1> QED
  BY <1>1, <1>2 DEF Validated, IsCurrent

\* What a line call leaves in an open session.
LEMMA LineNativeFacts ==
    ASSUME SessionInv, NEW c \in Callers, LineNative(c), state = "Open"
    PROVE  /\ \/ /\ call'[c].pc = "lineOption"
                 /\ call'[c].generation = generation
                 /\ call'[c].on = line'
              \/ call'[c].pc # "lineOption" /\ line' = line
           /\ \A d \in Callers : d # c => call'[d] = call[d]
           /\ UNCHANGED <<state, generation, lineOption>>
<1>1. PICK category \in NativeCategories :
          /\ IoRelease(c, category, "lineOption")
          /\ line' = IF category = "None" THEN call[c].on ELSE line
  BY DEF LineNative
<1>2. call[c].pc \in NativePlaces
  BY DEF LineNative, At, NativePlaces
<1>3. /\ \/ call'[c].pc \in {"idle", "ioDisconnected"}
         \/ /\ category = "None"
            /\ call'[c].pc = "lineOption"
            /\ call'[c].generation = call[c].generation
            /\ call'[c].on = call[c].on
      /\ category = "None" /\ Validated(call[c].generation) => call'[c].pc = "lineOption"
      /\ \A d \in Callers : d # c => call'[d] = call[d]
  BY <1>1, <1>2, IoReleaseFacts
<1>4. UNCHANGED <<state, generation, lineOption>>
  BY DEF LineNative, sessionVars
<1> QED
  BY <1>1, <1>3, <1>4, LineIsValidated

LEMMA OptionIsTheLine ==
    ASSUME OneLineCaller, SessionInv, Lines, [Next]_vars, state' = "Open"
    PROVE  /\ \A c \in Callers :
                  call'[c].pc = "lineOption" /\ call'[c].generation = generation' =>
                      call'[c].on = line'
           /\ lineOption' # line' =>
                  \E c \in Callers :
                      call'[c].pc = "lineOption" /\ call'[c].generation = generation'
<1>1. Stays \/ Opens
  BY StateMove DEF StateMoves
<1>2. \A c \in Callers : LineMoves(c)
  BY LineMove
<1>3. Typed
  BY DEF SessionInv
<1>4. ASSUME NEW c \in Callers, OpenCommit(c), CanCommit
      PROVE  /\ \A d \in Callers :
                    ~(call'[d].pc = "lineOption" /\ call'[d].generation = generation')
             /\ lineOption' = line'
  <2>1. /\ generation' = generationCounter + 1
        /\ lineOption' = TRUE
        /\ line' = line
        /\ At(c, "openCommit")
        /\ Return(c)
    BY <1>4 DEF OpenCommit
  <2>2. line' = TRUE
    BY <1>3, <2>1 DEF Lines, Typed
  <2>3. call'[c].pc = "idle" /\ \A d \in Callers : d # c => call'[d] = call[d]
    BY <1>3, <2>1, ReturnFacts
  <2>4. ASSUME NEW d \in Callers, call'[d].pc = "lineOption"
        PROVE  call'[d].generation # generation'
    <3>1. call'[d] = call[d] /\ call[d].generation <= generationCounter
      BY <2>3, <2>4 DEF Lines, LinePlaces
    <3>2. call[d].generation \in Int /\ generationCounter \in Int
      BY <1>3, SessionConstants DEF Typed, CallStates, Generations
    <3> QED
      BY <2>1, <3>1, <3>2
  <2> QED
    BY <2>1, <2>2, <2>4
<1>5. CASE Stays
  <2>1. state = "Open" /\ UNCHANGED generation
    BY <1>5 DEF Stays
  <2>2. ASSUME NEW c \in Callers, NEW d \in Callers,
               call[c].pc \in LinePlaces, call[d].pc \in LinePlaces
        PROVE  c = d
    BY <2>2 DEF Lines, OneLineCaller
  <2>3. ASSUME NEW c \in Callers, LineNative(c)
        PROVE  /\ \A d \in Callers :
                      call'[d].pc = "lineOption" /\ call'[d].generation = generation' =>
                          call'[d].on = line'
               /\ lineOption' # line' =>
                      call'[c].pc = "lineOption" /\ call'[c].generation = generation'
    <3>1. /\ \/ /\ call'[c].pc = "lineOption"
                /\ call'[c].generation = generation
                /\ call'[c].on = line'
             \/ call'[c].pc # "lineOption" /\ line' = line
          /\ \A d \in Callers : d # c => call'[d] = call[d]
          /\ UNCHANGED lineOption
      BY <2>1, <2>3, LineNativeFacts
    <3>2. call[c].pc = "lineNative"
      BY <2>3 DEF LineNative, At
    <3>3. \A d \in Callers : call[d].pc # "lineOption"
      BY <2>2, <3>2 DEF LinePlaces
    <3>4. lineOption = line
      BY <2>1, <3>3 DEF Lines, At
    <3> QED
      BY <2>1, <3>1, <3>3, <3>4
  <2>4. ASSUME NEW c \in Callers, LineOption(c), UNCHANGED line
        PROVE  /\ \A d \in Callers :
                      call'[d].pc = "lineOption" /\ call'[d].generation = generation' =>
                          call'[d].on = line'
               /\ lineOption' # line' =>
                      \E d \in Callers :
                          call'[d].pc = "lineOption" /\ call'[d].generation = generation'
    <3>1. /\ call[c].pc = "lineOption"
          /\ lineOption' = IF IsCurrent(call[c].generation) THEN call[c].on ELSE lineOption
          /\ Return(c)
      BY <2>4 DEF LineOption, At
    <3>2. call'[c].pc = "idle" /\ \A d \in Callers : d # c => call'[d] = call[d]
      BY <1>3, <3>1, ReturnFacts
    <3>3. CASE call[c].generation = generation
      <4>1. lineOption' = line'
        BY <2>1, <2>4, <3>1, <3>3 DEF IsCurrent, Lines, At
      <4> QED
        BY <2>1, <2>4, <3>2, <4>1 DEF Lines, At
    <3>4. CASE call[c].generation # generation
      <4>1. lineOption' = lineOption
        BY <3>1, <3>4 DEF IsCurrent
      <4>2. lineOption # line =>
                \E d \in Callers : d # c /\ At(d, "lineOption") /\ call[d].generation = generation
        BY <2>1, <3>4 DEF Lines
      <4> QED
        BY <2>1, <2>4, <3>2, <4>1, <4>2 DEF Lines, At
    <3> QED
      BY <3>3, <3>4
  <2>5. ASSUME \A c \in Callers : ~LineNative(c) /\ ~LineOption(c)
        PROVE  /\ \A d \in Callers :
                      call'[d].pc = "lineOption" /\ call'[d].generation = generation' =>
                          call'[d].on = line'
               /\ lineOption' # line' =>
                      \E d \in Callers :
                          call'[d].pc = "lineOption" /\ call'[d].generation = generation'
    <3>1. UNCHANGED <<line, lineOption>>
      BY <1>5, <2>5 DEF Stays
    <3>2. ASSUME NEW d \in Callers, call[d].pc = "lineOption" \/ call'[d].pc = "lineOption"
          PROVE  call'[d] = call[d]
      <4>1. LineMoves(d) /\ ~LineNative(d) /\ ~LineOption(d)
        BY <1>2, <2>5
      <4> QED
        BY <3>2, <4>1 DEF LineMoves, LinePlaces
    <3> QED
      BY <2>1, <3>1, <3>2 DEF Lines, At
  <2>6. ASSUME NEW c \in Callers, LineOption(c)
        PROVE  UNCHANGED line
    BY <2>6 DEF LineOption, external
  <2> QED
    BY <2>3, <2>4, <2>5, <2>6
<1> QED
  BY <1>1, <1>4, <1>5 DEF Opens

LEMMA LinesStep ==
    ASSUME OneLineCaller, SessionInv, Lines, [Next]_vars
    PROVE  Lines'
<1>1. StateMoves /\ \A c \in Callers : LineMoves(c)
  BY StateMove, LineMove
<1>2. /\ generation \in Nat
      /\ generationCounter \in Nat
      /\ generationCounter' \in {generationCounter, generationCounter + 1}
      /\ \A c \in Callers : call[c].generation \in Nat
  BY <1>1, SessionConstants DEF SessionInv, Typed, CallStates, Generations, StateMoves
<1>3. generation' <= generationCounter'
  <2>1. CASE generation' \in {generation, Unassigned}
    BY <1>2, <2>1 DEF Lines, Unassigned
  <2>2. ASSUME NEW c \in Callers, OpenCommit(c), CanCommit
        PROVE  generation' = generationCounter + 1 /\ generationCounter' = generationCounter + 1
    BY <2>2 DEF OpenCommit
  <2> QED
    BY <1>1, <1>2, <2>1, <2>2 DEF StateMoves, Opens
<1>4. ASSUME NEW c \in Callers, call'[c].pc \in LinePlaces
      PROVE  "line" \in Calls[c] /\ call'[c].generation <= generationCounter'
  <2>1. LineMoves(c)
    BY <1>1
  <2>2. CASE call'[c].generation = call[c].generation /\ call[c].pc \in LinePlaces
    BY <1>2, <2>2 DEF Lines
  <2>3. CASE call'[c].generation = generation /\ "line" \in Calls[c]
    BY <1>2, <2>3 DEF Lines
  <2>4. LineNative(c) => call[c].pc \in LinePlaces
    BY DEF LineNative, At, LinePlaces
  <2> QED
    BY <1>4, <2>1, <2>2, <2>3, <2>4 DEF LineMoves, LinePlaces
<1>5. ASSUME NEW c \in Callers, call'[c].pc = "openCommit"
      PROVE  line'
  <2>1. LineMoves(c)
    BY <1>1
  <2>2. CASE call'[c] = call[c]
    <3>1. line
      BY <1>5, <2>2 DEF Lines, At
    <3>2. port = PortIdle
      BY <1>5, <2>2 DEF SessionInv, PortOwned, At
    <3>3. ASSUME line' # line
          PROVE  \/ \E d \in Callers : LineNative(d)
                 \/ \E d \in Callers : OpenCreate(d) /\ line' = TRUE
      BY <3>3, ZenonT(40)
      DEF Next, CallerStep, OpenStep, OpenBegin, OpenCreate, OpenFailed, OpenCommit, OpenUndo,
          CloseStep, CloseGoesOn, CloseBegin, CloseStop, CloseWake, CloseJoin, CloseJoinTimeout,
          CloseAbandon, CloseFaulted, CloseReap, CloseHandle, CloseEnd,
          QueueStep, EnqueueWrite, CancelPendingWrites, TakeCompletedWrites,
          IoStep, ReadBegin, LineBegin, WriteBegin, WriteReserve, WriteCheck, IoAcquire,
          ReadNative, WriteNative, LineOption, IoDisconnected,
          WorkerStep, WorkerCheck, WorkerWake, WorkerWaitFails, WorkerStart, WorkerAcquire,
          WorkerNative, WorkerDisconnected, WorkerFinish, vars, external
    <3>4. ASSUME NEW d \in Callers, LineNative(d)
          PROVE  FALSE
      BY <3>2, <3>4 DEF LineNative, At, SessionInv, PortOwned, NativePlaces
    <3> QED
      BY <3>1, <3>3, <3>4
  <2> QED
    BY <1>5, <2>1, <2>2 DEF LineMoves, LinePlaces
<1> QED
  BY <1>3, <1>4, <1>5, OptionIsTheLine DEF Lines, At

LEMMA LinesInit ==
    ASSUME Init
    PROVE  Lines
<1>1. generation = 0 /\ generationCounter = 0 /\ state = "Closed"
  BY DEF Init, Unassigned
<1>2. \A c \in Callers : call[c].pc = "idle"
  BY DEF Init, Idle
<1> QED
  BY <1>1, <1>2 DEF Lines, LinePlaces, At

\* Every use of the handle is a use of the port of the generation its thread
\* was admitted in, whatever close, open and a lost device do meanwhile; and,
\* while one thread only changes the control line, what the session reports of
\* the line is true of it.
THEOREM PortIsKnown ==
    ASSUME OneLineCaller
    PROVE  Spec => []PortIsCurrent
<1>1. Init => Lines
  BY LinesInit
<1>2. Inv /\ Lines /\ [Next]_vars => Lines'
  BY LinesStep DEF Inv
<1>3. Inv /\ Lines => PortIsCurrent
  BY DEF Inv, SessionInv, PortOwned, Lines, LineAgrees, PortIsCurrent
<1> QED
  BY <1>1, <1>2, <1>3, Invariance, PTL DEF Spec
=============================================================================
