------------------------- MODULE SerialWriteQueueProofs -------------------------
(***************************************************************************)
(* The invariants of SerialWriteQueue hold for every capacity, id range,   *)
(* payload length and timeout.  What the operations do to the queue value  *)
(* is proved in SerialWriteQueueLemmas; here the histories are added.      *)
(***************************************************************************)
EXTENDS SerialWriteQueue, SerialWriteQueueLemmas

\* The histories agree with the queue: whoever is outstanding was accepted, and
\* accepted ids are lower than the next one.
HistoriesAgree ==
    /\ size \in [RequestIds -> Nat]
    /\ results \in [RequestIds -> Seq(Results)]
    /\ \A id \in RequestIds : Outstanding(id) => Accepted(id)
    /\ queue.nextRequestId # Unassigned =>
           \A id \in RequestIds : Accepted(id) => id < queue.nextRequestId

\* Inductive: ExactlyOneResult alone is not, since it says nothing of an id
\* that would be outstanding twice or be given out again.
IInv == Sound(queue, Generations) /\ HistoriesAgree /\ ExactlyOneResult

-----------------------------------------------------------------------------
LEMMA InitEstablishesIInv == Init => IInv
<1> SUFFICES ASSUME Init PROVE IInv
  OBVIOUS
<1> USE QueueConstants DEF Init
<1>1. Sound(queue, Generations)
  <2>1. Unassigned \in Generations
    BY CallerConstants DEF Generations, Unassigned
  <2> QED
    BY <2>1, NewQueueSound
<1>2. \A id \in RequestIds : ~Accepted(id) /\ ~Outstanding(id)
  BY DEF Accepted, Outstanding, IsPending, PendingIndices, NewQueue, NoRequest, RequestIds,
         Unassigned
<1>3. results \in [RequestIds -> Seq(Results)] /\ \A id \in RequestIds : Len(results[id]) = 0
  <2>1. << >> \in Seq(Results) /\ Len(<< >>) = 0
    BY EmptySeq
  <2> QED
    BY <2>1
<1>4. HistoriesAgree
  BY <1>2, <1>3 DEF HistoriesAgree
<1>5. ExactlyOneResult
  BY <1>2, <1>3 DEF ExactlyOneResult
<1> QED
  BY <1>1, <1>4, <1>5 DEF IInv

\* A terminal result is given for one id, outstanding before and not after.
LEMMA OneMoreResult ==
    ASSUME IInv, NEW id \in RequestIds, NEW result \in Results,
           Outstanding(id),
           results' = [results EXCEPT ![id] = Append(@, result)],
           size' = size,
           queue'.nextRequestId = queue.nextRequestId,
           \A x \in RequestIds : Outstanding(x)' <=> Outstanding(x) /\ x # id
    PROVE  HistoriesAgree' /\ ExactlyOneResult'
<1>1. \A x \in RequestIds : Accepted(x)' = Accepted(x)
  BY DEF Accepted
<1>2. /\ results[id] \in Seq(Results)
      /\ Accepted(id)
      /\ Len(results[id]) = 0
  BY DEF IInv, HistoriesAgree, ExactlyOneResult
<1>3. Append(results[id], result) \in Seq(Results) /\ Len(Append(results[id], result)) = 1
  BY <1>2, AppendProperties
<1>4. results' \in [RequestIds -> Seq(Results)]
  BY <1>3 DEF IInv, HistoriesAgree
<1>5. HistoriesAgree'
  BY <1>1, <1>4 DEF IInv, HistoriesAgree
<1>6. ASSUME NEW x \in RequestIds
      PROVE  Len(results[x])' = IF Accepted(x)' /\ ~Outstanding(x)' THEN 1 ELSE 0
  <2>1. CASE x = id
    BY <1>1, <1>2, <1>3, <2>1 DEF IInv, HistoriesAgree
  <2>2. CASE x # id
    <3>1. results'[x] = results[x]
      BY <2>2 DEF IInv, HistoriesAgree
    <3> QED
      BY <1>1, <2>2, <3>1 DEF IInv, ExactlyOneResult
  <2> QED
    BY <2>1, <2>2
<1>7. ExactlyOneResult'
  BY <1>6 DEF ExactlyOneResult
<1> QED
  BY <1>5, <1>7

\* No result is given and the same ids are outstanding.
LEMMA NoResult ==
    ASSUME IInv, UNCHANGED <<size, results>>,
           queue'.nextRequestId \in 0 .. MaxRequestId,
           queue'.nextRequestId # Unassigned =>
               queue.nextRequestId # Unassigned /\ queue.nextRequestId <= queue'.nextRequestId,
           \A x \in RequestIds : Outstanding(x)' <=> Outstanding(x)
    PROVE  HistoriesAgree' /\ ExactlyOneResult'
<1>1. \A x \in RequestIds : Accepted(x)' = Accepted(x) /\ Len(results[x])' = Len(results[x])
  BY DEF Accepted
<1>2. ExactlyOneResult'
  BY <1>1 DEF IInv, ExactlyOneResult
<1>3. queue.nextRequestId \in Int /\ \A x \in RequestIds : x \in Int
  BY DEF IInv, Sound, QueuesIn, RequestIds
<1>4. HistoriesAgree'
  BY <1>1, <1>3 DEF IInv, HistoriesAgree
<1> QED
  BY <1>2, <1>4

-----------------------------------------------------------------------------
LEMMA StepPreservesIInv == IInv /\ [Next]_vars => IInv'
<1> SUFFICES ASSUME IInv, [Next]_vars PROVE IInv'
  OBVIOUS
<1> USE QueueConstants
<1>1. /\ Sound(queue, Generations)
      /\ queue \in QueuesIn(Generations)
      /\ queue.nextRequestId \in 0 .. MaxRequestId
  BY DEF IInv, Sound, QueuesIn
<1>2. ASSUME NEW g \in Generations, DoBeginGeneration(g)
      PROVE  IInv'
  <2>1. queue' = BeginGeneration(queue, g) /\ CanBeginGeneration(queue, g)
    BY <1>2 DEF DoBeginGeneration
  <2>2. Sound(queue', Generations)
    BY <1>1, <2>1, BeginGenerationSound
  <2>3. /\ queue'.pending = queue.pending
        /\ queue'.active = queue.active
        /\ queue'.nextRequestId = queue.nextRequestId
    BY <1>1, <2>1 DEF BeginGeneration, QueuesIn
  <2>4. \A x \in RequestIds : Outstanding(x)' <=> Outstanding(x)
    BY <2>3 DEF Outstanding, IsPending, PendingIndices
  <2>5. HistoriesAgree' /\ ExactlyOneResult'
    BY <1>1, <1>2, <2>3, <2>4, NoResult DEF DoBeginGeneration
  <2> QED
    BY <2>2, <2>5 DEF IInv
<1>3. ASSUME DoReserveRequestId
      PROVE  IInv'
  <2>1. queue' = ReserveRequestId(queue)
    BY <1>3 DEF DoReserveRequestId
  <2>2. Sound(queue', Generations)
    BY <1>1, <2>1, ReserveRequestIdSound
  <2>3. /\ queue'.pending = queue.pending
        /\ queue'.active = queue.active
        /\ queue'.nextRequestId = NextId(queue.nextRequestId)
    BY <1>1, <2>1 DEF ReserveRequestId, QueuesIn
  <2>4. \A x \in RequestIds : Outstanding(x)' <=> Outstanding(x)
    BY <2>3 DEF Outstanding, IsPending, PendingIndices
  <2>5. /\ queue'.nextRequestId \in 0 .. MaxRequestId
        /\ queue'.nextRequestId # Unassigned =>
               queue.nextRequestId # Unassigned /\ queue.nextRequestId <= queue'.nextRequestId
    BY <1>1, <2>3, NextIdProperties
  <2>6. HistoriesAgree' /\ ExactlyOneResult'
    BY <1>3, <2>4, <2>5, NoResult DEF DoReserveRequestId
  <2> QED
    BY <2>2, <2>6 DEF IInv
<1>4. ASSUME NEW bytes \in PayloadSizes, NEW timeoutMs \in TimeoutValues,
             NEW g \in Generations, DoEnqueue(bytes, timeoutMs, g)
      PROVE  IInv'
  <2> DEFINE new == queue.nextRequestId
  <2>1. /\ bytes \in Nat
        /\ timeoutMs \in Int
        /\ EnqueueStatus(queue, bytes, timeoutMs, g) = "Accepted"
        /\ queue' = Enqueue(queue, bytes, g)
        /\ size' = [size EXCEPT ![new] = bytes]
        /\ results' = results
    BY <1>4, CallerConstants DEF DoEnqueue
  <2>2. Sound(queue', Generations)
    BY <1>1, <2>1, EnqueueSound
  <2>3. bytes > 0 /\ new \in RequestIds
    BY <1>1, <2>1, EnqueueGuard
  <2>4. /\ \A x : IsPending(queue', x) <=> IsPending(queue, x) \/ x = new
        /\ queue'.active = queue.active
        /\ queue'.nextRequestId = NextId(new)
    BY <1>1, <2>1, EnqueueIds
  <2>5. \A x \in RequestIds : Outstanding(x)' <=> Outstanding(x) \/ x = new
    BY <2>4 DEF Outstanding
  <2>6. size' \in [RequestIds -> Nat]
    BY <2>1, <2>3 DEF IInv, HistoriesAgree
  <2>7. \A x \in RequestIds : Accepted(x)' <=> Accepted(x) \/ x = new
    BY <2>1, <2>3 DEF IInv, HistoriesAgree, Accepted
  <2>8. \A x \in RequestIds : Accepted(x) => x < new
    BY <2>3 DEF IInv, HistoriesAgree, RequestIds, Unassigned
  <2>9. queue'.nextRequestId # Unassigned =>
            \A x \in RequestIds : Accepted(x)' => x < queue'.nextRequestId
    <3>1. queue'.nextRequestId # Unassigned =>
              new < queue'.nextRequestId /\ queue'.nextRequestId \in Int
      BY <1>1, <2>4, NextIdProperties
    <3> QED
      BY <2>3, <2>7, <2>8, <3>1 DEF RequestIds
  <2>10. HistoriesAgree'
    BY <2>1, <2>5, <2>6, <2>7, <2>9 DEF IInv, HistoriesAgree
  <2>11. ~Accepted(new)
    BY <2>3, <2>8 DEF RequestIds
  <2>12. ExactlyOneResult'
    BY <2>1, <2>5, <2>7, <2>11 DEF IInv, ExactlyOneResult, HistoriesAgree
  <2> QED
    BY <2>2, <2>10, <2>12 DEF IInv
<1>5. ASSUME DoActivateNext
      PROVE  IInv'
  <2>1. CanActivate(queue) /\ queue' = ActivateNext(queue)
    BY <1>5 DEF DoActivateNext
  <2>2. Sound(queue', Generations)
    BY <1>1, <2>1, ActivateNextSound
  <2>3. /\ \A x \in RequestIds : Outstanding(x)' <=> Outstanding(x)
        /\ queue'.nextRequestId = queue.nextRequestId
    <3>1. \A x \in RequestIds :
              /\ IsPending(queue', x) \/ queue'.active.id = x <=>
                     IsPending(queue, x) \/ queue.active.id = x
              /\ queue'.nextRequestId = queue.nextRequestId
      BY <1>1, <2>1, ActivateNextIds
    <3>2. RequestIds # {}
      BY DEF RequestIds
    <3> QED
      BY <3>1, <3>2 DEF Outstanding
  <2>4. HistoriesAgree' /\ ExactlyOneResult'
    BY <1>1, <1>5, <2>3, NoResult DEF DoActivateNext
  <2> QED
    BY <2>2, <2>4 DEF IInv
<1>6. ASSUME NEW id \in RequestIds, DoCancelPending(id)
      PROVE  IInv'
  <2>1. /\ IsPending(queue, id)
        /\ queue' = CancelPending(queue, id)
        /\ results' = [results EXCEPT ![id] = Append(@, Result("Cancelled", 0))]
        /\ size' = size
    BY <1>6 DEF DoCancelPending
  <2>2. Sound(queue', Generations)
    BY <1>1, <2>1, CancelPendingSound
  <2>3. /\ \A x : IsPending(queue', x) <=> IsPending(queue, x) /\ x # id
        /\ queue'.active = queue.active
        /\ queue'.nextRequestId = queue.nextRequestId
    BY <1>1, <2>1, CancelPendingIds
  <2>4. queue.active.id # id
    BY <1>1, <2>1, PendingIds
  <2>5. \A x \in RequestIds : Outstanding(x)' <=> Outstanding(x) /\ x # id
    BY <2>3, <2>4 DEF Outstanding
  <2>6. Result("Cancelled", 0) \in Results /\ Outstanding(id)
    BY <2>1 DEF Result, Results, TerminalStatuses, Outstanding
  <2>7. HistoriesAgree' /\ ExactlyOneResult'
    BY <2>1, <2>3, <2>5, <2>6, OneMoreResult
  <2> QED
    BY <2>2, <2>7 DEF IInv
<1>7. ASSUME DoCancelAllPending
      PROVE  IInv'
  <2>1. /\ queue' = CancelAllPending(queue)
        /\ results' = [id \in RequestIds |->
                          IF IsPending(queue, id)
                          THEN Append(results[id], Result("Cancelled", 0))
                          ELSE results[id]]
        /\ size' = size
    BY <1>7 DEF DoCancelAllPending
  <2>2. Sound(queue', Generations)
    BY <1>1, <2>1, CancelAllPendingSound
  <2>3. /\ \A x : ~IsPending(queue', x)
        /\ queue'.active = queue.active
        /\ queue'.nextRequestId = queue.nextRequestId
    BY <1>1, <2>1, CancelAllPendingIds
  <2>4. \A x \in RequestIds : Outstanding(x)' <=> Outstanding(x) /\ ~IsPending(queue, x)
    <3>1. \A x : IsPending(queue, x) => queue.active.id # x
      BY <1>1, PendingIds
    <3> QED
      BY <2>3, <3>1 DEF Outstanding
  <2>5. Result("Cancelled", 0) \in Results
    BY DEF Result, Results, TerminalStatuses
  <2>6. ASSUME NEW x \in RequestIds
        PROVE  /\ results'[x] \in Seq(Results)
               /\ Len(results'[x]) = IF Accepted(x)' /\ ~Outstanding(x)' THEN 1 ELSE 0
    <3>1. /\ results[x] \in Seq(Results)
          /\ Len(results[x]) = IF Accepted(x) /\ ~Outstanding(x) THEN 1 ELSE 0
          /\ Accepted(x)' = Accepted(x)
      BY <2>1 DEF IInv, HistoriesAgree, ExactlyOneResult, Accepted
    <3>2. CASE IsPending(queue, x)
      <4>1. Outstanding(x) /\ Accepted(x) /\ ~Outstanding(x)'
        BY <2>4, <3>2 DEF IInv, HistoriesAgree, Outstanding
      <4>2. results'[x] = Append(results[x], Result("Cancelled", 0))
        BY <2>1, <3>2
      <4> QED
        BY <2>5, <3>1, <4>1, <4>2, AppendProperties
    <3>3. CASE ~IsPending(queue, x)
      <4>1. results'[x] = results[x]
        BY <2>1, <3>3
      <4> QED
        BY <2>4, <3>1, <3>3, <4>1
    <3> QED
      BY <3>2, <3>3
  <2>7. results' \in [RequestIds -> Seq(Results)]
    BY <2>1, <2>6
  <2>8. ExactlyOneResult'
    BY <2>6 DEF ExactlyOneResult
  <2>9. \A x \in RequestIds : Accepted(x)' = Accepted(x)
    BY <2>1 DEF Accepted
  <2>10. HistoriesAgree'
    BY <2>1, <2>3, <2>4, <2>7, <2>9 DEF IInv, HistoriesAgree
  <2> QED
    BY <2>2, <2>8, <2>10 DEF IInv
<1>8. ASSUME NEW id \in RequestIds, NEW g \in Generations,
             NEW status \in TerminalStatuses \cup {"Accepted"},
             NEW bytes \in PayloadSizes \cup {0},
             DoCompleteActive(id, g, status, bytes)
      PROVE  IInv'
  <2> DEFINE result == Result(CompletedStatus(queue, status, bytes), bytes)
  <2>1. /\ status \in TerminalStatuses
        /\ HasActive(queue)
        /\ queue.active.id = id
        /\ queue' = CompleteActive(queue)
        /\ results' = [results EXCEPT ![id] = Append(@, result)]
        /\ size' = size
    BY <1>8 DEF DoCompleteActive, CompletionAccepted
  <2>2. Sound(queue', Generations)
    BY <1>1, <2>1, CompleteActiveSound
  <2>3. /\ \A x : IsPending(queue', x) <=> IsPending(queue, x)
        /\ queue'.active.id = Unassigned
        /\ queue'.nextRequestId = queue.nextRequestId
    BY <1>1, <2>1, CompleteActiveIds
  <2>4. ~IsPending(queue, id)
    BY <1>1, <2>1, PendingIds
  <2>5. \A x \in RequestIds : Outstanding(x)' <=> Outstanding(x) /\ x # id
    BY <2>1, <2>3, <2>4 DEF Outstanding, RequestIds, Unassigned
  <2>6. bytes \in Nat
    BY CallerConstants
  <2>7. CompletedStatus(queue, status, bytes) \in TerminalStatuses
    BY <2>1 DEF CompletedStatus, TerminalStatuses
  <2>8. result \in Results /\ Outstanding(id)
    BY <2>1, <2>6, <2>7 DEF Result, Results, Outstanding
  <2> HIDE DEF result
  <2>9. HistoriesAgree' /\ ExactlyOneResult'
    BY <2>1, <2>3, <2>5, <2>8, OneMoreResult
  <2> QED
    BY <2>2, <2>9 DEF IInv
<1>9. CASE UNCHANGED vars
  BY <1>9 DEF vars, IInv, HistoriesAgree, ExactlyOneResult, Accepted, Outstanding
<1> QED
  BY <1>2, <1>3, <1>4, <1>5, <1>6, <1>7, <1>8, <1>9 DEF Next, DoCancelToken

LEMMA IInvIsInvariant == Spec => []IInv
<1>1. Init => IInv
  BY InitEstablishesIInv
<1>2. IInv /\ [Next]_vars => IInv'
  BY StepPreservesIInv
<1> QED
  BY <1>1, <1>2, PTL DEF Spec

-----------------------------------------------------------------------------
\* The object only ever holds values of its types: no id, generation, byte count
\* or terminal status outside them is ever produced (all of
\* serial_write_queue.cpp).
THEOREM TypeCorrect == Spec => []TypeOK
<1>1. IInv => TypeOK
  BY DEF IInv, Sound, QueuesIn, RequestsIn, Requests, HistoriesAgree, TypeOK
<1> QED
  BY <1>1, IInvIsInvariant, PTL

\* Whatever calls are made, in whatever order, a request that was accepted gets
\* one terminal result, and gets it when it leaves the queue (activateNext,
\* cancelPending, cancelAllPending, completeActive).
THEOREM ResultsAreExactlyOnce == Spec => []ExactlyOneResult
<1>1. IInv => ExactlyOneResult
  BY DEF IInv
<1> QED
  BY <1>1, IInvIsInvariant, PTL

\* Requests leave in the order they were accepted in and ids are not given out
\* twice, up to and past the end of the id range (reserveRequestId, enqueue).
THEOREM OrderIsKept == Spec => []FirstInFirstOut
<1>1. IInv => FirstInFirstOut
  BY DEF IInv, Sound, QueuesIn, RequestsIn, Requests, HistoriesAgree, TypeOK, FirstInFirstOut
<1> QED
  BY <1>1, IInvIsInvariant, PTL

\* The admission test of enqueue keeps the queue within both capacities for
\* every capacity, and the high-water marks between the load and the capacity;
\* the byte counter is the total of the pending payloads after every operation,
\* so none of the subtractions from it wraps.
THEOREM CapacityIsKept == Spec => []WithinLimits
<1>1. IInv => WithinLimits
  BY DEF IInv, Sound, WithinLimits
<1> QED
  BY <1>1, IInvIsInvariant, PTL

\* A generation is only left when nothing of it is outstanding, so requests of
\* two connections are never in the queue together (beginGeneration, enqueue).
THEOREM GenerationsDoNotMix == Spec => []OneGeneration
<1>1. IInv => OneGeneration
  BY DEF IInv, Sound, OneGeneration
<1> QED
  BY <1>1, IInvIsInvariant, PTL
=============================================================================
