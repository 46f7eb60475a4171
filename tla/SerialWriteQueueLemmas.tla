------------------------- MODULE SerialWriteQueueLemmas -------------------------
(***************************************************************************)
(* What each operation of the write queue preserves, as facts about the    *)
(* operators of SerialWriteQueueOps: they hold for every queue with the    *)
(* four properties stated there, whoever owns it.                          *)
(***************************************************************************)
EXTENDS SerialWriteQueueOps, SequenceTheorems, TLAPS

\* The requests and queues of an owner whose generations are G.
RequestsIn(G) == [id : RequestIds, generation : G, bytes : Nat \ {0}]
QueuesIn(G) ==
    [ generation     : G,
      nextRequestId  : 0 .. MaxRequestId,
      pending        : Seq(RequestsIn(G)),
      pendingBytes   : Int,
      active         : RequestsIn(G) \cup {NoRequest},
      highWaterCount : Nat,
      highWaterBytes : Int ]

Sound(q, G) ==
    /\ q \in QueuesIn(G)
    /\ InOrder(q)
    /\ InOneGeneration(q)
    /\ Accounted(q)
    /\ InLimits(q)

-----------------------------------------------------------------------------
\* What RemoveAt, with which cancelPending is modelled, does to a sequence.
LEMMA RemoveAtProperties ==
    ASSUME NEW S, NEW seq \in Seq(S), NEW k \in 1 .. Len(seq)
    PROVE  /\ RemoveAt(seq, k) \in Seq(S)
           /\ Len(RemoveAt(seq, k)) = Len(seq) - 1
           /\ \A i \in 1 .. Len(seq) - 1 :
                  RemoveAt(seq, k)[i] = IF i < k THEN seq[i] ELSE seq[i + 1]
<1>1. Len(seq) \in Nat
  BY LenProperties
<1> DEFINE front == SubSeq(seq, 1, k - 1)
           back == SubSeq(seq, k + 1, Len(seq))
<1>2. /\ front \in Seq(S)
      /\ Len(front) = k - 1
      /\ \A i \in 1 .. k - 1 : front[i] = seq[i]
  <2>1. \A i \in 1 .. k - 1 : i \in 1 .. Len(seq)
    BY <1>1
  <2> QED
    BY <1>1, <2>1, SubSeqProperties
<1>3. /\ back \in Seq(S)
      /\ Len(back) = Len(seq) - k
      /\ \A i \in 1 .. Len(seq) - k : back[i] = seq[k + i]
  BY <1>1, SubSeqProperties
<1>4. RemoveAt(seq, k) = front \o back
  BY DEF RemoveAt
<1> HIDE DEF front, back
<1>5. /\ front \o back \in Seq(S)
      /\ Len(front \o back) = Len(seq) - 1
      /\ \A i \in 1 .. Len(seq) - 1 :
             (front \o back)[i] = IF i < k THEN front[i] ELSE back[i - (k - 1)]
  <2>1. /\ front \o back \in Seq(S)
        /\ Len(front \o back) = Len(front) + Len(back)
        /\ \A i \in 1 .. Len(front) + Len(back) : (front \o back)[i] =
               IF i <= Len(front) THEN front[i] ELSE back[i - Len(front)]
    BY <1>2, <1>3, ConcatProperties
  <2>2. Len(front) + Len(back) = Len(seq) - 1
    BY <1>1, <1>2, <1>3
  <2>3. \A i \in 1 .. Len(seq) - 1 : i < k <=> i <= Len(front)
    BY <1>1, <1>2
  <2> QED
    BY <1>2, <2>1, <2>2, <2>3
<1>6. ASSUME NEW i \in 1 .. Len(seq) - 1
      PROVE  (front \o back)[i] = IF i < k THEN seq[i] ELSE seq[i + 1]
  <2>1. CASE i < k
    BY <1>1, <1>2, <1>5, <2>1
  <2>2. CASE ~(i < k)
    <3>1. i - (k - 1) \in 1 .. Len(seq) - k
      BY <1>1, <2>2
    <3>2. k + (i - (k - 1)) = i + 1
      BY <1>1
    <3> QED
      BY <1>3, <1>5, <2>2, <3>1, <3>2
  <2> QED
    BY <2>1, <2>2
<1> QED
  BY <1>4, <1>5, <1>6

\* The facts about the fields of a queue that every proof below starts from.
LEMMA QueueFacts ==
    ASSUME NEW G, NEW q \in QueuesIn(G)
    PROVE  /\ Len(q.pending) \in Nat
           /\ DOMAIN q.pending = 1 .. Len(q.pending)
           /\ \A i \in 1 .. Len(q.pending) :
                  /\ q.pending[i] \in RequestsIn(G)
                  /\ q.pending[i].id \in 1 .. MaxRequestId
                  /\ q.pending[i].generation \in G
                  /\ q.pending[i].bytes \in Nat \ {0}
           /\ q.active.id \in 0 .. MaxRequestId
           /\ q.active.bytes \in Nat
           /\ HasActive(q) => q.active \in RequestsIn(G) /\ q.active.bytes \in Nat \ {0}
           /\ ~HasActive(q) => q.active = NoRequest /\ q.active.bytes = 0
<1> USE QueueConstants
<1>1. q.pending \in Seq(RequestsIn(G))
  BY DEF QueuesIn
<1>2. Len(q.pending) \in Nat /\ DOMAIN q.pending = 1 .. Len(q.pending)
  BY <1>1, LenProperties
<1>3. \A i \in 1 .. Len(q.pending) : q.pending[i] \in RequestsIn(G)
  BY <1>1, ElementOfSeq
<1>4. q.active \in RequestsIn(G) \cup {NoRequest}
  BY DEF QueuesIn
<1> QED
  BY <1>2, <1>3, <1>4 DEF RequestsIn, RequestIds, NoRequest, HasActive, Unassigned

\* The new queue of the constructor.
LEMMA NewQueueSound ==
    ASSUME NEW G, Unassigned \in G
    PROVE  Sound(NewQueue, G)
<1> USE QueueConstants
<1>1. NewQueue \in QueuesIn(G)
  BY EmptySeq DEF NewQueue, QueuesIn, NoRequest, Unassigned
<1>2. Len(NewQueue.pending) = 0 /\ DOMAIN NewQueue.pending = {}
  BY DEF NewQueue
<1>3. InOrder(NewQueue) /\ InOneGeneration(NewQueue) /\ InLimits(NewQueue)
  BY <1>2 DEF NewQueue, NoRequest, InOrder, InOneGeneration, InLimits,
              CountedCount, CountedBytes, HasActive, Unassigned
<1>4. Accounted(NewQueue)
  <2> DEFINE total == [i \in 0 .. 0 |-> 0]
  <2>1. /\ total \in [0 .. 0 -> 0 .. 0]
        /\ total[0] = 0
        /\ \A i, j \in 0 .. 0 : total[i] <= total[j]
    OBVIOUS
  <2>2. NewQueue.pendingBytes = 0
    BY DEF NewQueue
  <2>3. RunningTotals(NewQueue, total)
    BY <1>2, <2>1, <2>2 DEF RunningTotals
  <2> HIDE DEF total
  <2> QED
    BY <1>2, <2>1, <2>2, <2>3 DEF Accounted
<1> QED
  BY <1>1, <1>3, <1>4 DEF Sound

-----------------------------------------------------------------------------
\* beginGeneration: the queue is empty, only the generation and the
\* high-water marks change.
LEMMA BeginGenerationSound ==
    ASSUME NEW G, NEW q, NEW g \in G, Sound(q, G), CanBeginGeneration(q, g)
    PROVE  Sound(BeginGeneration(q, g), G)
<1> USE QueueConstants
<1> DEFINE r == BeginGeneration(q, g)
<1>1. q \in QueuesIn(G)
  BY DEF Sound
<1>2. /\ r \in QueuesIn(G)
      /\ r.generation = g
      /\ r.nextRequestId = q.nextRequestId
      /\ r.pending = q.pending
      /\ r.pendingBytes = q.pendingBytes
      /\ r.active = q.active
      /\ r.highWaterCount = 0
      /\ r.highWaterBytes = 0
  <2> DEFINE s == [q EXCEPT !.generation = g, !.highWaterCount = 0]
  <2>1. s \in QueuesIn(G)
    BY <1>1 DEF QueuesIn
  <2>2. r = [s EXCEPT !.highWaterBytes = 0]
    BY DEF BeginGeneration
  <2>3. r \in QueuesIn(G)
    <3> HIDE DEF s, r
    <3> QED
      BY <2>1, <2>2 DEF QueuesIn
  <2>4. /\ r.generation = g
        /\ r.nextRequestId = q.nextRequestId
        /\ r.pending = q.pending
        /\ r.pendingBytes = q.pendingBytes
        /\ r.active = q.active
        /\ r.highWaterCount = 0
        /\ r.highWaterBytes = 0
    BY <1>1 DEF BeginGeneration, QueuesIn
  <2> QED
    BY <2>3, <2>4
<1>3. q.pending = << >> /\ ~HasActive(q)
  BY DEF CanBeginGeneration, IsEmpty
<1>4. Len(q.pending) = 0 /\ DOMAIN q.pending = {}
  BY <1>3
<1> HIDE DEF r
<1>5. InOrder(r)
  BY <1>2 DEF Sound, InOrder
<1>6. InOneGeneration(r)
  BY <1>2, <1>3, <1>4 DEF InOneGeneration, HasActive
<1>7. Accounted(r)
  <2>1. PICK total \in [0 .. Len(q.pending) -> 0 .. q.pendingBytes] :
               RunningTotals(q, total)
    BY DEF Sound, Accounted
  <2>2. RunningTotals(r, total)
    BY <1>2, <2>1 DEF RunningTotals
  <2> QED
    BY <1>2, <2>1, <2>2 DEF Accounted
<1>8. q.pendingBytes = 0
  <2>1. PICK total \in [0 .. Len(q.pending) -> 0 .. q.pendingBytes] :
               RunningTotals(q, total)
    BY DEF Sound, Accounted
  <2> QED
    BY <1>4, <2>1 DEF RunningTotals
<1>9. InLimits(r)
  BY <1>1, <1>2, <1>3, <1>4, <1>8, QueueFacts
     DEF InLimits, CountedCount, CountedBytes, HasActive
<1> QED
  BY <1>2, <1>5, <1>6, <1>7, <1>9 DEF Sound, r

-----------------------------------------------------------------------------
\* reserveRequestId: the saturating counter stays ahead of every id in use.
LEMMA NextIdProperties ==
    ASSUME NEW id \in 0 .. MaxRequestId
    PROVE  /\ NextId(id) \in 0 .. MaxRequestId
           /\ NextId(id) # Unassigned => id # Unassigned /\ id < NextId(id)
BY QueueConstants DEF NextId, Unassigned

LEMMA ReserveRequestIdSound ==
    ASSUME NEW G, NEW q, Sound(q, G)
    PROVE  Sound(ReserveRequestId(q), G)
<1> USE QueueConstants
<1> DEFINE r == ReserveRequestId(q)
<1>1. q \in QueuesIn(G) /\ q.nextRequestId \in 0 .. MaxRequestId
  BY DEF Sound, QueuesIn
<1>2. /\ r \in QueuesIn(G)
      /\ r.generation = q.generation
      /\ r.nextRequestId = NextId(q.nextRequestId)
      /\ r.pending = q.pending
      /\ r.pendingBytes = q.pendingBytes
      /\ r.active = q.active
      /\ r.highWaterCount = q.highWaterCount
      /\ r.highWaterBytes = q.highWaterBytes
  BY <1>1, NextIdProperties DEF ReserveRequestId, QueuesIn
<1> HIDE DEF r
<1>3. InOrder(r)
  <2>1. ASSUME r.nextRequestId # Unassigned
        PROVE  q.nextRequestId # Unassigned /\ q.nextRequestId < r.nextRequestId
    BY <1>1, <1>2, <2>1, NextIdProperties
  <2>2. /\ q.active.id \in Int
        /\ DOMAIN q.pending = 1 .. Len(q.pending)
        /\ \A i \in 1 .. Len(q.pending) : q.pending[i].id \in Int
    BY <1>1, QueueFacts
  <2>3. r.nextRequestId \in Int /\ q.nextRequestId \in Int
    BY <1>1, <1>2 DEF QueuesIn
  <2> QED
    BY <1>2, <2>1, <2>2, <2>3 DEF Sound, InOrder
<1>4. InOneGeneration(r)
  BY <1>2 DEF Sound, InOneGeneration, HasActive
<1>5. Accounted(r)
  BY <1>2 DEF Sound, Accounted, RunningTotals
<1>6. InLimits(r)
  BY <1>2 DEF Sound, InLimits, CountedCount, CountedBytes, HasActive
<1> QED
  BY <1>2, <1>3, <1>4, <1>5, <1>6 DEF Sound, r

-----------------------------------------------------------------------------
\* enqueue: what an accepted request may rely on.
LEMMA EnqueueGuard ==
    ASSUME NEW G, NEW q \in QueuesIn(G), NEW bytes \in Nat, NEW timeoutMs \in Int,
           NEW g \in G,
           EnqueueStatus(q, bytes, timeoutMs, g) = "Accepted"
    PROVE  /\ bytes \in Nat \ {0}
           /\ g = q.generation \/ (IsEmpty(q) /\ q.generation = Unassigned)
           /\ CountedCount(q) + 1 <= RequestCapacity
           /\ CountedBytes(q) + bytes <= ByteCapacity
           /\ q.nextRequestId \in RequestIds
<1> USE QueueConstants
<1>1. /\ CountedCount(q) \in Int
      /\ CountedBytes(q) \in Int
      /\ q.nextRequestId \in 0 .. MaxRequestId
  BY QueueFacts DEF CountedCount, CountedBytes, QueuesIn
<1>2. /\ ~(bytes = 0)
      /\ ~(g # q.generation /\ (~IsEmpty(q) \/ q.generation # Unassigned))
      /\ ~(CountedCount(q) >= RequestCapacity)
      /\ ~(CountedBytes(q) > ByteCapacity - bytes)
      /\ q.nextRequestId # Unassigned
  BY DEF EnqueueStatus
<1>3. g = q.generation \/ (IsEmpty(q) /\ q.generation = Unassigned)
  BY <1>2
<1>4. q.nextRequestId \in RequestIds
  BY <1>1, <1>2 DEF RequestIds, Unassigned
<1>5. /\ CountedCount(q) + 1 <= RequestCapacity
      /\ CountedBytes(q) + bytes <= ByteCapacity
  BY <1>1, <1>2
<1> QED
  BY <1>2, <1>3, <1>4, <1>5

LEMMA EnqueueSound ==
    ASSUME NEW G, NEW q, NEW bytes \in Nat, NEW timeoutMs \in Int, NEW g \in G,
           Sound(q, G),
           EnqueueStatus(q, bytes, timeoutMs, g) = "Accepted"
    PROVE  Sound(Enqueue(q, bytes, g), G)
<1> USE QueueConstants
<1> DEFINE r == Enqueue(q, bytes, g)
           request == [id |-> q.nextRequestId, generation |-> g, bytes |-> bytes]
           n == Len(q.pending)
<1>1. q \in QueuesIn(G)
  BY DEF Sound
<1>2. /\ bytes \in Nat \ {0}
      /\ CountedCount(q) + 1 <= RequestCapacity
      /\ CountedBytes(q) + bytes <= ByteCapacity
      /\ q.nextRequestId \in RequestIds
  BY <1>1, EnqueueGuard
<1>n. q.nextRequestId \in 0 .. MaxRequestId /\ q.nextRequestId # 0
  BY <1>2 DEF RequestIds
<1>g. g = q.generation \/ (IsEmpty(q) /\ q.generation = Unassigned)
  BY <1>1, EnqueueGuard
<1>3. /\ CountedCount(q) \in Nat
      /\ CountedBytes(q) \in Int
      /\ q.highWaterCount \in Nat
      /\ q.highWaterBytes \in Int
      /\ q.pendingBytes \in Int
      /\ q.generation \in G
  BY <1>1, QueueFacts DEF CountedCount, CountedBytes, QueuesIn
<1>4. /\ n \in Nat
      /\ DOMAIN q.pending = 1 .. n
      /\ \A i \in 1 .. n : /\ q.pending[i] \in RequestsIn(G)
                           /\ q.pending[i].id \in 1 .. MaxRequestId
                           /\ q.pending[i].bytes \in Nat \ {0}
      /\ q.active.id \in 0 .. MaxRequestId
  BY <1>1, QueueFacts
<1>5. request \in RequestsIn(G) /\ q.pending \in Seq(RequestsIn(G))
  BY <1>1, <1>2 DEF RequestsIn, QueuesIn
<1>6. /\ r.generation = IF q.generation = Unassigned /\ g # Unassigned THEN g ELSE q.generation
      /\ r.nextRequestId = NextId(q.nextRequestId)
      /\ r.pending = Append(q.pending, request)
      /\ r.pendingBytes = q.pendingBytes + bytes
      /\ r.active = q.active
      /\ r.highWaterCount \in Nat
      /\ r.highWaterBytes \in Int
      /\ CountedCount(q) + 1 <= r.highWaterCount
      /\ r.highWaterCount <= RequestCapacity
      /\ CountedBytes(q) + bytes <= r.highWaterBytes
      /\ r.highWaterBytes <= ByteCapacity
  <2>1. q.highWaterCount <= RequestCapacity /\ q.highWaterBytes <= ByteCapacity
    BY DEF Sound, InLimits
  <2>2. /\ r.generation = IF q.generation = Unassigned /\ g # Unassigned
                          THEN g ELSE q.generation
        /\ r.nextRequestId = NextId(q.nextRequestId)
        /\ r.pending = Append(q.pending, request)
        /\ r.pendingBytes = q.pendingBytes + bytes
        /\ r.active = q.active
    BY DEF Enqueue
  <2>3. \E h \in {0, q.highWaterCount} : r.highWaterCount = Higher(h, CountedCount(q) + 1)
    BY DEF Enqueue
  <2>4. \E h \in {0, q.highWaterBytes} : r.highWaterBytes = Higher(h, CountedBytes(q) + bytes)
    BY DEF Enqueue
  <2> HIDE DEF r, request
  <2>5. /\ r.highWaterCount \in Nat
        /\ CountedCount(q) + 1 <= r.highWaterCount
        /\ r.highWaterCount <= RequestCapacity
    BY <1>2, <1>3, <2>1, <2>3 DEF Higher
  <2>6. /\ r.highWaterBytes \in Int
        /\ CountedBytes(q) + bytes <= r.highWaterBytes
        /\ r.highWaterBytes <= ByteCapacity
    BY <1>2, <1>3, <2>1, <2>4 DEF Higher
  <2> QED
    BY <2>2, <2>5, <2>6
<1>7. /\ r.pending \in Seq(RequestsIn(G))
      /\ Len(r.pending) = n + 1
      /\ DOMAIN r.pending = 1 .. n + 1
      /\ \A i \in 1 .. n : r.pending[i] = q.pending[i]
      /\ r.pending[n + 1] = request
  <2>1. r.pending \in Seq(RequestsIn(G)) /\ Len(r.pending) = n + 1
    BY <1>5, <1>6, AppendProperties
  <2> QED
    BY <1>5, <1>6, <2>1, AppendProperties, LenProperties
<1>8. r \in QueuesIn(G)
  <2>1. r.nextRequestId \in 0 .. MaxRequestId
    <3>1. q.nextRequestId \in 0 .. MaxRequestId
      BY <1>2 DEF RequestIds
    <3>2. NextId(q.nextRequestId) \in 0 .. MaxRequestId
      BY <3>1, NextIdProperties
    <3> QED
      BY <1>6, <3>2
  <2>2. r.generation \in G
    BY <1>3, <1>6
  <2>3. r.active \in RequestsIn(G) \cup {NoRequest}
    BY <1>1, <1>6 DEF QueuesIn
  <2>4. r = [generation |-> r.generation, nextRequestId |-> r.nextRequestId,
             pending |-> r.pending, pendingBytes |-> r.pendingBytes, active |-> r.active,
             highWaterCount |-> r.highWaterCount, highWaterBytes |-> r.highWaterBytes]
    BY DEF Enqueue
  <2>5. r.pendingBytes \in Int
    BY <1>3, <1>6
  <2> HIDE DEF r
  <2> QED
    BY <1>6, <1>7, <2>1, <2>2, <2>3, <2>4, <2>5 DEF QueuesIn
<1> HIDE DEF r
<1>9. InOrder(r)
  <2>1. /\ q.active.id < q.nextRequestId
        /\ \A i \in 1 .. n : q.pending[i].id < q.nextRequestId
        /\ \A i \in 1 .. n : q.active.id < q.pending[i].id
        /\ \A i, j \in 1 .. n : i < j => q.pending[i].id < q.pending[j].id
    <3>1. InOrder(q)
      BY DEF Sound
    <3>2. DOMAIN q.pending = 1 .. n /\ q.nextRequestId # Unassigned
      BY <1>4, <1>n DEF Unassigned
    <3> HIDE DEF n
    <3> QED
      BY <3>1, <3>2 DEF InOrder
  <2>2. /\ r.nextRequestId \in 0 .. MaxRequestId
        /\ r.nextRequestId # Unassigned => q.nextRequestId < r.nextRequestId
    BY <1>n, <1>6, NextIdProperties
  <2>3. r.pending[n + 1].id = q.nextRequestId
    BY <1>7
  <2>4. \A i \in 1 .. n + 1 : i \in 1 .. n \/ i = n + 1
    BY <1>4
  <2>5. \A i \in 1 .. n + 1 :
           /\ r.pending[i].id \in Int
           /\ r.pending[i].id <= q.nextRequestId
           /\ q.active.id < r.pending[i].id
    <3>1. \A i \in 1 .. n :
             /\ r.pending[i].id \in Int
             /\ r.pending[i].id <= q.nextRequestId
             /\ q.active.id < r.pending[i].id
      <4>1. ASSUME NEW i \in 1 .. n
            PROVE  /\ r.pending[i].id \in Int
                   /\ r.pending[i].id <= q.nextRequestId
                   /\ q.active.id < r.pending[i].id
        <5>1. r.pending[i] = q.pending[i]
          BY <1>7
        <5>2. q.pending[i].id \in 1 .. MaxRequestId
          BY <1>4
        <5>3. q.pending[i].id < q.nextRequestId /\ q.active.id < q.pending[i].id
          BY <2>1
        <5> QED
          BY <1>n, <5>1, <5>2, <5>3
      <4> QED
        BY <4>1
    <3>2. /\ r.pending[n + 1].id \in Int
          /\ r.pending[n + 1].id <= q.nextRequestId
          /\ q.active.id < r.pending[n + 1].id
      BY <1>2, <2>1, <2>3 DEF RequestIds
    <3> QED
      BY <2>4, <3>1, <3>2
  <2>6. ASSUME NEW i \in 1 .. n + 1, NEW j \in 1 .. n + 1, i < j
        PROVE  r.pending[i].id < r.pending[j].id
    <3>1. i \in 1 .. n
      BY <1>4, <2>6
    <3>2. CASE j \in 1 .. n
      BY <1>7, <2>1, <2>6, <3>1, <3>2
    <3>3. CASE j = n + 1
      BY <1>7, <2>1, <2>3, <3>1, <3>3
    <3> QED
      BY <2>4, <3>2, <3>3
  <2>7. ASSUME r.nextRequestId # Unassigned
        PROVE  /\ q.active.id < r.nextRequestId
               /\ \A i \in 1 .. n + 1 : r.pending[i].id < r.nextRequestId
    BY <1>2, <1>4, <2>1, <2>2, <2>5, <2>7, SMTT(30) DEF RequestIds
  <2> QED
    BY <1>6, <1>7, <2>5, <2>6, <2>7 DEF InOrder
<1>10. InOneGeneration(r)
  <2>1. r.generation = g
    BY <1>g, <1>6
  <2>2. \A i \in 1 .. n : r.pending[i].generation = g
    <3>1. CASE g = q.generation
      BY <1>4, <1>7, <3>1 DEF Sound, InOneGeneration
    <3>2. CASE IsEmpty(q)
      BY <1>4, <3>2 DEF IsEmpty
    <3> QED
      BY <1>g, <3>1, <3>2
  <2>3. r.pending[n + 1].generation = g
    BY <1>7
  <2>4. HasActive(r) => r.active.generation = g
    BY <1>g, <1>6 DEF Sound, InOneGeneration, HasActive, IsEmpty
  <2>5. \A i \in 1 .. n + 1 : i \in 1 .. n \/ i = n + 1
    BY <1>4
  <2> QED
    BY <1>7, <2>1, <2>2, <2>3, <2>4, <2>5 DEF InOneGeneration
<1>11. Accounted(r)
  <2>1. PICK total \in [0 .. n -> 0 .. q.pendingBytes] : RunningTotals(q, total)
    BY DEF Sound, Accounted
  <2> DEFINE new == [i \in 0 .. n + 1 |-> IF i <= n THEN total[i]
                                          ELSE q.pendingBytes + bytes]
  <2>2. \A i \in 0 .. n : total[i] \in Nat /\ total[i] <= q.pendingBytes
    BY <1>3, <2>1
  <2>3. /\ total[0] = 0
        /\ \A i \in 1 .. n : total[i] = total[i - 1] + q.pending[i].bytes
        /\ \A i, j \in 0 .. n : i <= j => total[i] <= total[j]
        /\ total[n] = q.pendingBytes
    BY <2>1 DEF RunningTotals
  <2>4. q.pendingBytes \in Nat
    BY <1>4, <2>2, <2>3
  <2>5. /\ \A i \in 0 .. n : new[i] = total[i]
        /\ new[n + 1] = q.pendingBytes + bytes
        /\ \A i \in 0 .. n + 1 : i \in 0 .. n \/ i = n + 1
    BY <1>4
  <2>6. new \in [0 .. n + 1 -> 0 .. r.pendingBytes]
    <3>1. ASSUME NEW i \in 0 .. n + 1
          PROVE  new[i] \in 0 .. r.pendingBytes
      <4>1. r.pendingBytes = q.pendingBytes + bytes
        BY <1>6
      <4>2. CASE i \in 0 .. n
        <5>1. new[i] = total[i] /\ total[i] \in Nat /\ total[i] <= q.pendingBytes
          BY <2>2, <2>5, <4>2
        <5> QED
          BY <2>4, <4>1, <5>1
      <4>3. CASE i = n + 1
        <5>1. new[i] = q.pendingBytes + bytes
          BY <2>5, <4>3
        <5> QED
          BY <2>4, <4>1, <5>1
      <4> QED
        BY <2>5, <4>2, <4>3
    <3> QED
      BY <3>1
  <2> HIDE DEF new
  <2>7. new[0] = 0
    BY <1>4, <2>3, <2>5
  <2>8. ASSUME NEW i \in 1 .. n + 1
        PROVE  new[i] = new[i - 1] + r.pending[i].bytes
    <3>1. CASE i \in 1 .. n
      <4>1. i \in 0 .. n /\ i - 1 \in 0 .. n
        BY <1>4, <3>1
      <4>2. new[i] = total[i] /\ new[i - 1] = total[i - 1]
        BY <2>5, <4>1
      <4>3. r.pending[i] = q.pending[i]
        BY <1>7, <3>1
      <4> QED
        BY <2>3, <3>1, <4>2, <4>3
    <3>2. CASE i = n + 1
      <4>1. i - 1 = n /\ n \in 0 .. n
        BY <1>4, <3>2
      <4>2. new[i] = q.pendingBytes + bytes /\ new[i - 1] = q.pendingBytes
        BY <2>3, <2>5, <3>2, <4>1
      <4>3. r.pending[i].bytes = bytes
        BY <1>7, <3>2
      <4> QED
        BY <4>2, <4>3
    <3>3. i \in 1 .. n \/ i = n + 1
      BY <1>4
    <3> QED
      BY <3>1, <3>2, <3>3
  <2>9. ASSUME NEW i \in 0 .. n + 1, NEW j \in 0 .. n + 1, i <= j
        PROVE  new[i] <= new[j]
    <3>1. CASE j \in 0 .. n
      <4>1. i \in 0 .. n
        BY <1>4, <2>9, <3>1
      <4> QED
        BY <2>3, <2>5, <2>9, <3>1, <4>1
    <3>2. CASE j = n + 1 /\ i \in 0 .. n
      BY <1>2, <2>2, <2>4, <2>5, <3>2
    <3>3. CASE j = n + 1 /\ i = n + 1
      BY <1>2, <2>4, <2>5, <3>3
    <3> QED
      BY <2>5, <3>1, <3>2, <3>3
  <2>10. RunningTotals(r, new)
    BY <1>6, <1>7, <2>5, <2>7, <2>8, <2>9 DEF RunningTotals
  <2> QED
    BY <1>7, <2>6, <2>10 DEF Accounted
<1>12. InLimits(r)
  <2>1. r.active = q.active
    BY <1>6
  <2>2. CountedCount(r) = CountedCount(q) + 1
    <3>1. Len(r.pending) = Len(q.pending) + 1 /\ Len(q.pending) \in Nat
      BY <1>4, <1>7
    <3> HIDE DEF n
    <3>2. CASE HasActive(q)
      BY <2>1, <3>1, <3>2 DEF CountedCount, HasActive
    <3>3. CASE ~HasActive(q)
      BY <2>1, <3>1, <3>3 DEF CountedCount, HasActive
    <3> QED
      BY <3>2, <3>3
  <2>3. q.active.bytes \in Nat
    BY <1>1, QueueFacts
  <2>4. CountedBytes(r) = CountedBytes(q) + bytes
    <3>1. r.pendingBytes = q.pendingBytes + bytes
      BY <1>6
    <3> QED
      BY <1>3, <2>1, <2>3, <3>1 DEF CountedBytes
  <2> QED
    BY <1>6, <2>2, <2>4 DEF InLimits
<1> QED
  BY <1>8, <1>9, <1>10, <1>11, <1>12 DEF Sound, r

-----------------------------------------------------------------------------
\* Taking the k-th request out of the pending ones, as activateNext (k = 1) and
\* cancelPending do: what is left is in order and accounted for.
LEMMA RemovalFacts ==
    ASSUME NEW G, NEW q \in QueuesIn(G), NEW pending, NEW k \in 1 .. Len(q.pending),
           Len(pending) = Len(q.pending) - 1,
           \A i \in 1 .. Len(q.pending) - 1 :
               pending[i] = IF i < k THEN q.pending[i] ELSE q.pending[i + 1]
    PROVE  /\ \A i \in 1 .. Len(pending) : \E j \in 1 .. Len(q.pending) :
                  pending[i] = q.pending[j]
           /\ InOrder(q) => \A i, j \in 1 .. Len(pending) :
                  i < j => pending[i].id < pending[j].id
<1> DEFINE n == Len(q.pending)
<1>1. n \in Nat /\ DOMAIN q.pending = 1 .. n
  BY QueueFacts
<1> HIDE DEF n
<1>2. \A i \in 1 .. n - 1 : i \in 1 .. n /\ i + 1 \in 1 .. n
  BY <1>1
<1>3. Len(pending) = n - 1
  BY DEF n
<1>4. \A i \in 1 .. n - 1 : pending[i] = IF i < k THEN q.pending[i] ELSE q.pending[i + 1]
  BY DEF n
<1>5. \A i \in 1 .. n - 1 : \E j \in 1 .. n : pending[i] = q.pending[j]
  BY <1>2, <1>4
<1>6. ASSUME InOrder(q), NEW i \in 1 .. n - 1, NEW j \in 1 .. n - 1, i < j
      PROVE  pending[i].id < pending[j].id
  <2>1. \A x, y \in 1 .. n : x < y => q.pending[x].id < q.pending[y].id
    BY <1>1, <1>6 DEF InOrder
  <2>2. k \in Int
    BY <1>1 DEF n
  <2>3. PICK x \in 1 .. n, y \in 1 .. n :
             x < y /\ pending[i] = q.pending[x] /\ pending[j] = q.pending[y]
    <3>1. CASE i < k /\ j < k
      BY <1>2, <1>4, <1>6, <3>1
    <3>2. CASE i < k /\ ~(j < k)
      <4>1. i < j + 1
        BY <1>1, <1>6
      <4> QED
        BY <1>2, <1>4, <3>2, <4>1
    <3>3. CASE ~(i < k)
      <4>1. ~(j < k) /\ i + 1 < j + 1
        BY <1>1, <1>6, <2>2, <3>3
      <4> QED
        BY <1>2, <1>4, <3>3, <4>1
    <3> QED
      BY <3>1, <3>2, <3>3
  <2> QED
    BY <2>1, <2>3
<1>7. InOrder(q) => \A i, j \in 1 .. n - 1 : i < j => pending[i].id < pending[j].id
  BY <1>6
<1> QED
  BY <1>3, <1>5, <1>7 DEF n

LEMMA RemovalAccounted ==
    ASSUME NEW G, NEW q \in QueuesIn(G), NEW r, NEW k \in 1 .. Len(q.pending),
           Accounted(q),
           Len(r.pending) = Len(q.pending) - 1,
           \A i \in 1 .. Len(q.pending) - 1 :
               r.pending[i] = IF i < k THEN q.pending[i] ELSE q.pending[i + 1],
           r.pendingBytes = q.pendingBytes - q.pending[k].bytes
    PROVE  Accounted(r)
<1> DEFINE n == Len(q.pending)
           b == q.pending[k].bytes
           P == q.pendingBytes
<1>1. PICK total \in [0 .. n -> 0 .. P] : RunningTotals(q, total)
  BY DEF Accounted
<1>2. n \in Nat /\ k \in 1 .. n
  BY QueueFacts
<1>3. b \in Nat \ {0} /\ P \in Int
  BY QueueFacts DEF QueuesIn
<1>4. /\ total[0] = 0
      /\ \A i \in 1 .. n : total[i] = total[i - 1] + q.pending[i].bytes
      /\ \A i, j \in 0 .. n : i <= j => total[i] <= total[j]
      /\ total[n] = P
  BY <1>1 DEF RunningTotals
<1>5. /\ Len(r.pending) = n - 1
      /\ \A i \in 1 .. n - 1 :
             r.pending[i] = IF i < k THEN q.pending[i] ELSE q.pending[i + 1]
      /\ r.pendingBytes = P - b
  OBVIOUS
<1>6. total[k] = total[k - 1] + b
  BY <1>2, <1>4
<1>7. \A i \in 0 .. n : total[i] \in Nat
  BY <1>1
<1> DEFINE new == [i \in 0 .. n - 1 |-> IF i < k THEN total[i] ELSE total[i + 1] - b]
<1> HIDE DEF n, b, P
<1>8. \A i \in 0 .. n - 1 :
         /\ i < k => new[i] = total[i]
         /\ ~(i < k) => new[i] = total[i + 1] - b
  OBVIOUS
<1>0. (\A i \in 0 .. n - 1 : new[i] \in 0 .. P - b) => new \in [0 .. n - 1 -> 0 .. P - b]
  OBVIOUS
<1> HIDE DEF new
<1>9. \A i \in 0 .. n - 1 : i \in 0 .. n /\ i + 1 \in 0 .. n
  BY <1>2
<1>10. k \in 0 .. n /\ k - 1 \in 0 .. n /\ k - 1 \in 0 .. n - 1
  BY <1>2
<1>11. \A i \in 0 .. n - 1 : new[i] \in Int
  BY <1>3, <1>7, <1>8, <1>9
<1>12. \A i, j \in 0 .. n - 1 : i <= j => new[i] <= new[j]
  <2>1. ASSUME NEW i \in 0 .. n - 1, NEW j \in 0 .. n - 1, i <= j
        PROVE  new[i] <= new[j]
    <3>1. CASE i < k /\ j < k
      BY <1>4, <1>8, <1>9, <2>1, <3>1
    <3>2. CASE i < k /\ ~(j < k)
      <4>1. i <= k - 1 /\ k <= j + 1
        BY <1>2, <3>2
      <4>2. total[i] <= total[k - 1] /\ total[k] <= total[j + 1]
        BY <1>4, <1>9, <1>10, <4>1
      <4>3. /\ total[i] \in Int /\ total[k - 1] \in Int
            /\ total[k] \in Int /\ total[j + 1] \in Int
        BY <1>7, <1>9, <1>10
      <4>4. new[i] = total[i] /\ new[j] = total[j + 1] - b
        BY <1>8, <3>2
      <4>5. total[k] - b = total[k - 1]
        BY <1>3, <1>6, <4>3
      <4>6. total[k] - b <= total[j + 1] - b
        BY <1>3, <4>2, <4>3
      <4> HIDE DEF b
      <4> QED
        BY <4>2, <4>3, <4>4, <4>5, <4>6, <1>3, SMTT(30)
    <3>3. CASE ~(i < k)
      <4>1. ~(j < k) /\ i + 1 <= j + 1
        BY <1>2, <2>1, <3>3
      <4>2. total[i + 1] <= total[j + 1] /\ total[i + 1] \in Int /\ total[j + 1] \in Int
        <5>1. i + 1 \in 0 .. n /\ j + 1 \in 0 .. n
          BY <1>9
        <5> QED
          BY <1>4, <1>7, <4>1, <5>1
      <4>3. new[i] = total[i + 1] - b /\ new[j] = total[j + 1] - b
        BY <1>8, <3>3, <4>1
      <4> QED
        BY <1>3, <4>2, <4>3
    <3> QED
      BY <3>1, <3>2, <3>3
  <2> QED
    BY <2>1
<1>13. new[0] = 0 /\ 0 \in 0 .. n - 1
  <2>1. 0 \in 0 .. n - 1 /\ 0 < k
    BY <1>2
  <2> QED
    BY <1>4, <1>8, <2>1
<1>14. new[n - 1] = P - b /\ n - 1 \in 0 .. n - 1
  <2>1. n - 1 \in 0 .. n - 1
    BY <1>2
  <2>2. CASE k = n
    <3>1. n - 1 < k /\ total[n] \in Int /\ total[n - 1] \in Int
      BY <1>2, <1>7, <1>9, <1>10, <2>2
    <3>2. new[n - 1] = total[n - 1]
      BY <1>8, <2>1, <3>1
    <3>3. P = total[n - 1] + b
      BY <1>4, <1>6, <2>2
    <3> QED
      BY <1>3, <2>1, <3>1, <3>2, <3>3
  <2>3. CASE k # n
    <3>1. ~(n - 1 < k) /\ (n - 1) + 1 = n
      BY <1>2, <2>3
    <3> QED
      BY <1>4, <1>8, <2>1, <3>1
  <2> QED
    BY <2>1, <2>2, <2>3
<1>15. new \in [0 .. n - 1 -> 0 .. P - b]
  <2>1. \A i \in 0 .. n - 1 : 0 <= i /\ i <= n - 1
    BY <1>2
  <2>2. \A i \in 0 .. n - 1 : 0 <= new[i] /\ new[i] <= P - b
    BY <1>12, <1>13, <1>14, <2>1
  <2>3. \A i \in 0 .. n - 1 : new[i] \in 0 .. P - b
    BY <1>3, <1>11, <2>2
  <2> QED
    BY <1>0, <2>3
<1>16. ASSUME NEW i \in 1 .. n - 1
       PROVE  new[i] = new[i - 1] + r.pending[i].bytes
  <2>1. i \in 1 .. n /\ i + 1 \in 1 .. n /\ i \in 0 .. n - 1 /\ i - 1 \in 0 .. n - 1
    <3>1. i \in Int /\ 1 <= i /\ i <= n - 1
      BY <1>2
    <3> QED
      BY <1>2, <3>1
  <2>2. /\ total[i - 1] \in Int /\ total[i] \in Int /\ total[i + 1] \in Int
    BY <1>7, <1>9, <2>1
  <2>3. /\ total[i] = total[i - 1] + q.pending[i].bytes
        /\ total[i + 1] = total[i] + q.pending[i + 1].bytes
    <3>1. (i + 1) - 1 = i
      BY <1>2
    <3> QED
      BY <1>4, <2>1, <3>1
  <2>4. /\ q.pending[i].bytes \in Int /\ q.pending[i + 1].bytes \in Int
    BY <2>1, QueueFacts DEF n
  <2>5. CASE i < k
    <3>1. i - 1 < k
      BY <1>2, <2>5
    <3>2. new[i] = total[i] /\ new[i - 1] = total[i - 1] /\ r.pending[i] = q.pending[i]
      BY <1>5, <1>8, <2>1, <2>5, <3>1
    <3> QED
      BY <2>3, <3>2
  <2>6. CASE i = k
    <3>1. i - 1 < k /\ ~(i < k)
      BY <1>2, <2>6
    <3>2. /\ new[i] = total[i + 1] - b
          /\ new[i - 1] = total[i - 1]
          /\ r.pending[i] = q.pending[i + 1]
      BY <1>5, <1>8, <2>1, <3>1
    <3>3. total[i] = total[i - 1] + b
      BY <1>6, <2>6
    <3>4. total[i + 1] - b = total[i - 1] + q.pending[i + 1].bytes
      <4> DEFINE x == total[i - 1]
                 y == total[i]
                 z == total[i + 1]
                 c == q.pending[i + 1].bytes
      <4>1. x \in Int /\ y \in Int /\ z \in Int /\ c \in Int
        BY <2>2, <2>4
      <4>2. y = x + b /\ z = y + c
        BY <2>3, <3>3
      <4> HIDE DEF x, y, z, c
      <4>3. z - b = x + c
        BY <1>3, <4>1, <4>2
      <4> QED
        BY <4>3 DEF x, y, z, c
    <3> QED
      BY <3>2, <3>4
  <2>7. CASE k < i
    <3>1. ~(i - 1 < k) /\ ~(i < k) /\ (i - 1) + 1 = i
      BY <1>2, <2>7
    <3>2. /\ new[i] = total[i + 1] - b
          /\ new[i - 1] = total[i] - b
          /\ r.pending[i] = q.pending[i + 1]
      BY <1>5, <1>8, <2>1, <3>1
    <3>3. total[i + 1] - b = (total[i] - b) + q.pending[i + 1].bytes
      BY <1>3, <2>2, <2>3, <2>4, SMTT(30)
    <3> QED
      BY <3>2, <3>3
  <2>8. i < k \/ i = k \/ k < i
    BY <1>2
  <2> QED
    BY <2>5, <2>6, <2>7, <2>8
<1>17. RunningTotals(r, new)
  BY <1>5, <1>12, <1>13, <1>14, <1>16 DEF RunningTotals
<1> QED
  BY <1>5, <1>15, <1>17 DEF Accounted

-----------------------------------------------------------------------------
\* activateNext: the oldest pending request becomes the active one, and stays
\* counted.
LEMMA ActivateNextSound ==
    ASSUME NEW G, NEW q, Sound(q, G), CanActivate(q)
    PROVE  Sound(ActivateNext(q), G)
<1> USE QueueConstants
<1> DEFINE r == ActivateNext(q)
           n == Len(q.pending)
           head == q.pending[1]
<1>1. q \in QueuesIn(G)
  BY DEF Sound
<1>2. n \in Nat /\ n >= 1 /\ DOMAIN q.pending = 1 .. n /\ q.pending \in Seq(RequestsIn(G))
  <2>1. q.pending \in Seq(RequestsIn(G)) /\ q.pending # << >>
    BY <1>1 DEF QueuesIn, CanActivate
  <2> QED
    BY <2>1, EmptySeq, LenProperties
<1>3. /\ head \in RequestsIn(G)
      /\ head.id \in 1 .. MaxRequestId
      /\ head.bytes \in Nat \ {0}
      /\ q.active = NoRequest
      /\ q.active.bytes = 0
  <2>1. 1 \in 1 .. n
    BY <1>2
  <2>2. /\ head \in RequestsIn(G)
        /\ head.id \in 1 .. MaxRequestId
        /\ head.bytes \in Nat \ {0}
    BY <1>1, <2>1, QueueFacts
  <2>3. q.active = NoRequest /\ q.active.bytes = 0
    BY <1>1, QueueFacts DEF CanActivate
  <2> QED
    BY <2>2, <2>3
<1>4. /\ Tail(q.pending) \in Seq(RequestsIn(G))
      /\ Len(Tail(q.pending)) = n - 1
      /\ \A i \in 1 .. n - 1 : Tail(q.pending)[i] = q.pending[i + 1]
      /\ Head(q.pending) = head
  <2>1. q.pending # << >>
    BY DEF CanActivate
  <2>2. Head(q.pending) = head /\ Tail(q.pending) \in Seq(RequestsIn(G))
        /\ Len(Tail(q.pending)) = n - 1
    BY <1>2, <2>1, HeadTailProperties
  <2>3. \A i \in 1 .. n - 1 : Tail(q.pending)[i] = q.pending[i + 1]
    BY <1>2, <2>1, <2>2, HeadTailProperties
  <2> QED
    BY <2>2, <2>3
<1> DEFINE s == [q EXCEPT !.pending = Tail(@), !.pendingBytes = @ - Head(q.pending).bytes]
<1>5. r = [s EXCEPT !.active = Head(q.pending)]
  BY DEF ActivateNext
<1>6. /\ s \in QueuesIn(G)
      /\ s.pending = Tail(q.pending)
      /\ s.pendingBytes = q.pendingBytes - head.bytes
      /\ s.generation = q.generation
      /\ s.nextRequestId = q.nextRequestId
      /\ s.highWaterCount = q.highWaterCount
      /\ s.highWaterBytes = q.highWaterBytes
  <2>1. q.pendingBytes - Head(q.pending).bytes \in Int
    BY <1>1, <1>3, <1>4 DEF QueuesIn
  <2> HIDE DEF head
  <2> QED
    BY <1>1, <1>4, <2>1 DEF QueuesIn
<1> HIDE DEF s, r, head
<1>7. /\ r \in QueuesIn(G)
      /\ r.pending = s.pending
      /\ r.pendingBytes = s.pendingBytes
      /\ r.generation = s.generation
      /\ r.nextRequestId = s.nextRequestId
      /\ r.highWaterCount = s.highWaterCount
      /\ r.highWaterBytes = s.highWaterBytes
      /\ r.active = head
  BY <1>3, <1>4, <1>5, <1>6 DEF QueuesIn
<1>8. /\ Len(r.pending) = n - 1
      /\ DOMAIN r.pending = 1 .. n - 1
      /\ \A i \in 1 .. n - 1 : r.pending[i] = q.pending[i + 1]
  <2>1. r.pending = Tail(q.pending)
    BY <1>6, <1>7
  <2> QED
    BY <1>4, <2>1, LenProperties
<1>9. \A i \in 1 .. n - 1 : i + 1 \in 1 .. n /\ 1 < i + 1 /\ ~(i < 1)
  BY <1>2
<1>10. 1 \in 1 .. n
  BY <1>2
<1>11. \A i \in 1 .. n - 1 : r.pending[i] = IF i < 1 THEN q.pending[i] ELSE q.pending[i + 1]
  BY <1>8, <1>9
<1>12. InOrder(r)
  <2>1. /\ \A i, j \in 1 .. n : i < j => q.pending[i].id < q.pending[j].id
        /\ q.nextRequestId # Unassigned =>
               \A i \in 1 .. n : q.pending[i].id < q.nextRequestId
    BY <1>2 DEF Sound, InOrder
  <2>2. \A i, j \in 1 .. n - 1 : i < j => r.pending[i].id < r.pending[j].id
    <3>1. InOrder(q)
      BY DEF Sound
    <3> QED
      BY <1>1, <1>8, <1>10, <1>11, <3>1, RemovalFacts
  <2>3. \A i \in 1 .. n - 1 : r.active.id < r.pending[i].id
    BY <1>7, <1>8, <1>9, <1>10, <2>1 DEF head
  <2>4. r.nextRequestId # Unassigned =>
            /\ r.active.id < r.nextRequestId
            /\ \A i \in 1 .. n - 1 : r.pending[i].id < r.nextRequestId
    <3>1. r.nextRequestId = q.nextRequestId
      BY <1>6, <1>7
    <3> QED
      BY <1>7, <1>8, <1>9, <1>10, <2>1, <3>1 DEF head
  <2> QED
    BY <1>8, <2>2, <2>3, <2>4 DEF InOrder
<1>13. InOneGeneration(r)
  <2>1. \A i \in 1 .. n : q.pending[i].generation = q.generation
    BY <1>2 DEF Sound, InOneGeneration
  <2>2. r.generation = q.generation
    BY <1>6, <1>7
  <2> QED
    BY <1>7, <1>8, <1>9, <1>10, <2>1, <2>2, SMTT(30) DEF InOneGeneration, head
<1>14. Accounted(r)
  <2>1. Accounted(q)
    BY DEF Sound
  <2>2. r.pendingBytes = q.pendingBytes - q.pending[1].bytes
    BY <1>6, <1>7 DEF head
  <2> QED
    BY <1>1, <1>8, <1>10, <1>11, <2>1, <2>2, RemovalAccounted
<1>15. InLimits(r)
  <2>1. HasActive(r) /\ ~HasActive(q)
    BY <1>3, <1>7 DEF HasActive, NoRequest, Unassigned
  <2>2. CountedCount(r) = CountedCount(q)
    BY <1>2, <1>8, <2>1 DEF CountedCount
  <2>3. CountedBytes(r) = CountedBytes(q)
    <3>1. q.pendingBytes \in Int /\ r.pendingBytes = q.pendingBytes - head.bytes
      BY <1>1, <1>6, <1>7 DEF QueuesIn
    <3> QED
      BY <1>3, <1>7, <3>1 DEF CountedBytes
  <2>4. InLimits(q)
    BY DEF Sound
  <2> QED
    BY <1>6, <1>7, <2>2, <2>3, <2>4 DEF InLimits
<1> QED
  BY <1>7, <1>12, <1>13, <1>14, <1>15 DEF Sound, r

\* cancelPending: the ids rise, so exactly one pending request has the id, and the rest
\* stays as it was.
WithoutPending(q, k) ==
    [q EXCEPT !.pending = RemoveAt(@, k), !.pendingBytes = @ - q.pending[k].bytes]

LEMMA CancelledIndex ==
    ASSUME NEW G, NEW q, Sound(q, G), NEW id, IsPending(q, id)
    PROVE  \E k \in 1 .. Len(q.pending) :
               /\ q.pending[k].id = id
               /\ CancelPending(q, id) = WithoutPending(q, k)
<1> DEFINE k == CHOOSE i \in PendingIndices(q, id) : \A j \in PendingIndices(q, id) : i <= j
<1>1. DOMAIN q.pending = 1 .. Len(q.pending) /\ Len(q.pending) \in Nat
  BY QueueFacts DEF Sound
<1>2. PICK i \in PendingIndices(q, id) : TRUE
  BY DEF IsPending
<1>3. i \in 1 .. Len(q.pending) /\ q.pending[i].id = id
  BY <1>1 DEF PendingIndices
<1>4. \A j \in PendingIndices(q, id) : i <= j
  <2>1. ASSUME NEW j \in PendingIndices(q, id), j < i
        PROVE  FALSE
    <3>1. j \in 1 .. Len(q.pending) /\ q.pending[j].id = id
      BY <1>1 DEF PendingIndices
    <3>2. q.pending[j].id < q.pending[i].id
      BY <1>1, <1>3, <2>1, <3>1 DEF Sound, InOrder
    <3>3. q.pending[i].id \in Int
      BY <1>3, QueueFacts DEF Sound
    <3> QED
      BY <1>3, <3>1, <3>2, <3>3
  <2>2. \A j \in PendingIndices(q, id) : j \in Int
    BY <1>1 DEF PendingIndices
  <2> QED
    BY <1>3, <2>1, <2>2
<1>5. k \in PendingIndices(q, id)
  BY <1>4
<1>6. k \in 1 .. Len(q.pending) /\ q.pending[k].id = id
  BY <1>1, <1>5 DEF PendingIndices
<1>7. CancelPending(q, id) = WithoutPending(q, k)
  BY DEF CancelPending, WithoutPending
<1> QED
  BY <1>6, <1>7

LEMMA CancelPendingSound ==
    ASSUME NEW G, NEW q, Sound(q, G), NEW id, IsPending(q, id)
    PROVE  Sound(CancelPending(q, id), G)
<1> USE QueueConstants
<1> DEFINE r == CancelPending(q, id)
           n == Len(q.pending)
<1>1. q \in QueuesIn(G)
  BY DEF Sound
<1>2. PICK k \in 1 .. Len(q.pending) : CancelPending(q, id) = WithoutPending(q, k)
  <2> HIDE DEF r, n
  <2> QED
    BY CancelledIndex
<1>3. /\ n \in Nat
      /\ DOMAIN q.pending = 1 .. n
      /\ q.pending \in Seq(RequestsIn(G))
      /\ q.pending[k].bytes \in Nat \ {0}
      /\ q.pendingBytes \in Int
  BY <1>1, QueueFacts DEF QueuesIn
<1>4. /\ RemoveAt(q.pending, k) \in Seq(RequestsIn(G))
      /\ Len(RemoveAt(q.pending, k)) = n - 1
      /\ \A i \in 1 .. n - 1 : RemoveAt(q.pending, k)[i] =
             IF i < k THEN q.pending[i] ELSE q.pending[i + 1]
  BY <1>3, RemoveAtProperties
<1> HIDE DEF r
<1>5. /\ r \in QueuesIn(G)
      /\ r.pending = RemoveAt(q.pending, k)
      /\ r.pendingBytes = q.pendingBytes - q.pending[k].bytes
      /\ r.generation = q.generation
      /\ r.nextRequestId = q.nextRequestId
      /\ r.active = q.active
      /\ r.highWaterCount = q.highWaterCount
      /\ r.highWaterBytes = q.highWaterBytes
  <2> DEFINE pending == RemoveAt(q.pending, k)
             bytes == q.pendingBytes - q.pending[k].bytes
  <2>1. bytes \in Int /\ pending \in Seq(RequestsIn(G))
    BY <1>3, <1>4
  <2>2. r = [q EXCEPT !.pending = pending, !.pendingBytes = bytes]
    BY <1>2 DEF r, WithoutPending
  <2> HIDE DEF pending, bytes
  <2>3. /\ r \in QueuesIn(G)
        /\ r.pending = pending
        /\ r.pendingBytes = bytes
        /\ r.generation = q.generation
        /\ r.nextRequestId = q.nextRequestId
        /\ r.active = q.active
        /\ r.highWaterCount = q.highWaterCount
        /\ r.highWaterBytes = q.highWaterBytes
    BY <1>1, <2>1, <2>2 DEF QueuesIn
  <2> QED
    BY <2>3 DEF pending, bytes
<1>6. /\ Len(r.pending) = n - 1
      /\ DOMAIN r.pending = 1 .. n - 1
      /\ \A i \in 1 .. n - 1 :
             r.pending[i] = IF i < k THEN q.pending[i] ELSE q.pending[i + 1]
  BY <1>4, <1>5, LenProperties
<1>7. \A i \in 1 .. n - 1 : \E j \in 1 .. n : r.pending[i] = q.pending[j]
  BY <1>1, <1>6, RemovalFacts
<1>8. InOrder(r)
  <2>1. InOrder(q)
    BY DEF Sound
  <2>2. \A i, j \in 1 .. n - 1 : i < j => r.pending[i].id < r.pending[j].id
    BY <1>1, <1>6, <2>1, RemovalFacts
  <2> QED
    BY <1>3, <1>5, <1>6, <1>7, <2>1, <2>2 DEF InOrder
<1>9. InOneGeneration(r)
  <2>1. /\ \A i \in 1 .. n : q.pending[i].generation = q.generation
        /\ HasActive(q) => q.active.generation = q.generation
    BY <1>3 DEF Sound, InOneGeneration
  <2>2. \A i \in DOMAIN r.pending : r.pending[i].generation = r.generation
    BY <1>5, <1>6, <1>7, <2>1
  <2>3. HasActive(r) => r.active.generation = r.generation
    BY <1>5, <2>1 DEF HasActive
  <2> QED
    BY <2>2, <2>3 DEF InOneGeneration
<1>10. Accounted(r)
  <2>1. Accounted(q)
    BY DEF Sound
  <2> QED
    BY <1>1, <1>5, <1>6, <2>1, RemovalAccounted
<1>11. InLimits(r)
  <2>1. InLimits(q) /\ q.active.bytes \in Nat
    BY <1>1, QueueFacts DEF Sound
  <2>2. /\ q.highWaterCount \in Int /\ q.highWaterBytes \in Int
    BY <1>1 DEF QueuesIn
  <2>3. CountedCount(r) <= q.highWaterCount
    <3>1. HasActive(r) = HasActive(q)
      BY <1>5 DEF HasActive
    <3>2. CountedCount(q) <= q.highWaterCount
      BY <2>1 DEF InLimits
    <3>3. CASE HasActive(q)
      BY <1>3, <1>5, <1>6, <2>2, <3>2, <3>3 DEF CountedCount, HasActive
    <3>4. CASE ~HasActive(q)
      BY <1>3, <1>5, <1>6, <2>2, <3>2, <3>4 DEF CountedCount, HasActive
    <3> QED
      BY <3>3, <3>4
  <2>4. CountedBytes(r) <= q.highWaterBytes
    <3>1. q.pendingBytes + q.active.bytes <= q.highWaterBytes
      BY <2>1 DEF InLimits, CountedBytes
    <3>2. CountedBytes(r) = (q.pendingBytes - q.pending[k].bytes) + q.active.bytes
      BY <1>5 DEF CountedBytes
    <3> QED
      BY <1>3, <2>1, <2>2, <3>1, <3>2
  <2> QED
    BY <1>5, <2>1, <2>3, <2>4 DEF InLimits
<1> QED
  BY <1>5, <1>8, <1>9, <1>10, <1>11 DEF Sound, r

\* cancelAllPending: only the active request is left counted.
LEMMA CancelAllPendingSound ==
    ASSUME NEW G, NEW q, Sound(q, G)
    PROVE  Sound(CancelAllPending(q), G)
<1> USE QueueConstants
<1> DEFINE r == CancelAllPending(q)
<1>1. q \in QueuesIn(G)
  BY DEF Sound
<1>2. /\ r \in QueuesIn(G)
      /\ r.pending = << >>
      /\ r.pendingBytes = 0
      /\ r.generation = q.generation
      /\ r.nextRequestId = q.nextRequestId
      /\ r.active = q.active
      /\ r.highWaterCount = q.highWaterCount
      /\ r.highWaterBytes = q.highWaterBytes
  <2>1. << >> \in Seq(RequestsIn(G))
    BY EmptySeq
  <2> DEFINE s == [q EXCEPT !.pending = << >>]
  <2>2. /\ s \in QueuesIn(G)
        /\ s.pending = << >>
        /\ s.generation = q.generation
        /\ s.nextRequestId = q.nextRequestId
        /\ s.active = q.active
        /\ s.highWaterCount = q.highWaterCount
        /\ s.highWaterBytes = q.highWaterBytes
    BY <1>1, <2>1 DEF QueuesIn
  <2>3. r = [s EXCEPT !.pendingBytes = 0]
    BY DEF CancelAllPending
  <2> HIDE DEF r, s
  <2> QED
    BY <2>2, <2>3 DEF QueuesIn
<1> HIDE DEF r
<1>3. Len(r.pending) = 0 /\ DOMAIN r.pending = {}
  BY <1>2
<1>4. Len(q.pending) \in Nat /\ q.active.bytes \in Nat
  BY <1>1, QueueFacts
<1>5. q.pendingBytes \in Nat
  <2>1. PICK total \in [0 .. Len(q.pending) -> 0 .. q.pendingBytes] : RunningTotals(q, total)
    BY DEF Sound, Accounted
  <2>2. total[0] \in 0 .. q.pendingBytes /\ q.pendingBytes \in Int
    BY <1>1, <1>4, <2>1 DEF QueuesIn
  <2> QED
    BY <2>2
<1>6. InOrder(r)
  BY <1>2, <1>3 DEF Sound, InOrder
<1>7. InOneGeneration(r)
  BY <1>2, <1>3 DEF Sound, InOneGeneration, HasActive
<1>8. Accounted(r)
  <2> DEFINE total == [i \in 0 .. 0 |-> 0]
  <2>1. total \in [0 .. 0 -> 0 .. 0]
    OBVIOUS
  <2>2. RunningTotals(r, total)
    BY <1>2, <1>3 DEF RunningTotals
  <2> HIDE DEF total
  <2> QED
    BY <1>2, <1>3, <2>1, <2>2 DEF Accounted
<1>9. InLimits(r)
  <2>1. /\ CountedCount(q) <= q.highWaterCount
        /\ q.highWaterCount <= RequestCapacity
        /\ CountedBytes(q) <= q.highWaterBytes
        /\ q.highWaterBytes <= ByteCapacity
    BY DEF Sound, InLimits
  <2>2. q.highWaterCount \in Int /\ q.highWaterBytes \in Int
    BY <1>1 DEF QueuesIn
  <2>3. CountedCount(r) <= q.highWaterCount
    <3>1. CASE HasActive(q)
      BY <1>2, <1>3, <1>4, <2>1, <2>2, <3>1 DEF CountedCount, HasActive
    <3>2. CASE ~HasActive(q)
      BY <1>2, <1>3, <1>4, <2>1, <2>2, <3>2 DEF CountedCount, HasActive
    <3> QED
      BY <3>1, <3>2
  <2>4. CountedBytes(r) <= q.highWaterBytes
    BY <1>2, <1>4, <1>5, <2>1, <2>2 DEF CountedBytes
  <2> QED
    BY <1>2, <2>1, <2>3, <2>4 DEF InLimits
<1> QED
  BY <1>2, <1>6, <1>7, <1>8, <1>9 DEF Sound, r

\* completeActive: the reservation is released.
LEMMA CompleteActiveSound ==
    ASSUME NEW G, NEW q, Sound(q, G), HasActive(q)
    PROVE  Sound(CompleteActive(q), G)
<1> USE QueueConstants
<1> DEFINE r == CompleteActive(q)
<1>1. q \in QueuesIn(G)
  BY DEF Sound
<1>2. /\ r \in QueuesIn(G)
      /\ r.pending = q.pending
      /\ r.pendingBytes = q.pendingBytes
      /\ r.generation = q.generation
      /\ r.nextRequestId = q.nextRequestId
      /\ r.active = NoRequest
      /\ r.highWaterCount = q.highWaterCount
      /\ r.highWaterBytes = q.highWaterBytes
  BY <1>1 DEF CompleteActive, QueuesIn
<1> HIDE DEF r
<1>3. /\ Len(q.pending) \in Nat
      /\ DOMAIN q.pending = 1 .. Len(q.pending)
      /\ \A i \in 1 .. Len(q.pending) : q.pending[i].id \in 1 .. MaxRequestId
      /\ q.active.bytes \in Nat
  BY <1>1, QueueFacts
<1>4. ~HasActive(r) /\ r.active.id = 0 /\ r.active.bytes = 0
  BY <1>2 DEF HasActive, NoRequest, Unassigned
<1>5. InOrder(r)
  <2>1. /\ \A i, j \in DOMAIN q.pending : i < j => q.pending[i].id < q.pending[j].id
        /\ q.nextRequestId # Unassigned =>
               \A i \in DOMAIN q.pending : q.pending[i].id < q.nextRequestId
    BY DEF Sound, InOrder
  <2>2. \A i \in DOMAIN q.pending : 0 < q.pending[i].id
    BY <1>3
  <2>3. q.nextRequestId # Unassigned => 0 < q.nextRequestId
    BY <1>1 DEF QueuesIn, Unassigned
  <2> QED
    BY <1>2, <1>4, <2>1, <2>2, <2>3 DEF InOrder
<1>6. InOneGeneration(r)
  BY <1>2, <1>4 DEF Sound, InOneGeneration
<1>7. Accounted(r)
  BY <1>2 DEF Sound, Accounted, RunningTotals
<1>8. InLimits(r)
  <2>1. /\ CountedCount(q) <= q.highWaterCount
        /\ q.highWaterCount <= RequestCapacity
        /\ CountedBytes(q) <= q.highWaterBytes
        /\ q.highWaterBytes <= ByteCapacity
    BY DEF Sound, InLimits
  <2>2. /\ q.highWaterCount \in Int
        /\ q.highWaterBytes \in Int
        /\ q.pendingBytes \in Int
    BY <1>1 DEF QueuesIn
  <2>3. CountedCount(r) <= q.highWaterCount
    BY <1>2, <1>3, <1>4, <2>1, <2>2 DEF CountedCount
  <2>4. CountedBytes(r) <= q.highWaterBytes
    BY <1>2, <1>3, <1>4, <2>1, <2>2 DEF CountedBytes
  <2> QED
    BY <1>2, <2>1, <2>3, <2>4 DEF InLimits
<1> QED
  BY <1>2, <1>5, <1>6, <1>7, <1>8 DEF Sound, r

-----------------------------------------------------------------------------
\* Which ids are outstanding after an operation.
LEMMA PendingMeaning ==
    ASSUME NEW G, NEW q \in QueuesIn(G), NEW id
    PROVE  IsPending(q, id) <=> \E i \in 1 .. Len(q.pending) : q.pending[i].id = id
<1>1. DOMAIN q.pending = 1 .. Len(q.pending)
  BY QueueFacts
<1> QED
  BY <1>1 DEF IsPending, PendingIndices

LEMMA PendingIds ==
    ASSUME NEW G, NEW q, Sound(q, G), NEW id, IsPending(q, id)
    PROVE  id \in RequestIds /\ q.active.id # id
<1>1. q \in QueuesIn(G) /\ InOrder(q)
  BY DEF Sound
<1>2. PICK i \in 1 .. Len(q.pending) : q.pending[i].id = id
  BY <1>1, PendingMeaning
<1>3. /\ DOMAIN q.pending = 1 .. Len(q.pending)
      /\ q.pending[i].id \in 1 .. MaxRequestId
      /\ q.active.id \in 0 .. MaxRequestId
  BY <1>1, QueueFacts
<1>4. q.active.id < q.pending[i].id
  BY <1>1, <1>3 DEF InOrder
<1> QED
  BY QueueConstants, <1>2, <1>3, <1>4 DEF RequestIds

LEMMA EnqueueIds ==
    ASSUME NEW G, NEW q, NEW bytes \in Nat, NEW timeoutMs \in Int, NEW g \in G,
           Sound(q, G),
           EnqueueStatus(q, bytes, timeoutMs, g) = "Accepted",
           NEW id
    PROVE  LET r == Enqueue(q, bytes, g)
           IN  /\ IsPending(r, id) <=> IsPending(q, id) \/ id = q.nextRequestId
               /\ r.active = q.active
               /\ r.nextRequestId = NextId(q.nextRequestId)
<1> DEFINE r == Enqueue(q, bytes, g)
           request == [id |-> q.nextRequestId, generation |-> g, bytes |-> bytes]
           n == Len(q.pending)
<1>1. q \in QueuesIn(G) /\ r \in QueuesIn(G)
  BY EnqueueSound DEF Sound
<1>2. n \in Nat /\ q.nextRequestId \in RequestIds /\ bytes \in Nat \ {0}
  BY <1>1, EnqueueGuard, QueueFacts
<1>3. request \in RequestsIn(G) /\ q.pending \in Seq(RequestsIn(G))
  BY <1>1, <1>2 DEF RequestsIn, QueuesIn
<1>4. r.pending = Append(q.pending, request)
  BY DEF Enqueue
<1>5. request.id = q.nextRequestId
  OBVIOUS
<1>6. r.active = q.active /\ r.nextRequestId = NextId(q.nextRequestId)
  BY DEF Enqueue
<1> HIDE DEF r, request
<1>7. /\ Len(r.pending) = n + 1
      /\ \A i \in 1 .. n : r.pending[i] = q.pending[i]
      /\ r.pending[n + 1] = request
  BY <1>3, <1>4, AppendProperties
<1>8. \A i \in 1 .. n + 1 : i \in 1 .. n \/ i = n + 1
  BY <1>2
<1>9. \A i \in 1 .. n : i \in 1 .. n + 1
  BY <1>2
<1>10. n + 1 \in 1 .. n + 1
  BY <1>2
<1>11. (\E i \in 1 .. Len(r.pending) : r.pending[i].id = id) <=>
           (\E i \in 1 .. n : q.pending[i].id = id) \/ id = q.nextRequestId
  <2> HIDE DEF n
  <2> QED
    BY <1>5, <1>7, <1>8, <1>9, <1>10
<1>12. IsPending(r, id) <=> IsPending(q, id) \/ id = q.nextRequestId
  <2>1. IsPending(r, id) <=> \E i \in 1 .. Len(r.pending) : r.pending[i].id = id
    BY <1>1, PendingMeaning
  <2>2. IsPending(q, id) <=> \E i \in 1 .. n : q.pending[i].id = id
    BY <1>1, PendingMeaning
  <2> HIDE DEF n
  <2> QED
    BY <1>11, <2>1, <2>2
<1> QED
  BY <1>6, <1>12 DEF r

LEMMA ActivateNextIds ==
    ASSUME NEW G, NEW q, Sound(q, G), CanActivate(q), NEW id \in RequestIds
    PROVE  LET r == ActivateNext(q)
           IN  /\ IsPending(r, id) \/ r.active.id = id <=> IsPending(q, id) \/ q.active.id = id
               /\ r.nextRequestId = q.nextRequestId
<1> DEFINE r == ActivateNext(q)
           n == Len(q.pending)
<1>1. q \in QueuesIn(G) /\ r \in QueuesIn(G)
  BY ActivateNextSound DEF Sound
<1>2. q.pending \in Seq(RequestsIn(G)) /\ q.pending # << >>
  BY <1>1 DEF QueuesIn, CanActivate
<1>3. n \in Nat /\ n >= 1
  BY <1>2, EmptySeq, LenProperties
<1>4. r.pending = Tail(q.pending) /\ r.active = Head(q.pending)
      /\ r.nextRequestId = q.nextRequestId
  BY <1>1 DEF ActivateNext, QueuesIn
<1>5. q.active.id # id
  BY QueueConstants DEF CanActivate, HasActive, RequestIds, Unassigned
<1> HIDE DEF r
<1>6. /\ Len(r.pending) = n - 1
      /\ \A i \in 1 .. n - 1 : r.pending[i] = q.pending[i + 1]
      /\ r.active = q.pending[1]
  BY <1>2, <1>4, HeadTailProperties
<1>7. IsPending(r, id) <=> \E i \in 1 .. n - 1 : q.pending[i + 1].id = id
  <2>1. IsPending(r, id) <=> \E i \in 1 .. Len(r.pending) : r.pending[i].id = id
    BY <1>1, PendingMeaning
  <2> HIDE DEF n
  <2> QED
    BY <1>6, <2>1
<1>8. IsPending(q, id) <=> \E i \in 1 .. n : q.pending[i].id = id
  BY <1>1, PendingMeaning
<1> HIDE DEF n
<1>9. \A i \in 1 .. n : i = 1 \/ (i - 1 \in 1 .. n - 1 /\ (i - 1) + 1 = i)
  BY <1>3
<1>10. 1 \in 1 .. n /\ \A i \in 1 .. n - 1 : i + 1 \in 1 .. n
  BY <1>3
<1>11. (\E i \in 1 .. n : q.pending[i].id = id) <=>
           (\E i \in 1 .. n - 1 : q.pending[i + 1].id = id) \/ q.pending[1].id = id
  <2>1. ASSUME NEW i \in 1 .. n, q.pending[i].id = id, i # 1
        PROVE  \E j \in 1 .. n - 1 : q.pending[j + 1].id = id
    BY <1>9, <2>1
  <2> QED
    BY <1>10, <2>1
<1> QED
  BY <1>4, <1>5, <1>6, <1>7, <1>8, <1>11 DEF r

LEMMA CancelPendingIds ==
    ASSUME NEW G, NEW q, Sound(q, G), NEW id, IsPending(q, id), NEW x
    PROVE  LET r == CancelPending(q, id)
           IN  /\ IsPending(r, x) <=> IsPending(q, x) /\ x # id
               /\ r.active = q.active
               /\ r.nextRequestId = q.nextRequestId
<1> DEFINE r == CancelPending(q, id)
           n == Len(q.pending)
<1>1. q \in QueuesIn(G) /\ r \in QueuesIn(G)
  <2> HIDE DEF r, n
  <2>1. Sound(CancelPending(q, id), G)
    BY CancelPendingSound
  <2> QED
    BY <2>1 DEF Sound, r
<1>2. PICK k \in 1 .. Len(q.pending) :
          q.pending[k].id = id /\ CancelPending(q, id) = WithoutPending(q, k)
  <2> HIDE DEF r, n
  <2> QED
    BY CancelledIndex
<1>3. r.pending = RemoveAt(q.pending, k) /\ r.active = q.active
      /\ r.nextRequestId = q.nextRequestId
  BY <1>1, <1>2 DEF WithoutPending, QueuesIn
<1> HIDE DEF r
<1>4. /\ n \in Nat
      /\ DOMAIN q.pending = 1 .. n
      /\ q.pending \in Seq(RequestsIn(G))
      /\ \A i \in 1 .. n : q.pending[i].id \in Int
  BY <1>1, QueueFacts DEF QueuesIn
<1>5. /\ Len(r.pending) = n - 1
      /\ \A i \in 1 .. n - 1 :
             r.pending[i] = IF i < k THEN q.pending[i] ELSE q.pending[i + 1]
  BY <1>3, <1>4, RemoveAtProperties
<1>6. \A i \in 1 .. n : i # k => q.pending[i].id # id
  <2>1. \A i, j \in 1 .. n : i < j => q.pending[i].id < q.pending[j].id
    BY <1>4 DEF Sound, InOrder
  <2>2. \A i \in 1 .. n : i # k => i < k \/ k < i
    BY <1>2, <1>4
  <2> QED
    BY <1>2, <1>4, <2>1, <2>2
<1>7. IsPending(r, x) <=> \E i \in 1 .. n - 1 : r.pending[i].id = x
  <2>1. IsPending(r, x) <=> \E i \in 1 .. Len(r.pending) : r.pending[i].id = x
    BY <1>1, PendingMeaning
  <2> HIDE DEF n
  <2> QED
    BY <1>5, <2>1
<1>8. IsPending(q, x) <=> \E i \in 1 .. n : q.pending[i].id = x
  BY <1>1, PendingMeaning
<1>9. k \in 1 .. n
  BY <1>2
<1> HIDE DEF n
<1>10. ASSUME NEW i \in 1 .. n - 1, r.pending[i].id = x
       PROVE  x # id /\ \E j \in 1 .. n : q.pending[j].id = x
  <2>1. i \in 1 .. n /\ i + 1 \in 1 .. n
    BY <1>4
  <2>2. CASE i < k
    <3>1. i # k /\ r.pending[i] = q.pending[i]
      BY <1>4, <1>5, <1>9, <2>2
    <3> QED
      BY <1>6, <1>10, <2>1, <3>1
  <2>3. CASE ~(i < k)
    <3>1. i + 1 # k /\ r.pending[i] = q.pending[i + 1]
      BY <1>4, <1>5, <1>9, <2>3
    <3> QED
      BY <1>6, <1>10, <2>1, <3>1
  <2> QED
    BY <2>2, <2>3
<1>11. ASSUME NEW j \in 1 .. n, q.pending[j].id = x, x # id
       PROVE  \E i \in 1 .. n - 1 : r.pending[i].id = x
  <2>1. j # k
    BY <1>2, <1>11
  <2>2. CASE j < k
    <3>1. j \in 1 .. n - 1
      BY <1>4, <1>9, <2>2
    <3> QED
      BY <1>5, <1>11, <2>2, <3>1
  <2>3. CASE k < j
    <3>1. j - 1 \in 1 .. n - 1 /\ ~(j - 1 < k) /\ (j - 1) + 1 = j
      BY <1>4, <1>9, <2>3
    <3>2. r.pending[j - 1] = q.pending[j]
      BY <1>5, <3>1
    <3> QED
      BY <1>11, <3>1, <3>2
  <2>4. j < k \/ k < j
    BY <1>4, <1>9, <2>1
  <2> QED
    BY <2>2, <2>3, <2>4
<1>12. IsPending(r, x) <=> IsPending(q, x) /\ x # id
  BY <1>7, <1>8, <1>10, <1>11
<1> QED
  BY <1>3, <1>12 DEF r

LEMMA CancelAllPendingIds ==
    ASSUME NEW G, NEW q, Sound(q, G), NEW id
    PROVE  LET r == CancelAllPending(q)
           IN  /\ ~IsPending(r, id)
               /\ r.active = q.active
               /\ r.nextRequestId = q.nextRequestId
<1>1. q \in QueuesIn(G)
  BY DEF Sound
<1>2. CancelAllPending(q).pending = << >>
  BY <1>1 DEF CancelAllPending, QueuesIn
<1> QED
  BY <1>1, <1>2 DEF CancelAllPending, IsPending, PendingIndices, QueuesIn

LEMMA CompleteActiveIds ==
    ASSUME NEW G, NEW q, Sound(q, G), NEW id
    PROVE  LET r == CompleteActive(q)
           IN  /\ IsPending(r, id) <=> IsPending(q, id)
               /\ r.active.id = Unassigned
               /\ r.nextRequestId = q.nextRequestId
<1>1. q \in QueuesIn(G)
  BY DEF Sound
<1>2. CompleteActive(q).pending = q.pending
  BY <1>1 DEF CompleteActive, QueuesIn
<1> QED
  BY <1>1, <1>2 DEF CompleteActive, IsPending, PendingIndices, QueuesIn, NoRequest
=============================================================================
