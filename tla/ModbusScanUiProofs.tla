------------------------- MODULE ModbusScanUiProofs -------------------------
(***************************************************************************)
(* Proofs about the scan thread and the window that runs it: the types, a  *)
(* raw event is in exactly one place until it is stored, and a result is   *)
(* stored, still in its slot, or was dropped for a lost session only.      *)
(*                                                                         *)
(* The three follow from one invariant, Inv.  Its parts say whose the      *)
(* shared variables are at each moment: the port (PortIsTheScans), the     *)
(* result slot (SlotIsTheScans), the messages (QueueIsTheScans) and the    *)
(* raw events (EventsParted).                                              *)
(***************************************************************************)
EXTENDS ModbusScanUi, FiniteSetTheorems, TLAPS

----------------------------------------------------------------------------
(* The invariant.                                                          *)

\* TypeOK, one conjunct for a variable, and the queue as a sequence.
Numbers ==
    /\ session \in [state : {"Closed", "Open", "Faulted"}, gen : 0..MaxGeneration]
    /\ window \in {"alive", "destroyed", "exited"}
    /\ scanGen \in 0..MaxGeneration
    /\ slot \in [scan : 0..MaxScans, gen : 0..MaxGeneration, serialFailed : BOOLEAN]
    /\ pc \in {"scan", "flush", "store", "notify", "ended"}
    /\ scan \in 0..MaxScans /\ gen \in 0..MaxGeneration /\ count \in 0..MaxEvents

Flags ==
    /\ running \in BOOLEAN /\ cancel \in BOOLEAN /\ disconnectAfter \in BOOLEAN
    /\ handle \in BOOLEAN /\ poll \in BOOLEAN /\ reconnect \in BOOLEAN
    /\ serialFailed \in BOOLEAN /\ again \in BOOLEAN
    /\ running = (scanGen # NoGen)

Collections ==
    /\ queue \in Seq(Messages)
    /\ batch \subseteq Events /\ unposted \subseteq Events /\ saved \subseteq Events
    /\ results \subseteq Scans

Typed == Numbers /\ Flags /\ Collections

SessionKnown == session.state # "Closed" => session.gen # NoGen

\* While the thread runs the scan is the window's, and while the scan is, the
\* session it was started on is neither closed nor replaced.
PortIsTheScans ==
    /\ pc # "ended" => running
    /\ running => handle /\ scan # 0
    /\ running /\ window # "exited" =>
         /\ window = "alive"
         /\ scanGen = gen /\ scanGen = session.gen
         /\ session.state # "Closed"

\* A result in the slot is the one of the scan that runs.
SlotIsTheScans ==
    slot # NoResult =>
      /\ running
      /\ pc \in {"notify", "ended"}
      /\ slot = [scan |-> scan, gen |-> gen, serialFailed |-> serialFailed]

\* No batch outlives its scan in the queue.
QueueIsTheScans ==
    window # "exited" =>
      \A i \in DOMAIN queue :
         queue[i].kind = "data" => running /\ queue[i].gen = scanGen

Raised == {e \in Events : e[1] < scan \/ (e[1] = scan /\ e[2] <= count)}

\* No raw event is in two messages.
Apart(messages) ==
    \A i, j \in DOMAIN messages :
       i # j /\ messages[i].kind = "data" /\ messages[j].kind = "data" =>
         messages[i].events \cap messages[j].events = {}

InSomePlace == batch \cup EventsOf(queue) \cup saved \cup unposted

InOnePlace ==
    /\ batch \cap EventsOf(queue) = {}
    /\ batch \cap saved = {}
    /\ batch \cap unposted = {}
    /\ EventsOf(queue) \cap saved = {}
    /\ EventsOf(queue) \cap unposted = {}
    /\ saved \cap unposted = {}

\* The batch, the messages, the store and the unposted batches are disjoint,
\* hold only events that were raised, and all of the last scan's.
EventsParted ==
    window # "exited" =>
      /\ ~again
      /\ pc \in {"store", "notify", "ended"} => batch = {}
      /\ Apart(queue)
      /\ InOnePlace
      /\ InSomePlace \subseteq Raised
      /\ {scan} \X (1..count) \subseteq InSomePlace

ResultKept ==
    window # "exited" =>
      /\ \A d \in dropped : d.state = "Faulted" /\ ~d.result.serialFailed
      /\ scan > 0 /\ pc \in {"notify", "ended"} =>
           \/ slot.scan = scan
           \/ scan \in results
           \/ \E d \in dropped : d.result.scan = scan

Control == SessionKnown /\ PortIsTheScans /\ SlotIsTheScans /\ QueueIsTheScans

Inv == Typed /\ Control /\ EventsParted /\ ResultKept

LEMMA Bounds ==
    /\ MaxScans \in Nat \ {0} /\ MaxGeneration \in Nat \ {0}
    /\ MaxEvents \in Nat \ {0} /\ BatchSize \in Nat \ {0}
BY ScanUiBounds

USE Bounds

----------------------------------------------------------------------------
(* What the queue's operators do to the events in it.                      *)

\* A posted batch adds its events to the queue's.
LEMMA PostedEvents ==
    ASSUME NEW q \in Seq(Messages), NEW m \in Messages, m.kind = "data"
    PROVE  /\ Append(q, m) \in Seq(Messages)
           /\ EventsOf(Append(q, m)) = EventsOf(q) \cup m.events
           /\ Apart(q) /\ EventsOf(q) \cap m.events = {} => Apart(Append(q, m))
<1> DEFINE r == Append(q, m)
<1>1. /\ r \in Seq(Messages) /\ Len(r) = Len(q) + 1 /\ r[Len(q) + 1] = m
      /\ \A i \in 1..Len(q) : r[i] = q[i]
  OBVIOUS
<1>2. DOMAIN q = 1..Len(q) /\ DOMAIN r = 1..(Len(q) + 1) /\ Len(q) \in Nat
  BY <1>1
<1> HIDE DEF r
<1>3. EventsOf(r) = EventsOf(q) \cup m.events
  BY <1>1, <1>2 DEF EventsOf
<1>4. ASSUME Apart(q), EventsOf(q) \cap m.events = {}
      PROVE  Apart(r)
  <2>1. \A i \in 1..Len(q) : q[i].kind = "data" => q[i].events \cap m.events = {}
    BY <1>2, <1>4 DEF EventsOf
  <2> SUFFICES ASSUME NEW i \in 1..(Len(q) + 1), NEW j \in 1..(Len(q) + 1),
                      i # j, r[i].kind = "data", r[j].kind = "data"
               PROVE  r[i].events \cap r[j].events = {}
    BY <1>2 DEF Apart
  <2>2. CASE i \in 1..Len(q) /\ j \in 1..Len(q)
    BY <1>1, <1>2, <1>4, <2>2 DEF Apart
  <2>3. CASE i = Len(q) + 1 /\ j \in 1..Len(q)
    BY <1>1, <2>1, <2>3
  <2>4. CASE j = Len(q) + 1 /\ i \in 1..Len(q)
    BY <1>1, <2>1, <2>4
  <2> QED BY <1>2, <2>2, <2>3, <2>4
<1> QED BY <1>1, <1>3, <1>4 DEF r

\* Done adds none.
LEMMA DoneHasNoEvents ==
    ASSUME NEW q \in Seq(Messages), NEW m \in Messages, m.kind # "data"
    PROVE  /\ Append(q, m) \in Seq(Messages)
           /\ EventsOf(Append(q, m)) = EventsOf(q)
           /\ Apart(q) => Apart(Append(q, m))
<1> DEFINE r == Append(q, m)
<1>1. /\ r \in Seq(Messages) /\ Len(r) = Len(q) + 1 /\ r[Len(q) + 1] = m
      /\ \A i \in 1..Len(q) : r[i] = q[i]
  OBVIOUS
<1>2. DOMAIN q = 1..Len(q) /\ DOMAIN r = 1..(Len(q) + 1) /\ Len(q) \in Nat
  BY <1>1
<1> HIDE DEF r
<1>3. EventsOf(r) = EventsOf(q)
  BY <1>1, <1>2 DEF EventsOf
<1>4. Apart(q) => Apart(r)
  <2> SUFFICES ASSUME Apart(q), NEW i \in 1..(Len(q) + 1), NEW j \in 1..(Len(q) + 1),
                      i # j, r[i].kind = "data", r[j].kind = "data"
               PROVE  r[i].events \cap r[j].events = {}
    BY <1>2 DEF Apart
  <2>1. i \in 1..Len(q) /\ j \in 1..Len(q)
    BY <1>1, <1>2
  <2> QED BY <2>1, <1>1, <1>2 DEF Apart
<1> QED BY <1>1, <1>3, <1>4 DEF r

\* A message that is taken leaves the events of the others.
LEMMA TakenEvents ==
    ASSUME NEW q \in Seq(Messages), q # << >>, Apart(q)
    PROVE  /\ Tail(q) \in Seq(Messages) /\ Head(q) \in Messages
           /\ Apart(Tail(q))
           /\ \A i \in DOMAIN Tail(q) : \E j \in DOMAIN q : Tail(q)[i] = q[j]
           /\ \E j \in DOMAIN q : Head(q) = q[j]
           /\ Head(q).kind # "data" => EventsOf(Tail(q)) = EventsOf(q)
           /\ Head(q).kind = "data" =>
                /\ EventsOf(<<Head(q)>>) = Head(q).events
                /\ EventsOf(q) = EventsOf(Tail(q)) \cup Head(q).events
                /\ EventsOf(Tail(q)) \cap Head(q).events = {}
<1> DEFINE r == Tail(q)
<1>1. /\ Len(q) \in Nat \ {0} /\ DOMAIN q = 1..Len(q) /\ Head(q) = q[1]
      /\ r \in Seq(Messages) /\ Len(r) = Len(q) - 1 /\ DOMAIN r = 1..(Len(q) - 1)
      /\ \A i \in 1..(Len(q) - 1) : r[i] = q[i + 1]
      /\ Head(q) \in Messages
  OBVIOUS
<1> DEFINE h == Head(q)
<1> HIDE DEF r
<1>2. Apart(r)
  <2> SUFFICES ASSUME NEW i \in 1..(Len(q) - 1), NEW j \in 1..(Len(q) - 1),
                      i # j, r[i].kind = "data", r[j].kind = "data"
               PROVE  r[i].events \cap r[j].events = {}
    BY <1>1 DEF Apart
  <2>1. /\ i + 1 \in 1..Len(q) /\ j + 1 \in 1..Len(q) /\ i + 1 # j + 1
        /\ r[i] = q[i + 1] /\ r[j] = q[j + 1]
    BY <1>1
  <2> QED BY <2>1, <1>1 DEF Apart
<1>3. \A i \in 1..Len(q) : i = 1 \/ (i - 1 \in 1..(Len(q) - 1) /\ q[i] = r[i - 1])
  BY <1>1
<1>4. \A i \in 1..(Len(q) - 1) : i + 1 \in 1..Len(q) /\ i + 1 # 1 /\ r[i] = q[i + 1]
  BY <1>1
<1>5. 1 \in 1..Len(q)
  BY <1>1
<1>a. \A e : e \in EventsOf(q) <=>
                \E i \in 1..Len(q) : q[i].kind = "data" /\ e \in q[i].events
  BY <1>1 DEF EventsOf
<1>b. \A e : e \in EventsOf(r) <=>
                \E i \in 1..(Len(q) - 1) : r[i].kind = "data" /\ e \in r[i].events
  BY <1>1 DEF EventsOf
<1>c. \A e : e \in EventsOf(q) <=>
                (h.kind = "data" /\ e \in h.events) \/ e \in EventsOf(r)
  <2>1. ASSUME NEW e, e \in EventsOf(q)
        PROVE  (h.kind = "data" /\ e \in h.events) \/ e \in EventsOf(r)
    <3>1. PICK i \in 1..Len(q) : q[i].kind = "data" /\ e \in q[i].events
      BY <2>1, <1>a
    <3>2. CASE i = 1
      BY <3>1, <3>2, <1>1
    <3>3. CASE i # 1
      BY <3>1, <3>3, <1>3, <1>b
    <3> QED BY <3>2, <3>3
  <2>2. ASSUME NEW e, e \in EventsOf(r)
        PROVE  e \in EventsOf(q)
    BY <2>2, <1>a, <1>b, <1>4
  <2>3. ASSUME NEW e, h.kind = "data", e \in h.events
        PROVE  e \in EventsOf(q)
    BY <2>3, <1>a, <1>5, <1>1
  <2> QED BY <2>1, <2>2, <2>3
<1>d. /\ \A i \in DOMAIN r : \E j \in DOMAIN q : r[i] = q[j]
      /\ \E j \in DOMAIN q : h = q[j]
  BY <1>1, <1>4, <1>5
<1> HIDE DEF h
<1>6. ASSUME h.kind # "data"
      PROVE  EventsOf(r) = EventsOf(q)
  BY <1>6, <1>c
<1>7. ASSUME h.kind = "data"
      PROVE  EventsOf(q) = EventsOf(r) \cup h.events
  BY <1>7, <1>c
<1>8. ASSUME h.kind = "data"
      PROVE  EventsOf(r) \cap h.events = {}
  <2> SUFFICES ASSUME NEW e \in EventsOf(r) PROVE e \notin h.events
    OBVIOUS
  <2>1. PICK i \in 1..(Len(q) - 1) : r[i].kind = "data" /\ e \in r[i].events
    BY <1>b
  <2>2. h = q[1]
    BY <1>1 DEF h
  <2> QED BY <2>1, <2>2, <1>8, <1>1, <1>4, <1>5 DEF Apart
<1>9. ASSUME h.kind = "data"
      PROVE  EventsOf(<<h>>) = h.events
  BY <1>9 DEF EventsOf
<1> QED BY <1>1, <1>2, <1>d, <1>6, <1>7, <1>8, <1>9 DEF r, h

\* What is left when the data messages are taken says Done only.
LEMMA WithoutDataIsDone ==
    ASSUME NEW q \in Seq(Messages)
    PROVE  /\ WithoutData(q) \in Seq(Messages)
           /\ \A i \in DOMAIN WithoutData(q) : WithoutData(q)[i].kind # "data"
           /\ EventsOf(WithoutData(q)) = {}
           /\ Apart(WithoutData(q))
<1> DEFINE others == {j \in DOMAIN q : q[j].kind # "data"}
<1> DEFINE w == WithoutData(q)
<1>1. Cardinality(others) \in Nat
  <2>1. IsFiniteSet(DOMAIN q)
    BY FS_Interval
  <2> QED BY <2>1, FS_Subset, FS_CardinalityType
<1>2. [kind |-> "done"] \in Messages
  BY DEF Messages
<1>3. w = [i \in 1..Cardinality(others) |-> [kind |-> "done"]]
  BY DEF WithoutData
<1> HIDE DEF w, others
<1>4. /\ w \in Seq(Messages) /\ DOMAIN w = 1..Cardinality(others)
      /\ \A i \in DOMAIN w : w[i].kind # "data"
  BY <1>1, <1>2, <1>3
<1>5. EventsOf(w) = {}
  BY <1>4 DEF EventsOf
<1>6. Apart(w)
  BY <1>4 DEF Apart
<1> QED BY <1>4, <1>5, <1>6 DEF w

----------------------------------------------------------------------------
(* The thread.                                                             *)

LEMMA InvInit == Init => Inv
<1> SUFFICES ASSUME Init PROVE Inv
  OBVIOUS
<1> USE DEF Init, NoGen
<1>1. Typed
  <2>1. Numbers
    BY DEF Numbers, NoResult
  <2>2. Flags
    BY DEF Flags
  <2>3. Collections
    BY DEF Collections
  <2> QED BY <2>1, <2>2, <2>3 DEF Typed
<1>2. Control
  BY DEF Control, SessionKnown, PortIsTheScans, SlotIsTheScans, QueueIsTheScans
<1>3. EventsOf(queue) = {}
  BY DEF EventsOf
<1>4. EventsParted
  BY <1>3 DEF EventsParted, Apart, InOnePlace, InSomePlace
<1>5. ResultKept
  BY DEF ResultKept
<1> QED BY <1>1, <1>2, <1>4, <1>5 DEF Inv

\* A step that moves no event, and lets the batch only be started or kept.
LEMMA EventsStay ==
    ASSUME EventsParted, UNCHANGED <<queue, scan, count, again, batch, saved, unposted>>,
           window' = "exited" \/ window' = window,
           pc' \in {"store", "notify", "ended"} =>
             pc \in {"store", "notify", "ended"}
    PROVE  EventsParted'
<1>1. EventsOf(queue)' = EventsOf(queue) /\ Apart(queue)' = Apart(queue)
  BY DEF EventsOf, Apart
<1> QED BY <1>1 DEF EventsParted, InOnePlace, InSomePlace, Raised

\* The batch becomes all, some of which may be new events of the running scan, and
\* then is kept, posted or given up.
LEMMA CollectEventInv == ASSUME Inv, CollectEvent PROVE Inv'
<1> DEFINE e0 == <<scan, count + 1>>
           all == batch \cup {e0}
           m == [kind |-> "data", gen |-> gen, events |-> all]
<1> USE DEF Inv
<1>1. /\ pc = "scan" /\ count < MaxEvents /\ count' = count + 1
      /\ UNCHANGED <<window, session, poll, reconnect, running, scanGen, cancel,
                     disconnectAfter, handle, slot, pc, scan, gen, serialFailed, saved,
                     results, dropped, again>>
      /\ \/ batch' = all /\ UNCHANGED <<queue, unposted>>
         \/ batch' = {} /\ queue' = Append(queue, m) /\ UNCHANGED unposted
         \/ batch' = {} /\ unposted' = unposted \cup all /\ UNCHANGED queue
  BY DEF CollectEvent, PostData, port, ui
<1>2. /\ running /\ scan \in Scans /\ gen \in Generations /\ gen # NoGen
      /\ window # "exited" => window = "alive" /\ scanGen = gen
      /\ e0 \in Events
  BY <1>1, SMTT(30) DEF Typed, Numbers, Flags, Control, PortIsTheScans, Scans, Generations, Events,
     NoGen, CollectEvent, GenerationCurrent, IsOpen, SessionKnown
<1>3. m \in Messages /\ m.kind = "data" /\ m.events = all /\ m.gen = gen
  BY <1>2 DEF Messages, Typed, Collections
<1>4. /\ queue \in Seq(Messages)
      /\ Append(queue, m) \in Seq(Messages)
      /\ EventsOf(Append(queue, m)) = EventsOf(queue) \cup all
  BY <1>3, PostedEvents DEF Typed, Collections
<1> HIDE DEF e0, all, m
<1>5. Typed'
  <2>1. Numbers'
    BY <1>1 DEF Typed, Numbers
  <2>2. Flags'
    BY <1>1 DEF Typed, Flags
  <2>3. Collections'
    BY <1>1, <1>2, <1>4 DEF Typed, Collections, all
  <2> QED BY <2>1, <2>2, <2>3 DEF Typed
<1>6. Control'
  <2>1. QueueIsTheScans'
    <3>1. CASE UNCHANGED queue
      BY <3>1, <1>1 DEF Control, QueueIsTheScans
    <3>2. CASE queue' = Append(queue, m)
      BY <3>2, <1>1, <1>2, <1>3, <1>4 DEF Control, QueueIsTheScans
    <3> QED BY <3>1, <3>2, <1>1
  <2> QED BY <2>1, <1>1 DEF Control, SessionKnown, PortIsTheScans, SlotIsTheScans
<1>7. EventsParted'
  <2> SUFFICES ASSUME window # "exited"
               PROVE  EventsParted'
    BY <1>1 DEF EventsParted
  <2>1. e0 \notin InSomePlace
    <3>1. e0 \notin Raised
      BY <1>2 DEF Raised, e0, Typed, Numbers
    <3> QED BY <3>1 DEF EventsParted
  <2>2. Apart(queue)'
    <3>1. CASE UNCHANGED queue
      BY <3>1 DEF EventsParted, Apart
    <3>2. CASE queue' = Append(queue, m)
      <4>1. EventsOf(queue) \cap all = {} /\ Apart(queue)
        BY <2>1 DEF EventsParted, InOnePlace, InSomePlace, all
      <4> QED BY <3>2, <4>1, <1>3, PostedEvents DEF Typed, Collections
    <3> QED BY <3>1, <3>2, <1>1
  <2>3. \/ batch' = all /\ EventsOf(queue)' = EventsOf(queue) /\ unposted' = unposted
        \/ /\ batch' = {} /\ unposted' = unposted
           /\ EventsOf(queue)' = EventsOf(queue) \cup all
        \/ /\ batch' = {} /\ EventsOf(queue)' = EventsOf(queue)
           /\ unposted' = unposted \cup all
    BY <1>1, <1>4
  <2>4. /\ InOnePlace' /\ InSomePlace' = InSomePlace \cup {e0}
    BY <2>1, <2>3, <1>1 DEF EventsParted, InOnePlace, InSomePlace, all
  <2>5. InSomePlace' \subseteq Raised'
    <3>1. e0 \in Raised'
      BY <1>1, <1>2 DEF Raised, e0, Typed, Numbers
    <3>2. Raised \subseteq Raised'
      BY <1>1, Bounds DEF Raised, Events, Scans, Typed, Numbers
    <3> QED BY <3>1, <3>2, <2>4 DEF EventsParted
  <2>6. ({scan} \X (1..count))' \subseteq InSomePlace'
    <3>1. \A n \in 1..count' : n \in 1..count \/ n = count + 1
      BY <1>1 DEF Typed, Numbers
    <3> QED BY <3>1, <2>4, <1>1 DEF EventsParted, e0
  <2> QED BY <2>2, <2>4, <2>5, <2>6, <1>1 DEF EventsParted
<1>8. ResultKept'
  BY <1>1 DEF ResultKept
<1> QED BY <1>5, <1>6, <1>7, <1>8

\* The device is lost; the scan goes on to its last batch.
LEMMA DeviceLostInv == ASSUME Inv, DeviceLost PROVE Inv'
<1> USE DEF Inv
<1>1. /\ pc = "scan" /\ pc' = "flush" /\ session.state = "Open" /\ session.gen = gen
      /\ session' = [session EXCEPT !.state = "Faulted"]
      /\ serialFailed' \in BOOLEAN
      /\ UNCHANGED <<window, poll, reconnect, running, scanGen, cancel, disconnectAfter,
                     handle, slot, queue, scan, gen, batch, count, unposted, saved, results,
                     dropped, again>>
  BY DEF DeviceLost, GenerationCurrent, IsOpen, ui, history
<1>2. Typed'
  <2>1. Numbers'
    BY <1>1 DEF Typed, Numbers
  <2>2. Flags'
    BY <1>1 DEF Typed, Flags
  <2>3. Collections'
    BY <1>1 DEF Typed, Collections
  <2> QED BY <2>1, <2>2, <2>3 DEF Typed
<1>3. session'.state = "Faulted" /\ session'.gen = session.gen
  BY <1>1 DEF Typed, Numbers
<1>4. Control'
  BY <1>1, <1>3 DEF Control, SessionKnown, PortIsTheScans, SlotIsTheScans, QueueIsTheScans
<1>5. EventsParted'
  BY <1>1, EventsStay
<1>6. ResultKept'
  BY <1>1 DEF ResultKept
<1> QED BY <1>2, <1>4, <1>5, <1>6

\* A call fails, or the scan is over.
LEMMA ScanGoesOnInv == ASSUME Inv, CallFails \/ ScanOver PROVE Inv'
<1> USE DEF Inv
<1>1. /\ pc = "scan" /\ pc' \in {"scan", "flush"} /\ serialFailed' \in BOOLEAN
      /\ UNCHANGED <<session, window, poll, reconnect, running, scanGen, cancel,
                     disconnectAfter, handle, slot, queue, scan, gen, batch, count,
                     unposted, saved, results, dropped, again>>
  BY DEF CallFails, ScanOver, port, ui, history, Typed, Flags
<1>2. Typed'
  <2>1. Numbers'
    BY <1>1 DEF Typed, Numbers
  <2>2. Flags'
    BY <1>1 DEF Typed, Flags
  <2>3. Collections'
    BY <1>1 DEF Typed, Collections
  <2> QED BY <2>1, <2>2, <2>3 DEF Typed
<1>4. Control'
  BY <1>1 DEF Control, SessionKnown, PortIsTheScans, SlotIsTheScans, QueueIsTheScans
<1>5. EventsParted'
  BY <1>1, EventsStay
<1>6. ResultKept'
  BY <1>1 DEF ResultKept
<1> QED BY <1>2, <1>4, <1>5, <1>6

\* The last batch is posted or given up.
LEMMA FlushBatchInv == ASSUME Inv, window # "exited", FlushBatch PROVE Inv'
<1> DEFINE m == [kind |-> "data", gen |-> gen, events |-> batch]
<1> USE DEF Inv
<1>1. /\ pc = "flush" /\ pc' = "store" /\ batch' = {}
      /\ UNCHANGED <<window, session, poll, reconnect, running, scanGen, cancel,
                     disconnectAfter, handle, slot, scan, gen, count, serialFailed, saved,
                     results, dropped, again>>
      /\ \/ queue' = Append(queue, m) /\ UNCHANGED unposted
         \/ unposted' = unposted \cup batch /\ UNCHANGED queue
  BY DEF FlushBatch, PostData, port, ui
<1>2. running /\ gen \in Generations /\ scanGen = gen
  <2>1. running /\ scanGen = gen
    BY <1>1 DEF Control, PortIsTheScans
  <2>2. scanGen # NoGen
    BY <2>1 DEF Typed, Flags
  <2> QED BY <2>1, <2>2 DEF Typed, Numbers, Generations, NoGen
<1>3. m \in Messages /\ m.kind = "data" /\ m.events = batch /\ m.gen = gen
  BY <1>2 DEF Messages, Typed, Collections
<1> HIDE DEF m
<1>4. /\ queue \in Seq(Messages)
      /\ Append(queue, m) \in Seq(Messages)
      /\ EventsOf(Append(queue, m)) = EventsOf(queue) \cup batch
      /\ Apart(queue) => Apart(Append(queue, m))
  BY <1>3, PostedEvents DEF Typed, Collections, EventsParted, InOnePlace
<1>5. Typed'
  <2>1. Numbers'
    BY <1>1 DEF Typed, Numbers
  <2>2. Flags'
    BY <1>1 DEF Typed, Flags
  <2>3. Collections'
    BY <1>1, <1>4 DEF Typed, Collections
  <2> QED BY <2>1, <2>2, <2>3 DEF Typed
<1>6. Control'
  <2>1. QueueIsTheScans'
    <3>1. CASE UNCHANGED queue
      BY <3>1, <1>1 DEF Control, QueueIsTheScans
    <3>2. CASE queue' = Append(queue, m)
      BY <3>2, <1>1, <1>2, <1>3, <1>4 DEF Control, QueueIsTheScans
    <3> QED BY <3>1, <3>2, <1>1
  <2> QED BY <2>1, <1>1 DEF Control, SessionKnown, PortIsTheScans, SlotIsTheScans
<1>7. EventsParted'
  <2>1. Apart(queue)'
    BY <1>1, <1>4 DEF EventsParted
  <2>2. \/ EventsOf(queue)' = EventsOf(queue) /\ unposted' = unposted \cup batch
        \/ unposted' = unposted /\ EventsOf(queue)' = EventsOf(queue) \cup batch
    BY <1>1, <1>4
  <2>3. InOnePlace' /\ InSomePlace' = InSomePlace
    BY <2>2, <1>1 DEF EventsParted, InOnePlace, InSomePlace
  <2>4. Raised' = Raised
    BY <1>1 DEF Raised
  <2> QED BY <2>1, <2>3, <2>4, <1>1 DEF EventsParted
<1>8. ResultKept'
  BY <1>1 DEF ResultKept
<1> QED BY <1>5, <1>6, <1>7, <1>8

\* The result goes into the empty slot.
LEMMA StoreResultInv == ASSUME Inv, window # "exited", StoreResult PROVE Inv'
<1> USE DEF Inv
<1>1. /\ pc = "store" /\ pc' = "notify"
      /\ slot' = [scan |-> scan, gen |-> gen, serialFailed |-> serialFailed]
      /\ UNCHANGED <<session, window, poll, reconnect, running, scanGen, cancel,
                     disconnectAfter, handle, queue, scan, gen, batch, count,
                     serialFailed, unposted, saved, results, dropped, again>>
  BY DEF StoreResult, port, ui, history
<1>2. Typed'
  <2>1. Numbers'
    BY <1>1 DEF Typed, Numbers, Flags
  <2>2. Flags'
    BY <1>1 DEF Typed, Flags
  <2>3. Collections'
    BY <1>1 DEF Typed, Collections
  <2> QED BY <2>1, <2>2, <2>3 DEF Typed
<1>4. Control'
  BY <1>1 DEF Control, SessionKnown, PortIsTheScans, SlotIsTheScans, QueueIsTheScans
<1>5. EventsParted'
  BY <1>1, EventsStay
<1>6. ResultKept'
  BY <1>1 DEF ResultKept
<1> QED BY <1>2, <1>4, <1>5, <1>6

\* Done is posted, or is lost.
LEMMA NotifyDoneInv == ASSUME Inv, NotifyDone PROVE Inv'
<1> DEFINE m == [kind |-> "done"]
<1> USE DEF Inv
<1>1. /\ pc = "notify" /\ pc' = "ended"
      /\ queue' = Append(queue, m) \/ UNCHANGED queue
      /\ UNCHANGED <<session, window, poll, reconnect, running, scanGen, cancel,
                     disconnectAfter, handle, slot, scan, gen, batch, count,
                     serialFailed, unposted, saved, results, dropped, again>>
  BY DEF NotifyDone, port, ui, history
<1>2. m \in Messages /\ m.kind # "data"
  BY DEF Messages
<1> HIDE DEF m
<1>3. /\ queue' \in Seq(Messages)
      /\ EventsOf(queue)' = EventsOf(queue)
      /\ Apart(queue) => Apart(queue)'
  BY <1>1, <1>2, DoneHasNoEvents DEF Typed, Collections
<1>4. \A i \in DOMAIN queue' : queue'[i].kind = "data" =>
         i \in DOMAIN queue /\ queue'[i] = queue[i]
  BY <1>1, <1>2 DEF Typed, Collections
<1>5. Typed'
  <2>1. Numbers'
    BY <1>1 DEF Typed, Numbers
  <2>2. Flags'
    BY <1>1 DEF Typed, Flags
  <2>3. Collections'
    BY <1>1, <1>3 DEF Typed, Collections
  <2> QED BY <2>1, <2>2, <2>3 DEF Typed
<1>6. Control'
  <2>1. QueueIsTheScans'
    BY <1>1, <1>4 DEF Control, QueueIsTheScans
  <2> QED BY <2>1, <1>1 DEF Control, SessionKnown, PortIsTheScans, SlotIsTheScans
<1>7. EventsParted'
  BY <1>1, <1>3 DEF EventsParted, InOnePlace, InSomePlace, Raised
<1>8. ResultKept'
  BY <1>1 DEF ResultKept
<1> QED BY <1>5, <1>6, <1>7, <1>8

LEMMA ThreadStepInv == ASSUME Inv, window # "exited", ThreadStep PROVE Inv'
BY CollectEventInv, DeviceLostInv, ScanGoesOnInv, FlushBatchInv, StoreResultInv,
   NotifyDoneInv DEF ThreadStep

----------------------------------------------------------------------------
(* The window, while no result is taken and no message handled.            *)

\* Connecting, disconnecting, cancelling, the poll and the reconnect timer: they
\* leave the scan alone, and the session too while the scan has it.
LEMMA SessionStepInv ==
    ASSUME Inv, Connect \/ Disconnect \/ RequestCancel \/ PollFails \/ ReconnectTick
    PROVE  Inv'
<1> USE DEF Inv
<1>1. /\ session'.state \in {"Closed", "Open", "Faulted"}
      /\ session' \in [state : {"Closed", "Open", "Faulted"}, gen : 0..MaxGeneration]
      /\ session'.gen \in {session.gen, session.gen + 1}
      /\ session'.state = "Open" => session'.gen # NoGen
      /\ session'.state # "Closed" => session' = session \/ session'.gen # NoGen
      /\ running /\ window # "exited" => session' = session
  <2> USE DEF Typed, Numbers, Control, SessionKnown, PortIsTheScans
  <2>1. CASE Connect
    BY <2>1 DEF Connect, Opened, Closed, NoGen, IsOpen
  <2>2. CASE Disconnect
    BY <2>2 DEF Disconnect, Closed, NoGen
  <2>3. CASE RequestCancel
    BY <2>3 DEF RequestCancel, port, NoGen
  <2>4. CASE PollFails
    BY <2>4 DEF PollFails, SerialFailure, Closed, NoGen
  <2>5. CASE ReconnectTick
    BY <2>5 DEF ReconnectTick, Opened, NoGen
  <2> QED BY <2>1, <2>2, <2>3, <2>4, <2>5
<1>2. /\ cancel' \in BOOLEAN /\ disconnectAfter' \in BOOLEAN
      /\ poll' \in BOOLEAN /\ reconnect' \in BOOLEAN
  <2> USE DEF Typed, Flags
  <2>1. CASE Connect
    BY <2>1 DEF Connect
  <2>2. CASE Disconnect
    BY <2>2 DEF Disconnect
  <2>3. CASE RequestCancel
    BY <2>3 DEF RequestCancel, port
  <2>4. CASE PollFails
    BY <2>4 DEF PollFails, SerialFailure, ui
  <2>5. CASE ReconnectTick
    BY <2>5 DEF ReconnectTick, ui
  <2> QED BY <2>1, <2>2, <2>3, <2>4, <2>5
<1>3. UNCHANGED <<window, running, scanGen, handle, slot, queue, pc, scan, gen, batch, count,
                  serialFailed, unposted, saved, results, dropped, again>>
  BY DEF Connect, Disconnect, RequestCancel, PollFails, ReconnectTick, ui, thread, history
<1>4. Typed'
  <2>1. Numbers'
    BY <1>1, <1>3 DEF Typed, Numbers
  <2>2. Flags'
    BY <1>2, <1>3 DEF Typed, Flags
  <2>3. Collections'
    BY <1>3 DEF Typed, Collections
  <2> QED BY <2>1, <2>2, <2>3 DEF Typed
<1>5. Control'
  BY <1>1, <1>3 DEF Control, SessionKnown, PortIsTheScans, SlotIsTheScans, QueueIsTheScans
<1>6. EventsParted'
  BY <1>3, EventsStay
<1>7. ResultKept'
  BY <1>3 DEF ResultKept
<1> QED BY <1>4, <1>5, <1>6, <1>7

\* A scan that is not running has no data message and no result.
LEMMA NothingOfAnIdleScan ==
    ASSUME Inv, ~running, window # "exited"
    PROVE  /\ pc = "ended" /\ slot = NoResult /\ batch = {}
           /\ \A i \in DOMAIN queue : queue[i].kind # "data"
BY DEF Inv, Control, PortIsTheScans, SlotIsTheScans, QueueIsTheScans, EventsParted

\* The next scan begins: nothing of the last one is left behind.
LEMMA StartScanInv == ASSUME Inv, StartScan PROVE Inv'
<1> USE DEF Inv
<1>1. /\ window = "alive" /\ ~running /\ session.state = "Open"
      /\ scan < MaxScans /\ scan' = scan + 1
      /\ handle' = TRUE /\ slot' = NoResult /\ running' = TRUE /\ scanGen' = session.gen
      /\ cancel' = FALSE /\ disconnectAfter' = FALSE /\ poll' = FALSE
      /\ gen' = session.gen /\ pc' = "scan" /\ batch' = {} /\ count' = 0
      /\ serialFailed' = FALSE
      /\ UNCHANGED <<window, session, reconnect, queue, unposted, saved, results, again>>
      /\ slot = NoResult => UNCHANGED dropped
  BY DEF StartScan, Alive, IsOpen
<1>2. /\ slot = NoResult /\ batch = {} /\ UNCHANGED dropped
      /\ \A i \in DOMAIN queue : queue[i].kind # "data"
  BY <1>1, NothingOfAnIdleScan
<1>3. session.gen # NoGen /\ session.gen \in 0..MaxGeneration
  BY <1>1 DEF Control, SessionKnown, Typed, Numbers
<1>4. Typed'
  <2>1. Numbers'
    BY <1>1, <1>3 DEF Typed, Numbers, NoResult, NoGen
  <2>2. Flags'
    BY <1>1, <1>3 DEF Typed, Flags
  <2>3. Collections'
    BY <1>1 DEF Typed, Collections
  <2> QED BY <2>1, <2>2, <2>3 DEF Typed
<1>5. Control'
  <2>1. scan' # 0
    BY <1>1 DEF Typed, Numbers
  <2> QED BY <2>1, <1>1, <1>2, <1>3
      DEF Control, SessionKnown, PortIsTheScans, SlotIsTheScans, QueueIsTheScans
<1>6. EventsParted'
  <2>1. EventsOf(queue)' = EventsOf(queue) /\ Apart(queue)' = Apart(queue)
    BY <1>1
  <2>2. Raised \subseteq Raised'
    BY <1>1 DEF Raised, Events, Scans, Typed, Numbers
  <2>3. 1..count' = {}
    BY <1>1
  <2>4. InOnePlace' /\ InSomePlace' = InSomePlace
    BY <2>1, <1>1, <1>2 DEF EventsParted, InOnePlace, InSomePlace
  <2> QED BY <2>1, <2>2, <2>3, <2>4, <1>1 DEF EventsParted
<1>7. ResultKept'
  BY <1>1, <1>2 DEF ResultKept
<1> QED BY <1>4, <1>5, <1>6, <1>7

\* The thread could not be created.
LEMMA ScanNotStartedInv == ASSUME Inv, ScanNotStarted PROVE Inv'
<1> USE DEF Inv
<1>1. /\ window = "alive" /\ ~running /\ session.state = "Open"
      /\ handle' = FALSE /\ slot' = NoResult /\ running' = FALSE /\ scanGen' = NoGen
      /\ cancel' = FALSE /\ disconnectAfter' = FALSE /\ poll' = (poll \/ IsOpen)
      /\ UNCHANGED <<window, session, reconnect, queue, pc, scan, gen, batch, count,
                     serialFailed, unposted, saved, results, dropped, again>>
  BY DEF ScanNotStarted, ScanIdle, Alive, IsOpen, thread
<1>2. /\ pc = "ended" /\ slot = NoResult
      /\ \A i \in DOMAIN queue : queue[i].kind # "data"
  BY <1>1, NothingOfAnIdleScan
<1>4. Typed'
  <2>1. Numbers'
    BY <1>1, <1>2 DEF Typed, Numbers, NoResult, NoGen
  <2>2. Flags'
    BY <1>1 DEF Typed, Flags
  <2>3. Collections'
    BY <1>1 DEF Typed, Collections
  <2> QED BY <2>1, <2>2, <2>3 DEF Typed
<1>5. Control'
  BY <1>1, <1>2
     DEF Control, SessionKnown, PortIsTheScans, SlotIsTheScans, QueueIsTheScans
<1>6. EventsParted'
  BY <1>1, EventsStay
<1>7. ResultKept'
  BY <1>1, <1>2 DEF ResultKept
<1> QED BY <1>4, <1>5, <1>6, <1>7

----------------------------------------------------------------------------
(* Messages are handled, and the scan is ended.                            *)

\* Events move from messages into the store, once.
LEMMA EventsSaved ==
    ASSUME EventsParted, window # "exited", NEW moved,
           UNCHANGED <<batch, unposted, scan, count, pc>>,
           Apart(queue)',
           EventsOf(queue) = EventsOf(queue)' \cup moved,
           EventsOf(queue)' \cap moved = {},
           saved' = saved \cup moved,
           again' = (again \/ moved \cap saved # {})
    PROVE  EventsParted'
<1>1. InOnePlace' /\ InSomePlace' = InSomePlace
  BY DEF EventsParted, InOnePlace, InSomePlace
<1>2. Raised' = Raised
  BY DEF Raised
<1>3. ~again'
  BY DEF EventsParted, InOnePlace
<1> QED BY <1>1, <1>2, <1>3 DEF EventsParted

\* The events that messages hold are events.
LEMMA QueuedEvents ==
    ASSUME NEW q \in Seq(Messages)
    PROVE  EventsOf(q) \subseteq Events
<1> SUFFICES ASSUME NEW i \in DOMAIN q, q[i].kind = "data"
             PROVE  q[i].events \subseteq Events
  BY DEF EventsOf
<1>1. q[i] \in Messages
  OBVIOUS
<1> QED BY <1>1 DEF Messages

\* A batch that arrives while its scan runs is saved; no other arrives.
LEMMA HandleDataInv == ASSUME Inv, HandleData PROVE Inv'
<1> DEFINE h == Head(queue)
<1> USE DEF Inv
<1>1. /\ window = "alive" /\ queue # << >> /\ h.kind = "data" /\ queue' = Tail(queue)
      /\ SaveBatches(<<h>>, running /\ MessageMatches(h.gen, TRUE))
      /\ UNCHANGED <<window, session, poll, reconnect, running, scanGen, cancel,
                     disconnectAfter, handle, slot, pc, scan, gen, batch, count,
                     serialFailed, unposted, results, dropped>>
  BY DEF HandleData, Alive, port, ui, thread
<1>2. /\ queue' \in Seq(Messages) /\ Apart(queue)'
      /\ \A i \in DOMAIN queue' : \E j \in DOMAIN queue : queue'[i] = queue[j]
      /\ \E j \in DOMAIN queue : h = queue[j]
      /\ EventsOf(<<h>>) = h.events
      /\ EventsOf(queue) = EventsOf(queue)' \cup h.events
      /\ EventsOf(queue)' \cap h.events = {}
  BY <1>1, TakenEvents DEF Typed, Collections, EventsParted
<1>3. running /\ h.gen = scanGen
  BY <1>1, <1>2 DEF Control, QueueIsTheScans
<1>4. MessageMatches(h.gen, TRUE)
  <2>1. scanGen = session.gen /\ session.state # "Closed"
    BY <1>1, <1>3 DEF Control, PortIsTheScans
  <2>2. scanGen # NoGen
    BY <1>3 DEF Typed, Flags
  <2>3. session.state \in {"Closed", "Open", "Faulted"}
    BY DEF Typed, Numbers
  <2> QED BY <1>3, <2>1, <2>2, <2>3 DEF MessageMatches, IsOpen
<1>5. saved' = saved \cup h.events /\ again' = (again \/ h.events \cap saved # {})
  BY <1>1, <1>2, <1>3, <1>4 DEF SaveBatches
<1> HIDE DEF h
<1>6. EventsParted'
  BY <1>1, <1>2, <1>5, EventsSaved
<1>7. Typed'
  <2>1. Numbers'
    BY <1>1 DEF Typed, Numbers
  <2>2. Flags'
    BY <1>1, <1>5 DEF Typed, Flags
  <2>3. Collections'
    <3>1. h.events \subseteq Events
      BY <1>2, QueuedEvents DEF Typed, Collections
    <3> QED BY <3>1, <1>1, <1>2, <1>5 DEF Typed, Collections
  <2> QED BY <2>1, <2>2, <2>3 DEF Typed
<1>8. Control'
  <2>1. QueueIsTheScans'
    BY <1>1, <1>2 DEF Control, QueueIsTheScans
  <2> QED BY <2>1, <1>1 DEF Control, SessionKnown, PortIsTheScans, SlotIsTheScans
<1>9. ResultKept'
  BY <1>1 DEF ResultKept
<1> QED BY <1>6, <1>7, <1>8, <1>9

\* What is left of the queue when Done is handled has the same events as the queue.
SameEvents(messages) ==
    /\ messages \in Seq(Messages)
    /\ Apart(messages)
    /\ EventsOf(messages) = EventsOf(queue)
    /\ \A i \in DOMAIN messages : \E j \in DOMAIN queue : messages[i] = queue[j]

\* The scan that runs is ended by its own result: the messages that are left are
\* saved, and the result is saved too or the session is lost.
LEMMA EndScanInv ==
    ASSUME Inv, window = "alive", NEW messages, SameEvents(messages),
           slot # NoResult, slot.gen = scanGen, EndScan(messages),
           UNCHANGED <<window, thread>>
    PROVE  Inv'
<1> USE DEF Inv
<1>1. /\ handle' \in BOOLEAN /\ pc = "ended" /\ slot' = NoResult
      /\ queue' = WithoutData(messages)
      /\ SaveBatches(messages, running /\ MessageMatches(scanGen, TRUE))
      /\ disconnectAfter' = FALSE /\ running' = FALSE /\ scanGen' = NoGen
      /\ poll' = (poll \/ IsOpen)
      /\ UNCHANGED <<window, cancel, pc, scan, gen, batch, count, serialFailed, unposted>>
  <2>1. handle' \in BOOLEAN /\ pc = "ended"
    BY DEF EndScan, ThreadCloses, Typed, Flags, Control, PortIsTheScans
  <2> QED BY <2>1 DEF EndScan, DrainData, ScanIdle, thread
<1>2. /\ running /\ scan \in Scans /\ slot.scan = scan /\ slot.gen = scanGen
      /\ scanGen = session.gen /\ session.state \in {"Open", "Faulted"}
      /\ scanGen # NoGen
  <2>1. running /\ slot.scan = scan
    BY DEF Control, SlotIsTheScans
  <2>2. scan # 0 /\ scanGen = session.gen /\ session.state # "Closed"
    BY <2>1 DEF Control, PortIsTheScans
  <2>3. scanGen # NoGen
    BY <2>1 DEF Typed, Flags
  <2> QED BY <2>1, <2>2, <2>3 DEF Typed, Numbers, Scans
<1>3. MessageMatches(scanGen, TRUE)
  BY <1>2 DEF MessageMatches, IsOpen
<1>4. /\ saved' = saved \cup EventsOf(messages)
      /\ again' = (again \/ EventsOf(messages) \cap saved # {})
  BY <1>1, <1>2, <1>3 DEF SaveBatches
<1>5. /\ queue' \in Seq(Messages) /\ Apart(queue)' /\ EventsOf(queue)' = {}
      /\ \A i \in DOMAIN queue' : queue'[i].kind # "data"
  BY <1>1, WithoutDataIsDone DEF SameEvents
<1>6. EventsParted'
  <2>1. EventsOf(queue) = EventsOf(queue)' \cup EventsOf(messages)
    BY <1>5 DEF SameEvents
  <2> QED BY <2>1, <1>1, <1>4, <1>5, EventsSaved
<1>7. /\ session' = session \/ session' = [session EXCEPT !.state = "Closed"]
      /\ reconnect' \in BOOLEAN
      /\ \/ results' = results \cup {scan} /\ UNCHANGED dropped
         \/ /\ UNCHANGED results
            /\ dropped' = dropped \cup {[result |-> slot, state |-> session.state]}
            /\ session.state = "Faulted" /\ ~slot.serialFailed
  <2>1. CASE MessageMatches(slot.gen, slot.serialFailed)
    <3>1. ResultTaken
      BY <2>1 DEF EndScan
    <3> QED BY <3>1, <1>2 DEF ResultTaken, Closed, SerialFailure, Typed, Flags
  <2>2. CASE ~MessageMatches(slot.gen, slot.serialFailed)
    <3>1. ResultDropped
      BY <2>2 DEF EndScan
    <3>2. session.state = "Faulted" /\ ~slot.serialFailed
      BY <2>2, <1>2 DEF MessageMatches, IsOpen
    <3> QED BY <3>1, <3>2 DEF ResultDropped, Typed, Flags
  <2> QED BY <2>1, <2>2
<1>8. /\ session' \in [state : {"Closed", "Open", "Faulted"}, gen : 0..MaxGeneration]
      /\ session'.gen = session.gen
  BY <1>7 DEF Typed, Numbers
<1>9. Typed'
  <2>1. Numbers'
    BY <1>1, <1>8 DEF Typed, Numbers, NoResult, NoGen
  <2>2. Flags'
    BY <1>1, <1>4, <1>7 DEF Typed, Flags
  <2>3. Collections'
    <3>1. EventsOf(messages) \subseteq Events
      BY QueuedEvents DEF SameEvents
    <3>2. results' \subseteq Scans
      BY <1>2, <1>7 DEF Typed, Collections
    <3> QED BY <3>1, <3>2, <1>1, <1>4, <1>5 DEF Typed, Collections
  <2> QED BY <2>1, <2>2, <2>3 DEF Typed
<1>10. Control'
  <2>1. SessionKnown'
    BY <1>2, <1>8 DEF SessionKnown
  <2> QED BY <2>1, <1>1, <1>5
      DEF Control, PortIsTheScans, SlotIsTheScans, QueueIsTheScans
<1>11. ResultKept'
  <2>1. \A d \in dropped' : d.state = "Faulted" /\ ~d.result.serialFailed
    BY <1>7 DEF ResultKept
  <2>2. scan \in results' \/ \E d \in dropped' : d.result.scan = scan
    <3>1. CASE results' = results \cup {scan}
      BY <3>1
    <3>2. CASE dropped' = dropped \cup {[result |-> slot, state |-> session.state]}
      <4>1. [result |-> slot, state |-> session.state].result.scan = scan
        BY <1>2
      <4> QED BY <4>1, <3>2
    <3> QED BY <3>1, <3>2, <1>7
  <2> QED BY <2>1, <2>2, <1>1 DEF ResultKept
<1> QED BY <1>6, <1>9, <1>10, <1>11

\* Done, or the clock that finds the result: the scan ends, or its result waits.
LEMMA HandleDoneInv ==
    ASSUME Inv, window = "alive", NEW messages, SameEvents(messages),
           HandleDone(messages), UNCHANGED <<window, thread>>
    PROVE  Inv'
<1> USE DEF Inv
<1>1. CASE slot # NoResult /\ slot.gen = scanGen /\ EndScan(messages)
  BY <1>1, EndScanInv
<1>2. slot # NoResult => slot.gen = scanGen
  BY DEF Control, SlotIsTheScans, PortIsTheScans
<1>3. CASE /\ queue' = messages
           /\ UNCHANGED <<session, poll, reconnect, running, scanGen, cancel,
                          disconnectAfter, handle, slot, unposted, saved, results,
                          dropped, again>>
  <2>1. UNCHANGED <<window, pc, scan, gen, batch, count, serialFailed>>
    BY DEF thread
  <2>2. Typed'
    <3>1. Numbers'
      BY <1>3, <2>1 DEF Typed, Numbers
    <3>2. Flags'
      BY <1>3, <2>1 DEF Typed, Flags
    <3>3. Collections'
      BY <1>3, <2>1 DEF Typed, Collections, SameEvents
    <3> QED BY <3>1, <3>2, <3>3 DEF Typed
  <2>3. Control'
    <3>1. QueueIsTheScans'
      BY <1>3, <2>1 DEF Control, QueueIsTheScans, SameEvents
    <3> QED BY <3>1, <1>3, <2>1 DEF Control, SessionKnown, PortIsTheScans, SlotIsTheScans
  <2>4. EventsParted'
    <3>1. Apart(queue)' /\ EventsOf(queue)' = EventsOf(queue)
      BY <1>3 DEF SameEvents
    <3> QED BY <3>1, <1>3, <2>1 DEF EventsParted, InOnePlace, InSomePlace, Raised
  <2>5. ResultKept'
    BY <1>3, <2>1 DEF ResultKept
  <2> QED BY <2>2, <2>3, <2>4, <2>5
<1> QED BY <1>1, <1>2, <1>3
    DEF HandleDone, PutBack, ThreadCloses, port, ui, history

LEMMA DoneInv == ASSUME Inv, DoneMessage \/ StatusClock PROVE Inv'
<1> USE DEF Inv
<1>1. CASE DoneMessage
  <2>1. SameEvents(Tail(queue))
    BY <1>1, TakenEvents DEF DoneMessage, SameEvents, Typed, Collections, EventsParted, Alive
  <2> QED BY <1>1, <2>1, HandleDoneInv DEF DoneMessage, Alive
<1>2. CASE StatusClock
  <2>1. SameEvents(queue)
    BY <1>2 DEF StatusClock, SameEvents, Typed, Collections, EventsParted, Alive
  <2> QED BY <1>2, <2>1, HandleDoneInv DEF StatusClock, Alive
<1> QED BY <1>1, <1>2

----------------------------------------------------------------------------
(* The window is destroyed.                                                *)

LEMMA DestroyInv == ASSUME Inv, Destroy PROVE Inv'
<1> USE DEF Inv
<1>1. /\ window = "alive" /\ cancel' = (cancel \/ running)
      /\ poll' = FALSE /\ reconnect' = FALSE
      /\ session' = [session EXCEPT !.state = "Closed"]
      /\ UNCHANGED <<disconnectAfter, pc, scan, gen, batch, count, serialFailed, unposted,
                     dropped>>
  BY DEF Destroy, Alive, Closed, thread
<1>2. /\ session' \in [state : {"Closed", "Open", "Faulted"}, gen : 0..MaxGeneration]
      /\ session'.state = "Closed"
  BY <1>1 DEF Typed, Numbers
<1>3. CASE /\ window' = "exited"
           /\ UNCHANGED <<running, scanGen, slot, queue, saved, results, again, handle>>
  <2>1. Typed'
    <3>1. Numbers'
      BY <1>1, <1>2, <1>3 DEF Typed, Numbers
    <3>2. Flags'
      BY <1>1, <1>3 DEF Typed, Flags
    <3>3. Collections'
      BY <1>1, <1>3 DEF Typed, Collections
    <3> QED BY <3>1, <3>2, <3>3 DEF Typed
  <2>2. Control'
    BY <1>1, <1>2, <1>3
       DEF Control, SessionKnown, PortIsTheScans, SlotIsTheScans, QueueIsTheScans
  <2>3. EventsParted' /\ ResultKept'
    BY <1>3 DEF EventsParted, ResultKept
  <2> QED BY <2>1, <2>2, <2>3
<1>4. CASE /\ handle' \in BOOLEAN /\ pc = "ended"
           /\ window' = "destroyed" /\ queue' = << >> /\ SaveBatches(queue, TRUE)
           /\ slot' = NoResult
           /\ results' = results \cup (IF slot = NoResult THEN {} ELSE {slot.scan})
           /\ running' = FALSE /\ scanGen' = NoGen
  <2>1. /\ saved' = saved \cup EventsOf(queue)
        /\ again' = (again \/ EventsOf(queue) \cap saved # {})
    BY <1>4 DEF SaveBatches
  <2>2. queue' \in Seq(Messages) /\ EventsOf(queue)' = {} /\ Apart(queue)' /\ DOMAIN queue' = {}
    BY <1>4 DEF EventsOf, Apart
  <2>3. slot # NoResult => slot.scan = scan /\ scan \in Scans
    BY DEF Control, SlotIsTheScans, PortIsTheScans, Typed, Numbers, Scans
  <2>4. Typed'
    <3>1. Numbers'
      BY <1>1, <1>2, <1>4 DEF Typed, Numbers, NoResult, NoGen
    <3>2. Flags'
      BY <1>1, <1>4, <2>1 DEF Typed, Flags
    <3>3. Collections'
      BY <1>1, <1>4, <2>1, <2>2, <2>3, QueuedEvents DEF Typed, Collections
    <3> QED BY <3>1, <3>2, <3>3 DEF Typed
  <2>5. Control'
    BY <1>1, <1>2, <1>4, <2>2
       DEF Control, SessionKnown, PortIsTheScans, SlotIsTheScans, QueueIsTheScans
  <2>6. EventsParted'
    <3>1. EventsOf(queue) = EventsOf(queue)' \cup EventsOf(queue)
      BY <2>2
    <3> QED BY <3>1, <1>1, <2>1, <2>2, EventsSaved
  <2>7. ResultKept'
    <3>1. slot # NoResult => scan \in results'
      BY <1>4, <2>3
    <3>2. results \subseteq results'
      BY <1>4
    <3>3. slot = NoResult /\ scan > 0 => slot.scan # scan
      BY DEF NoResult
    <3> QED BY <3>1, <3>2, <3>3, <1>1 DEF ResultKept
  <2> QED BY <2>4, <2>5, <2>6, <2>7
<1>5. ThreadCloses("Settled") \/ ThreadCloses("HandleCloseFailed") =>
        handle' \in BOOLEAN /\ pc = "ended"
  BY DEF ThreadCloses, Typed, Flags, Control, PortIsTheScans
<1>6. ThreadCloses("NotJoined") => UNCHANGED handle
  BY DEF ThreadCloses
<1> QED BY <1>3, <1>4, <1>5, <1>6 DEF Destroy

LEMMA InvNext == ASSUME Inv, [Next]_vars PROVE Inv'
<1>1. CASE Next
  BY <1>1, ThreadStepInv, SessionStepInv, StartScanInv, ScanNotStartedInv, HandleDataInv,
     DoneInv, DestroyInv DEF Next
<1>2. CASE UNCHANGED vars
  <2>1. UNCHANGED <<session, window, running, scanGen, cancel, disconnectAfter, handle, slot,
                    queue, poll, reconnect, pc, scan, gen, batch, count, serialFailed,
                    unposted, saved, results, dropped, again>>
    BY <1>2 DEF vars, port, ui, thread, history
  <2>2. Typed'
    BY <2>1 DEF Inv, Typed, Numbers, Flags, Collections
  <2>3. Control'
    BY <2>1 DEF Inv, Control, SessionKnown, PortIsTheScans, SlotIsTheScans, QueueIsTheScans
  <2>4. EventsParted'
    BY <2>1, EventsStay DEF Inv
  <2>5. ResultKept'
    BY <2>1 DEF Inv, ResultKept
  <2> QED BY <2>2, <2>3, <2>4, <2>5 DEF Inv
<1> QED BY <1>1, <1>2

LEMMA Invariance == Spec => []Inv
BY InvInit, InvNext, PTL DEF Spec

----------------------------------------------------------------------------
(* The theorems.                                                           *)

LEMMA InvIsTyped == Inv => TypeOK
<1> SUFFICES ASSUME Inv PROVE TypeOK
  OBVIOUS
<1>1. Numbers /\ Flags /\ Collections
  BY DEF Inv, Typed
<1>2. \A i \in DOMAIN queue : queue[i] \in Messages
  BY <1>1 DEF Collections
<1>3. {running, cancel, disconnectAfter, handle, poll, reconnect, serialFailed, again}
        \subseteq BOOLEAN
  BY <1>1 DEF Flags
<1>4. UNION {batch, unposted, saved} \subseteq Events
  BY <1>1 DEF Collections
<1>5. running = (scanGen # NoGen)
  BY <1>1 DEF Flags
<1> QED BY <1>1, <1>2, <1>3, <1>4, <1>5 DEF TypeOK, Numbers, Collections

\* An event that is in exactly one of four disjoint places is counted once.
LEMMA CountedOnce ==
    ASSUME NEW e, NEW A, NEW B, NEW C, NEW D,
           A \cap B = {}, A \cap C = {}, A \cap D = {},
           B \cap C = {}, B \cap D = {}, C \cap D = {},
           e \in A \cup B \cup C \cup D
    PROVE  Cardinality({p \in {<<"batch", A>>, <<"queue", B>>, <<"saved", C>>,
                               <<"unposted", D>>} : e \in p[2]}) = 1
<1> DEFINE places == {p \in {<<"batch", A>>, <<"queue", B>>, <<"saved", C>>,
                             <<"unposted", D>>} : e \in p[2]}
<1>1. \E x : places = {x}
  <2>1. CASE e \in A
    <3>1. places = {<<"batch", A>>}
      BY <2>1
    <3> QED BY <3>1
  <2>2. CASE e \in B
    <3>1. places = {<<"queue", B>>}
      BY <2>2
    <3> QED BY <3>1
  <2>3. CASE e \in C
    <3>1. places = {<<"saved", C>>}
      BY <2>3
    <3> QED BY <3>1
  <2>4. CASE e \in D
    <3>1. places = {<<"unposted", D>>}
      BY <2>4
    <3> QED BY <3>1
  <2> QED BY <2>1, <2>2, <2>3, <2>4
<1> HIDE DEF places
<1>2. Cardinality(places) = 1
  BY <1>1, FS_Singleton
<1> QED BY <1>2 DEF places

LEMMA InvCountsOnce == Inv => RawEventsOnce
<1> SUFFICES ASSUME Inv, window # "exited"
             PROVE  /\ ~again
                    /\ \A e \in {scan} \X (1..count) :
                         Cardinality({p \in {<<"batch", batch>>,
                                             <<"queue", EventsOf(queue)>>,
                                             <<"saved", saved>>,
                                             <<"unposted", unposted>>} : e \in p[2]}) = 1
  BY DEF RawEventsOnce
<1>1. ~again
  BY DEF Inv, EventsParted
<1>2. \A e \in {scan} \X (1..count) :
         e \in batch \cup EventsOf(queue) \cup saved \cup unposted
  BY DEF Inv, EventsParted, InSomePlace
<1>3. InOnePlace
  BY DEF Inv, EventsParted
<1> QED BY <1>1, <1>2, <1>3, CountedOnce DEF InOnePlace

\* The types of the window's and the thread's state, and the port is the scan's
\* exactly while it has a generation, for any number of scans, sessions and events
\* and any size of a batch.
THEOREM ScanTyped == Spec => []TypeOK
BY Invariance, InvIsTyped, PTL

\* Every raw event of the last scan is in exactly one of the batch, a posted message,
\* the store and the batches that could not be posted, and none is stored twice,
\* whatever posts fail and whenever the window takes Done, finds the result by the
\* clock, loses the session or is destroyed (handleModbusScanDataBatch,
\* drainPendingModbusScanDataMessages, settlePendingModbusScanMessages).
THEOREM EventsAreStoredOnce == Spec => []RawEventsOnce
BY Invariance, InvCountsOnce, PTL

\* The result of a scan whose thread has stored it is in its slot, in the store, or
\* dropped, and it is dropped only when the session was lost and the scan had not
\* noticed a failure (handleModbusScanDone, runModbusScan, handleDestroyMessage).
THEOREM ResultIsKept == Spec => []ResultOnce
<1>1. Inv => ResultOnce
  BY InvIsTyped DEF Inv, ResultKept, ResultOnce
<1> QED BY <1>1, Invariance, PTL
=============================================================================
