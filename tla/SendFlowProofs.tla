----------------------------- MODULE SendFlowProofs -----------------------------
(***************************************************************************)
(* What the window sends is recorded once, the window waits for what the   *)
(* session owes it, and a file has the port to itself: SentIsPublishedOnce,*)
(* PendingIsOwed and FileHasThePort, for every capacity, file, number of   *)
(* writes, sessions and prompts.                                           *)
(*                                                                         *)
(* Handlers are functions on the state S of window and port, and so is the *)
(* invariant: Good(s) is kept by each function a handler is made of, one   *)
(* lemma each, and the actions compose them.                               *)
(***************************************************************************)
EXTENDS SendFlow, FiniteSetTheorems, SequenceTheorems, TLAPS

Statuses == {"Succeeded", "Cancelled", "Failed", "Disconnected"}
Results == [write : Writes, status : Statuses]

\* The writes in the queue, those of them that have no result yet, the results not
\* yet taken, and the chunks of files the window waits for.
InLine(s) == {s.port.queue[i] : i \in 1 .. Len(s.port.queue)}
Queued(s) == IF s.port.told THEN {} ELSE InLine(s)
Answers(s) == {s.port.done[i] : i \in 1 .. Len(s.port.done)}
Chunks(s) == {w \in s.ui.pending : w.source = "File"}

\* The fields of the state, and what they hold.
StateFields == {"port", "ui", "log"}
PortFields == {"state", "gen", "queue", "writing", "told", "done"}
WindowFields == {"owner", "snapshot", "snapGen", "pending", "active", "fileGen", "read",
                 "sent", "timed", "confirmed", "timer", "reconnect"}
LogFields == {"submitted", "written", "published", "twice", "forgotten", "faulted"}

IsPort(p) ==
    /\ p = [f \in PortFields |-> p[f]]
    /\ p.state \in {"Closed", "Open", "Faulted"}
    /\ p.gen \in 0 .. MaxGeneration
    /\ p.queue \in Seq(Writes)
    /\ p.writing \in BOOLEAN
    /\ p.told \in BOOLEAN
    /\ p.done \in Seq(Results)

IsWindow(u) ==
    /\ u = [f \in WindowFields |-> u[f]]
    /\ u.snapshot \in Nat
    /\ u.pending \subseteq Writes
    /\ u.active \in BOOLEAN

IsLog(l) ==
    /\ l = [f \in LogFields |-> l[f]]
    /\ l.submitted \in 0 .. MaxWrites
    /\ \A w \in l.written : w.id \in 1 .. l.submitted

IsState(s) ==
    /\ s = [f \in StateFields |-> s[f]]
    /\ IsPort(s.port)
    /\ IsWindow(s.ui)
    /\ IsLog(s.log)

\* Queue and results are different writes of this session, each once, and the
\* window waits for exactly these.
Owes(s) ==
    /\ s.ui.pending = Queued(s) \cup WritesOf(Answers(s))
    /\ \A w \in s.ui.pending : w.id <= s.log.submitted /\ w.gen = s.port.gen
    /\ \A r \in Answers(s) : r.write \notin Queued(s)
    /\ \A q, r \in Answers(s) : q.write = r.write => q = r
    /\ \A i, j \in 1 .. Len(s.port.queue) : s.port.queue[i] = s.port.queue[j] => i = j

\* What was written waits to be published, or was published once, or was forgotten
\* with a session that had faulted by itself.
Recorded(s) ==
    /\ s.log.twice = FALSE
    /\ s.log.published \cup s.log.forgotten \subseteq s.log.written
    /\ s.log.published \cap s.log.forgotten = {}
    /\ \A w \in Queued(s) : w \notin s.log.written
    /\ \A r \in Answers(s) : /\ r.status = "Succeeded" <=> r.write \in s.log.written
                             /\ r.write \notin s.log.published \cup s.log.forgotten
    /\ s.log.written \ (s.log.published \cup s.log.forgotten) \subseteq WritesOf(Answers(s))
    /\ \A w \in s.log.forgotten : w.gen \in s.log.faulted

\* What the state says of the queue, and the window's cached look at it.
Seen(s) ==
    /\ s.port.state = "Closed" => s.port.queue = << >> /\ ~s.port.writing
    /\ s.port.state = "Open" => s.port.gen # NoGen
    /\ s.port.writing => s.port.queue # << >>
    /\ s.port.told => s.port.writing /\ s.port.state = "Faulted" /\ Len(s.port.queue) = 1
    /\ Len(s.port.queue) <= s.ui.snapshot
    /\ s.ui.pending # {} => s.ui.snapGen = s.port.gen

\* A file that is sent has the port, and every chunk that was sent or is on its way
\* has been read.
Filed(s) ==
    /\ s.ui.owner = IF s.ui.active THEN "FileSend" ELSE "None"
    /\ s.ui.read \in 0 .. FileChunks
    /\ s.ui.sent \in 0 .. s.ui.read
    /\ s.ui.active =>
          /\ s.port.state # "Closed" /\ ~s.port.told
          /\ s.ui.fileGen = s.port.gen /\ s.ui.fileGen # NoGen
          /\ \A w \in Queued(s) : w.source = "File"
          /\ s.ui.sent + Cardinality(Chunks(s)) <= s.ui.read
    /\ ~s.ui.active => s.ui.fileGen = NoGen

Good(s) == IsState(s) /\ Owes(s) /\ Recorded(s) /\ Seen(s) /\ Filed(s)

\* Outside of the handler that closes it, a closed session has no results left, and
\* one that still owes something without being open has faulted by itself.
Quiet(s) ==
    /\ s.port.state = "Closed" => s.port.done = << >>
    /\ s.port.state # "Open" /\ s.ui.pending # {} => s.port.gen \in s.log.faulted

\* A prompt about a file is the outermost one, and no file is sent or waited for
\* below it.
Prompted(s, p) ==
    /\ p = [i \in 1 .. Len(p) |-> p[i]] /\ Len(p) \in 0 .. MaxPrompts
    /\ \A i \in 1 .. Len(p) : p[i].kind = "file" => i = 1 /\ ~s.ui.active /\ Chunks(s) = {}

\* Between the halves of a handler: a session is closed without a file, and a
\* chunk that is to be queued has been read.
Halfway(s, c) ==
    /\ c.at \in {"idle", "snapshot", "enqueue"}
    /\ c.at = "snapshot" /\ c.after \in {"close", "connect"} => ~s.ui.active
    /\ c.at = "enqueue" /\ s.ui.active =>
          s.ui.sent + Cardinality(Chunks(s)) + 1 <= s.ui.read

Inv == Good(S) /\ Quiet(S) /\ Prompted(S, prompts) /\ Halfway(S, pc)
----------------------------------------------------------------------------
(* The state, and what the functions do to its fields.                     *)

\* s and t differ in the flags of the window only.
SameButFlags(s, t) ==
    /\ t.port = s.port /\ t.log = s.log
    /\ t.ui.owner = s.ui.owner /\ t.ui.snapshot = s.ui.snapshot
    /\ t.ui.snapGen = s.ui.snapGen /\ t.ui.pending = s.ui.pending
    /\ t.ui.active = s.ui.active /\ t.ui.fileGen = s.ui.fileGen
    /\ t.ui.read = s.ui.read /\ t.ui.sent = s.ui.sent

LEMMA TimerDoes ==
    ASSUME NEW s, IsState(s)
    PROVE  IsState(UpdateTimer(s)) /\ SameButFlags(s, UpdateTimer(s))
BY DEF IsState, IsWindow, StateFields, WindowFields, UpdateTimer, SameButFlags

\* s and t differ in flags and in the window's look at the queue.
Looked(s, t) ==
    /\ t.port = s.port /\ t.log = s.log
    /\ t.ui.owner = s.ui.owner /\ t.ui.snapshot = Len(s.port.queue)
    /\ t.ui.snapGen = s.port.gen /\ t.ui.pending = s.ui.pending
    /\ t.ui.active = s.ui.active /\ t.ui.fileGen = s.ui.fileGen
    /\ t.ui.read = s.ui.read /\ t.ui.sent = s.ui.sent

LEMMA SnapshotDoes ==
    ASSUME NEW s, IsState(s)
    PROVE  IsState(Snapshot(s)) /\ Looked(s, Snapshot(s))
<1>1. s.port.queue \in Seq(Writes)
    BY DEF IsState, IsPort
<1>2. Len(s.port.queue) \in Nat
    BY <1>1, LenProperties
<1> QED BY <1>2 DEF IsState, IsWindow, StateFields, WindowFields, Snapshot, Looked

\* What stopFileSend does to the queue and to what the window waits for.
Stopped(s, t) ==
    /\ t.log = s.log
    /\ t.port.state = s.port.state /\ t.port.gen = s.port.gen
    /\ t.port.writing = s.port.writing /\ t.port.told = s.port.told
    /\ t.port.done = s.port.done
    /\ t.port.queue = SubSeq(s.port.queue, 1, KeptByStop(s))
    /\ t.ui.pending = WithoutCancelled(s.ui.pending, CancelledByStop(s))
    /\ t.ui.snapshot = Len(t.port.queue) /\ t.ui.snapGen = s.port.gen
    /\ t.ui.active = FALSE /\ t.ui.fileGen = NoGen /\ t.ui.owner = Released(s.ui.owner)
    /\ t.ui.read = s.ui.read /\ t.ui.sent = s.ui.sent

LEMMA StopFileDoes ==
    ASSUME NEW s, IsState(s), s.ui.active, KeptByStop(s) \in 0 .. Len(s.port.queue)
    PROVE  IsState(StopFile(s)) /\ Stopped(s, StopFile(s))
<1> DEFINE kept == KeptByStop(s)
           cancelled == CancelledByStop(s)
           queue == SubSeq(s.port.queue, 1, kept)
           pending == WithoutCancelled(s.ui.pending, cancelled)
           u == [s EXCEPT !.port.queue = SubSeq(@, 1, kept),
                          !.ui.pending = WithoutCancelled(@, cancelled),
                          !.ui.active = FALSE,
                          !.ui.fileGen = NoGen,
                          !.ui.owner = Released(@)]
<1>1. s.port.queue \in Seq(Writes)
    BY DEF IsState, IsPort
<1>2. queue \in Seq(Writes)
    BY <1>1, SubSeqProperties
<1>3. pending \subseteq Writes
    BY DEF IsState, IsWindow, WithoutCancelled
<1>4. /\ s = [f \in StateFields |-> s[f]]
       /\ s.port = [f \in PortFields |-> s.port[f]]
       /\ s.ui = [f \in WindowFields |-> s.ui[f]]
    BY DEF IsState, IsPort, IsWindow
<1> HIDE DEF queue, pending
<1>5. u = [s EXCEPT !.port.queue = queue, !.ui.pending = pending, !.ui.active = FALSE,
                     !.ui.fileGen = NoGen, !.ui.owner = Released(@)]
    BY DEF queue, pending
<1> HIDE DEF kept, cancelled, u
<1>6. /\ u.port = [s.port EXCEPT !.queue = queue]
       /\ u.ui = [s.ui EXCEPT !.pending = pending, !.active = FALSE, !.fileGen = NoGen,
                              !.owner = Released(@)]
       /\ u = [f \in StateFields |-> u[f]] /\ u.log = s.log
    BY <1>4, <1>5 DEF StateFields
<1>7. /\ u = [f \in StateFields |-> u[f]]
      /\ u.port = [f \in PortFields |-> u.port[f]]
      /\ u.ui = [f \in WindowFields |-> u.ui[f]]
      /\ u.log = s.log
    BY <1>4, <1>6
<1>8. /\ u.port.queue = queue /\ u.port.state = s.port.state /\ u.port.gen = s.port.gen
      /\ u.port.writing = s.port.writing /\ u.port.told = s.port.told
      /\ u.port.done = s.port.done
    BY <1>4, <1>6 DEF PortFields
<1>9. /\ u.ui.pending = pending /\ u.ui.active = FALSE /\ u.ui.fileGen = NoGen
      /\ u.ui.owner = Released(s.ui.owner) /\ u.ui.snapshot = s.ui.snapshot
      /\ u.ui.read = s.ui.read /\ u.ui.sent = s.ui.sent
    BY <1>4, <1>6 DEF WindowFields
<1>10. IsState(u)
    BY <1>2, <1>3, <1>7, <1>8, <1>9 DEF IsState, IsPort, IsWindow
<1>11. IsState(Snapshot(u)) /\ Looked(u, Snapshot(u))
    BY <1>10, SnapshotDoes
<1>12. StopFile(s) = UpdateTimer(Snapshot(u))
    BY DEF StopFile, u, kept, cancelled
<1>13. IsState(StopFile(s)) /\ SameButFlags(Snapshot(u), StopFile(s))
    BY <1>11, <1>12, TimerDoes
<1> DEFINE t == StopFile(s)
<1>14. /\ t.port = u.port /\ t.log = u.log
       /\ t.ui.pending = u.ui.pending /\ t.ui.active = u.ui.active
       /\ t.ui.fileGen = u.ui.fileGen /\ t.ui.owner = u.ui.owner
       /\ t.ui.read = u.ui.read /\ t.ui.sent = u.ui.sent
       /\ t.ui.snapshot = Len(u.port.queue) /\ t.ui.snapGen = u.port.gen
    BY <1>11, <1>13 DEF SameButFlags, Looked
<1> HIDE DEF t
<1>15. /\ t.log = s.log
       /\ t.port.state = s.port.state /\ t.port.gen = s.port.gen
       /\ t.port.writing = s.port.writing /\ t.port.told = s.port.told
       /\ t.port.done = s.port.done /\ t.port.queue = queue
    BY <1>7, <1>8, <1>14
<1>16. /\ t.ui.pending = pending
       /\ t.ui.snapshot = Len(t.port.queue) /\ t.ui.snapGen = s.port.gen
       /\ t.ui.active = FALSE /\ t.ui.fileGen = NoGen /\ t.ui.owner = Released(s.ui.owner)
       /\ t.ui.read = s.ui.read /\ t.ui.sent = s.ui.sent
    BY <1>8, <1>9, <1>14, <1>15
<1>17. Stopped(s, t)
    BY <1>15, <1>16 DEF Stopped, queue, pending, kept, cancelled
<1> QED BY <1>13, <1>17 DEF t

----------------------------------------------------------------------------
(* Writes that are answered, and answers that are taken.                   *)

Unique(q) == \A i, j \in 1 .. Len(q) : q[i] = q[j] => i = j

\* The writes of the results that report a success.
Successes(N) == WritesOf({r \in N : r.status = "Succeeded"})

\* The session gives the results N of writes that were in its queue.
Gives(s, t, N) ==
    /\ t.ui.pending = s.ui.pending
    /\ t.port.gen = s.port.gen
    /\ WritesOf(N) \subseteq Queued(s)
    /\ \A q, r \in N : q.write = r.write => q = r
    /\ Queued(t) = Queued(s) \ WritesOf(N) /\ Unique(t.port.queue)
    /\ Answers(t) = Answers(s) \cup N
    /\ t.log.submitted = s.log.submitted
    /\ t.log.written = s.log.written \cup Successes(N)
    /\ t.log.published = s.log.published /\ t.log.twice = s.log.twice
    /\ t.log.forgotten = s.log.forgotten /\ s.log.faulted \subseteq t.log.faulted

LEMMA GivesKeeps ==
    ASSUME NEW s, NEW t, NEW N, Owes(s), Recorded(s), Gives(s, t, N)
    PROVE  Owes(t) /\ Recorded(t)
<1> DEFINE Q == Queued(s)
           A == Answers(s)
           P == s.ui.pending
           gone == s.log.published \cup s.log.forgotten
<1>1. /\ P = Q \cup WritesOf(A)
      /\ \A w \in P : w.id <= s.log.submitted /\ w.gen = s.port.gen
      /\ \A r \in A : r.write \notin Q
      /\ \A q, r \in A : q.write = r.write => q = r
    BY DEF Owes
<1>2. /\ t.ui.pending = P /\ t.port.gen = s.port.gen
      /\ WritesOf(N) \subseteq Q
      /\ \A q, r \in N : q.write = r.write => q = r
      /\ Queued(t) = Q \ WritesOf(N) /\ Unique(t.port.queue)
      /\ Answers(t) = A \cup N
      /\ t.log.submitted = s.log.submitted
      /\ t.log.written = s.log.written \cup Successes(N)
      /\ t.log.published = s.log.published /\ t.log.twice = s.log.twice
      /\ t.log.forgotten = s.log.forgotten /\ s.log.faulted \subseteq t.log.faulted
    BY DEF Gives
<1>3. /\ s.log.twice = FALSE
      /\ gone \subseteq s.log.written /\ s.log.published \cap s.log.forgotten = {}
      /\ \A w \in Q : w \notin s.log.written
      /\ \A r \in A : /\ r.status = "Succeeded" <=> r.write \in s.log.written
                      /\ r.write \notin gone
      /\ s.log.written \ gone \subseteq WritesOf(A)
      /\ \A w \in s.log.forgotten : w.gen \in s.log.faulted
    BY DEF Recorded
<1>4. t.log.published \cup t.log.forgotten = gone
    BY <1>2
<1> HIDE DEF Q, A, P, gone
<1>5. \A r \in N : r.write \in Q
    BY <1>2 DEF WritesOf
<1>6. \A q, r \in A \cup N : q.write = r.write => q = r
    BY <1>1, <1>2, <1>5
<1>7. Owes(t)
    <2>1. t.ui.pending = Queued(t) \cup WritesOf(A \cup N)
        BY <1>1, <1>2, <1>5 DEF WritesOf
    <2>2. \A r \in A \cup N : r.write \notin Queued(t)
        BY <1>1, <1>2 DEF WritesOf
    <2> QED BY <1>1, <1>2, <1>6, <2>1, <2>2 DEF Owes, Unique
<1>8. Recorded(t)
    <2>1. \A w \in Queued(t) : w \notin t.log.written
        BY <1>2, <1>3 DEF Successes, WritesOf
    <2>2. ASSUME NEW r \in A \cup N
          PROVE  r.status = "Succeeded" <=> r.write \in t.log.written
        <3>1. r.write \in Successes(N) <=> r \in N /\ r.status = "Succeeded"
            BY <1>6 DEF Successes, WritesOf
        <3>2. r \in N => r.write \notin s.log.written
            BY <1>3, <1>5
        <3>3. r \in A => (r.status = "Succeeded" <=> r.write \in s.log.written)
            BY <1>3
        <3> QED BY <1>2, <3>1, <3>2, <3>3
    <2>3. \A r \in A \cup N : r.write \notin gone
        BY <1>3, <1>5
    <2>4. t.log.written \ gone \subseteq WritesOf(A \cup N)
        BY <1>2, <1>3 DEF Successes, WritesOf
    <2>5. \A w \in t.log.forgotten : w.gen \in t.log.faulted
        BY <1>2, <1>3
    <2> QED BY <1>2, <1>3, <1>4, <2>1, <2>2, <2>3, <2>4, <2>5 DEF Recorded
<1> QED BY <1>7, <1>8

\* The window takes all results, records the successes P and forgets the others, F,
\* if it has any: those are of a session that had faulted by itself.
Takes(s, t, P, F) ==
    /\ t.port.queue = s.port.queue /\ t.port.gen = s.port.gen
    /\ t.port.told = s.port.told
    /\ Answers(t) = {}
    /\ t.ui.pending = Queued(s)
    /\ P \cup F = Successes(Answers(s)) /\ P \cap F = {}
    /\ F # {} => s.port.gen \in s.log.faulted
    /\ t.log.submitted = s.log.submitted /\ t.log.written = s.log.written
    /\ t.log.published = s.log.published \cup P
    /\ t.log.twice = (s.log.twice \/ P \cap s.log.published # {})
    /\ t.log.forgotten = s.log.forgotten \cup F /\ t.log.faulted = s.log.faulted

LEMMA TakesKeeps ==
    ASSUME NEW s, NEW t, NEW P, NEW F, Owes(s), Recorded(s), Takes(s, t, P, F)
    PROVE  Owes(t) /\ Recorded(t)
<1>1. Queued(t) = Queued(s)
    BY DEF Takes, Queued, InLine
<1>2. Owes(t)
    BY <1>1 DEF Owes, Takes, WritesOf
<1> DEFINE N == Successes(Answers(s))
           gone == s.log.published \cup s.log.forgotten
<1>3. N \subseteq s.log.written /\ N \cap gone = {} /\ P \cup F = N
    BY DEF Recorded, Successes, WritesOf, Takes
<1>4. s.log.written \ gone \subseteq N
    BY DEF Recorded, Successes, WritesOf
<1>5. \A w \in F : w.gen \in s.log.faulted
    BY DEF Takes, Successes, WritesOf, Owes
<1>6. t.log.published \cup t.log.forgotten = gone \cup N
    BY <1>3 DEF Takes
<1> HIDE DEF N
<1>7. Recorded(t)
    BY <1>1, <1>3, <1>4, <1>5, <1>6 DEF Recorded, Takes
<1> QED BY <1>2, <1>7

----------------------------------------------------------------------------
(* What the functions keep.                                                *)

\* No file begins, and no chunk is waited for that was not before.
Calm(s, t) == (t.ui.active => s.ui.active) /\ Chunks(t) \subseteq Chunks(s)

Keeps(s, t) == Good(t) /\ (Quiet(s) => Quiet(t)) /\ Calm(s, t)

LEMMA KeepsThrough ==
    ASSUME NEW s, NEW t, NEW u, Keeps(s, t), Keeps(t, u)
    PROVE  Keeps(s, u)
BY DEF Keeps, Calm

LEMMA FlagsKeep ==
    ASSUME NEW s, NEW t, Good(s), IsState(t), SameButFlags(s, t)
    PROVE  Keeps(s, t)
<1>1. Queued(t) = Queued(s) /\ Answers(t) = Answers(s) /\ Chunks(t) = Chunks(s)
    BY DEF SameButFlags, Queued, InLine, Answers, Chunks
<1>2. Owes(t) /\ Recorded(t)
    BY <1>1 DEF Good, Owes, Recorded, SameButFlags
<1>3. Seen(t) /\ Filed(t)
    BY <1>1 DEF Good, Seen, Filed, SameButFlags
<1> QED BY <1>1, <1>2, <1>3 DEF Good, Keeps, Calm, Quiet, SameButFlags

LEMMA LookKeeps ==
    ASSUME NEW s, NEW t, Good(s), IsState(t), Looked(s, t)
    PROVE  Keeps(s, t)
<1>1. Queued(t) = Queued(s) /\ Answers(t) = Answers(s) /\ Chunks(t) = Chunks(s)
    BY DEF Looked, Queued, InLine, Answers, Chunks
<1>2. Owes(t) /\ Recorded(t)
    BY <1>1 DEF Good, Owes, Recorded, Looked
<1>3. s.port.queue \in Seq(Writes)
    BY DEF Good, IsState, IsPort
<1>4. Len(s.port.queue) \in Nat
    BY <1>3, LenProperties
<1>5. Seen(t) /\ Filed(t)
    BY <1>1, <1>4 DEF Good, Seen, Filed, Looked
<1> QED BY <1>1, <1>2, <1>5 DEF Good, Keeps, Calm, Quiet, Looked

LEMMA TimerKeeps ==
    ASSUME NEW s, Good(s)
    PROVE  Keeps(s, UpdateTimer(s))
BY TimerDoes, FlagsKeep DEF Good

LEMMA SnapshotKeeps ==
    ASSUME NEW s, Good(s)
    PROVE  Keeps(s, Snapshot(s))
BY SnapshotDoes, LookKeeps DEF Good

\* Stopping a file: the queue keeps at most the chunk that is being written, and
\* the window forgets the chunks that were cancelled and nothing else.
LEMMA StopFileKeeps ==
    ASSUME NEW s, Good(s)
    PROVE  /\ Keeps(s, StopFile(s)) /\ ~StopFile(s).ui.active
           /\ StopFile(s).port.state = s.port.state /\ StopFile(s).port.gen = s.port.gen
<1>1. CASE ~s.ui.active
    <2>1. StopFile(s) = s
        BY <1>1 DEF StopFile
    <2> QED BY <1>1, <2>1 DEF Keeps, Calm
<1>2. CASE s.ui.active
    <2> DEFINE q == s.port.queue
               kept == KeptByStop(s)
               cancelled == CancelledByStop(s)
               t == StopFile(s)
    <2>1. q \in Seq(Writes) /\ s.ui.active \in BOOLEAN
        BY DEF Good, IsState, IsPort, IsWindow
    <2>2. Len(q) \in Nat
        BY <2>1, LenProperties
    <2>3. kept \in 0 .. Len(q)
        <3>1. s.port.writing => Len(q) # 0
            BY <2>1, EmptySeq DEF Good, Seen
        <3> QED BY <2>2, <3>1 DEF KeptByStop
    <2>4. IsState(t) /\ Stopped(s, t)
        BY <1>2, <2>3, StopFileDoes DEF Good
    <2>5. t.port.queue = SubSeq(q, 1, kept)
        BY <2>4 DEF Stopped
    <2> HIDE DEF t, kept, q
    <2>6. Len(t.port.queue) = kept /\ \A i \in 1 .. kept : t.port.queue[i] = q[i]
        BY <2>1, <2>3, <2>5, SubSeqProperties
    <2>7. cancelled = {q[i] : i \in kept + 1 .. Len(q)}
        BY DEF CancelledByStop, kept, q
    <2>8. \A i, j \in 1 .. Len(q) : q[i] = q[j] => i = j
        BY DEF Good, Owes, q
    <2>9. Queued(s) = {q[i] : i \in 1 .. Len(q)}
        BY <1>2 DEF Good, Filed, Queued, InLine, q
    <2>10. Queued(t) = {q[i] : i \in 1 .. kept}
        <3>1. ~t.port.told
            BY <1>2, <2>4 DEF Good, Filed, Stopped
        <3>2. InLine(t) = {q[i] : i \in 1 .. kept}
            BY <2>6 DEF InLine
        <3> QED BY <3>1, <3>2 DEF Queued
    <2>11. /\ cancelled \subseteq Queued(s) /\ Queued(t) \subseteq Queued(s)
           /\ Queued(t) = Queued(s) \ cancelled
        BY <2>2, <2>3, <2>7, <2>8, <2>9, <2>10
    <2>12. Unique(t.port.queue)
        BY <2>2, <2>3, <2>6, <2>8 DEF Unique
    <2> HIDE DEF cancelled
    <2>13. t.ui.pending = s.ui.pending \ cancelled
        <3>1. \A w \in cancelled : w.source = "File"
            BY <1>2, <2>11 DEF Good, Filed
        <3> QED BY <2>4, <3>1 DEF Stopped, WithoutCancelled, cancelled
    <2>14. Answers(t) = Answers(s)
        BY <2>4 DEF Stopped, Answers
    <2>15. Owes(t)
        <3>1. t.ui.pending = Queued(t) \cup WritesOf(Answers(t))
            BY <2>11, <2>13, <2>14 DEF Good, Owes, WritesOf
        <3>2. t.log = s.log /\ t.port.gen = s.port.gen
            BY <2>4 DEF Stopped
        <3> QED BY <2>11, <2>12, <2>13, <2>14, <3>1, <3>2 DEF Good, Owes, Unique
    <2>16. Recorded(t)
        <3>1. t.log = s.log
            BY <2>4 DEF Stopped
        <3> QED BY <2>11, <2>14, <3>1 DEF Good, Recorded
    <2>17. Seen(t)
        <3>1. /\ s.port.state # "Closed" /\ ~s.port.told
              /\ s.port.state = "Open" => s.port.gen # NoGen
            BY <1>2 DEF Good, Filed, Seen
        <3>2. s.port.writing => kept # 0
            <4>1. s.port.writing => Len(q) # 0
                BY <2>1, EmptySeq DEF Good, Seen, q
            <4> QED BY <4>1 DEF KeptByStop, kept, q
        <3>3. t.port.writing => t.port.queue # << >>
            BY <2>4, <2>6, <3>2 DEF Stopped
        <3> QED BY <2>3, <2>4, <2>6, <3>1, <3>3 DEF Seen, Stopped
    <2>18. Filed(t)
        BY <1>2, <2>4 DEF Good, Filed, Stopped, Released
    <2>19. Chunks(t) \subseteq Chunks(s)
        BY <2>13 DEF Chunks
    <2>20. Quiet(s) => Quiet(t)
        BY <2>4, <2>13 DEF Quiet, Stopped
    <2> QED BY <1>2, <2>4, <2>15, <2>16, <2>17, <2>18, <2>19, <2>20
            DEF Good, Keeps, Calm, Stopped, t
<1>3. s.ui.active \in BOOLEAN
    BY DEF Good, IsState, IsWindow
<1> QED BY <1>1, <1>2, <1>3

----------------------------------------------------------------------------
(* Draining.                                                               *)

LEMMA AnswersAre ==
    ASSUME NEW s, IsState(s)
    PROVE  ToSet(s.port.done) = Answers(s) /\ Answers(s) \subseteq Results /\ IsFiniteSet(Answers(s))
<1>1. s.port.done \in Seq(Results)
    BY DEF IsState, IsPort
<1>2. /\ DOMAIN s.port.done = 1 .. Len(s.port.done) /\ Len(s.port.done) \in Nat
      /\ \A i \in 1 .. Len(s.port.done) : s.port.done[i] \in Results
    BY <1>1, LenProperties, ElementOfSeq
<1>3. Range(s.port.done) = Answers(s)
    BY <1>2 DEF Range, Answers
<1>4. IsFiniteSet(Answers(s))
    <2> DEFINE n == Len(s.port.done)
    <2>1. IsFiniteSet(1 .. n)
        <3>1. n \in Int
            BY <1>2
        <3> HIDE DEF n
        <3> QED BY <3>1, FS_Interval
    <2>2. s.port.done \in Surjection(1 .. Len(s.port.done), Answers(s))
        BY <1>2, <1>1 DEF Surjection, Answers
    <2> QED BY <2>1, <2>2, FS_Surjection
<1> QED BY <1>2, <1>4 DEF ToSet, Answers

\* drainSerialWriteResults before a file that is complete is stopped.
Succeeding(s) == {r \in Taken(s) : Decision(s, r) = "Succeeded"}
OfFile(s) ==
    {r \in Succeeding(s) : r.write.source = "File" /\ s.ui.active /\ s.ui.fileGen = r.write.gen}
Emptied(s) ==
    [Publish(s, WritesOf(Succeeding(s))) EXCEPT
        !.port.done = << >>,
        !.ui.pending = @ \ WritesOf(ToSet(s.port.done)),
        !.ui.sent = @ + Cardinality(OfFile(s))]

LEMMA DrainIs ==
    ASSUME NEW s
    PROVE  DrainResults(s) = IF OfFile(s) # {} /\ Emptied(s).ui.sent >= FileChunks
                             THEN StopFile(Emptied(s)) ELSE Emptied(s)
BY DEF DrainResults, Emptied, OfFile, Succeeding

\* Every result is taken, and every success is recorded: the session is the one the
\* window knows, or the one it saw last.
LEMMA AllAreTaken ==
    ASSUME NEW s, Good(s), Quiet(s)
    PROVE  /\ Taken(s) = Answers(s)
           /\ Succeeding(s) = {r \in Answers(s) : r.status = "Succeeded"}
           /\ WritesOf(Succeeding(s)) = Successes(Answers(s))
<1>1. ToSet(s.port.done) = Answers(s)
    BY AnswersAre DEF Good
<1>2. \A r \in Answers(s) : /\ r.write \in s.ui.pending
                             /\ r.write.gen = s.port.gen /\ s.port.gen # NoGen
    <2>1. \A r \in Answers(s) : r.write \in s.ui.pending /\ r.write.gen = s.port.gen
        BY DEF Good, Owes, WritesOf
    <2>2. \A w \in s.ui.pending : w.gen \in 1 .. MaxGeneration
        BY DEF Good, IsState, IsWindow, Writes, Generations
    <2> QED BY <2>1, <2>2, SendFlowBounds DEF NoGen
<1>3. Taken(s) = Answers(s)
    BY <1>1, <1>2 DEF Taken
<1>4. ASSUME NEW r \in Answers(s)
      PROVE  Decision(s, r) = "Succeeded" <=> r.status = "Succeeded"
    <2>1. s.port.state # "Closed"
        <3> SUFFICES ASSUME s.port.state = "Closed" PROVE FALSE
            OBVIOUS
        <3>1. s.port.done = << >>
            BY DEF Quiet
        <3>2. Answers(s) = {}
            BY <3>1 DEF Answers
        <3> QED BY <3>2
    <2>2. s.port.state \in {"Open", "Faulted"}
        BY <2>1 DEF Good, IsState, IsPort
    <2>3. s.ui.snapGen = s.port.gen /\ s.port.gen # NoGen
        BY <1>2 DEF Good, Seen
    <2>4. r.write.gen = s.port.gen
        BY <1>2
    <2>5. \/ s.port.state = "Open"
          \/ /\ s.port.state = "Faulted"
             /\ s.ui.snapGen # NoGen /\ s.ui.snapGen = r.write.gen
        BY <2>2, <2>3, <2>4
    <2> QED BY <2>4, <2>5 DEF Decision, IsOpen, Generation
<1>5. Succeeding(s) = {r \in Answers(s) : r.status = "Succeeded"}
    BY <1>3, <1>4 DEF Succeeding
<1> QED BY <1>3, <1>5 DEF Successes

EmptiedTo(s, t) ==
    /\ t.port.state = s.port.state /\ t.port.gen = s.port.gen
    /\ t.port.queue = s.port.queue /\ t.port.writing = s.port.writing
    /\ t.port.told = s.port.told /\ t.port.done = << >>
    /\ t.ui.owner = s.ui.owner /\ t.ui.snapshot = s.ui.snapshot
    /\ t.ui.snapGen = s.ui.snapGen /\ t.ui.active = s.ui.active
    /\ t.ui.fileGen = s.ui.fileGen /\ t.ui.read = s.ui.read
    /\ t.ui.pending = s.ui.pending \ WritesOf(Answers(s))
    /\ t.ui.sent = s.ui.sent + Cardinality(OfFile(s))
    /\ t.log.submitted = s.log.submitted /\ t.log.written = s.log.written
    /\ t.log.published = s.log.published \cup Successes(Answers(s))
    /\ t.log.twice = (s.log.twice \/ Successes(Answers(s)) \cap s.log.published # {})
    /\ t.log.forgotten = s.log.forgotten /\ t.log.faulted = s.log.faulted

LEMMA EmptiedDoes ==
    ASSUME NEW s, Good(s), Quiet(s)
    PROVE  IsState(Emptied(s)) /\ EmptiedTo(s, Emptied(s))
<1> DEFINE sent == WritesOf(Succeeding(s))
           n == Cardinality(OfFile(s))
           W == WritesOf(ToSet(s.port.done))
           none == << >>
           t == Emptied(s)
<1>1. none \in Seq(Results)
    OBVIOUS
<1>2. sent = Successes(Answers(s))
    BY AllAreTaken
<1>3. W = WritesOf(Answers(s))
    BY AnswersAre DEF Good
<1> HIDE DEF none, sent, n, W
<1>4. t = [s EXCEPT !.log.published = @ \cup sent,
                    !.log.twice = @ \/ sent \cap s.log.published # {},
                    !.port.done = none,
                    !.ui.pending = @ \ W,
                    !.ui.sent = @ + n]
    BY DEF Emptied, Publish, sent, n, W, none
<1>5. /\ IsState(s) /\ IsPort(s.port) /\ IsWindow(s.ui) /\ IsLog(s.log)
      /\ s = [f \in StateFields |-> s[f]]
      /\ s.port = [f \in PortFields |-> s.port[f]]
      /\ s.ui = [f \in WindowFields |-> s.ui[f]]
      /\ s.log = [f \in LogFields |-> s.log[f]]
    BY DEF Good, IsState, IsPort, IsWindow, IsLog
<1> HIDE DEF t
<1>6. /\ t = [f \in StateFields |-> t[f]]
      /\ t.port = [f \in PortFields |-> t.port[f]]
      /\ t.ui = [f \in WindowFields |-> t.ui[f]]
      /\ t.log = [f \in LogFields |-> t.log[f]]
    BY <1>4, <1>5 DEF StateFields
<1>7. /\ t.port.state = s.port.state /\ t.port.gen = s.port.gen
      /\ t.port.queue = s.port.queue /\ t.port.writing = s.port.writing
      /\ t.port.told = s.port.told /\ t.port.done = none
    BY <1>4, <1>5 DEF StateFields, PortFields
<1>8. /\ t.ui.owner = s.ui.owner /\ t.ui.snapshot = s.ui.snapshot
      /\ t.ui.snapGen = s.ui.snapGen /\ t.ui.active = s.ui.active
      /\ t.ui.fileGen = s.ui.fileGen /\ t.ui.read = s.ui.read
      /\ t.ui.pending = s.ui.pending \ W
      /\ t.ui.sent = s.ui.sent + n
    BY <1>4, <1>5 DEF StateFields, WindowFields
<1>9. /\ t.log.submitted = s.log.submitted /\ t.log.written = s.log.written
      /\ t.log.published = s.log.published \cup sent
      /\ t.log.twice = (s.log.twice \/ sent \cap s.log.published # {})
      /\ t.log.forgotten = s.log.forgotten /\ t.log.faulted = s.log.faulted
    BY <1>4, <1>5 DEF StateFields, LogFields
<1>10. IsState(t)
    BY <1>1, <1>5, <1>6, <1>7, <1>8, <1>9 DEF IsState, IsPort, IsWindow, IsLog
<1> QED BY <1>2, <1>3, <1>7, <1>8, <1>9, <1>10 DEF EmptiedTo, t, n, none

LEMMA PendingIsFinite ==
    ASSUME NEW s, Good(s)
    PROVE  IsFiniteSet(s.ui.pending) /\ IsFiniteSet(Chunks(s)) /\ Cardinality(Chunks(s)) \in Nat
<1>1. s.port.queue \in Seq(Writes)
    BY DEF Good, IsState, IsPort
<1>2. /\ s.port.queue \in Surjection(1 .. Len(s.port.queue), InLine(s))
      /\ Len(s.port.queue) \in Nat
    BY <1>1, LenProperties, ElementOfSeq DEF Surjection, InLine
<1>3. IsFiniteSet(1 .. Len(s.port.queue))
    BY <1>2, FS_Interval
<1>4. IsFiniteSet(Queued(s))
    <2>1. IsFiniteSet(InLine(s))
        BY <1>2, <1>3, FS_Surjection
    <2>2. Queued(s) \subseteq InLine(s)
        BY DEF Queued
    <2> QED BY <2>1, <2>2, FS_Subset
<1>5. IsFiniteSet(WritesOf(Answers(s)))
    <2> DEFINE A == Answers(s)
               g == [r \in A |-> r.write]
    <2>1. IsFiniteSet(A)
        BY AnswersAre DEF Good
    <2>2. g \in Surjection(A, WritesOf(A))
        BY DEF Surjection, WritesOf
    <2> QED BY <2>1, <2>2, FS_Surjection
<1>6. s.ui.pending = Queued(s) \cup WritesOf(Answers(s))
    BY DEF Good, Owes
<1>7. IsFiniteSet(s.ui.pending)
    BY <1>4, <1>5, <1>6, FS_Union
<1>8. Chunks(s) \subseteq s.ui.pending
    BY DEF Chunks
<1>9. IsFiniteSet(Chunks(s))
    BY <1>7, <1>8, FS_Subset
<1> QED BY <1>7, <1>9, FS_CardinalityType

\* The chunks that are counted as sent are not on their way any more.
LEMMA SentAndQueued ==
    ASSUME NEW s, Good(s), Quiet(s), NEW C, C \subseteq Chunks(s), C \subseteq Queued(s)
    PROVE  /\ Cardinality(OfFile(s)) \in Nat /\ Cardinality(C) \in Nat
           /\ Cardinality(OfFile(s)) + Cardinality(C) <= Cardinality(Chunks(s))
<1> DEFINE N == OfFile(s)
           X == {r.write : r \in N}
           g == [r \in N |-> r.write]
<1>1. N \subseteq Answers(s) /\ \A r \in N : r.write.source = "File"
    BY AllAreTaken DEF OfFile
<1>2. IsFiniteSet(N)
    BY <1>1, AnswersAre, FS_Subset DEF Good
<1>3. g \in Bijection(N, X)
    <2>1. \A q, r \in N : q.write = r.write => q = r
        BY <1>1 DEF Good, Owes
    <2>2. g \in [N -> X] /\ \A q, r \in N : g[q] = g[r] => q = r
        BY <2>1
    <2>3. g \in Injection(N, X)
        BY <2>2 DEF Injection, IsInjective
    <2>4. g \in Surjection(N, X)
        BY <2>2 DEF Surjection
    <2> QED BY <2>3, <2>4 DEF Bijection
<1>4. IsFiniteSet(X) /\ Cardinality(X) = Cardinality(N)
    BY <1>2, <1>3, FS_Bijection DEF ExistsBijection
<1>5. X \subseteq Chunks(s)
    BY <1>1 DEF Good, Owes, Chunks, WritesOf
<1>6. X \cap C = {}
    BY <1>1 DEF Good, Owes
<1> HIDE DEF X, N, g
<1>7. IsFiniteSet(Chunks(s)) /\ IsFiniteSet(C) /\ Cardinality(Chunks(s)) \in Nat
    BY PendingIsFinite, FS_Subset
<1>8. Cardinality(X \cup C) = Cardinality(X) + Cardinality(C)
    <2>1. Cardinality(X \cup C) = Cardinality(X) + Cardinality(C) - Cardinality(X \cap C)
        BY <1>4, <1>7, FS_Union
    <2>2. Cardinality(X \cap C) = 0
        BY <1>6, FS_EmptySet
    <2> QED BY <1>4, <1>7, <2>1, <2>2, FS_CardinalityType
<1>9. X \cup C \subseteq Chunks(s)
    BY <1>5
<1>10. Cardinality(X \cup C) <= Cardinality(Chunks(s))
    BY <1>7, <1>9, FS_Subset
<1>11. Cardinality(X) \in Nat /\ Cardinality(C) \in Nat
    BY <1>4, <1>7, FS_CardinalityType
<1> QED BY <1>4, <1>8, <1>10, <1>11 DEF N

LEMMA EmptiedKeeps ==
    ASSUME NEW s, Good(s), Quiet(s), NEW t, t = Emptied(s)
    PROVE  Keeps(s, t) /\ Quiet(t)
<1>1. IsState(t) /\ EmptiedTo(s, t)
    BY EmptiedDoes
<1>2. Queued(t) = Queued(s) /\ Answers(t) = {}
    BY <1>1 DEF EmptiedTo, Queued, InLine, Answers
<1>3. t.ui.pending = Queued(s)
    BY <1>1 DEF EmptiedTo, Good, Owes, WritesOf
<1>4. Takes(s, t, Successes(Answers(s)), {})
    BY <1>1, <1>2, <1>3 DEF EmptiedTo, Takes
<1>5. Owes(t) /\ Recorded(t)
    BY <1>4, TakesKeeps DEF Good
<1>6. t.ui.pending \subseteq s.ui.pending
    BY <1>3 DEF Good, Owes
<1>7. Seen(t)
    <2>1. s.ui.pending # {} => s.ui.snapGen = s.port.gen
        BY DEF Good, Seen
    <2>2. t.ui.pending # {} => t.ui.snapGen = t.port.gen
        BY <1>1, <1>6, <2>1 DEF EmptiedTo
    <2> QED BY <1>1, <2>2 DEF Good, Seen, EmptiedTo
<1>8. Chunks(t) \subseteq Chunks(s) /\ Chunks(t) \subseteq Queued(s)
    BY <1>3, <1>6 DEF Chunks
<1>9. /\ Cardinality(OfFile(s)) \in Nat /\ Cardinality(Chunks(t)) \in Nat
      /\ Cardinality(OfFile(s)) + Cardinality(Chunks(t)) <= Cardinality(Chunks(s))
      /\ Cardinality(Chunks(s)) \in Nat
    BY <1>8, SentAndQueued, PendingIsFinite
<1>10. Filed(t)
    <2> DEFINE n == Cardinality(OfFile(s))
               c == Cardinality(Chunks(t))
               k == Cardinality(Chunks(s))
    <2>1. /\ s.ui.owner = IF s.ui.active THEN "FileSend" ELSE "None"
          /\ s.ui.read \in 0 .. FileChunks /\ s.ui.sent \in 0 .. s.ui.read
          /\ s.ui.active =>
                /\ s.port.state # "Closed" /\ ~s.port.told
                /\ s.ui.fileGen = s.port.gen /\ s.ui.fileGen # NoGen
                /\ \A w \in Queued(s) : w.source = "File"
                /\ s.ui.sent + k <= s.ui.read
          /\ ~s.ui.active => s.ui.fileGen = NoGen
        BY DEF Good, Filed
    <2>2. ~s.ui.active => n = 0
        <3> HAVE ~s.ui.active
        <3>1. OfFile(s) = {}
            BY DEF OfFile
        <3> QED BY <3>1, FS_EmptySet
    <2>3. FileChunks \in Nat
        BY SendFlowBounds
    <2>4. t.ui.sent = s.ui.sent + n
        BY <1>1 DEF EmptiedTo
    <2>5. n \in Nat /\ c \in Nat /\ k \in Nat /\ n + c <= k
        BY <1>9
    <2> HIDE DEF n, c, k
    <2>6. s.ui.active => s.ui.sent + n <= s.ui.read /\ t.ui.sent + c <= s.ui.read
        BY <2>1, <2>3, <2>4, <2>5
    <2>7. t.ui.sent \in 0 .. s.ui.read
        BY <2>1, <2>2, <2>3, <2>4, <2>5, <2>6
    <2>8. /\ t.ui.owner = s.ui.owner /\ t.ui.active = s.ui.active /\ t.ui.read = s.ui.read
          /\ t.ui.fileGen = s.ui.fileGen /\ t.port.state = s.port.state /\ t.port.gen = s.port.gen
          /\ t.port.told = s.port.told
        BY <1>1 DEF EmptiedTo
    <2> QED BY <1>2, <2>1, <2>6, <2>7, <2>8 DEF Filed, c
<1>11. Quiet(t)
    <2>1. s.port.state # "Open" /\ s.ui.pending # {} => s.port.gen \in s.log.faulted
        BY DEF Quiet
    <2>2. /\ t.port.state = s.port.state /\ t.port.gen = s.port.gen /\ t.port.done = << >>
          /\ t.log.faulted = s.log.faulted
        BY <1>1 DEF EmptiedTo
    <2> QED BY <1>6, <2>1, <2>2 DEF Quiet
<1>12. t.ui.active = s.ui.active
    BY <1>1 DEF EmptiedTo
<1> QED BY <1>1, <1>5, <1>7, <1>8, <1>10, <1>11, <1>12 DEF Good, Keeps, Calm

\* Draining takes all results, and ends a file whose last chunk was sent.
LEMMA DrainKeeps ==
    ASSUME NEW s, Good(s), Quiet(s)
    PROVE  Keeps(s, DrainResults(s)) /\ Quiet(DrainResults(s))
<1> DEFINE t == Emptied(s)
<1>1. Keeps(s, t) /\ Quiet(t)
    BY EmptiedKeeps
<1>2. Good(t)
    BY <1>1 DEF Keeps
<1>3. Keeps(t, StopFile(t))
    BY <1>2, StopFileKeeps
<1>4. Keeps(s, StopFile(t))
    BY <1>1, <1>3, KeepsThrough
<1>5. DrainResults(s) = t \/ DrainResults(s) = StopFile(t)
    BY DrainIs
<1> HIDE DEF t
<1>6. Quiet(StopFile(t))
    BY <1>1, <1>3 DEF Keeps
<1> QED BY <1>1, <1>4, <1>5, <1>6

----------------------------------------------------------------------------
(* Closing.                                                                *)

\* What f is on D.
Images(f, D) == {f[i] : i \in D}

\* h is f on L, and on the rest of B what g is on R.
Joined(f, L, g, R, h, B) ==
    /\ \A i \in L : i \in B /\ h[i] = f[i]
    /\ \A i \in R : \E j \in B : h[j] = g[i]
    /\ \A i \in B : (i \in L /\ h[i] = f[i]) \/ \E j \in R : h[i] = g[j]

LEMMA ImagesMeet ==
    ASSUME NEW f, NEW L, NEW g, NEW R, NEW h, NEW B, Joined(f, L, g, R, h, B)
    PROVE  Images(h, B) = Images(f, L) \cup Images(g, R)
BY DEF Images, Joined

AnsweredAll(queue, done, results, N) ==
    /\ done \o results \in Seq(Results)
    /\ ToSet(results) = N
    /\ {(done \o results)[i] : i \in 1 .. Len(done \o results)}
         = {done[i] : i \in 1 .. Len(done)} \cup N
    /\ WritesOf(N) = {queue[i] : i \in 1 .. Len(queue)}
    /\ \A q, r \in N : q.write = r.write => q = r

LEMMA Answering ==
    ASSUME NEW queue \in Seq(Writes), Unique(queue), NEW done \in Seq(Results),
           NEW results, results = [i \in 1 .. Len(queue) |-> results[i]],
           \A i \in 1 .. Len(queue) : /\ results[i] \in Results
                                      /\ results[i].write = queue[i],
           NEW N, N = {results[i] : i \in 1 .. Len(queue)}
    PROVE  AnsweredAll(queue, done, results, N)
<1>1. Len(queue) \in Nat
    BY LenProperties
<1>2. results \in Seq(Results) /\ Len(results) = Len(queue)
    <2> DEFINE n == Len(queue)
    <2>1. n \in Nat
        BY <1>1
    <2> HIDE DEF n
    <2>2. results \in [1 .. n -> Results]
        BY DEF n
    <2> QED BY <2>1, <2>2 DEF n
<1> DEFINE m == Len(done)
           n == Len(queue)
           both == done \o results
<1>3. /\ both \in Seq(Results) /\ Len(both) = m + n /\ m \in Nat /\ n \in Nat
      /\ \A i \in 1 .. m + n : both[i] = IF i <= m THEN done[i] ELSE results[i - m]
    BY <1>2, ConcatProperties, LenProperties
<1> HIDE DEF both, m, n
<1>4. {both[i] : i \in 1 .. m + n} = {done[i] : i \in 1 .. m} \cup N
    <2>1. ASSUME NEW i \in 1 .. m
          PROVE  i \in 1 .. m + n /\ both[i] = done[i]
        <3>1. i \in 1 .. m + n /\ i <= m
            BY <1>3
        <3> QED BY <1>3, <3>1
    <2>2. ASSUME NEW i \in 1 .. n
          PROVE  i + m \in 1 .. m + n /\ both[i + m] = results[i]
        <3>1. i + m \in 1 .. m + n /\ ~(i + m <= m) /\ (i + m) - m = i
            BY <1>3
        <3> QED BY <1>3, <3>1
    <2>3. ASSUME NEW i \in 1 .. m + n
          PROVE  i \in 1 .. m \/ (i - m \in 1 .. n /\ both[i] = results[i - m])
        <3>1. i <= m \/ (~(i <= m) /\ i - m \in 1 .. n)
            BY <1>3
        <3>2. both[i] = IF i <= m THEN done[i] ELSE results[i - m]
            BY <1>3
        <3>3. i <= m => i \in 1 .. m
            BY <1>3
        <3> QED BY <3>1, <3>2, <3>3
    <2>4. N = {results[i] : i \in 1 .. n}
        BY DEF n
    <2> DEFINE L == 1 .. m
               R == 1 .. n
               B == 1 .. m + n
    <2>5. \A i \in L : i \in B /\ both[i] = done[i]
        BY <2>1
    <2>6. \A i \in R : \E j \in B : both[j] = results[i]
        BY <2>2
    <2>7. \A i \in B : (i \in L /\ both[i] = done[i]) \/ \E j \in R : both[i] = results[j]
        BY <2>1, <2>3
    <2>8. N = Images(results, R)
        BY <2>4 DEF Images
    <2> HIDE DEF L, R, B
    <2>9. Images(both, B) = Images(done, L) \cup N
        <3>1. Joined(done, L, results, R, both, B)
            BY <2>5, <2>6, <2>7 DEF Joined
        <3> QED BY <2>8, <3>1, ImagesMeet
    <2> QED BY <2>9 DEF L, B, Images
<1>5. ToSet(results) = N
    <2>1. DOMAIN results = 1 .. n
        BY DEF n
    <2> QED BY <2>1 DEF ToSet, n
<1>6. WritesOf(N) = {queue[i] : i \in 1 .. n} /\ \A q, r \in N : q.write = r.write => q = r
    BY DEF WritesOf, Unique, n
<1> QED BY <1>3, <1>4, <1>5, <1>6 DEF AnsweredAll, both, m, n

ClosedTo(s, t, N) ==
    /\ t.ui = s.ui
    /\ t.port.state \in {"Closed", "Faulted"} /\ t.port.gen = s.port.gen
    /\ t.port.writing \in BOOLEAN /\ t.port.told = t.port.writing
    /\ t.port.state = "Closed" => ~t.port.writing
    /\ Len(t.port.queue) = IF t.port.writing THEN 1 ELSE 0
    /\ Len(t.port.queue) <= Len(s.port.queue)
    /\ Answers(t) = Answers(s) \cup N
    /\ WritesOf(N) = Queued(s)
    /\ \A q, r \in N : q.write = r.write => q = r
    /\ t.log.submitted = s.log.submitted
    /\ t.log.written = s.log.written \cup Successes(N)
    /\ t.log.published = s.log.published /\ t.log.twice = s.log.twice
    /\ t.log.forgotten = s.log.forgotten /\ t.log.faulted = s.log.faulted

LEMMA ClosePortDoes ==
    ASSUME NEW s, Good(s), NEW end \in Endings, NEW t, t = ClosePort(s, end)
    PROVE  IsState(t) /\ \E N : ClosedTo(s, t, N)
<1> DEFINE q == s.port.queue
           empty == << >>
           owed == IF s.port.told THEN empty ELSE q
           unjoined == end.head = "Unjoined" /\ s.port.writing
           kept == IF unjoined THEN 1 ELSE 0
           queue == SubSeq(q, 1, kept)
           state == IF end.released THEN "Closed" ELSE "Faulted"
           status(i) == IF i = 1 /\ s.port.writing /\ end.head = "Finished" /\ IsOpen(s)
                        THEN "Succeeded" ELSE "Cancelled"
           results == [i \in 1 .. Len(owed) |-> [write |-> owed[i], status |-> status(i)]]
           N == {results[i] : i \in 1 .. Len(owed)}
           done == s.port.done \o results
           sent == Successes(N)
<1>1. /\ q \in Seq(Writes) /\ s.port.done \in Seq(Results) /\ Unique(q)
      /\ s.port.writing \in BOOLEAN /\ s.port.told \in BOOLEAN
    BY DEF Good, IsState, IsPort, Owes, Unique
<1>2. owed \in Seq(Writes) /\ Unique(owed)
    <2>1. empty \in Seq(Writes) /\ Len(empty) = 0
        OBVIOUS
    <2>2. Unique(empty)
        BY <2>1 DEF Unique
    <2> HIDE DEF empty
    <2> QED BY <1>1, <2>1, <2>2
<1>3. Queued(s) = {owed[i] : i \in 1 .. Len(owed)}
    <2>1. s.port.told => owed = empty /\ {owed[i] : i \in 1 .. Len(owed)} = {}
        OBVIOUS
    <2> QED BY <1>1, <2>1 DEF Queued, InLine
<1>4. /\ kept \in 0 .. Len(q) /\ Len(q) \in Nat
      /\ queue \in Seq(Writes) /\ Len(queue) = kept
    <2>1. s.port.writing => Len(q) # 0
        BY <1>1, EmptySeq DEF Good, Seen
    <2>2. Len(q) \in Nat
        BY <1>1, LenProperties
    <2>3. kept \in 0 .. Len(q)
        BY <2>1, <2>2
    <2> HIDE DEF kept, q
    <2> QED BY <1>1, <2>2, <2>3, SubSeqProperties
<1>5. unjoined \in BOOLEAN /\ state \in {"Closed", "Faulted"} /\ (state = "Closed" => ~unjoined)
    BY <1>1 DEF Endings
<1> HIDE DEF q, owed, queue, kept
<1>6. DOMAIN owed = 1 .. Len(owed) /\ \A i \in 1 .. Len(owed) : owed[i] \in Writes
    BY <1>2, LenProperties, ElementOfSeq
<1>7. \A i \in 1 .. Len(owed) : results[i] \in Results /\ results[i].write = owed[i]
    <2> SUFFICES ASSUME NEW i \in 1 .. Len(owed)
                 PROVE  results[i] \in Results /\ results[i].write = owed[i]
        OBVIOUS
    <2>1. owed[i] \in Writes /\ status(i) \in Statuses
        BY <1>6 DEF Statuses
    <2>2. results[i] = [write |-> owed[i], status |-> status(i)]
        OBVIOUS
    <2> HIDE DEF results, status
    <2> QED BY <2>1, <2>2 DEF Results
<1>8. t = [s EXCEPT !.port.state = state, !.port.queue = queue,
                    !.port.writing = unjoined, !.port.told = unjoined,
                    !.port.done = done, !.log.written = @ \cup Successes(ToSet(results))]
    BY <1>6 DEF ClosePort, Successes, owed, queue, kept, q
<1>9. results = [i \in 1 .. Len(owed) |-> results[i]]
    OBVIOUS
<1> HIDE DEF results
<1>10. /\ done \in Seq(Results) /\ ToSet(results) = N
       /\ {done[i] : i \in 1 .. Len(done)}
            = {s.port.done[i] : i \in 1 .. Len(s.port.done)} \cup N
       /\ WritesOf(N) = {owed[i] : i \in 1 .. Len(owed)}
       /\ \A x, r \in N : x.write = r.write => x = r
    <2>1. N = {results[i] : i \in 1 .. Len(owed)}
        OBVIOUS
    <2> HIDE DEF N
    <2>2. AnsweredAll(owed, s.port.done, results, N)
        BY <1>1, <1>2, <1>7, <1>9, <2>1, Answering
    <2> QED BY <2>2 DEF AnsweredAll
<1>11. /\ IsState(s) /\ IsPort(s.port) /\ IsWindow(s.ui) /\ IsLog(s.log)
       /\ s = [f \in StateFields |-> s[f]]
       /\ s.port = [f \in PortFields |-> s.port[f]]
       /\ s.log = [f \in LogFields |-> s.log[f]]
    BY DEF Good, IsState, IsPort, IsLog
<1>12. \A w \in sent : w.id \in 1 .. s.log.submitted
    <2>1. \A r \in N : r.write \in Queued(s)
        BY <1>3, <1>10 DEF WritesOf
    <2>2. \A w \in Queued(s) : w \in Writes /\ w.id <= s.log.submitted
        BY DEF Good, Owes, IsState, IsWindow
    <2>3. s.log.submitted \in Nat
        BY <1>11, SendFlowBounds DEF IsLog
    <2>4. \A w \in Queued(s) : w.id \in 1 .. s.log.submitted
        BY <2>2, <2>3, SendFlowBounds DEF Writes
    <2> QED BY <2>1, <2>4 DEF Successes, WritesOf
<1>13. t = [s EXCEPT !.port.state = state, !.port.queue = queue,
                     !.port.writing = unjoined, !.port.told = unjoined,
                     !.port.done = done, !.log.written = @ \cup sent]
    BY <1>8, <1>10
<1> HIDE DEF N, done, sent, status, state, unjoined
<1>14. /\ t = [f \in StateFields |-> t[f]] /\ t.ui = s.ui
       /\ t.port = [s.port EXCEPT !.state = state, !.queue = queue, !.writing = unjoined,
                                  !.told = unjoined, !.done = done]
       /\ t.log = [s.log EXCEPT !.written = @ \cup sent]
    BY <1>11, <1>13 DEF StateFields
<1>15. t.port = [f \in PortFields |-> t.port[f]] /\ t.log = [f \in LogFields |-> t.log[f]]
    <2> DEFINE p == t.port
               o == s.port
               l == t.log
               m == s.log
    <2>1. /\ p = [o EXCEPT !.state = state, !.queue = queue, !.writing = unjoined,
                           !.told = unjoined, !.done = done]
          /\ o = [f \in PortFields |-> o[f]]
        BY <1>11, <1>14
    <2>2. l = [m EXCEPT !.written = @ \cup sent] /\ m = [f \in LogFields |-> m[f]]
        BY <1>11, <1>14
    <2> HIDE DEF p, o, l, m
    <2>3. p = [f \in PortFields |-> p[f]]
        BY <2>1
    <2>4. l = [f \in LogFields |-> l[f]]
        BY <2>2
    <2> QED BY <2>3, <2>4 DEF p, l
<1>16. /\ t.port.state = state /\ t.port.gen = s.port.gen
       /\ t.port.queue = queue /\ t.port.writing = unjoined /\ t.port.told = unjoined
       /\ t.port.done = done
    <2> DEFINE p == t.port
    <2>1. p = [s.port EXCEPT !.state = state, !.queue = queue, !.writing = unjoined,
                             !.told = unjoined, !.done = done]
        BY <1>14
    <2> HIDE DEF p
    <2>2. /\ p.state = state /\ p.gen = s.port.gen /\ p.queue = queue
          /\ p.writing = unjoined /\ p.told = unjoined /\ p.done = done
        BY <1>11, <2>1 DEF PortFields
    <2> QED BY <2>2 DEF p
<1>17. /\ t.log.submitted = s.log.submitted
       /\ t.log.written = s.log.written \cup sent
       /\ t.log.published = s.log.published /\ t.log.twice = s.log.twice
       /\ t.log.forgotten = s.log.forgotten /\ t.log.faulted = s.log.faulted
    BY <1>11, <1>14 DEF LogFields
<1>18. IsState(t)
    <2>1. IsPort(t.port)
        BY <1>4, <1>5, <1>10, <1>11, <1>15, <1>16 DEF IsPort
    <2>2. IsLog(t.log)
        BY <1>11, <1>12, <1>15, <1>17 DEF IsLog
    <2> QED BY <1>11, <1>14, <2>1, <2>2 DEF IsState
<1>19. Answers(t) = Answers(s) \cup N
    <2>1. Answers(t) = {done[i] : i \in 1 .. Len(done)}
        BY <1>16 DEF Answers
    <2>2. Answers(s) = {s.port.done[i] : i \in 1 .. Len(s.port.done)}
        BY DEF Answers
    <2> QED BY <1>10, <2>1, <2>2
<1>20. Len(t.port.queue) = IF unjoined THEN 1 ELSE 0
    BY <1>4, <1>16 DEF kept
<1>21. Len(t.port.queue) <= Len(s.port.queue)
    BY <1>4, <1>16 DEF q
<1>22. ClosedTo(s, t, N)
    BY <1>3, <1>5, <1>10, <1>14, <1>16, <1>17, <1>19, <1>20, <1>21 DEF ClosedTo, sent
<1> QED BY <1>18, <1>22

\* All is answered, with a success only of the session that was open.
LEMMA ClosePortKeeps ==
    ASSUME NEW s, Good(s), ~s.ui.active, NEW end \in Endings, NEW t, t = ClosePort(s, end)
    PROVE  /\ Good(t) /\ ~t.ui.active /\ Queued(t) = {}
           /\ t.port.gen = s.port.gen /\ t.log.faulted = s.log.faulted
           /\ t.ui.pending = s.ui.pending
<1>1. IsState(t)
    BY ClosePortDoes
<1>2. PICK N : ClosedTo(s, t, N)
    BY ClosePortDoes
<1>3. Queued(t) = {} /\ Unique(t.port.queue)
    <2>1. t.port.writing \in BOOLEAN /\ t.port.told = t.port.writing
        BY <1>2 DEF ClosedTo
    <2>2. Len(t.port.queue) = IF t.port.writing THEN 1 ELSE 0
        BY <1>2 DEF ClosedTo
    <2>3. CASE t.port.writing
        BY <2>1, <2>2, <2>3 DEF Queued, Unique
    <2>4. CASE ~t.port.writing
        BY <2>1, <2>2, <2>4 DEF Queued, InLine, Unique
    <2> QED BY <2>1, <2>3, <2>4
<1>4. Gives(s, t, N)
    BY <1>2, <1>3 DEF ClosedTo, Gives
<1>5. Owes(t) /\ Recorded(t)
    BY <1>4, GivesKeeps DEF Good
<1>6. Seen(t)
    <2>1. /\ s.ui.snapshot \in Nat /\ s.port.queue \in Seq(Writes)
          /\ t.port.queue \in Seq(Writes)
        BY <1>1 DEF Good, IsState, IsWindow, IsPort
    <2>2. /\ s.ui.pending # {} => s.ui.snapGen = s.port.gen
          /\ Len(s.port.queue) <= s.ui.snapshot
        BY DEF Good, Seen
    <2>3. /\ t.port.state \in {"Closed", "Faulted"} /\ t.ui = s.ui /\ t.port.gen = s.port.gen
          /\ t.port.writing \in BOOLEAN /\ t.port.told = t.port.writing
          /\ t.port.state = "Closed" => ~t.port.writing
          /\ Len(t.port.queue) = IF t.port.writing THEN 1 ELSE 0
          /\ Len(t.port.queue) <= Len(s.port.queue)
        BY <1>2 DEF ClosedTo
    <2>4. Len(t.port.queue) <= t.ui.snapshot
        BY <2>1, <2>2, <2>3, LenProperties
    <2>5. t.port.state = "Closed" => t.port.queue = << >> /\ ~t.port.writing
        BY <2>1, <2>3, EmptySeq
    <2>6. t.port.writing => t.port.queue # << >>
        <3>1. t.port.writing => Len(t.port.queue) # 0
            BY <2>3
        <3> QED BY <3>1
    <2>7. t.port.told => t.port.writing /\ t.port.state = "Faulted" /\ Len(t.port.queue) = 1
        BY <2>3
    <2> QED BY <2>2, <2>3, <2>4, <2>5, <2>6, <2>7 DEF Seen
<1>7. Filed(t)
    BY <1>2 DEF ClosedTo, Good, Filed
<1> QED BY <1>1, <1>2, <1>3, <1>5, <1>6, <1>7 DEF Good, ClosedTo

\* What settleClosingSerialWrites takes, before it looks at the queue.
Successful(s) == {r \in Taken(s) : r.status = "Succeeded"}
OnClose(s, closing) == {r \in Taken(s) : PublishedOnClose(r, closing)}
Settling(s, closing) ==
    [Publish(s, WritesOf(OnClose(s, closing))) EXCEPT
        !.port.done = << >>, !.ui.pending = {},
        !.log.forgotten = @ \cup WritesOf(Successful(s) \ OnClose(s, closing))]

SettlingTo(s, t, P, F) ==
    /\ t.port.state = s.port.state /\ t.port.gen = s.port.gen
    /\ t.port.queue = s.port.queue /\ t.port.writing = s.port.writing
    /\ t.port.told = s.port.told /\ t.port.done = << >>
    /\ t.ui.owner = s.ui.owner /\ t.ui.snapshot = s.ui.snapshot
    /\ t.ui.active = s.ui.active /\ t.ui.fileGen = s.ui.fileGen
    /\ t.ui.read = s.ui.read /\ t.ui.sent = s.ui.sent
    /\ t.ui.pending = {}
    /\ t.log.submitted = s.log.submitted /\ t.log.written = s.log.written
    /\ t.log.published = s.log.published \cup P
    /\ t.log.twice = (s.log.twice \/ P \cap s.log.published # {})
    /\ t.log.forgotten = s.log.forgotten \cup F /\ t.log.faulted = s.log.faulted

LEMMA SettlingDoes ==
    ASSUME NEW s, Good(s), NEW closing, NEW t, t = Settling(s, closing),
           NEW P, P = WritesOf(OnClose(s, closing)),
           NEW F, F = WritesOf(Successful(s) \ OnClose(s, closing))
    PROVE  IsState(t) /\ SettlingTo(s, t, P, F)
<1> DEFINE none == << >>
           empty == {}
<1>1. none \in Seq(Results) /\ empty \subseteq Writes
    OBVIOUS
<1> HIDE DEF none, empty
<1>2. t = [s EXCEPT !.log.published = @ \cup P,
                    !.log.twice = @ \/ P \cap s.log.published # {},
                    !.port.done = none,
                    !.ui.pending = empty,
                    !.log.forgotten = @ \cup F]
    BY DEF Settling, Publish, none, empty
<1>3. /\ IsState(s) /\ IsPort(s.port) /\ IsWindow(s.ui) /\ IsLog(s.log)
      /\ s = [f \in StateFields |-> s[f]]
      /\ s.port = [f \in PortFields |-> s.port[f]]
      /\ s.ui = [f \in WindowFields |-> s.ui[f]]
      /\ s.log = [f \in LogFields |-> s.log[f]]
    BY DEF Good, IsState, IsPort, IsWindow, IsLog
<1>4. /\ t = [f \in StateFields |-> t[f]]
      /\ t.port = [s.port EXCEPT !.done = none]
      /\ t.ui = [s.ui EXCEPT !.pending = empty]
      /\ t.log = [s.log EXCEPT !.published = @ \cup P,
                               !.twice = @ \/ P \cap s.log.published # {},
                               !.forgotten = @ \cup F]
    BY <1>2, <1>3 DEF StateFields
<1>5. /\ t.port = [f \in PortFields |-> t.port[f]]
      /\ t.ui = [f \in WindowFields |-> t.ui[f]]
      /\ t.log = [f \in LogFields |-> t.log[f]]
    BY <1>3, <1>4
<1>6. /\ t.port.state = s.port.state /\ t.port.gen = s.port.gen
      /\ t.port.queue = s.port.queue /\ t.port.writing = s.port.writing
      /\ t.port.told = s.port.told /\ t.port.done = none
    BY <1>3, <1>4 DEF PortFields
<1>7. /\ t.ui.owner = s.ui.owner /\ t.ui.snapshot = s.ui.snapshot
      /\ t.ui.active = s.ui.active /\ t.ui.fileGen = s.ui.fileGen
      /\ t.ui.read = s.ui.read /\ t.ui.sent = s.ui.sent
      /\ t.ui.pending = empty
    BY <1>3, <1>4 DEF WindowFields
<1>8. /\ t.log.submitted = s.log.submitted /\ t.log.written = s.log.written
      /\ t.log.published = s.log.published \cup P
      /\ t.log.twice = (s.log.twice \/ P \cap s.log.published # {})
      /\ t.log.forgotten = s.log.forgotten \cup F /\ t.log.faulted = s.log.faulted
    BY <1>3, <1>4 DEF LogFields
<1>9. IsState(t)
    BY <1>1, <1>3, <1>4, <1>5, <1>6, <1>7, <1>8 DEF IsState, IsPort, IsWindow, IsLog
<1> QED BY <1>6, <1>7, <1>8, <1>9 DEF SettlingTo, none, empty

\* Nothing is left: no file, no results, and the window waits for nothing.
AtRest(t) == Good(t) /\ ~t.ui.active /\ t.port.done = << >> /\ t.ui.pending = {}

\* What is left when a session is closed is recorded, as far as it was sent; of one
\* that had faulted by itself it is forgotten.
Closes(s, closing) ==
    \/ closing = s.port.gen /\ closing # NoGen
    \/ closing = NoGen /\ (Answers(s) = {} \/ s.port.gen \in s.log.faulted)

LEMMA SettleKeeps ==
    ASSUME NEW s, Good(s), ~s.ui.active, Queued(s) = {},
           NEW closing, Closes(s, closing), NEW t, t = Settle(s, closing)
    PROVE  AtRest(t)
<1> DEFINE u == Settling(s, closing)
           P == WritesOf(OnClose(s, closing))
           F == WritesOf(Successful(s) \ OnClose(s, closing))
           A == Answers(s)
<1>1. t = Snapshot(u)
    BY DEF Settle, Settling, Successful, OnClose
<1>2. IsState(u) /\ SettlingTo(s, u, P, F)
    BY SettlingDoes
<1> HIDE DEF u
<1>3. Taken(s) = A /\ \A r \in A : r.write.gen = s.port.gen
    <2>1. ToSet(s.port.done) = A
        BY AnswersAre DEF Good
    <2>2. \A r \in A : r.write \in s.ui.pending /\ r.write.gen = s.port.gen
        BY DEF Good, Owes, WritesOf
    <2> QED BY <2>1, <2>2 DEF Taken
<1> HIDE DEF A
<1>4. P \cup F = Successes(A) /\ P \cap F = {} /\ (F # {} => s.port.gen \in s.log.faulted)
    <2>1. Successful(s) = {r \in A : r.status = "Succeeded"}
        BY <1>3 DEF Successful
    <2>2. CASE closing = s.port.gen /\ closing # NoGen
        <3>1. OnClose(s, closing) = {r \in A : r.status = "Succeeded"}
            BY <1>3, <2>2 DEF OnClose, PublishedOnClose
        <3> QED BY <2>1, <3>1 DEF Successes, WritesOf
    <2>3. CASE closing = NoGen /\ (A = {} \/ s.port.gen \in s.log.faulted)
        <3>1. OnClose(s, closing) = {}
            BY <2>3 DEF OnClose, PublishedOnClose
        <3>2. P = {} /\ F = Successes(A)
            BY <2>1, <3>1 DEF Successes, WritesOf
        <3>3. A = {} => Successes(A) = {}
            BY DEF Successes, WritesOf
        <3> HIDE DEF P, F
        <3> QED BY <2>3, <3>2, <3>3
    <2> QED BY <2>2, <2>3 DEF Closes, A
<1> HIDE DEF P, F
<1>5. Queued(u) = {} /\ Answers(u) = {}
    <2>1. Queued(u) = Queued(s)
        BY <1>2 DEF SettlingTo, Queued, InLine
    <2>2. u.port.done = << >>
        BY <1>2 DEF SettlingTo
    <2>3. Answers(u) = {}
        BY <2>2 DEF Answers
    <2> QED BY <2>1, <2>3
<1>6. Takes(s, u, P, F)
    BY <1>2, <1>4, <1>5 DEF SettlingTo, Takes, A
<1>7. Owes(u) /\ Recorded(u)
    BY <1>6, TakesKeeps DEF Good
<1>8. Seen(u)
    BY <1>2 DEF Good, Seen, SettlingTo
<1>9. Filed(u)
    BY <1>2 DEF Good, Filed, SettlingTo
<1>10. Good(u)
    BY <1>2, <1>7, <1>8, <1>9 DEF Good
<1>11. IsState(t) /\ Looked(u, t)
    BY <1>1, <1>2, SnapshotDoes
<1>12. Good(t)
    BY <1>10, <1>11, LookKeeps DEF Keeps
<1> QED BY <1>2, <1>11, <1>12 DEF AtRest, Looked, SettlingTo

\* The window closes the session: what it knew is settled.
LEMMA CloseRests ==
    ASSUME NEW s, Good(s), Quiet(s), ~s.ui.active, NEW end \in Endings
    PROVE  AtRest(Close(s, end))
<1> DEFINE closed == ClosePort(s, end)
           closing == Generation(s)
<1>1. Close(s, end) = Settle(closed, closing)
    BY DEF Close, Only
<1>2. /\ Good(closed) /\ ~closed.ui.active /\ Queued(closed) = {}
      /\ closed.port.gen = s.port.gen /\ closed.log.faulted = s.log.faulted
      /\ closed.ui.pending = s.ui.pending
    BY ClosePortKeeps
<1> HIDE DEF closed
<1>3. CASE IsOpen(s)
    <2>1. closing = s.port.gen /\ closing # NoGen
        BY <1>3 DEF Generation, IsOpen, Good, Seen
    <2> QED BY <1>1, <1>2, <2>1, SettleKeeps DEF Closes
<1>4. CASE ~IsOpen(s)
    <2>1. closing = NoGen
        BY <1>4 DEF Generation
    <2>2. closed.ui.pending # {} => closed.port.gen \in closed.log.faulted
        BY <1>2, <1>4 DEF Quiet, IsOpen
    <2>3. closed.ui.pending = {} => Answers(closed) = {}
        BY <1>2 DEF Good, Owes, WritesOf
    <2> QED BY <1>1, <1>2, <2>1, <2>2, <2>3, SettleKeeps DEF Closes
<1> QED BY <1>3, <1>4

LEMMA RestKeeps ==
    ASSUME NEW s, NEW t, AtRest(t)
    PROVE  Keeps(s, t) /\ Quiet(t)
BY DEF AtRest, Keeps, Calm, Quiet, Chunks

LEMMA RestWithFlags ==
    ASSUME NEW s, AtRest(s), NEW t, IsState(t), SameButFlags(s, t)
    PROVE  AtRest(t)
<1>1. Keeps(s, t)
    BY FlagsKeep DEF AtRest
<1> QED BY <1>1 DEF AtRest, Keeps, SameButFlags

\* A session that is not closed is closed with all it owes.
LEMMA FailureRests ==
    ASSUME NEW s, Good(s), Quiet(s), NEW end \in Endings, NEW waits,
           NEW t, t = Failure(s, end, waits)
    PROVE  AtRest(t)
<1> DEFINE quiet == [s EXCEPT !.ui.timer = FALSE, !.ui.confirmed = FALSE]
           stopped == StopFile(quiet)
           settled == Close(stopped, end)
<1>1. IsState(quiet) /\ SameButFlags(s, quiet)
    BY DEF Good, IsState, IsWindow, StateFields, WindowFields, SameButFlags
<1>2. Good(quiet) /\ Quiet(quiet)
    BY <1>1, FlagsKeep DEF Keeps
<1> HIDE DEF quiet
<1>3. Good(stopped) /\ Quiet(stopped) /\ ~stopped.ui.active
    BY <1>2, StopFileKeeps DEF Keeps
<1>4. AtRest(settled)
    BY <1>3, CloseRests
<1>5. t = [settled EXCEPT !.ui.reconnect = @ \/ waits]
    BY DEF Failure, quiet
<1> HIDE DEF settled
<1>6. IsState(t) /\ SameButFlags(settled, t)
    BY <1>4, <1>5 DEF AtRest, Good, IsState, IsWindow, StateFields, WindowFields, SameButFlags
<1> QED BY <1>4, <1>6, RestWithFlags

LEMMA FailureKeeps ==
    ASSUME NEW s, Good(s), Quiet(s), NEW t \in Failures(s)
    PROVE  Keeps(s, t) /\ ~t.ui.active
<1>1. CASE s.port.state = "Closed"
    <2>1. t = s
        BY <1>1 DEF Failures
    <2>2. ~s.ui.active
        BY <1>1 DEF Good, Filed
    <2> QED BY <2>1, <2>2 DEF Keeps, Calm
<1>2. CASE s.port.state # "Closed"
    <2>1. PICK end \in Endings, waits \in BOOLEAN : t = Failure(s, end, waits)
        BY <1>2 DEF Failures
    <2>2. AtRest(t)
        BY <2>1, FailureRests
    <2> QED BY <2>2, RestKeeps DEF AtRest
<1> QED BY <1>1, <1>2

----------------------------------------------------------------------------
(* Submitting and opening.                                                 *)

SubmittedTo(s, t, w) ==
    /\ t.port.state = s.port.state /\ t.port.gen = s.port.gen
    /\ t.port.writing = s.port.writing /\ t.port.told = s.port.told
    /\ t.port.done = s.port.done /\ t.port.queue = Append(s.port.queue, w)
    /\ t.ui.owner = s.ui.owner /\ t.ui.active = s.ui.active
    /\ t.ui.fileGen = s.ui.fileGen /\ t.ui.read = s.ui.read /\ t.ui.sent = s.ui.sent
    /\ t.ui.pending = s.ui.pending \cup {w}
    /\ t.ui.snapshot = Len(t.port.queue) /\ t.ui.snapGen = s.port.gen
    /\ t.log.submitted = s.log.submitted + 1
    /\ t.log.written = s.log.written /\ t.log.published = s.log.published
    /\ t.log.twice = s.log.twice /\ t.log.forgotten = s.log.forgotten
    /\ t.log.faulted = s.log.faulted

LEMMA SubmittedDoes ==
    ASSUME NEW s, Good(s), IsOpen(s), s.log.submitted < MaxWrites,
           NEW source \in {"Manual", "File"}, NEW w, w = NewWrite(s, source),
           NEW t, t = Submitted(s, source)
    PROVE  IsState(t) /\ SubmittedTo(s, t, w) /\ w \in Writes
<1> DEFINE u == Accepted(s, w)
           q == s.port.queue
<1>1. /\ IsState(s) /\ IsPort(s.port) /\ IsWindow(s.ui) /\ IsLog(s.log)
      /\ s = [f \in StateFields |-> s[f]]
      /\ s.port = [f \in PortFields |-> s.port[f]]
      /\ s.ui = [f \in WindowFields |-> s.ui[f]]
      /\ s.log = [f \in LogFields |-> s.log[f]]
    BY DEF Good, IsState, IsPort, IsWindow, IsLog
<1>2. /\ MaxWrites \in Nat /\ MaxGeneration \in Nat
      /\ s.log.submitted \in Nat /\ s.log.submitted + 1 \in 1 .. MaxWrites
      /\ \A x \in s.log.written : x.id \in 1 .. s.log.submitted + 1
    <2>1. /\ s.log.submitted \in 0 .. MaxWrites
          /\ \A x \in s.log.written : x.id \in 1 .. s.log.submitted
        BY <1>1 DEF IsLog
    <2>2. s.log.submitted \in Nat /\ s.log.submitted + 1 \in 1 .. MaxWrites
        BY <2>1, SendFlowBounds
    <2>3. ASSUME NEW x \in s.log.written PROVE x.id \in 1 .. s.log.submitted + 1
        <3>1. x.id \in 1 .. s.log.submitted
            BY <2>1
        <3> QED BY <2>2, <3>1
    <2> QED BY <2>2, <2>3, SendFlowBounds
<1>3. w \in Writes
    <2>1. s.port.gen \in 1 .. MaxGeneration
        BY <1>1, <1>2 DEF Good, Seen, IsOpen, IsPort, NoGen
    <2> QED BY <1>2, <2>1 DEF NewWrite, Writes, Generations
<1>4. Append(q, w) \in Seq(Writes)
    BY <1>1, <1>3, AppendProperties DEF IsPort
<1>5. u = [s EXCEPT !.port.queue = Append(@, w),
                    !.ui.pending = @ \cup {w},
                    !.log.submitted = @ + 1]
    BY DEF Accepted
<1> HIDE DEF u
<1>6. /\ u = [f \in StateFields |-> u[f]]
      /\ u.port = [s.port EXCEPT !.queue = Append(@, w)]
      /\ u.ui = [s.ui EXCEPT !.pending = @ \cup {w}]
      /\ u.log = [s.log EXCEPT !.submitted = @ + 1]
    BY <1>1, <1>5 DEF StateFields
<1>7. /\ u.port = [f \in PortFields |-> u.port[f]]
      /\ u.ui = [f \in WindowFields |-> u.ui[f]]
      /\ u.log = [f \in LogFields |-> u.log[f]]
    BY <1>1, <1>6
<1>8. /\ u.port.state = s.port.state /\ u.port.gen = s.port.gen
      /\ u.port.writing = s.port.writing /\ u.port.told = s.port.told
      /\ u.port.done = s.port.done /\ u.port.queue = Append(q, w)
    BY <1>1, <1>6 DEF PortFields
<1>9. /\ u.ui.owner = s.ui.owner /\ u.ui.active = s.ui.active
      /\ u.ui.fileGen = s.ui.fileGen /\ u.ui.read = s.ui.read /\ u.ui.sent = s.ui.sent
      /\ u.ui.snapshot = s.ui.snapshot
      /\ u.ui.pending = s.ui.pending \cup {w}
    BY <1>1, <1>6 DEF WindowFields
<1>10. /\ u.log.submitted = s.log.submitted + 1
       /\ u.log.written = s.log.written /\ u.log.published = s.log.published
       /\ u.log.twice = s.log.twice /\ u.log.forgotten = s.log.forgotten
       /\ u.log.faulted = s.log.faulted
    BY <1>1, <1>6 DEF LogFields
<1>11. IsPort(u.port)
    BY <1>1, <1>4, <1>7, <1>8 DEF IsPort
<1>12. IsWindow(u.ui)
    BY <1>1, <1>3, <1>7, <1>9 DEF IsWindow
<1>13. IsLog(u.log)
    <2>1. u.log.submitted \in 0 .. MaxWrites
        BY <1>2, <1>10
    <2> QED BY <1>2, <1>7, <1>10, <2>1 DEF IsLog
<1>14. IsState(u)
    BY <1>6, <1>11, <1>12, <1>13 DEF IsState
<1>15. t = Snapshot(u)
    BY DEF Submitted, u
<1>16. IsState(t) /\ Looked(u, t)
    BY <1>14, <1>15, SnapshotDoes
<1>17. SubmittedTo(s, t, w)
    BY <1>8, <1>9, <1>10, <1>16 DEF Looked, SubmittedTo
<1> QED BY <1>3, <1>16, <1>17

\* What both kinds of writes need: a chunk has been read, and anything else comes
\* only when no file is sent.
MayFollow(s, source) ==
    IF source = "File"
    THEN s.ui.active => s.ui.sent + Cardinality(Chunks(s)) + 1 <= s.ui.read
    ELSE ~s.ui.active

LEMMA PendingIsOld ==
    ASSUME NEW s, Good(s), NEW v \in s.ui.pending
    PROVE  v.id \in Nat /\ v.id <= s.log.submitted /\ v.gen = s.port.gen
<1>1. v \in Writes
    BY DEF Good, IsState, IsWindow
<1>2. v.id \in 1 .. MaxWrites
    BY <1>1 DEF Writes
<1>3. v.id <= s.log.submitted /\ v.gen = s.port.gen
    BY DEF Good, Owes
<1> QED BY <1>2, <1>3, SendFlowBounds

LEMMA SubmittedKeeps ==
    ASSUME NEW s, Good(s), IsOpen(s), s.log.submitted < MaxWrites,
           NEW source \in {"Manual", "File"}, MayFollow(s, source),
           NEW t, t = Submitted(s, source)
    PROVE  /\ Good(t) /\ Quiet(t) /\ t.ui.active = s.ui.active
           /\ source = "Manual" => Chunks(t) = Chunks(s)
<1> DEFINE w == NewWrite(s, source)
           q == s.port.queue
           n == Len(q)
<1>1. IsState(t) /\ SubmittedTo(s, t, w) /\ w \in Writes
    BY SubmittedDoes
<1>2. w.id = s.log.submitted + 1 /\ w.source = source /\ w.gen = s.port.gen
    BY DEF NewWrite
<1> HIDE DEF w
<1>3. q \in Seq(Writes) /\ n \in Nat /\ s.log.submitted \in Nat
    BY LenProperties, SendFlowBounds DEF Good, IsState, IsPort, IsLog
<1>4. /\ Len(t.port.queue) = n + 1
      /\ \A i \in 1 .. n : t.port.queue[i] = q[i]
      /\ t.port.queue[n + 1] = w
    BY <1>1, <1>3, AppendProperties DEF SubmittedTo
<1> HIDE DEF q, n
<1>5. Queued(s) = {q[i] : i \in 1 .. n} /\ ~s.port.told
    <2>1. ~s.port.told
        BY DEF IsOpen, Good, Seen
    <2> QED BY <2>1 DEF Queued, InLine, q, n
<1>6. Queued(t) = Queued(s) \cup {w}
    <2>1. Queued(t) = {t.port.queue[i] : i \in 1 .. n + 1}
        <3>1. ~t.port.told
            BY <1>1, <1>5 DEF SubmittedTo
        <3>2. InLine(t) = {t.port.queue[i] : i \in 1 .. n + 1}
            BY <1>4 DEF InLine
        <3> QED BY <3>1, <3>2 DEF Queued
    <2>2. 1 .. n + 1 = (1 .. n) \cup {n + 1}
        BY <1>3
    <2> QED BY <1>4, <1>5, <2>1, <2>2
<1>7. w \notin s.ui.pending /\ \A v \in s.ui.pending : v.id # w.id
    <2> SUFFICES ASSUME NEW v \in s.ui.pending PROVE v.id # w.id
        OBVIOUS
    <2>1. v.id <= s.log.submitted /\ v.id \in Nat
        BY PendingIsOld
    <2> QED BY <1>2, <1>3, <2>1
<1>8. w \notin Queued(s) /\ Queued(s) \subseteq s.ui.pending
    BY <1>7 DEF Good, Owes
<1>9. Answers(t) = Answers(s) /\ \A r \in Answers(s) : r.write \in s.ui.pending
    BY <1>1 DEF SubmittedTo, Answers, Good, Owes, WritesOf
<1>10. Unique(t.port.queue)
    <2>1. \A i, j \in 1 .. n : q[i] = q[j] => i = j
        BY DEF Good, Owes, q, n
    <2>2. \A i \in 1 .. n : q[i] # w
        BY <1>5, <1>8
    <2> SUFFICES ASSUME NEW i \in 1 .. n + 1, NEW j \in 1 .. n + 1,
                        t.port.queue[i] = t.port.queue[j]
                 PROVE  i = j
        BY <1>4 DEF Unique
    <2>3. (i \in 1 .. n \/ i = n + 1) /\ (j \in 1 .. n \/ j = n + 1)
        BY <1>3
    <2> QED BY <1>4, <2>1, <2>2, <2>3
<1>11. t.ui.pending = s.ui.pending \cup {w} /\ t.log.submitted = s.log.submitted + 1
    BY <1>1 DEF SubmittedTo
<1>12. Owes(t)
    <2>1. t.ui.pending = Queued(t) \cup WritesOf(Answers(t))
        BY <1>6, <1>9, <1>11 DEF Good, Owes
    <2>3. ASSUME NEW v \in t.ui.pending
          PROVE  v.id <= t.log.submitted /\ v.gen = t.port.gen
        <3>1. t.port.gen = s.port.gen
            BY <1>1 DEF SubmittedTo
        <3>2. CASE v = w
            BY <1>2, <1>3, <1>11, <3>1, <3>2
        <3>3. CASE v \in s.ui.pending
            <4>1. v.id <= s.log.submitted /\ v.id \in Nat /\ v.gen = s.port.gen
                BY <3>3, PendingIsOld
            <4> QED BY <1>3, <1>11, <3>1, <4>1
        <3> QED BY <1>11, <3>2, <3>3
    <2>4. \A r \in Answers(t) : r.write \notin Queued(t)
        BY <1>6, <1>7, <1>9 DEF Good, Owes
    <2>5. \A q1, r \in Answers(t) : q1.write = r.write => q1 = r
        BY <1>9 DEF Good, Owes
    <2> QED BY <1>10, <2>1, <2>3, <2>4, <2>5 DEF Owes, Unique
<1>13. Recorded(t)
    <2>1. w \notin s.log.written
        <3>1. \A x \in s.log.written : x.id \in 1 .. s.log.submitted
            BY DEF Good, IsState, IsLog
        <3> QED BY <1>2, <1>3, <3>1
    <2>2. /\ t.log.written = s.log.written /\ t.log.published = s.log.published
          /\ t.log.twice = s.log.twice /\ t.log.forgotten = s.log.forgotten
          /\ t.log.faulted = s.log.faulted
        BY <1>1 DEF SubmittedTo
    <2> QED BY <1>6, <1>9, <2>1, <2>2 DEF Good, Recorded
<1>14. Seen(t)
    <2>1. t.port.state = "Open" /\ t.port.gen # NoGen
        BY <1>1 DEF SubmittedTo, IsOpen, Good, Seen
    <2>2. t.port.queue # << >> /\ Len(t.port.queue) \in Nat
        BY <1>3, <1>4
    <2>3. ~t.port.told
        BY <1>1, <1>5 DEF SubmittedTo
    <2> QED BY <1>1, <2>1, <2>2, <2>3 DEF SubmittedTo, Seen
<1>15. source = "Manual" => Chunks(t) = Chunks(s)
    BY <1>2, <1>11 DEF Chunks
<1>16. Filed(t)
    <2>1. /\ t.ui.owner = s.ui.owner /\ t.ui.active = s.ui.active /\ t.ui.fileGen = s.ui.fileGen
          /\ t.ui.read = s.ui.read /\ t.ui.sent = s.ui.sent
          /\ t.port.state = s.port.state /\ t.port.gen = s.port.gen
          /\ t.port.told = s.port.told
        BY <1>1 DEF SubmittedTo
    <2>2. CASE ~s.ui.active
        BY <2>1, <2>2 DEF Good, Filed
    <2>3. CASE s.ui.active
        <3>1. w.source = "File"
            BY <1>2, <2>3 DEF MayFollow
        <3>2. s.ui.sent + Cardinality(Chunks(s)) + 1 <= s.ui.read
            BY <1>2, <2>3, <3>1 DEF MayFollow
        <3>3. Chunks(t) = Chunks(s) \cup {w} /\ w \notin Chunks(s)
            BY <1>7, <1>11, <3>1 DEF Chunks
        <3>4. Cardinality(Chunks(t)) = Cardinality(Chunks(s)) + 1 /\ Cardinality(Chunks(s)) \in Nat
            BY <3>3, PendingIsFinite, FS_AddElement
        <3>5. \A v \in Queued(t) : v.source = "File"
            BY <1>6, <2>3, <3>1 DEF Good, Filed
        <3>6. s.ui.sent \in Nat /\ s.ui.read \in Nat
            BY SendFlowBounds DEF Good, Filed
        <3>7. t.ui.sent + Cardinality(Chunks(t)) <= t.ui.read
            BY <2>1, <3>2, <3>4, <3>6
        <3> QED BY <2>1, <2>3, <3>5, <3>7 DEF Good, Filed
    <2>4. s.ui.active \in BOOLEAN
        BY DEF Good, IsState, IsWindow
    <2> QED BY <2>2, <2>3, <2>4
<1>17. Quiet(t)
    BY <1>1 DEF SubmittedTo, IsOpen, Quiet
<1> QED BY <1>1, <1>12, <1>13, <1>14, <1>15, <1>16, <1>17 DEF Good, SubmittedTo

LEMMA OpenedKeeps ==
    ASSUME NEW s, AtRest(s), CanOpen(s), NEW t, t = Opened(s)
    PROVE  Keeps(s, t) /\ Quiet(t)
<1>1. /\ IsState(s) /\ IsPort(s.port) /\ s.port.state = "Closed"
      /\ s.port.queue = << >> /\ s.port.done = << >> /\ s.port.writing = FALSE
      /\ s.port.told = FALSE /\ s.ui.pending = {} /\ ~s.ui.active
      /\ s.port.gen \in Nat /\ s.port.gen < MaxGeneration /\ MaxGeneration \in Nat
    <2>1. IsState(s) /\ IsPort(s.port) /\ s.port.told \in BOOLEAN /\ s.port.writing \in BOOLEAN
        BY DEF AtRest, Good, IsState, IsPort
    <2>2. s.port.state = "Closed" /\ s.port.gen < MaxGeneration
        BY DEF CanOpen
    <2>3. s.port.queue = << >> /\ ~s.port.writing /\ ~s.port.told
        BY <2>2 DEF AtRest, Good, Seen
    <2>4. s.port.done = << >> /\ s.ui.pending = {} /\ ~s.ui.active
        BY DEF AtRest
    <2>5. s.port.gen \in Nat /\ MaxGeneration \in Nat
        BY <2>1, SendFlowBounds DEF IsPort
    <2> QED BY <2>1, <2>2, <2>3, <2>4, <2>5
<1> DEFINE g == s.port.gen + 1
<1>2. g \in 0 .. MaxGeneration /\ g # NoGen
    BY <1>1 DEF NoGen
<1> HIDE DEF g
<1>3. t = [s EXCEPT !.port.state = "Open", !.port.gen = g]
    BY DEF Opened, g
<1>4. /\ t = [f \in StateFields |-> t[f]]
      /\ t.port = [s.port EXCEPT !.state = "Open", !.gen = g]
      /\ t.ui = s.ui /\ t.log = s.log
    BY <1>1, <1>3 DEF IsState, StateFields
<1>5. t.port = [f \in PortFields |-> t.port[f]]
    BY <1>1, <1>4 DEF IsPort
<1>6. /\ t.port.state = "Open" /\ t.port.gen = g /\ t.port.queue = << >>
      /\ t.port.writing = FALSE /\ t.port.told = FALSE /\ t.port.done = << >>
    BY <1>1, <1>4 DEF IsPort, PortFields
<1>7. IsState(t)
    BY <1>1, <1>2, <1>4, <1>5, <1>6 DEF IsState, IsPort
<1>8. /\ Queued(s) = {} /\ Answers(s) = {} /\ Queued(t) = {} /\ Answers(t) = {}
      /\ Len(t.port.queue) = 0
    BY <1>1, <1>6 DEF Queued, InLine, Answers
<1>9. Owes(t)
    <2>1. 1 .. Len(t.port.queue) = {}
        BY <1>8
    <2>2. t.ui.pending = {} /\ WritesOf(Answers(t)) = {}
        BY <1>1, <1>4, <1>8 DEF WritesOf
    <2> QED BY <1>8, <2>1, <2>2 DEF Owes
<1>10. Recorded(t)
    BY <1>4, <1>8 DEF AtRest, Good, Recorded
<1>11. Seen(t)
    <2>1. t.ui.snapshot \in Nat
        BY <1>7 DEF IsState, IsWindow
    <2>2. Len(t.port.queue) <= t.ui.snapshot
        BY <1>8, <2>1
    <2> QED BY <1>1, <1>2, <1>4, <1>6, <2>2 DEF Seen
<1>12. Filed(t)
    BY <1>1, <1>4 DEF AtRest, Good, Filed
<1> QED BY <1>1, <1>4, <1>6, <1>7, <1>9, <1>10, <1>11, <1>12
        DEF Good, Keeps, Calm, Quiet, Chunks

\* An open that fails leaves a session that is closed faulted, with nothing in it.
LEMMA OpenFailedKeeps ==
    ASSUME NEW s, Good(s), Quiet(s), NEW t, t = OpenFailed(s)
    PROVE  Keeps(s, t)
<1> DEFINE state == IF s.port.state = "Closed" THEN "Faulted" ELSE s.port.state
<1>1. /\ IsState(s) /\ IsPort(s.port) /\ state \in {"Closed", "Open", "Faulted"}
      /\ state # "Closed" /\ (state = "Open" <=> s.port.state = "Open")
      /\ (s.port.state = "Faulted" => state = "Faulted")
    BY DEF Good, IsState, IsPort
<1>2. s.port.state = "Closed" => Queued(s) = {} /\ s.ui.pending = {} /\ ~s.ui.active
    <2> HAVE s.port.state = "Closed"
    <2>1. s.port.queue = << >> /\ s.port.done = << >> /\ ~s.ui.active
        BY DEF Good, Quiet, Seen, Filed
    <2>2. Queued(s) = {} /\ Answers(s) = {}
        BY <2>1 DEF Queued, InLine, Answers
    <2> QED BY <2>1, <2>2 DEF Good, Owes, WritesOf
<1>3. t = [s EXCEPT !.port.state = state]
    BY DEF OpenFailed
<1> HIDE DEF state
<1>4. /\ t = [f \in StateFields |-> t[f]]
      /\ t.port = [s.port EXCEPT !.state = state]
      /\ t.ui = s.ui /\ t.log = s.log
    BY <1>1, <1>3 DEF IsState, StateFields
<1>5. /\ t.port = [f \in PortFields |-> t.port[f]]
      /\ t.port.state = state /\ t.port.gen = s.port.gen /\ t.port.queue = s.port.queue
      /\ t.port.writing = s.port.writing /\ t.port.told = s.port.told
      /\ t.port.done = s.port.done
    BY <1>1, <1>4 DEF IsPort, PortFields
<1>6. IsState(t)
    BY <1>1, <1>4, <1>5 DEF IsState, IsPort
<1>7. Queued(t) = Queued(s) /\ Answers(t) = Answers(s) /\ Chunks(t) = Chunks(s)
    <2>1. InLine(t) = InLine(s)
        BY <1>5 DEF InLine
    <2>2. Queued(t) = Queued(s)
        BY <1>5, <2>1 DEF Queued
    <2>3. Answers(t) = Answers(s)
        BY <1>5 DEF Answers
    <2>4. Chunks(t) = Chunks(s)
        BY <1>4 DEF Chunks
    <2> QED BY <2>2, <2>3, <2>4
<1>8. Owes(t) /\ Recorded(t)
    BY <1>4, <1>5, <1>7 DEF Good, Owes, Recorded
<1>9. Seen(t)
    BY <1>1, <1>4, <1>5 DEF Good, Seen
<1>10. Filed(t)
    BY <1>1, <1>4, <1>5, <1>7 DEF Good, Filed
<1>11. Quiet(t)
    <2>1. s.port.state # "Open" /\ s.ui.pending # {} => s.port.gen \in s.log.faulted
        BY DEF Quiet
    <2>2. t.port.state # "Open" /\ t.ui.pending # {} => s.port.state # "Open"
        BY <1>1, <1>2, <1>4, <1>5
    <2> QED BY <1>1, <1>4, <1>5, <2>1, <2>2 DEF Quiet
<1> QED BY <1>4, <1>6, <1>7, <1>8, <1>9, <1>10, <1>11 DEF Good, Keeps, Calm

\* The look at the queue that ends a drain, and the failure that may follow.
LEMMA DrainedKeeps ==
    ASSUME NEW s, Good(s), Quiet(s), NEW t \in Drained(s)
    PROVE  Keeps(s, t) /\ Good(t) /\ Quiet(t)
<1> DEFINE u == Snapshot(s)
<1>1. Keeps(s, u) /\ Good(u) /\ Quiet(u)
    BY SnapshotKeeps DEF Keeps
<1>2. CASE pc.failed
    <2>1. t \in Failures(u)
        BY <1>2 DEF Drained
    <2>2. Keeps(u, t)
        BY <1>1, <2>1, FailureKeeps
    <2> HIDE DEF u
    <2>3. Keeps(s, t)
        BY <1>1, <2>2, KeepsThrough
    <2> QED BY <1>1, <2>2, <2>3 DEF Keeps
<1>3. CASE ~pc.failed
    <2>1. t = u
        BY <1>3 DEF Drained
    <2> QED BY <1>1, <2>1
<1> QED BY <1>2, <1>3

----------------------------------------------------------------------------
(* The steps of the worker and the device.                                 *)

LEMMA PartsOfS ==
    /\ S = [f \in StateFields |-> S[f]] /\ S.port = port /\ S.ui = ui /\ S.log = log
    /\ S' = [f \in StateFields |-> S'[f]] /\ S'.port = port' /\ S'.ui = ui' /\ S'.log = log'
BY DEF S, StateFields

\* Results are given, and the window has not moved.
LEMMA GivenKeeps ==
    ASSUME NEW s, NEW t, NEW N, Good(s), Gives(s, t, N), IsState(t), t.ui = s.ui,
           ~s.port.told, ~t.port.told, t.port.state # "Closed",
           t.port.state = "Open" => s.port.state = "Open",
           t.port.writing => t.port.queue # << >>,
           Len(t.port.queue) <= Len(s.port.queue)
    PROVE  Good(t)
<1>1. Owes(t) /\ Recorded(t)
    BY GivesKeeps DEF Good
<1>2. t.port.gen = s.port.gen /\ Queued(t) \subseteq Queued(s) /\ Chunks(t) = Chunks(s)
    BY DEF Gives, Chunks
<1>3. Seen(t)
    <2>1. s.port.queue \in Seq(Writes) /\ t.port.queue \in Seq(Writes) /\ s.ui.snapshot \in Nat
        BY DEF Good, IsState, IsPort, IsWindow
    <2>2. Len(s.port.queue) \in Nat /\ Len(t.port.queue) \in Nat
        BY <2>1, LenProperties
    <2>3. Len(s.port.queue) <= s.ui.snapshot
        BY DEF Good, Seen
    <2>4. Len(t.port.queue) <= t.ui.snapshot
        BY <2>1, <2>2, <2>3
    <2> QED BY <1>2, <2>4 DEF Good, Seen
<1>4. Filed(t)
    BY <1>2 DEF Good, Filed
<1> QED BY <1>1, <1>3, <1>4 DEF Good

\* A step of another thread leaves the window where it is.
LEMMA BelowTheWindow ==
    ASSUME Inv, Good(S'), Quiet(S'), UNCHANGED <<ui, prompts, pc>>
    PROVE  Inv'
<1>1. S'.ui = S.ui /\ Chunks(S') = Chunks(S)
    BY PartsOfS DEF Chunks
<1>2. Prompted(S', prompts') /\ Halfway(S', pc')
    BY <1>1 DEF Inv, Prompted, Halfway
<1> QED BY <1>2 DEF Inv

LEMMA WorkerStartsKeeps ==
    ASSUME Inv, WorkerStarts
    PROVE  Inv'
<1>1. /\ Good(S) /\ S.port = port /\ S.ui = ui /\ S.log = log
      /\ S'.port = port' /\ S'.ui = ui /\ S'.log = log
      /\ S' = [f \in StateFields |-> S'[f]]
    BY PartsOfS DEF Inv, WorkerStarts
<1>2. /\ port = [f \in PortFields |-> port[f]] /\ port' = [port EXCEPT !.writing = TRUE]
      /\ port.state = "Open" /\ port.queue # << >>
    BY <1>1 DEF Good, IsState, IsPort, WorkerStarts
<1>3. /\ port' = [f \in PortFields |-> port'[f]]
      /\ port'.state = "Open" /\ port'.gen = port.gen /\ port'.queue = port.queue
      /\ port'.writing = TRUE /\ port'.told = port.told /\ port'.done = port.done
    BY <1>2 DEF PortFields
<1>4. IsState(S')
    BY <1>1, <1>3 DEF Good, IsState, IsPort
<1>5. Queued(S') = Queued(S) /\ Answers(S') = Answers(S) /\ Chunks(S') = Chunks(S)
    BY <1>1, <1>3 DEF Queued, InLine, Answers, Chunks
<1>6. Owes(S') /\ Recorded(S')
    BY <1>1, <1>3, <1>5 DEF Good, Owes, Recorded
<1>7. Seen(S') /\ Filed(S')
    BY <1>1, <1>2, <1>3, <1>5 DEF Good, Seen, Filed
<1>8. Good(S') /\ Quiet(S')
    BY <1>1, <1>3, <1>4, <1>6, <1>7 DEF Good, Quiet
<1> QED BY <1>8, BelowTheWindow DEF WorkerStarts


LEMMA CompleteKeeps ==
    ASSUME Inv, NEW status \in {"Succeeded", "Failed", "Disconnected"}, Complete(status),
           port.state # "Closed"
    PROVE  Inv'
<1> DEFINE q == port.queue
           r == [write |-> Head(q), status |-> status]
           N == {r}
           n == Len(q)
<1>1. /\ Good(S) /\ S.port = port /\ S.ui = ui /\ S.log = log
      /\ S'.port = port' /\ S'.ui = ui /\ S'.log = log'
      /\ S' = [f \in StateFields |-> S'[f]]
    BY PartsOfS DEF Inv, Complete
<1>2. /\ port = [f \in PortFields |-> port[f]] /\ log = [f \in LogFields |-> log[f]]
      /\ q \in Seq(Writes) /\ port.done \in Seq(Results)
      /\ IsPort(port) /\ IsLog(log) /\ ~port.told
    BY <1>1 DEF Good, IsState, IsPort, IsLog, Complete
<1>3. q # << >>
    BY <1>1 DEF Good, Seen, Complete
<1>4. /\ Len(q) \in Nat \ {0} /\ Tail(q) \in Seq(Writes) /\ Len(Tail(q)) = n - 1
      /\ Head(q) = q[1] /\ q[1] \in Writes
      /\ \A i \in 1 .. n - 1 : Tail(q)[i] = q[i + 1]
    BY <1>2, <1>3, EmptySeq, LenProperties, HeadTailProperties, ElementOfSeq
<1>5. r \in Results /\ Append(port.done, r) \in Seq(Results)
    BY <1>2, <1>4, AppendProperties DEF Results, Statuses
<1> DEFINE sent == IF status = "Succeeded" THEN {q[1]} ELSE {}
<1>6. /\ port' = [port EXCEPT !.queue = Tail(q), !.writing = FALSE, !.done = Append(port.done, r)]
      /\ log' = [log EXCEPT !.written = log.written \cup sent]
    BY <1>4 DEF Complete
<1>7. sent = Successes(N) /\ WritesOf(N) = {q[1]} /\ \A x \in N : x = r
    BY <1>4 DEF Successes, WritesOf
<1>8. \A i \in 1 .. Len(Append(port.done, r)) :
           Append(port.done, r)[i] = IF i = Len(port.done) + 1 THEN r ELSE port.done[i]
    BY <1>2, <1>5, AppendProperties
<1>9. Len(Append(port.done, r)) = Len(port.done) + 1 /\ Len(port.done) \in Nat
    BY <1>2, <1>5, AppendProperties, LenProperties
<1>10. q[1].id \in 1 .. log.submitted /\ log.submitted \in Nat
    <2>1. q[1] \in Queued(S)
        <3>1. 1 \in 1 .. Len(q) /\ S.port.queue = q /\ ~S.port.told
            BY <1>1, <1>2, <1>4
        <3>2. q[1] \in InLine(S)
            BY <3>1 DEF InLine
        <3> QED BY <3>1, <3>2 DEF Queued
    <2>2. q[1] \in S.ui.pending
        BY <1>1, <2>1 DEF Good, Owes
    <2>3. q[1].id \in Nat /\ q[1].id <= log.submitted
        BY <1>1, <2>2, PendingIsOld
    <2>4. q[1].id \in 1 .. MaxWrites
        BY <1>4 DEF Writes
    <2>5. log.submitted \in 0 .. MaxWrites
        BY <1>2 DEF IsLog
    <2> QED BY <2>3, <2>4, <2>5, SendFlowBounds
<1>11. \A w \in sent : w.id \in 1 .. log.submitted
    BY <1>10
<1> HIDE DEF q, r, N, n, sent
<1>12. /\ port' = [f \in PortFields |-> port'[f]]
       /\ port'.state = port.state /\ port'.gen = port.gen /\ port'.queue = Tail(q)
       /\ port'.writing = FALSE /\ port'.told = port.told
       /\ port'.done = Append(port.done, r)
    BY <1>2, <1>6 DEF PortFields
<1>13. /\ log' = [f \in LogFields |-> log'[f]]
       /\ log'.submitted = log.submitted /\ log'.written = log.written \cup sent
       /\ log'.published = log.published /\ log'.twice = log.twice
       /\ log'.forgotten = log.forgotten /\ log'.faulted = log.faulted
    BY <1>2, <1>6 DEF LogFields
<1>14. IsState(S')
    <2>1. IsPort(port')
        BY <1>2, <1>4, <1>5, <1>12 DEF IsPort
    <2>2. IsLog(log')
        BY <1>2, <1>11, <1>13 DEF IsLog
    <2> QED BY <1>1, <2>1, <2>2 DEF Good, IsState
<1>15. Unique(q)
    BY <1>1 DEF Good, Owes, Unique, q
<1>16. Queued(S) = {q[i] : i \in 1 .. n}
    BY <1>1, <1>2 DEF Queued, InLine, q, n
<1>17. Queued(S') = {q[i + 1] : i \in 1 .. n - 1}
    <2>1. InLine(S') = {q[i + 1] : i \in 1 .. n - 1}
        BY <1>1, <1>4, <1>12 DEF InLine, n
    <2> QED BY <1>1, <1>2, <1>12, <2>1 DEF Queued
<1>18. Queued(S') = Queued(S) \ {q[1]}
    <2>1. n \in Nat \ {0}
        BY <1>4 DEF n
    <2>2. ASSUME NEW i \in 1 .. n - 1
          PROVE  q[i + 1] \in Queued(S) /\ q[i + 1] # q[1]
        <3>1. i + 1 \in 1 .. n /\ 1 \in 1 .. n /\ i + 1 # 1
            BY <2>1
        <3> QED BY <1>15, <1>16, <3>1 DEF Unique, n
    <2>3. ASSUME NEW w \in Queued(S), w # q[1]
          PROVE  w \in Queued(S')
        <3>1. PICK i \in 1 .. n : w = q[i]
            BY <1>16
        <3>2. i - 1 \in 1 .. n - 1 /\ i = (i - 1) + 1
            BY <2>1, <2>3, <3>1
        <3> QED BY <1>17, <3>1, <3>2
    <2> QED BY <1>17, <2>2, <2>3
<1>19. Unique(port'.queue)
    <2>1. n \in Nat \ {0}
        BY <1>4 DEF n
    <2> SUFFICES ASSUME NEW i \in 1 .. n - 1, NEW j \in 1 .. n - 1, Tail(q)[i] = Tail(q)[j]
                 PROVE  i = j
        BY <1>4, <1>12 DEF Unique, n
    <2>2. q[i + 1] = q[j + 1] /\ i + 1 \in 1 .. n /\ j + 1 \in 1 .. n
        BY <1>4, <2>1 DEF n
    <2>3. i + 1 = j + 1
        BY <1>15, <2>2 DEF Unique, n
    <2> QED BY <2>1, <2>3
<1>20. Answers(S') = Answers(S) \cup N
    <2> DEFINE d == port.done
               e == Append(d, r)
               k == Len(d)
    <2>1. k \in Nat /\ Len(e) = k + 1
        BY <1>9
    <2>2. \A i \in 1 .. k + 1 : e[i] = IF i = k + 1 THEN r ELSE d[i]
        BY <1>8, <2>1
    <2>3. Answers(S') = {e[i] : i \in 1 .. k + 1} /\ Answers(S) = {d[i] : i \in 1 .. k}
        BY <1>1, <1>12, <2>1 DEF Answers
    <2> HIDE DEF d, e, k
    <2>4. 1 .. k + 1 = (1 .. k) \cup {k + 1} /\ k + 1 \notin 1 .. k
        BY <2>1
    <2> QED BY <2>2, <2>3, <2>4 DEF N
<1>21. Gives(S, S', N)
    <2>1. q[1] \in Queued(S)
        BY <1>4, <1>16 DEF n
    <2> QED BY <1>1, <1>7, <1>12, <1>13, <1>18, <1>19, <1>20, <2>1 DEF Gives
<1>22. Len(S'.port.queue) <= Len(S.port.queue)
    BY <1>1, <1>4, <1>12 DEF n, q
<1>23. Good(S')
    BY <1>1, <1>2, <1>12, <1>14, <1>21, <1>22, GivenKeeps
<1>24. Quiet(S')
    BY <1>1, <1>12, <1>13 DEF Inv, Quiet
<1> QED BY <1>23, <1>24, BelowTheWindow DEF Complete

LEMMA WorkerCompletesKeeps ==
    ASSUME Inv, WorkerCompletes
    PROVE  Inv'
<1>1. ASSUME NEW status \in {"Succeeded", "Failed"}, port.state = "Open", Complete(status)
      PROVE  Inv'
    BY <1>1, CompleteKeeps
<1>2. CASE port.state = "Faulted" /\ Complete("Disconnected")
    BY <1>2, CompleteKeeps
<1> QED BY <1>1, <1>2 DEF WorkerCompletes


\* A worker that was not waited for returns: its write is answered already.
LEMMA WorkerReturnsKeeps ==
    ASSUME Inv, WorkerReturns
    PROVE  Inv'
<1> DEFINE rest == Tail(port.queue)
<1>1. /\ Good(S) /\ Quiet(S) /\ S.port = port /\ S.ui = ui /\ S.log = log
      /\ S'.port = port' /\ S'.ui = ui /\ S'.log = log
      /\ S' = [f \in StateFields |-> S'[f]]
    BY PartsOfS DEF Inv, WorkerReturns
<1>2. /\ port = [f \in PortFields |-> port[f]] /\ IsPort(port)
      /\ port.queue \in Seq(Writes) /\ port.told
      /\ port.state = "Faulted" /\ Len(port.queue) = 1
    BY <1>1 DEF Good, IsState, IsPort, Seen, WorkerReturns
<1>3. rest \in Seq(Writes) /\ Len(rest) = 0
    <2> DEFINE q == port.queue
    <2>1. q # << >> /\ q \in Seq(Writes) /\ Len(q) = 1
        BY <1>1, <1>2 DEF Good, Seen
    <2> HIDE DEF q
    <2>2. Tail(q) \in Seq(Writes) /\ Len(Tail(q)) = 0
        BY <2>1, HeadTailProperties
    <2> QED BY <2>2 DEF q
<1>4. port' = [port EXCEPT !.queue = rest, !.writing = FALSE, !.told = FALSE]
    BY DEF WorkerReturns
<1> HIDE DEF rest
<1>5. /\ port' = [f \in PortFields |-> port'[f]]
      /\ port'.state = "Faulted" /\ port'.gen = port.gen /\ port'.queue = rest
      /\ port'.writing = FALSE /\ port'.told = FALSE /\ port'.done = port.done
    BY <1>2, <1>4 DEF PortFields
<1>6. IsState(S')
    BY <1>1, <1>2, <1>3, <1>5 DEF Good, IsState, IsPort
<1>7. Queued(S) = {} /\ Queued(S') = {}
    <2>1. InLine(S') = {}
        BY <1>1, <1>3, <1>5 DEF InLine
    <2> QED BY <1>1, <1>2, <1>5, <2>1 DEF Queued
<1>8. Answers(S') = Answers(S)
    BY <1>1, <1>5 DEF Answers
<1>9. Owes(S')
    <2>1. 1 .. Len(S'.port.queue) = {}
        BY <1>1, <1>3, <1>5
    <2> QED BY <1>1, <1>5, <1>7, <1>8, <2>1 DEF Good, Owes
<1>10. Recorded(S')
    BY <1>1, <1>7, <1>8 DEF Good, Recorded
<1>11. Seen(S')
    <2>1. S.ui.snapshot \in Nat
        BY <1>1 DEF Good, IsState, IsWindow
    <2>2. Len(S'.port.queue) <= S'.ui.snapshot
        BY <1>1, <1>3, <1>5, <2>1
    <2> QED BY <1>1, <1>5, <2>2 DEF Good, Seen
<1>12. Filed(S')
    BY <1>1, <1>2 DEF Good, Filed
<1>13. Quiet(S')
    BY <1>1, <1>2, <1>5 DEF Quiet
<1>14. Good(S')
    BY <1>6, <1>9, <1>10, <1>11, <1>12 DEF Good
<1> QED BY <1>13, <1>14, BelowTheWindow DEF WorkerReturns

\* A session that faults by itself answers all that waits; the write under way, if
\* there is one, is still owed.
LEMMA FaultedKeeps ==
    ASSUME NEW s, Good(s), IsOpen(s), NEW status \in {"Failed", "Disconnected"},
           NEW t, t = Faulted(s, status)
    PROVE  Keeps(s, t) /\ Quiet(t) /\ t.ui = s.ui
<1> DEFINE q == s.port.queue
           n == Len(q)
           k == IF s.port.writing THEN 1 ELSE 0
           waiting == SubSeq(q, k + 1, n)
           m == Len(waiting)
           results == [i \in 1 .. m |-> [write |-> waiting[i], status |-> status]]
           N == {results[i] : i \in 1 .. m}
           rest == SubSeq(q, 1, k)
           done == s.port.done \o results
           faulted == s.log.faulted \cup {s.port.gen}
<1>1. /\ IsState(s) /\ IsPort(s.port) /\ IsWindow(s.ui) /\ IsLog(s.log)
      /\ s = [f \in StateFields |-> s[f]]
      /\ s.port = [f \in PortFields |-> s.port[f]]
      /\ s.log = [f \in LogFields |-> s.log[f]]
      /\ q \in Seq(Writes) /\ s.port.done \in Seq(Results) /\ s.port.writing \in BOOLEAN
    BY DEF Good, IsState, IsPort, IsLog
<1>2. s.port.state = "Open" /\ ~s.port.told /\ Unique(q)
    BY DEF IsOpen, Good, Seen, Owes, Unique
<1>3. n \in Nat /\ k \in 0 .. n
    <2>1. s.port.writing => q # << >>
        BY DEF Good, Seen
    <2>2. n \in Nat /\ (s.port.writing => n # 0)
        BY <1>1, <2>1, EmptySeq, LenProperties
    <2> QED BY <2>2
<1>4. /\ waiting \in Seq(Writes) /\ m = n - k /\ DOMAIN waiting = 1 .. m
      /\ \A i \in 1 .. m : waiting[i] = q[i + k]
      /\ rest \in Seq(Writes) /\ Len(rest) = k /\ \A i \in 1 .. k : rest[i] = q[i]
    <2> HIDE DEF q, n, k, m
    <2>1. rest \in Seq(Writes) /\ Len(rest) = k /\ \A i \in 1 .. k : rest[i] = q[i]
        <3>1. 1 \in 1 .. Len(q) + 1 /\ k \in 0 .. Len(q) /\ 1 .. k \subseteq 1 .. Len(q)
            BY <1>3 DEF n
        <3> QED BY <1>1, <1>3, <3>1, SubSeqProperties
    <2>2. /\ waiting \in Seq(Writes) /\ Len(waiting) = n - k
          /\ \A i \in 1 .. n - k : waiting[i] = q[k + 1 + i - 1]
        <3>1. k + 1 \in 1 .. Len(q) + 1 /\ n \in k .. Len(q) /\ k + 1 .. n \subseteq 1 .. Len(q)
            BY <1>3 DEF n
        <3>2. k + 1 \in Int /\ n \in Int /\ Len(waiting) = IF k + 1 <= n THEN n - (k + 1) + 1 ELSE 0
            BY <1>1, <1>3, <3>1, SubSeqProperties
        <3> QED BY <1>1, <1>3, <3>1, <3>2, SubSeqProperties
    <2>3. \A i \in 1 .. n - k : k + 1 + i - 1 = i + k
        BY <1>3
    <2>4. DOMAIN waiting = 1 .. Len(waiting)
        BY <2>2, LenProperties
    <2> HIDE DEF waiting, rest
    <2> QED BY <2>1, <2>2, <2>3, <2>4 DEF m
<1>5. /\ \A i \in 1 .. m : results[i].write = waiting[i] /\ results[i].status = status
      /\ results = [i \in 1 .. m |-> results[i]]
    OBVIOUS
<1>6. t = [s EXCEPT !.port.state = "Faulted", !.port.queue = rest, !.port.done = done,
                    !.log.faulted = faulted]
    BY <1>4 DEF Faulted
<1>7. \A i \in 1 .. m : results[i] \in Results
    <2>1. \A i \in 1 .. m : waiting[i] \in Writes
        BY <1>4, ElementOfSeq
    <2> QED BY <2>1 DEF Results, Statuses
<1> HIDE DEF q, n, k, m, waiting, results, rest
<1>8. Unique(waiting)
    <2> SUFFICES ASSUME NEW i \in 1 .. m, NEW j \in 1 .. m, waiting[i] = waiting[j]
                 PROVE  i = j
        BY DEF Unique, m
    <2>1. q[i + k] = q[j + k] /\ i + k \in 1 .. n /\ j + k \in 1 .. n
        BY <1>3, <1>4
    <2>2. i + k = j + k
        BY <1>2, <2>1 DEF Unique, n
    <2> QED BY <1>3, <2>2
<1>9. AnsweredAll(waiting, s.port.done, results, N)
    BY <1>1, <1>4, <1>5, <1>7, <1>8, Answering DEF m
<1>10. done \in Seq(Results)
    BY <1>9 DEF AnsweredAll
<1> HIDE DEF N, done, faulted
<1>11. /\ t = [f \in StateFields |-> t[f]] /\ t.ui = s.ui
       /\ t.port = [s.port EXCEPT !.state = "Faulted", !.queue = rest, !.done = done]
       /\ t.log = [s.log EXCEPT !.faulted = faulted]
    BY <1>1, <1>6 DEF StateFields
<1>12. /\ t.port = [f \in PortFields |-> t.port[f]]
       /\ t.log = [f \in LogFields |-> t.log[f]]
    <2>1. t.port = [f \in PortFields |-> t.port[f]]
        BY <1>1, <1>11
    <2>2. t.log = [f \in LogFields |-> t.log[f]]
        BY <1>1, <1>11
    <2> QED BY <2>1, <2>2
<1>13. /\ t.port.state = "Faulted" /\ t.port.gen = s.port.gen /\ t.port.queue = rest
       /\ t.port.writing = s.port.writing /\ t.port.told = s.port.told
       /\ t.port.done = done
    BY <1>1, <1>11 DEF PortFields
<1>14. /\ t.log.submitted = s.log.submitted /\ t.log.written = s.log.written
       /\ t.log.published = s.log.published /\ t.log.twice = s.log.twice
       /\ t.log.forgotten = s.log.forgotten /\ t.log.faulted = faulted
    BY <1>1, <1>11 DEF LogFields
<1>15. IsState(t)
    <2>1. IsPort(t.port)
        BY <1>1, <1>4, <1>10, <1>12, <1>13 DEF IsPort
    <2>2. IsLog(t.log)
        BY <1>1, <1>12, <1>14 DEF IsLog
    <2> QED BY <1>1, <1>11, <2>1, <2>2 DEF IsState
<1>16. Queued(s) = {q[i] : i \in 1 .. n}
    BY <1>2 DEF Queued, InLine, q, n
<1>17. Queued(t) = {q[i] : i \in 1 .. k}
    <2>1. InLine(t) = {q[i] : i \in 1 .. k}
        BY <1>4, <1>13 DEF InLine
    <2> QED BY <1>2, <1>13, <2>1 DEF Queued
<1>18. WritesOf(N) = {waiting[i] : i \in 1 .. m}
    BY <1>9 DEF AnsweredAll, m
<1>19. WritesOf(N) \subseteq Queued(s) /\ Queued(t) = Queued(s) \ WritesOf(N)
    <2>1. ASSUME NEW i \in 1 .. m
          PROVE  /\ i + k \in 1 .. n /\ waiting[i] = q[i + k]
                 /\ \A j \in 1 .. k : q[j] # waiting[i]
        <3>1. i + k \in 1 .. n /\ waiting[i] = q[i + k]
            BY <1>3, <1>4
        <3>2. \A j \in 1 .. k : j \in 1 .. n /\ j # i + k
            BY <1>3, <1>4
        <3> QED BY <1>2, <3>1, <3>2 DEF Unique, n
    <2>2. ASSUME NEW i \in 1 .. n
          PROVE  i \in 1 .. k \/ \E j \in 1 .. m : waiting[j] = q[i]
        <3>1. CASE i <= k
            BY <1>3, <3>1
        <3>2. CASE i > k
            <4>1. i - k \in 1 .. m /\ (i - k) + k = i
                BY <1>3, <1>4, <3>2
            <4>2. waiting[i - k] = q[i]
                BY <1>4, <4>1
            <4> QED BY <4>1, <4>2
        <3> QED BY <1>3, <3>1, <3>2
    <2>3. \A i \in 1 .. k : i \in 1 .. n
        BY <1>3
    <2> QED BY <1>16, <1>17, <1>18, <2>1, <2>2, <2>3
<1>20. Unique(t.port.queue)
    <2>1. \A i \in 1 .. k : i \in 1 .. n
        BY <1>3
    <2>2. \A i, j \in 1 .. k : q[i] = q[j] => i = j
        BY <1>2, <2>1 DEF Unique, n
    <2>3. Len(t.port.queue) = k /\ \A i \in 1 .. k : t.port.queue[i] = q[i]
        BY <1>4, <1>13
    <2> QED BY <2>2, <2>3 DEF Unique
<1>21. Answers(t) = Answers(s) \cup N
    <2>1. {done[i] : i \in 1 .. Len(done)} = {s.port.done[i] : i \in 1 .. Len(s.port.done)} \cup N
        BY <1>9 DEF AnsweredAll, done
    <2> QED BY <1>13, <2>1 DEF Answers
<1>22. Successes(N) = {}
    BY <1>5 DEF Successes, WritesOf, N
<1>23. Gives(s, t, N)
    <2>1. \A x, r \in N : x.write = r.write => x = r
        BY <1>9 DEF AnsweredAll
    <2>2. s.log.faulted \subseteq t.log.faulted
        BY <1>14 DEF faulted
    <2> QED BY <1>11, <1>13, <1>14, <1>19, <1>20, <1>21, <1>22, <2>1, <2>2 DEF Gives
<1>24. Len(t.port.queue) <= Len(s.port.queue)
    BY <1>3, <1>4, <1>13 DEF n, q
<1>25. t.port.writing => t.port.queue # << >>
    <2>1. t.port.writing => Len(t.port.queue) # 0
        <3>1. t.port.writing => k # 0
            BY <1>13 DEF k
        <3>2. Len(t.port.queue) = k
            BY <1>4, <1>13
        <3> QED BY <3>1, <3>2
    <2> QED BY <2>1
<1>26. Good(t)
    BY <1>2, <1>11, <1>13, <1>15, <1>23, <1>24, <1>25, GivenKeeps
<1>27. Quiet(t)
    BY <1>13, <1>14 DEF Quiet, faulted
<1> QED BY <1>11, <1>26, <1>27 DEF Keeps, Calm, Chunks

----------------------------------------------------------------------------
(* The handlers of the window.                                             *)

LEMMA Becoming ==
    ASSUME NEW t, IsState(t), Becomes(t)
    PROVE  S' = t
<1>1. t = [f \in StateFields |-> t[f]] /\ t.port = port' /\ t.ui = ui' /\ t.log = log'
    BY DEF IsState, Becomes
<1>2. /\ S' = [f \in StateFields |-> S'[f]]
      /\ S'.port = port' /\ S'.ui = ui' /\ S'.log = log'
    BY PartsOfS
<1> QED BY <1>1, <1>2 DEF StateFields

LEMMA Handled ==
    ASSUME NEW t, Becomes(t), Good(t), Quiet(t), Prompted(t, prompts'), Halfway(t, pc')
    PROVE  Inv'
<1>1. S' = t
    BY Becoming DEF Good
<1> QED BY <1>1 DEF Inv

LEMMA PromptedStill ==
    ASSUME NEW s, NEW t, NEW p, Calm(s, t), Prompted(s, p)
    PROVE  Prompted(t, p)
BY DEF Calm, Prompted

\* A handler that leaves the prompts alone.
LEMMA Moved ==
    ASSUME Inv, NEW t, Becomes(t), Keeps(S, t), UNCHANGED prompts, Halfway(t, pc')
    PROVE  Inv'
<1>1. Good(t) /\ Quiet(t) /\ Calm(S, t)
    BY DEF Inv, Keeps
<1>2. Prompted(t, prompts')
    BY <1>1, PromptedStill DEF Inv
<1> QED BY <1>1, <1>2, Handled

LEMMA IdleIsNotHalfway ==
    ASSUME NEW t
    PROVE  Halfway(t, Idle)
BY DEF Halfway, Idle

\* The session faults below the window, which finds it so later.
LEMMA FaultsKeep ==
    ASSUME Inv, DeviceLost \/ WorkerFails
    PROVE  Inv'
<1>1. PICK status \in {"Failed", "Disconnected"} :
         IsOpen(S) /\ Becomes(Faulted(S, status)) /\ UNCHANGED <<prompts, pc>>
    BY DEF DeviceLost, WorkerFails
<1> DEFINE t == Faulted(S, status)
<1>2. Becomes(t)
    BY <1>1
<1>3. Keeps(S, t) /\ t.ui = S.ui
    BY <1>1, FaultedKeeps DEF Inv
<1> HIDE DEF t
<1>4. Halfway(t, pc')
    BY <1>1, <1>3 DEF Inv, Halfway, Chunks
<1> QED BY <1>1, <1>2, <1>3, <1>4, Moved

LEMMA DrainThenKeeps ==
    ASSUME Inv, NEW s, Keeps(S, s), NEW after,
           after \in {"close", "connect"} => ~s.ui.active, DrainThen(s, after)
    PROVE  Inv'
<1> DEFINE t == DrainResults(s)
<1>1. Good(s) /\ Quiet(s)
    BY DEF Inv, Keeps
<1>2. Keeps(s, t)
    BY <1>1, DrainKeeps
<1>3. Keeps(S, t)
    BY <1>2, KeepsThrough
<1>4. Becomes(t) /\ UNCHANGED prompts /\ pc'.at = "snapshot" /\ pc'.after = after
    BY DEF DrainThen
<1>5. Halfway(t, pc')
    BY <1>2, <1>4 DEF Keeps, Calm, Halfway
<1> HIDE DEF t
<1> QED BY <1>3, <1>4, <1>5, Moved

LEMMA KeepsItself ==
    ASSUME NEW s, Good(s)
    PROVE  Keeps(s, s)
BY DEF Keeps, Calm

LEMMA TicksKeep ==
    ASSUME Inv, PollTick \/ FileTick
    PROVE  Inv'
<1>1. Keeps(S, S)
    BY KeepsItself DEF Inv
<1>2. DrainThen(S, "poll") \/ DrainThen(S, "pump")
    BY DEF PollTick, FileTick
<1> QED BY <1>1, <1>2, DrainThenKeeps

LEMMA CloseThenKeeps ==
    ASSUME Inv, NEW after \in {"close", "connect"}, CloseThen(after)
    PROVE  Inv'
<1> DEFINE quiet == [S EXCEPT !.ui.timer = FALSE, !.ui.reconnect = FALSE,
                              !.ui.confirmed = FALSE]
           s == StopFile(quiet)
<1>1. Good(S)
    BY DEF Inv
<1>2. IsState(quiet) /\ SameButFlags(S, quiet)
    <2> DEFINE x == S
    <2>1. IsState(x)
        BY <1>1 DEF Good
    <2>2. quiet = [x EXCEPT !.ui.timer = FALSE, !.ui.reconnect = FALSE, !.ui.confirmed = FALSE]
        OBVIOUS
    <2> HIDE DEF x, quiet
    <2>3. IsState(quiet) /\ SameButFlags(x, quiet)
        BY <2>1, <2>2 DEF IsState, IsWindow, StateFields, WindowFields, SameButFlags
    <2> QED BY <2>3 DEF x
<1>3. Keeps(S, quiet)
    BY <1>1, <1>2, FlagsKeep
<1> HIDE DEF quiet
<1>4. Keeps(quiet, s) /\ ~s.ui.active
    BY <1>3, StopFileKeeps DEF Keeps
<1>5. Keeps(S, s)
    BY <1>3, <1>4, KeepsThrough
<1>6. DrainThen(s, after)
    BY DEF CloseThen, quiet
<1> HIDE DEF s
<1> QED BY <1>4, <1>5, <1>6, DrainThenKeeps

LEMMA DisconnectKeeps ==
    ASSUME Inv, Disconnect \/ Reconnect
    PROVE  Inv'
BY CloseThenKeeps DEF Disconnect, Reconnect

LEMMA PollEndsKeeps ==
    ASSUME Inv, PollEnds
    PROVE  Inv'
<1>1. PICK s \in Drained(S) :
         \/ Becomes(s)
         \/ /\ IsOpen(s)
            /\ \E read \in {s, Faulted(s, "Disconnected")} : \E t \in Failures(read) : Becomes(t)
    BY DEF PollEnds
<1>2. pc' = Idle /\ UNCHANGED prompts
    BY DEF PollEnds
<1>3. Keeps(S, s) /\ Good(s) /\ Quiet(s)
    BY DrainedKeeps DEF Inv
<1>4. CASE Becomes(s)
    BY <1>2, <1>3, <1>4, IdleIsNotHalfway, Moved
<1>5. ASSUME IsOpen(s), NEW read \in {s, Faulted(s, "Disconnected")},
             NEW t \in Failures(read), Becomes(t)
      PROVE  Inv'
    <2>1. Keeps(s, read) /\ Good(read) /\ Quiet(read)
        BY <1>3, <1>5, FaultedKeeps, KeepsItself DEF Keeps
    <2>2. Keeps(read, t)
        BY <1>5, <2>1, FailureKeeps
    <2>3. Keeps(S, t)
        BY <1>3, <2>1, <2>2, KeepsThrough
    <2> QED BY <1>2, <1>5, <2>3, IdleIsNotHalfway, Moved
<1> QED BY <1>1, <1>4, <1>5

LEMMA ClosedRests ==
    ASSUME NEW s, Good(s), Quiet(s), s.port.state = "Closed"
    PROVE  AtRest(s)
<1>1. s.port.queue = << >> /\ s.port.done = << >> /\ ~s.ui.active
    BY DEF Good, Quiet, Seen, Filed
<1>2. InLine(s) = {} /\ Answers(s) = {}
    BY <1>1 DEF InLine, Answers
<1>3. Queued(s) = {}
    BY <1>2 DEF Queued
<1>4. s.ui.pending = {}
    BY <1>2, <1>3 DEF Good, Owes, WritesOf
<1> QED BY <1>1, <1>4 DEF AtRest

\* However it ends, a close leaves nothing the window waits for.
LEMMA ClosedPortRests ==
    ASSUME NEW d, Good(d), Quiet(d), ~d.ui.active, NEW end \in Endings
    PROVE  AtRest(ClosedPort(d, end))
<1> DEFINE s == [d EXCEPT !.ui.reconnect = FALSE]
           settled == Settle(s, NoGen)
           closed == Close(s, end)
           u == IF s.port.state = "Closed" THEN settled ELSE closed
<1>1. ClosedPort(d, end) = UpdateTimer(u)
    BY DEF ClosedPort
<1>2. IsState(s) /\ SameButFlags(d, s)
    BY DEF Good, IsState, IsWindow, StateFields, WindowFields, SameButFlags
<1>3. Good(s) /\ Quiet(s) /\ ~s.ui.active
    BY <1>2, FlagsKeep DEF Keeps, SameButFlags
<1> HIDE DEF s
<1>4. ASSUME s.port.state = "Closed" PROVE AtRest(u)
    <2>1. s.port.queue = << >> /\ s.port.done = << >>
        BY <1>3, <1>4 DEF Good, Quiet, Seen
    <2>2. Queued(s) = {} /\ Answers(s) = {}
        BY <2>1 DEF Queued, InLine, Answers
    <2>3. AtRest(settled)
        BY <1>3, <2>2, SettleKeeps DEF Closes
    <2> QED BY <1>4, <2>3
<1>5. ASSUME s.port.state # "Closed" PROVE AtRest(u)
    BY <1>3, <1>5, CloseRests
<1> HIDE DEF u
<1>6. AtRest(u)
    BY <1>4, <1>5
<1> QED BY <1>1, <1>6, TimerDoes, RestWithFlags DEF AtRest, Good

LEMMA DisconnectEndsKeeps ==
    ASSUME Inv, DisconnectEnds
    PROVE  Inv'
<1>1. PICK d \in Drained(S), end \in Endings : Becomes(ClosedPort(d, end))
    BY DEF DisconnectEnds
<1> DEFINE t == ClosedPort(d, end)
<1>2. Keeps(S, d) /\ Good(d) /\ Quiet(d) /\ ~S.ui.active
    BY DrainedKeeps DEF Inv, DisconnectEnds, Halfway
<1>3. AtRest(t)
    BY <1>2, ClosedPortRests DEF Keeps, Calm
<1>4. Becomes(t)
    BY <1>1
<1> HIDE DEF t
<1>5. Keeps(S, t)
    BY <1>3, RestKeeps
<1>6. pc' = Idle /\ UNCHANGED prompts
    BY DEF DisconnectEnds
<1> QED BY <1>4, <1>5, <1>6, IdleIsNotHalfway, Moved

\* A chunk is read; it is on its way when it is queued.
LEMMA ReadKeeps ==
    ASSUME NEW s, Good(s), s.ui.active, s.ui.read # FileChunks,
           NEW t, t = [s EXCEPT !.ui.read = @ + 1]
    PROVE  Keeps(s, t) /\ t.ui.sent + Cardinality(Chunks(t)) + 1 <= t.ui.read
<1>1. /\ IsState(s) /\ IsWindow(s.ui) /\ FileChunks \in Nat
      /\ s.ui.read \in 0 .. FileChunks /\ s.ui.sent \in 0 .. s.ui.read
      /\ s.ui.sent + Cardinality(Chunks(s)) <= s.ui.read
    BY SendFlowBounds DEF Good, IsState, Filed
<1>2. /\ t = [f \in StateFields |-> t[f]]
      /\ t.port = s.port /\ t.log = s.log
      /\ t.ui = [s.ui EXCEPT !.read = @ + 1]
    BY <1>1 DEF IsState, StateFields
<1> DEFINE n == s.ui.read + 1
           u == s.ui
<1>3. u = [f \in WindowFields |-> u[f]]
    BY <1>1 DEF IsWindow
<1>4. t.ui = [u EXCEPT !.read = n]
    BY <1>2
<1> HIDE DEF n, u
<1>5. t.ui = [f \in WindowFields |-> t.ui[f]]
    BY <1>3, <1>4
<1>6. /\ t.ui.owner = u.owner /\ t.ui.snapshot = u.snapshot
       /\ t.ui.snapGen = u.snapGen /\ t.ui.pending = u.pending
       /\ t.ui.active = u.active /\ t.ui.fileGen = u.fileGen
       /\ t.ui.read = n /\ t.ui.sent = u.sent
    BY <1>3, <1>4 DEF WindowFields
<1>7. /\ t.ui = [f \in WindowFields |-> t.ui[f]]
      /\ t.ui.owner = s.ui.owner /\ t.ui.snapshot = s.ui.snapshot
      /\ t.ui.snapGen = s.ui.snapGen /\ t.ui.pending = s.ui.pending
      /\ t.ui.active = s.ui.active /\ t.ui.fileGen = s.ui.fileGen
      /\ t.ui.read = s.ui.read + 1 /\ t.ui.sent = s.ui.sent
    BY <1>5, <1>6 DEF n, u
<1>8. IsState(t)
    BY <1>1, <1>2, <1>7 DEF IsState, IsWindow
<1>9. Queued(t) = Queued(s) /\ Answers(t) = Answers(s) /\ Chunks(t) = Chunks(s)
    BY <1>2, <1>7 DEF Queued, InLine, Answers, Chunks
<1>10. Owes(t) /\ Recorded(t) /\ Seen(t)
    BY <1>2, <1>7, <1>9 DEF Good, Owes, Recorded, Seen
<1>11. Cardinality(Chunks(s)) \in Nat
    BY PendingIsFinite
<1>12. /\ t.ui.read \in 0 .. FileChunks /\ t.ui.sent \in 0 .. t.ui.read
      /\ t.ui.sent + Cardinality(Chunks(t)) + 1 <= t.ui.read
      /\ t.ui.sent + Cardinality(Chunks(t)) <= t.ui.read
    BY <1>1, <1>7, <1>9, <1>11
<1>13. Filed(t)
    BY <1>2, <1>7, <1>9, <1>12 DEF Good, Filed
<1> QED BY <1>2, <1>7, <1>8, <1>9, <1>10, <1>12, <1>13 DEF Good, Keeps, Calm, Quiet

LEMMA PumpDecidesKeeps ==
    ASSUME Inv, PumpDecides
    PROVE  Inv'
<1>1. UNCHANGED prompts
    BY DEF PumpDecides
<1>2. PICK s \in Drained(S) :
           \/ /\ PumpGoesOn(s) /\ Becomes([s EXCEPT !.ui.read = @ + 1])
              /\ pc' = [Idle EXCEPT !.at = "enqueue"]
           \/ Becomes(StopFile(s)) /\ pc' = Idle
           \/ Becomes(s) /\ pc' = Idle
    BY DEF PumpDecides
<1> DEFINE stopped == StopFile(s)
           t == [s EXCEPT !.ui.read = @ + 1]
<1>3. \/ PumpGoesOn(s) /\ Becomes(t) /\ pc' = [Idle EXCEPT !.at = "enqueue"]
      \/ Becomes(stopped) /\ pc' = Idle
      \/ Becomes(s) /\ pc' = Idle
    BY <1>2
<1>4. Keeps(S, s) /\ Good(s)
    BY DrainedKeeps DEF Inv, Keeps
<1>5. Keeps(S, stopped)
    BY <1>4, StopFileKeeps, KeepsThrough
<1>6. CASE PumpGoesOn(s) /\ Becomes(t) /\ pc' = [Idle EXCEPT !.at = "enqueue"]
    <2>1. s.ui.active /\ s.ui.read # FileChunks
        BY <1>6 DEF PumpGoesOn, PumpStops
    <2>2. Keeps(s, t) /\ t.ui.sent + Cardinality(Chunks(t)) + 1 <= t.ui.read
        BY <1>4, <2>1, ReadKeeps
    <2>3. Keeps(S, t)
        BY <1>4, <2>2, KeepsThrough
    <2>4. pc'.at = "enqueue"
        BY <1>6 DEF Idle
    <2>5. Halfway(t, pc')
        BY <2>2, <2>4 DEF Halfway
    <2> HIDE DEF t
    <2> QED BY <1>1, <1>6, <2>3, <2>5, Moved
<1> HIDE DEF stopped
<1>7. CASE (Becomes(stopped) \/ Becomes(s)) /\ pc' = Idle
    BY <1>1, <1>4, <1>5, <1>7, IdleIsNotHalfway, Moved
<1> QED BY <1>3, <1>6, <1>7

\* The chunk that was read goes to the session the file is sent to.
LEMMA EnqueueChunkKeeps ==
    ASSUME Inv, EnqueueChunk
    PROVE  Inv'
<1> DEFINE looked == Snapshot(S)
           stopped == StopFile(S)
           lookedStopped == StopFile(looked)
           t == Submitted(S, "File")
<1>1. /\ UNCHANGED prompts /\ pc' = Idle /\ pc.at = "enqueue"
      /\ Good(S) /\ Quiet(S) /\ Prompted(S, prompts)
    BY DEF EnqueueChunk, Inv
<1>2. Keeps(S, stopped)
    BY <1>1, StopFileKeeps
<1>3. Keeps(S, looked) /\ Good(looked) /\ Quiet(looked)
    BY <1>1, SnapshotKeeps DEF Keeps
<1>4. Keeps(looked, lookedStopped) /\ Good(lookedStopped) /\ Quiet(lookedStopped)
    BY <1>3, StopFileKeeps DEF Keeps
<1>5. Keeps(S, lookedStopped)
    BY <1>3, <1>4, KeepsThrough
<1>6. \/ Becomes(stopped) \/ Becomes(lookedStopped)
      \/ \E f \in Failures(lookedStopped) : Becomes(f)
      \/ /\ IsOpen(S) /\ port.gen = ui.fileGen
         /\ CanSubmit(S) /\ log.submitted < MaxWrites /\ Becomes(t)
    BY DEF EnqueueChunk
<1> HIDE DEF stopped, looked, lookedStopped
<1>7. CASE Becomes(stopped) \/ Becomes(lookedStopped)
    BY <1>1, <1>2, <1>5, <1>7, IdleIsNotHalfway, Moved
<1>8. ASSUME NEW f \in Failures(lookedStopped), Becomes(f)
      PROVE  Inv'
    <2>1. Keeps(lookedStopped, f)
        BY <1>4, <1>8, FailureKeeps
    <2>2. Keeps(S, f)
        BY <1>5, <2>1, KeepsThrough
    <2> QED BY <1>1, <1>8, <2>2, IdleIsNotHalfway, Moved
<1>9. CASE /\ IsOpen(S) /\ port.gen = ui.fileGen
           /\ CanSubmit(S) /\ log.submitted < MaxWrites /\ Becomes(t)
    <2>1. S.ui.active /\ S.log.submitted < MaxWrites
        BY <1>1, <1>9, PartsOfS DEF Good, Seen, Filed, IsOpen
    <2>2. MayFollow(S, "File")
        BY <1>1 DEF Inv, Halfway, MayFollow
    <2>3. Good(t) /\ Quiet(t) /\ t.ui.active = S.ui.active
        BY <1>1, <1>9, <2>1, <2>2, SubmittedKeeps
    <2>4. Prompted(t, prompts')
        BY <1>1, <2>1 DEF Prompted
    <2> HIDE DEF t
    <2> QED BY <1>1, <1>9, <2>3, <2>4, IdleIsNotHalfway, Handled
<1> QED BY <1>6, <1>7, <1>8, <1>9

\* A session that is lost as soon as it is open leaves nothing behind.
LEMMA InVainKeeps ==
    ASSUME NEW s, AtRest(s), CanOpen(s), NEW end \in Endings, NEW t, t = OpenedInVain(s, end)
    PROVE  Keeps(s, t)
<1> DEFINE opened == Opened(s)
           lost == Faulted(opened, "Disconnected")
<1>1. Good(opened)
    BY OpenedKeeps DEF Keeps
<1>2. IsOpen(opened) /\ opened.ui = s.ui
    BY DEF AtRest, Good, IsState, IsPort, StateFields, PortFields, Opened, IsOpen
<1>3. t = ClosePort(lost, end)
    BY DEF OpenedInVain
<1> HIDE DEF opened
<1>4. Good(lost) /\ lost.ui = s.ui
    BY <1>1, <1>2, FaultedKeeps DEF Keeps
<1> HIDE DEF lost
<1>5. Good(t) /\ ~t.ui.active /\ t.ui.pending = {}
    BY <1>3, <1>4, ClosePortKeeps DEF AtRest
<1>6. Answers(t) = {}
    BY <1>5 DEF Good, Owes, WritesOf
<1>7. t.port.done = << >>
    <2>1. t.port.done \in Seq(Results) /\ Len(t.port.done) \in Nat
        BY <1>5, LenProperties DEF Good, IsState, IsPort
    <2>2. ~(1 \in 1 .. Len(t.port.done))
        BY <1>6 DEF Answers
    <2>3. Len(t.port.done) = 0
        BY <2>1, <2>2
    <2> QED BY <2>1, <2>3, EmptySeq
<1> QED BY <1>5, <1>7, RestKeeps DEF AtRest

\* The rest of a connect, with the session at rest.
LEMMA OpeningKeeps ==
    ASSUME Inv, NEW s, AtRest(s), Opening(s), UNCHANGED prompts, pc' = Idle
    PROVE  Inv'
<1> DEFINE opened == Opened(s)
           u == [opened EXCEPT !.ui.reconnect = FALSE, !.ui.confirmed = FALSE]
           t == UpdateTimer(u)
           failed == OpenFailed(s)
<1>1. Keeps(S, s) /\ Good(s) /\ Quiet(s)
    BY RestKeeps DEF Keeps
<1>2. \/ Becomes(s)
      \/ Becomes(failed)
      \/ CanOpen(s) /\ \E end \in Endings : Becomes(OpenedInVain(s, end))
      \/ CanOpen(s) /\ Becomes(t)
    BY DEF Opening, Connected
<1>3. CASE Becomes(s)
    BY <1>1, <1>3, IdleIsNotHalfway, Moved
<1>4. Keeps(S, failed)
    BY <1>1, OpenFailedKeeps, KeepsThrough
<1> HIDE DEF failed
<1>5. CASE Becomes(failed)
    BY <1>4, <1>5, IdleIsNotHalfway, Moved
<1>6. CASE CanOpen(s) /\ Becomes(t)
    <2>1. Keeps(s, opened) /\ Good(opened)
        BY <1>6, OpenedKeeps DEF Keeps
    <2> HIDE DEF opened
    <2>2. IsState(u) /\ SameButFlags(opened, u)
        BY <2>1 DEF Good, IsState, IsWindow, StateFields, WindowFields, SameButFlags
    <2>3. Keeps(opened, u) /\ Good(u)
        BY <2>1, <2>2, FlagsKeep DEF Keeps
    <2> HIDE DEF u
    <2>4. Keeps(u, t) /\ Becomes(t)
        BY <1>6, <2>3, TimerKeeps
    <2> HIDE DEF t
    <2>5. Keeps(S, t)
        BY <1>1, <2>1, <2>3, <2>4, KeepsThrough
    <2> QED BY <2>4, <2>5, IdleIsNotHalfway, Moved
<1>7. ASSUME CanOpen(s), NEW end \in Endings, Becomes(OpenedInVain(s, end))
      PROVE  Inv'
    <2> DEFINE v == OpenedInVain(s, end)
    <2>1. Keeps(s, v)
        BY <1>7, InVainKeeps
    <2>2. Becomes(v)
        BY <1>7
    <2> HIDE DEF v
    <2>3. Keeps(S, v)
        BY <1>1, <2>1, KeepsThrough
    <2> QED BY <2>2, <2>3, IdleIsNotHalfway, Moved
<1> QED BY <1>2, <1>3, <1>5, <1>6, <1>7

\* A handler that is not cut in two.
LEMMA Done ==
    ASSUME Inv, Ready, NEW t, Becomes(t), Keeps(S, t), UNCHANGED <<prompts, pc>>
    PROVE  Inv'
BY IdleIsNotHalfway, Moved DEF Ready

LEMMA ConnectKeeps ==
    ASSUME Inv, Connect
    PROVE  Inv'
<1>1. /\ Opening(S) /\ UNCHANGED prompts /\ pc' = Idle
      /\ Good(S) /\ Quiet(S) /\ S.port.state = "Closed"
    BY PartsOfS DEF Connect, User, Ready, Inv
<1>2. AtRest(S)
    BY <1>1, ClosedRests
<1> QED BY <1>1, <1>2, OpeningKeeps

LEMMA ReconnectEndsKeeps ==
    ASSUME Inv, ReconnectEnds
    PROVE  Inv'
<1>1. PICK d \in Drained(S), end \in Endings :
         \E closed \in {ClosedPort(d, end)} : Opening(closed)
    BY DEF ReconnectEnds
<1> DEFINE s == ClosedPort(d, end)
<1>2. Keeps(S, d) /\ Good(d) /\ Quiet(d) /\ ~S.ui.active
    BY DrainedKeeps DEF Inv, ReconnectEnds, Halfway
<1>3. AtRest(s)
    BY <1>2, ClosedPortRests DEF Keeps, Calm
<1>4. Opening(s)
    BY <1>1
<1> HIDE DEF s
<1>5. pc' = Idle /\ UNCHANGED prompts
    BY DEF ReconnectEnds
<1> QED BY <1>3, <1>4, <1>5, OpeningKeeps

LEMMA ReconnectTickKeeps ==
    ASSUME Inv, ReconnectTick
    PROVE  Inv'
<1> DEFINE x == S
           given == [S EXCEPT !.ui.reconnect = FALSE]
           failed == OpenFailed(given)
           opened == Opened(given)
           t == UpdateTimer(opened)
<1>1. \/ CanOpen(S) /\ Becomes(t)
      \/ CanOpen(S) /\ \E end \in Endings : Becomes(OpenedInVain(given, end))
      \/ Becomes(failed)
      \/ Becomes(given)
    BY DEF ReconnectTick
<1>2. Good(x) /\ Quiet(x) /\ IsState(x) /\ given = [x EXCEPT !.ui.reconnect = FALSE]
    BY DEF Inv, Good
<1> HIDE DEF x, given
<1>3. IsState(given) /\ SameButFlags(x, given)
    BY <1>2 DEF IsState, IsWindow, StateFields, WindowFields, SameButFlags
<1>4. Keeps(x, given) /\ Good(given) /\ Quiet(given)
    BY <1>2, <1>3, FlagsKeep DEF Keeps
<1>5. CASE Becomes(given)
    BY <1>4, <1>5, Done DEF ReconnectTick, x
<1>6. Keeps(x, failed)
    BY <1>4, OpenFailedKeeps, KeepsThrough
<1> HIDE DEF failed
<1>7. CASE Becomes(failed)
    BY <1>6, <1>7, Done DEF ReconnectTick, x
<1>8. ASSUME CanOpen(S) PROVE CanOpen(given) /\ AtRest(given)
    <2>1. CanOpen(given) /\ given.port.state = "Closed"
        BY <1>3, <1>8 DEF CanOpen, SameButFlags, x
    <2> QED BY <1>4, <2>1, ClosedRests
<1>9. ASSUME CanOpen(S), NEW end \in Endings, Becomes(OpenedInVain(given, end))
      PROVE  Inv'
    <2> DEFINE v == OpenedInVain(given, end)
    <2>1. Keeps(given, v)
        BY <1>8, <1>9, InVainKeeps
    <2>2. Becomes(v)
        BY <1>9
    <2> HIDE DEF v
    <2>3. Keeps(x, v)
        BY <1>4, <2>1, KeepsThrough
    <2> QED BY <2>2, <2>3, Done DEF ReconnectTick, x
<1>10. CASE CanOpen(S) /\ Becomes(t)
    <2>1. Keeps(given, opened) /\ Good(opened)
        BY <1>8, <1>10, OpenedKeeps DEF Keeps
    <2> HIDE DEF opened
    <2>2. Keeps(opened, t) /\ Becomes(t)
        BY <1>10, <2>1, TimerKeeps
    <2> HIDE DEF t
    <2>3. Keeps(x, t)
        BY <1>4, <2>1, <2>2, KeepsThrough
    <2> QED BY <2>2, <2>3, Done DEF ReconnectTick, x
<1> QED BY <1>1, <1>5, <1>7, <1>9, <1>10

LEMMA ToggleTimedKeeps ==
    ASSUME Inv, ToggleTimed
    PROVE  Inv'
<1> DEFINE x == S
           c == S.ui.confirmed /\ ~ui.timed
           u == [S EXCEPT !.ui.timed = ~@, !.ui.confirmed = c]
           t == UpdateTimer(u)
<1>1. Becomes(t)
    BY DEF ToggleTimed
<1>2. u = [x EXCEPT !.ui.timed = ~@, !.ui.confirmed = c] /\ IsState(x) /\ Good(x)
    BY DEF Inv, Good
<1> HIDE DEF x, u, c
<1>3. IsState(u) /\ SameButFlags(x, u)
    BY <1>2 DEF IsState, IsWindow, StateFields, WindowFields, SameButFlags
<1>4. Keeps(x, u) /\ Good(u)
    BY <1>2, <1>3, FlagsKeep DEF Keeps
<1>5. Keeps(u, t)
    BY <1>4, TimerKeeps
<1> HIDE DEF t
<1>6. Keeps(S, t)
    BY <1>4, <1>5, KeepsThrough DEF x
<1> QED BY <1>1, <1>6, Done DEF ToggleTimed, User

----------------------------------------------------------------------------
(* Prompts.                                                                *)

LEMMA PromptsAreSequence ==
    ASSUME NEW s, NEW p, Prompted(s, p)
    PROVE  \E T : p \in Seq(T)
<1> DEFINE T == {p[i] : i \in 1 .. Len(p)}
<1>1. Len(p) \in Nat /\ p = [i \in 1 .. Len(p) |-> p[i]]
    BY SendFlowBounds DEF Prompted
<1>2. \A i \in 1 .. Len(p) : p[i] \in T
    OBVIOUS
<1> HIDE DEF T
<1>3. p \in [1 .. Len(p) -> T]
    BY <1>1, <1>2
<1>4. p \in Seq(T)
    BY <1>1, <1>3, SeqDef
<1> QED BY <1>4

\* A prompt may open above the others; one about a file only above none.
MayOpen(s, p, x) ==
    x.kind = "file" => p = << >> /\ ~s.ui.active /\ Chunks(s) = {}

LEMMA PromptOpens ==
    ASSUME NEW s, NEW p, Prompted(s, p), Len(p) < MaxPrompts, NEW x, MayOpen(s, p, x)
    PROVE  Prompted(s, Append(p, x))
<1> DEFINE n == Len(p)
           q == Append(p, x)
<1>1. PICK T : p \in Seq(T)
    BY PromptsAreSequence
<1>2. p \in Seq(T \cup {x}) /\ n \in Nat
    BY <1>1, SeqDef, LenProperties
<1>3. /\ Len(q) = n + 1 /\ q \in Seq(T \cup {x})
      /\ \A i \in 1 .. n : q[i] = p[i]
      /\ q[n + 1] = x
    BY <1>2, AppendProperties
<1> HIDE DEF q
<1>4. q = [i \in 1 .. Len(q) |-> q[i]]
    <2>1. q \in Seq(T \cup {x})
        BY <1>3
    <2> QED BY <2>1, LenProperties
<1>5. Len(q) \in 0 .. MaxPrompts
    BY <1>2, <1>3, SendFlowBounds
<1>6. ASSUME NEW i \in 1 .. Len(q), q[i].kind = "file"
      PROVE  i = 1 /\ ~s.ui.active /\ Chunks(s) = {}
    <2>1. i \in 1 .. n \/ i = n + 1
        BY <1>2, <1>3
    <2>2. CASE i \in 1 .. n
        BY <1>3, <1>6, <2>2 DEF Prompted
    <2>3. CASE i = n + 1
        <3>1. x.kind = "file"
            BY <1>3, <1>6, <2>3
        <3>2. p = << >> /\ ~s.ui.active /\ Chunks(s) = {}
            BY <3>1 DEF MayOpen
        <3>3. n = 0
            BY <3>2
        <3> QED BY <2>3, <3>2, <3>3
    <2> QED BY <2>1, <2>2, <2>3
<1> QED BY <1>4, <1>5, <1>6 DEF Prompted, q

LEMMA PromptCloses ==
    ASSUME NEW s, NEW p, Prompted(s, p), p # << >>
    PROVE  /\ Prompted(s, Front(p))
           /\ Last(p).kind = "file" =>
                 Front(p) = << >> /\ ~s.ui.active /\ Chunks(s) = {}
<1> DEFINE n == Len(p)
           q == SubSeq(p, 1, n - 1)
<1>1. PICK T : p \in Seq(T)
    BY PromptsAreSequence
<1>2. n \in Nat \ {0} /\ \A i \in 1 .. n : p[i] \in T
    BY <1>1, EmptySeq, LenProperties, ElementOfSeq
<1>3. Front(p) = q /\ Last(p) = p[n]
    BY DEF Front, Last
<1>4. q \in Seq(T) /\ Len(q) = n - 1 /\ \A i \in 1 .. n - 1 : q[i] = p[i]
    <2> HIDE DEF n
    <2>1. n - 1 \in Int /\ 1 .. n - 1 \subseteq 1 .. n
        BY <1>2
    <2> QED BY <1>2, <2>1, SubSeqProperties
<1>5. q = [i \in 1 .. Len(q) |-> q[i]]
    BY <1>4, SeqDef
<1> HIDE DEF q, n
<1>6. n \in 0 .. MaxPrompts /\ \A i \in 1 .. n : p[i].kind = "file" => i = 1 /\ ~s.ui.active /\ Chunks(s) = {}
    BY DEF Prompted, n
<1>7. Len(q) \in 0 .. MaxPrompts
    BY <1>2, <1>4, <1>6, SendFlowBounds
<1>8. \A i \in 1 .. Len(q) : i \in 1 .. n /\ q[i] = p[i]
    BY <1>2, <1>4
<1>9. Prompted(s, q)
    BY <1>5, <1>6, <1>7, <1>8 DEF Prompted
<1>10. ASSUME p[n].kind = "file"
       PROVE  q = << >> /\ ~s.ui.active /\ Chunks(s) = {}
    <2>1. n = 1 /\ ~s.ui.active /\ Chunks(s) = {}
        BY <1>2, <1>6, <1>10
    <2>2. Len(q) = 0
        BY <1>4, <2>1
    <2> QED BY <1>4, <2>1, <2>2, EmptySeq
<1> QED BY <1>3, <1>9, <1>10

----------------------------------------------------------------------------
(* Sending by hand or by the timer, and the file's beginning.              *)

LEMMA SendManualKeeps ==
    ASSUME Inv, Ready, UNCHANGED pc, NEW s, Keeps(S, s), s.log = log,
           SendManual(s), Prompted(s, prompts')
    PROVE  Inv'
<1> DEFINE sent == Submitted(s, "Manual")
           looked == Snapshot(s)
<1>1. Good(s) /\ Quiet(s) /\ pc' = Idle
    BY DEF Inv, Keeps, Ready
<1>2. \/ Becomes(s) \/ Becomes(looked)
      \/ \E f \in Failures(looked) : Becomes(f)
      \/ /\ AllowsManualSend(s) /\ CanSubmit(s) /\ log.submitted < MaxWrites /\ Becomes(sent)
    BY DEF SendManual
<1>3. ASSUME NEW t, Keeps(s, t), Becomes(t)
      PROVE  Inv'
    <2>1. Good(t) /\ Quiet(t) /\ Prompted(t, prompts')
        BY <1>1, <1>3, PromptedStill DEF Keeps
    <2> QED BY <1>1, <1>3, <2>1, IdleIsNotHalfway, Handled
<1>4. CASE Becomes(s)
    BY <1>1, <1>3, <1>4, KeepsItself
<1>5. Keeps(s, looked) /\ Good(looked) /\ Quiet(looked)
    BY <1>1, SnapshotKeeps DEF Keeps
<1>6. CASE /\ AllowsManualSend(s) /\ CanSubmit(s) /\ log.submitted < MaxWrites /\ Becomes(sent)
    <2>1. ~s.ui.active
        BY <1>1, <1>6 DEF AllowsManualSend, Good, Filed
    <2>2. MayFollow(s, "Manual") /\ IsOpen(s) /\ s.log.submitted < MaxWrites
        BY <1>6, <2>1 DEF MayFollow, CanSubmit
    <2>3. Good(sent) /\ Quiet(sent) /\ sent.ui.active = s.ui.active /\ Chunks(sent) = Chunks(s)
        BY <1>1, <2>2, SubmittedKeeps
    <2> HIDE DEF sent
    <2>4. Keeps(s, sent)
        BY <2>3 DEF Keeps, Calm
    <2> QED BY <1>3, <1>6, <2>4
<1> HIDE DEF looked
<1>7. CASE Becomes(looked)
    BY <1>3, <1>5, <1>7
<1>8. ASSUME NEW f \in Failures(looked), Becomes(f)
      PROVE  Inv'
    <2>1. Keeps(looked, f)
        BY <1>5, <1>8, FailureKeeps
    <2>2. Keeps(s, f)
        BY <1>5, <2>1, KeepsThrough
    <2> QED BY <1>3, <1>8, <2>2
<1> QED BY <1>2, <1>4, <1>6, <1>7, <1>8

LEMMA ConfirmedDoes ==
    ASSUME NEW s, Good(s), NEW c
    PROVE  /\ Keeps(s, [s EXCEPT !.ui.confirmed = c]) /\ [s EXCEPT !.ui.confirmed = c].log = s.log
<1> DEFINE t == [s EXCEPT !.ui.confirmed = c]
<1>1. IsState(t) /\ SameButFlags(s, t)
    BY DEF Good, IsState, IsWindow, StateFields, WindowFields, SameButFlags
<1>2. Keeps(s, t)
    BY <1>1, FlagsKeep
<1> QED BY <1>1, <1>2 DEF SameButFlags

LEMMA SameState ==
    ASSUME Inv, Ready, UNCHANGED <<port, ui, log, pc>>, Prompted(S, prompts')
    PROVE  Inv'
<1>1. S' = S
    BY DEF S
<1>2. pc' = Idle
    BY DEF Ready
<1> QED BY <1>1, <1>2, IdleIsNotHalfway DEF Inv

LEMMA SendPayloadKeeps ==
    ASSUME Inv, SendPayload
    PROVE  Inv'
<1>1. Ready /\ UNCHANGED pc /\ Good(S) /\ Prompted(S, prompts) /\ S.log = log
    BY PartsOfS DEF SendPayload, Inv
<1>2. CASE NeedsConfirmation
    <2> DEFINE x == [kind |-> "timed", gen |-> port.gen]
    <2>1. MayOpen(S, prompts, x)
        BY DEF MayOpen
    <2>2. /\ Len(prompts) < MaxPrompts /\ prompts' = Append(prompts, x)
          /\ UNCHANGED <<port, ui, log>>
        BY <1>2 DEF SendPayload
    <2> HIDE DEF x
    <2>3. Prompted(S, prompts')
        BY <1>1, <2>1, <2>2, PromptOpens
    <2> QED BY <1>1, <2>2, <2>3, SameState
<1>3. CASE ~NeedsConfirmation
    <2> DEFINE s == [S EXCEPT !.ui.confirmed = ui.timed]
    <2>1. SendManual(s) /\ UNCHANGED prompts
        BY <1>3 DEF SendPayload
    <2>2. Keeps(S, s) /\ s.log = log
        BY <1>1, ConfirmedDoes
    <2> HIDE DEF s
    <2>3. Prompted(s, prompts')
        BY <1>1, <2>1, <2>2, PromptedStill DEF Keeps
    <2> QED BY <1>1, <2>1, <2>2, <2>3, SendManualKeeps
<1> QED BY <1>2, <1>3

LEMMA ConfirmTimedKeeps ==
    ASSUME Inv, ConfirmTimed
    PROVE  Inv'
<1> DEFINE s == [S EXCEPT !.ui.confirmed = TRUE]
<1>1. /\ Ready /\ UNCHANGED pc /\ Good(S) /\ Prompted(S, prompts) /\ S.log = log
      /\ prompts # << >> /\ prompts' = Front(prompts) /\ SendManual(s)
    BY PartsOfS DEF ConfirmTimed, Answered, Inv
<1>2. Keeps(S, s) /\ s.log = log
    BY <1>1, ConfirmedDoes
<1> HIDE DEF s
<1>3. Prompted(S, prompts')
    BY <1>1, PromptCloses
<1>4. Prompted(s, prompts')
    BY <1>2, <1>3, PromptedStill DEF Keeps
<1> QED BY <1>1, <1>2, <1>4, SendManualKeeps

LEMMA CancelTimedKeeps ==
    ASSUME Inv, CancelTimed
    PROVE  Inv'
<1> DEFINE x == S
           u == [S EXCEPT !.ui.timed = FALSE]
           t == UpdateTimer(u)
<1>1. /\ Ready /\ UNCHANGED pc /\ Prompted(S, prompts) /\ prompts # << >>
      /\ prompts' = Front(prompts) /\ Becomes(t) /\ Quiet(S)
    BY DEF CancelTimed, Answered, Inv
<1>2. u = [x EXCEPT !.ui.timed = FALSE] /\ IsState(x) /\ Good(x)
    BY DEF Inv, Good
<1> HIDE DEF x, u
<1>3. IsState(u) /\ SameButFlags(x, u)
    BY <1>2 DEF IsState, IsWindow, StateFields, WindowFields, SameButFlags
<1>4. Keeps(x, u) /\ Good(u)
    BY <1>2, <1>3, FlagsKeep DEF Keeps
<1>5. Keeps(u, t)
    BY <1>4, TimerKeeps
<1> HIDE DEF t
<1>6. Keeps(S, t)
    BY <1>4, <1>5, KeepsThrough DEF x
<1>7. Prompted(S, prompts')
    BY <1>1, PromptCloses
<1>8. Prompted(t, prompts') /\ Good(t) /\ Quiet(t)
    BY <1>1, <1>6, <1>7, PromptedStill DEF Keeps
<1> QED BY <1>1, <1>8, IdleIsNotHalfway, Handled DEF Ready

LEMMA StartFileKeeps ==
    ASSUME Inv, StartFile
    PROVE  Inv'
<1> DEFINE x == [kind |-> "file", gen |-> port.gen]
<1>1. /\ Ready /\ UNCHANGED <<port, ui, log, pc>> /\ prompts = << >>
      /\ prompts' = Append(prompts, x) /\ Prompted(S, prompts)
    BY DEF StartFile, User, Inv
<1>2. ~S.ui.active /\ Chunks(S) = {}
    BY PartsOfS DEF StartFile, MayStartFile, Chunks
<1>3. MayOpen(S, prompts, x)
    BY <1>1, <1>2 DEF MayOpen
<1> HIDE DEF x
<1>4. Len(prompts) < MaxPrompts
    <2>1. Len(prompts) = 0
        BY <1>1
    <2> QED BY <2>1, SendFlowBounds
<1>5. Prompted(S, prompts')
    BY <1>1, <1>3, <1>4, PromptOpens
<1> QED BY <1>1, <1>5, SameState

LEMMA FileNotStartedKeeps ==
    ASSUME Inv, FileNotStarted
    PROVE  Inv'
<1>1. /\ Ready /\ UNCHANGED <<port, ui, log, pc>> /\ prompts # << >>
      /\ prompts' = Front(prompts) /\ Prompted(S, prompts)
    BY DEF FileNotStarted, Answered, Inv
<1> QED BY <1>1, PromptCloses, SameState

\* A file begins with nothing in the queue and nothing waited for.
Begun(s) ==
    [s EXCEPT !.ui.active = TRUE, !.ui.owner = "FileSend",
              !.ui.fileGen = s.port.gen, !.ui.read = 0, !.ui.sent = 0,
              !.ui.timer = FALSE, !.ui.confirmed = FALSE]

LEMMA FileBegins ==
    ASSUME NEW s, Good(s), IsOpen(s), AllowsFileSend(s), Chunks(s) = {},
           NEW t, t = Begun(s)
    PROVE  Good(t) /\ Quiet(t)
<1> DEFINE g == s.port.gen
           u == s.ui
<1>1. /\ IsState(s) /\ u = [f \in WindowFields |-> u[f]] /\ IsWindow(u)
      /\ s = [f \in StateFields |-> s[f]]
    BY DEF Good, IsState, IsWindow
<1>2. /\ t = [f \in StateFields |-> t[f]]
      /\ t.port = s.port /\ t.log = s.log
      /\ t.ui = [u EXCEPT !.active = TRUE, !.owner = "FileSend", !.fileGen = g, !.read = 0,
                          !.sent = 0, !.timer = FALSE, !.confirmed = FALSE]
    BY <1>1 DEF StateFields, Begun
<1> HIDE DEF g, u
<1>3. t.ui = [f \in WindowFields |-> t.ui[f]]
    BY <1>1, <1>2
<1>4. /\ t.ui.owner = "FileSend" /\ t.ui.snapshot = u.snapshot
      /\ t.ui.snapGen = u.snapGen /\ t.ui.pending = u.pending
      /\ t.ui.active = TRUE /\ t.ui.fileGen = g
      /\ t.ui.read = 0 /\ t.ui.sent = 0
    BY <1>1, <1>2 DEF WindowFields
<1>5. IsState(t)
    <2>1. IsWindow(t.ui)
        BY <1>1, <1>3, <1>4 DEF IsWindow
    <2> QED BY <1>1, <1>2, <2>1 DEF IsState
<1>6. /\ t.port = s.port /\ t.log = s.log /\ t.ui.pending = s.ui.pending
       /\ t.ui.snapshot = s.ui.snapshot /\ t.ui.snapGen = s.ui.snapGen
    BY <1>2, <1>4 DEF u
<1>7. Queued(t) = Queued(s) /\ Answers(t) = Answers(s) /\ Chunks(t) = {}
    <2>1. Queued(t) = Queued(s) /\ Answers(t) = Answers(s)
        BY <1>6 DEF Queued, InLine, Answers
    <2>2. Chunks(t) = {}
        BY <1>6 DEF Chunks
    <2> QED BY <2>1, <2>2
<1>8. Owes(t) /\ Recorded(t) /\ Seen(t)
    <2>1. Owes(t)
        BY <1>6, <1>7 DEF Good, Owes
    <2>2. Recorded(t)
        BY <1>6, <1>7 DEF Good, Recorded
    <2>3. Seen(t)
        BY <1>6 DEF Good, Seen
    <2> QED BY <2>1, <2>2, <2>3
<1>9. Queued(s) = {}
    <2>1. s.port.queue \in Seq(Writes)
        BY <1>1 DEF IsState, IsPort
    <2>2. Len(s.port.queue) \in Nat /\ Len(s.port.queue) <= 0
        BY <2>1, LenProperties DEF Good, Seen, AllowsFileSend
    <2>3. Len(s.port.queue) = 0
        BY <2>2
    <2> QED BY <2>3 DEF Queued, InLine
<1>10. Filed(t)
    <2>1. Cardinality(Chunks(t)) = 0
        BY <1>7, FS_EmptySet
    <2>2. /\ t.port.state = "Open" /\ ~t.port.told
          /\ t.ui.fileGen = t.port.gen /\ t.ui.fileGen # NoGen
        BY <1>2, <1>4 DEF IsOpen, Good, Seen, g
    <2>3. 0 \in 0 .. FileChunks /\ 0 \in 0 .. 0
        BY SendFlowBounds
    <2> QED BY <1>4, <1>7, <1>9, <2>1, <2>2, <2>3 DEF Filed
<1>11. Quiet(t)
    BY <1>2 DEF IsOpen, Quiet
<1> QED BY <1>5, <1>8, <1>10, <1>11 DEF Good

LEMMA ConfirmFileKeeps ==
    ASSUME Inv, ConfirmFile
    PROVE  Inv'
<1>1. /\ Ready /\ UNCHANGED pc /\ Good(S) /\ Prompted(S, prompts) /\ S.port = port
      /\ prompts # << >> /\ prompts' = Front(prompts) /\ Last(prompts).kind = "file"
    BY PartsOfS DEF ConfirmFile, Answered, Inv
<1>2. Prompted(S, prompts') /\ prompts' = << >> /\ Chunks(S) = {}
    BY <1>1, PromptCloses
<1>3. CASE UNCHANGED <<port, ui, log>>
    BY <1>1, <1>2, <1>3, SameState
<1>4. CASE AllowsFileSend(S) /\ SameSession(Last(prompts))
    <2> DEFINE t == [S EXCEPT !.ui.active = TRUE, !.ui.owner = "FileSend",
                              !.ui.fileGen = port.gen, !.ui.read = 0, !.ui.sent = 0,
                              !.ui.timer = FALSE, !.ui.confirmed = FALSE]
    <2>1. Becomes(t)
        BY <1>4 DEF ConfirmFile
    <2>2. t = Begun(S)
        BY <1>1 DEF Begun
    <2>3. IsOpen(S)
        BY <1>4 DEF SameSession
    <2> HIDE DEF t
    <2>4. Good(t) /\ Quiet(t)
        BY <1>1, <1>2, <1>4, <2>2, <2>3, FileBegins
    <2>5. Prompted(t, prompts')
        <3>1. Len(prompts') = 0
            BY <1>2
        <3> QED BY <1>2, <3>1 DEF Prompted
    <2> QED BY <1>1, <2>1, <2>4, <2>5, IdleIsNotHalfway, Handled DEF Ready
<1> QED BY <1>3, <1>4 DEF ConfirmFile

LEMMA StopFileButtonKeeps ==
    ASSUME Inv, StopFileButton
    PROVE  Inv'
<1> DEFINE t == StopFile(S)
<1>1. Keeps(S, t)
    BY StopFileKeeps DEF Inv
<1>2. Becomes(t) /\ Ready /\ UNCHANGED <<prompts, pc>>
    BY DEF StopFileButton, User
<1> HIDE DEF t
<1> QED BY <1>1, <1>2, Done

----------------------------------------------------------------------------
(* The theorems.                                                           *)

LEMMA InitHolds ==
    ASSUME Init
    PROVE  Inv
<1> DEFINE none == << >>
           empty == {}
<1>1. none \in Seq(Writes) /\ none \in Seq(Results) /\ Len(none) = 0 /\ empty \subseteq Writes
    OBVIOUS
<1>2. /\ S = [f \in StateFields |-> S[f]]
      /\ S.port = port /\ S.ui = ui /\ S.log = log
    BY PartsOfS
<1>3. port = [state |-> "Closed", gen |-> NoGen, queue |-> none, writing |-> FALSE,
              told |-> FALSE, done |-> none]
    BY DEF Init
<1>4. ui = [owner |-> "None", snapshot |-> 0, snapGen |-> NoGen, pending |-> empty,
            active |-> FALSE, fileGen |-> NoGen, read |-> 0, sent |-> 0, timed |-> FALSE,
            confirmed |-> FALSE, timer |-> FALSE, reconnect |-> FALSE]
    BY DEF Init
<1>5. log = [submitted |-> 0, written |-> empty, published |-> empty, twice |-> FALSE,
             forgotten |-> empty, faulted |-> empty]
    BY DEF Init
<1>6. Queued(S) = {} /\ Answers(S) = {} /\ Chunks(S) = {}
    BY <1>1, <1>2, <1>3, <1>4 DEF Queued, InLine, Answers, Chunks
<1> HIDE DEF none
<1>7. IsPort(port)
    BY <1>1, <1>3, SendFlowBounds DEF IsPort, PortFields, NoGen
<1>8. IsWindow(ui)
    BY <1>1, <1>4 DEF IsWindow, WindowFields
<1>9. IsLog(log)
    <2>1. 0 \in 0 .. MaxWrites
        BY SendFlowBounds
    <2> QED BY <1>5, <2>1 DEF IsLog, LogFields
<1>10. Owes(S)
    <2>1. Len(port.queue) = 0
        BY <1>1, <1>3
    <2>2. 1 .. Len(port.queue) = {}
        BY <2>1
    <2>3. ui.pending = {}
        BY <1>4
    <2> QED BY <1>2, <1>6, <2>2, <2>3 DEF Owes, WritesOf
<1>11. Recorded(S)
    BY <1>2, <1>5, <1>6 DEF Recorded, WritesOf
<1>12. Seen(S)
    BY <1>1, <1>2, <1>3, <1>4 DEF Seen, none
<1>13. Filed(S)
    BY <1>2, <1>4, SendFlowBounds DEF Filed
<1>14. Quiet(S) /\ Halfway(S, pc)
    BY <1>2, <1>3, <1>4, IdleIsNotHalfway DEF Quiet, Init, none
<1>15. Prompted(S, prompts)
    <2>1. prompts = << >> /\ Len(prompts) = 0
        BY DEF Init
    <2> QED BY <2>1, SendFlowBounds DEF Prompted
<1> QED BY <1>2, <1>7, <1>8, <1>9, <1>10, <1>11, <1>12, <1>13, <1>14, <1>15
        DEF Inv, Good, IsState

LEMMA NextKeeps ==
    ASSUME Inv, [Next]_vars
    PROVE  Inv'
<1>1. CASE WorkerStarts
    BY <1>1, WorkerStartsKeeps
<1>2. CASE WorkerCompletes
    BY <1>2, WorkerCompletesKeeps
<1>3. CASE WorkerReturns
    BY <1>3, WorkerReturnsKeeps
<1>4. CASE DeviceLost \/ WorkerFails
    BY <1>4, FaultsKeep
<1>5. CASE PollTick \/ FileTick
    BY <1>5, TicksKeep
<1>6. CASE PollEnds
    BY <1>6, PollEndsKeeps
<1>7. CASE PumpDecides
    BY <1>7, PumpDecidesKeeps
<1>8. CASE EnqueueChunk
    BY <1>8, EnqueueChunkKeeps
<1>9. CASE Disconnect \/ Reconnect
    BY <1>9, DisconnectKeeps
<1>10. CASE DisconnectEnds
    BY <1>10, DisconnectEndsKeeps
<1>11. CASE Connect
    BY <1>11, ConnectKeeps
<1>12. CASE ReconnectEnds
    BY <1>12, ReconnectEndsKeeps
<1>13. CASE ReconnectTick
    BY <1>13, ReconnectTickKeeps
<1>14. CASE ToggleTimed
    BY <1>14, ToggleTimedKeeps
<1>15. CASE SendPayload
    BY <1>15, SendPayloadKeeps
<1>16. CASE ConfirmTimed
    BY <1>16, ConfirmTimedKeeps
<1>17. CASE CancelTimed
    BY <1>17, CancelTimedKeeps
<1>18. CASE StartFile
    BY <1>18, StartFileKeeps
<1>19. CASE ConfirmFile
    BY <1>19, ConfirmFileKeeps
<1>20. CASE FileNotStarted
    BY <1>20, FileNotStartedKeeps
<1>21. CASE StopFileButton
    BY <1>21, StopFileButtonKeeps
<1>22. CASE UNCHANGED vars
    <2>1. S' = S /\ prompts' = prompts /\ pc' = pc
        BY <1>22 DEF S, vars
    <2> QED BY <2>1 DEF Inv
<1> QED BY <1>1, <1>2, <1>3, <1>4, <1>5, <1>6, <1>7, <1>8, <1>9, <1>10, <1>11, <1>12, <1>13,
           <1>14, <1>15, <1>16, <1>17, <1>18, <1>19, <1>20, <1>21, <1>22 DEF Next

\* Handlers that drain, prompts that nest and a worker that runs beside them keep
\* the invariant.
THEOREM InvariantHolds == Spec => []Inv
<1> QED BY InitHolds, NextKeeps, PTL DEF Spec

LEMMA QueueAndDone ==
    ASSUME Inv
    PROVE  /\ InQueue = InLine(S) /\ InDone = WritesOf(Answers(S))
           /\ Owed = InDone \cup Queued(S) /\ ui.pending = Owed
           /\ InQueue \subseteq Writes
<1>1. Good(S) /\ S.port = port /\ S.ui = ui
    BY PartsOfS DEF Inv
<1>2. port.queue \in Seq(Writes) /\ ToSet(port.done) = Answers(S)
    BY <1>1, AnswersAre DEF Good, IsState, IsPort
<1>3. /\ DOMAIN port.queue = 1 .. Len(port.queue)
      /\ \A i \in 1 .. Len(port.queue) : port.queue[i] \in Writes
    BY <1>2, LenProperties, ElementOfSeq
<1>4. InQueue = InLine(S) /\ InDone = WritesOf(Answers(S))
    BY <1>1, <1>2, <1>3 DEF InQueue, InDone, ToSet, InLine
<1>5. Owed = InDone \cup Queued(S)
    BY <1>1, <1>4 DEF Owed, Queued
<1>6. ui.pending = Owed
    BY <1>1, <1>4, <1>5 DEF Good, Owes
<1>7. InQueue \subseteq Writes
    BY <1>1, <1>3, <1>4 DEF InLine
<1> QED BY <1>4, <1>5, <1>6, <1>7

\* What reached the port is recorded as sent at most once, and is forgotten only when
\* a session that had faulted by itself is closed (publishSuccessfulSerialWrite,
\* settleClosingSerialWrites).
THEOREM SentOnce == Spec => []SentIsPublishedOnce
<1>1. ASSUME Inv PROVE SentIsPublishedOnce
    <2>1. /\ Recorded(S) /\ S.log = log /\ InDone = WritesOf(Answers(S))
          /\ InDone \subseteq ui.pending
        BY <1>1, PartsOfS, QueueAndDone DEF Inv, Good
    <2>2. log.written \ (log.published \cup log.forgotten) \subseteq InDone \cap ui.pending
        BY <2>1 DEF Recorded
    <2>3. /\ ~log.twice /\ log.published \subseteq log.written
          /\ \A w \in log.forgotten : w.gen \in log.faulted /\ w \notin log.published
        BY <2>1 DEF Recorded
    <2> QED BY <2>2, <2>3 DEF SentIsPublishedOnce
<1> QED BY <1>1, InvariantHolds, PTL

\* The window waits for exactly the writes the session still owes it
\* (pendingSerialWrites_), and its look at the queue is never too low.
THEOREM PendingOwed == Spec => []PendingIsOwed
<1>1. ASSUME Inv PROVE PendingIsOwed
    <2>1. Seen(S) /\ S.port = port /\ S.ui = ui /\ ui.pending = Owed
        BY <1>1, PartsOfS, QueueAndDone DEF Inv, Good
    <2> QED BY <2>1 DEF Seen, PendingIsOwed
<1> QED BY <1>1, InvariantHolds, PTL

\* A file that is sent has the port to itself, with everything TypeOK says
\* (NativeSerialIoState, stopFileSend).
THEOREM FileAlone == Spec => []FileHasThePort
<1>1. ASSUME Inv PROVE FileHasThePort
    <2>1. /\ Good(S) /\ S.port = port /\ S.ui = ui
          /\ InQueue = InLine(S) /\ InDone = WritesOf(Answers(S))
          /\ ui.pending = InDone \cup Queued(S) /\ InQueue \subseteq Writes
          /\ Prompted(S, prompts) /\ Halfway(S, pc)
        BY <1>1, PartsOfS, QueueAndDone DEF Inv
    <2>2. InQueue \cup InDone \cup ui.pending \subseteq Writes
        <3>1. ui.pending \subseteq Writes
            BY <2>1 DEF Good, IsState, IsWindow
        <3> QED BY <2>1, <3>1
    <2>3. port.state \in {"Closed", "Open", "Faulted"} /\ port.gen \in 0 .. MaxGeneration
        BY <2>1 DEF Good, IsState, IsPort
    <2>4. /\ port.writing => port.queue # << >>
          /\ port.told => port.writing /\ port.state = "Faulted"
        BY <2>1 DEF Good, Seen
    <2>5. /\ ui.active \in BOOLEAN
          /\ ui.owner = IF ui.active THEN "FileSend" ELSE "None"
          /\ ui.active => ~port.told /\ ui.fileGen = port.gen /\ ui.fileGen # NoGen
          /\ ~ui.active => ui.fileGen = NoGen
        BY <2>1 DEF Good, IsState, IsWindow, Filed
    <2>6. ui.sent <= ui.read /\ ui.read <= FileChunks
        BY <2>1, SendFlowBounds DEF Good, Filed
    <2>7. Len(prompts) <= MaxPrompts
        BY <2>1, SendFlowBounds DEF Prompted
    <2>8. pc.at \in {"idle", "snapshot", "enqueue"}
        BY <2>1 DEF Halfway
    <2>9. TypeOK
        <3>1. ui.owner \in {"None", "FileSend"} /\ (ui.owner = "FileSend") = ui.active
            BY <2>5
        <3>2. ui.active = (ui.fileGen # NoGen)
            BY <2>5
        <3> QED BY <2>2, <2>3, <2>4, <2>6, <2>7, <2>8, <3>1, <3>2 DEF TypeOK
    <2>10. ui.active => \A w \in InQueue : w.source = "File" /\ w.gen = ui.fileGen
        <3>1. \A w \in ui.pending : w.gen = port.gen
            BY <2>1 DEF Good, Owes
        <3>2. ui.active => Queued(S) = InQueue
            BY <2>1, <2>5 DEF Queued
        <3>3. ui.active => \A w \in Queued(S) : w.source = "File"
            BY <2>1 DEF Good, Filed
        <3> QED BY <2>1, <2>5, <3>1, <3>2, <3>3
    <2> QED BY <2>9, <2>10 DEF FileHasThePort
<1> QED BY <1>1, InvariantHolds, PTL

=============================================================================
