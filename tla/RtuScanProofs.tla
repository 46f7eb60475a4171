---------------------------- MODULE RtuScanProofs ----------------------------
(***************************************************************************)
(* Proofs about a Modbus scan, for every plan, retry policy, device and    *)
(* moment of a cancellation or a lost session: an answer is taken for its  *)
(* own request only, bytes that were read are reported, the result tells   *)
(* what happened, and no request is written that nobody asked for.         *)
(*                                                                         *)
(* Inv says for each place of the thread what it knows: the status of the  *)
(* exchange (Exchange), the reasons for what its calls returned (Reasons), *)
(* the blocks and attempts (Tried, Decided, Counted), whose bytes are on   *)
(* the way (OwnSession) and, as long as no attempt was given up, that they *)
(* are one answer to the last request at most (OwnAnswer).                 *)
(***************************************************************************)
EXTENDS RtuScan, FiniteSetTheorems, SequenceTheorems, TLAPS

----------------------------------------------------------------------------
(* The plan.                                                               *)

\* An accepted plan has blocks of a size that can be asked for, and at least one
\* attempt for each.
LEMMA PlanFacts ==
    /\ Plan \in Seq([start : Nat, quantity : Nat])
    /\ Len(Plan) \in Nat /\ Len(Plan) > 0 /\ DOMAIN Plan = 1..Len(Plan)
    /\ \A i \in 1..Len(Plan) : Plan[i].quantity \in 1..MaxReadQuantity
    /\ MaxReadQuantity \in Nat
    /\ MaxAttempts \in Nat /\ MaxAttempts > 0
    /\ RetryOn \subseteq {"Timeout", "TransportError", "ParseError", "ModbusException"}
    /\ ContinueOnError \in BOOLEAN
<1>1. Plan \in Seq([start : Nat, quantity : Nat]) /\ Plan # << >>
  BY ScanOptions DEF Plan
<1>2. Len(Plan) \in Nat /\ Len(Plan) > 0 /\ DOMAIN Plan = 1..Len(Plan)
  BY <1>1
<1>3. /\ PlanAccepted(Options)
      /\ \A i \in DOMAIN Plan : CanRead(Plan[i].start, Plan[i].quantity)
  BY <1>1 DEF Plan, BuildScanPlan
<1>4. \A i \in 1..Len(Plan) : Plan[i].quantity \in 1..MaxReadQuantity
  BY <1>2, <1>3 DEF CanRead
<1>5. MaxReadQuantity \in Nat /\ MaxRetryCount \in Nat
  BY PlanLimits
<1>6. MaxAttempts \in Nat /\ MaxAttempts > 0
  BY <1>3, <1>5 DEF PlanAccepted, MaxAttempts
<1> QED BY <1>1, <1>2, <1>4, <1>5, <1>6, ScanOptions

----------------------------------------------------------------------------
(* The invariant.                                                          *)

IdlePlaces == {"block", "attempt", "begin", "write", "end", "done"}
LoopPlaces == {"look", "read", "received"}
LastPlaces == {"finish", "deliver", "judge"}
Places == IdlePlaces \cup {"written"} \cup LoopPlaces \cup LastPlaces

CallStatuses == {"none", "Succeeded", "Partial", "Failed", "Cancelled", "Timeout",
                 "RejectedClosed", "Disconnected"}
AttemptStatuses == {"Success", "Timeout", "TransportError", "ParseError", "ModbusException"}
Attempts == [count : Nat, last : AttemptStatuses \cup {"none"}]

Flags ==
    /\ cancel \in BOOLEAN /\ expired \in BOOLEAN /\ cancelled \in BOOLEAN
    /\ cancelObserved \in BOOLEAN /\ serialFailed \in BOOLEAN
    /\ gaveUp \in BOOLEAN /\ stolen \in BOOLEAN /\ missing \in BOOLEAN

Words ==
    /\ pc \in Places
    /\ session \in {"mine", "lost", "other"}
    /\ status \in {"none", "Success", "Timeout", "TransportError"}
    /\ sent \in Nat /\ afterCancel \in Nat
    /\ attempt \in Attempts
    /\ blocks \in Seq(Attempts)

Streams ==
    /\ wire \in Seq(Parts) /\ due \in Seq(Parts) /\ response \in Seq(Parts)
    /\ res \in [status : CallStatuses, mine : BOOLEAN, bytes : Seq(Parts)]

\* What the exchange has said so far.
Exchange ==
    /\ pc \in IdlePlaces \cup {"written"} => response = << >> /\ status = "none"
    /\ pc \in LoopPlaces => status = "Timeout"
    /\ pc \in LastPlaces => status # "none" /\ (status = "Timeout" => expired)
    /\ pc \notin {"written", "received"} => res = NoResult
    /\ pc = "written" => res.bytes = << >>

\* Why a call returned what it did, and what may have been seen of it.
Reasons ==
    /\ ~res.mine => session = "other"
    /\ res.status = "Timeout" => expired
    /\ res.status = "Cancelled" => cancel
    /\ res.status \in {"RejectedClosed", "Disconnected"} => session # "mine"
    /\ cancelObserved => cancel \/ session # "mine"
    /\ missing => session # "mine"

\* The blocks that are done, and the attempts of the one that is not.
Tried ==
    /\ Len(blocks) <= Len(Plan) /\ attempt.count <= MaxAttempts
    /\ pc \notin {"block", "end", "done"} =>
         /\ Len(blocks) < Len(Plan)
         /\ attempt.count < MaxAttempts
         /\ attempt = NoAttempt \/ (attempt.count > 0 /\ attempt.last \in RetryOn)
    /\ \A b \in DOMAIN blocks :
          /\ blocks[b].count \in 1..MaxAttempts
          /\ blocks[b].last \notin RetryOn \/ blocks[b].count = MaxAttempts \/ cancelled

AnyFailed == \E b \in DOMAIN blocks : ~Ok(blocks[b])

\* Why the executor goes on, or has come to its end.
Decided ==
    /\ pc \notin {"end", "done"} => ~cancelled /\ (AnyFailed => ContinueOnError)
    /\ pc \in {"end", "done"} =>
         /\ cancelled => /\ cancel \/ session # "mine"
                         /\ Len(blocks) < Len(Plan) \/ AnyFailed
         /\ ~cancelled => Len(blocks) = Len(Plan) \/ (~ContinueOnError /\ AnyFailed)
    /\ result # "none" => pc = "done" /\ result = FinalStatus

\* Requests of the block that is not done.
Asked ==
    IF pc \in {"block", "end", "done"} THEN 0
    ELSE IF pc \in {"attempt", "begin", "write"} THEN attempt.count
    ELSE attempt.count + 1

Counted ==
    /\ sent <= Len(blocks) * MaxAttempts + Asked
    /\ afterCancel = 0 \/ (cancel /\ afterCancel = 1 /\ pc # "write")

\* Bytes of another session come into no response.
NoForeign(parts) == \A i \in DOMAIN parts : parts[i].of # "foreign"

OwnSession ==
    /\ session # "mine" => due = << >>
    /\ NoForeign(due) /\ NoForeign(response)
    /\ session # "other" => NoForeign(wire)
    /\ res.mine => NoForeign(res.bytes)

Own(part, pieces) == part.of = "own" /\ part.piece \in pieces

\* One answer to the last request, of which got has come and rest has not.
Begun(parts) == Len(parts) = 1 /\ Own(parts[1], {"whole", "head"})
Rest(parts) == Len(parts) = 1 /\ Own(parts[1], {"tail"})
Both(parts) == Len(parts) = 2 /\ Own(parts[1], {"head"}) /\ Own(parts[2], {"tail"})

OneAnswer(got, rest) ==
    \/ got = << >> /\ rest = << >>
    \/ got = << >> /\ Begun(rest)
    \/ Begun(got) /\ rest = << >>
    \/ Begun(got) /\ got[1].piece = "head" /\ Rest(rest)
    \/ Both(got) /\ rest = << >>

Mine(parts) == IF session = "other" THEN << >> ELSE parts
Got == response \o (res.bytes \o Mine(wire))

OwnAnswer ==
    ~gaveUp =>
      /\ pc \in IdlePlaces => due = << >> /\ (session # "other" => wire = << >>)
      /\ /\ pc \notin IdlePlaces /\ res.mine
         /\ pc \in LastPlaces => status = "Success"
         => OneAnswer(Got, due)
      /\ pc \in LastPlaces /\ status = "Success" => Whole(response)

Typed == Flags /\ Words /\ Streams

Inv == /\ Typed /\ Exchange /\ Reasons /\ Tried /\ Decided /\ Counted
       /\ OwnSession /\ OwnAnswer /\ ~stolen

----------------------------------------------------------------------------
(* Types.                                                                  *)

LEMMA ParsedStatuses ==
    ASSUME NEW frame, NEW quantity
    PROVE  Parsed(frame, quantity) \in {"ModbusException", "Success", "ParseError"}
<1>1. CASE frame.kind = "exception"
  BY <1>1 DEF Parsed
<1>2. CASE frame.kind # "exception" /\ frame.kind = "data" /\ frame.quantity = quantity
  BY <1>2 DEF Parsed
<1>3. CASE frame.kind # "exception" /\ ~(frame.kind = "data" /\ frame.quantity = quantity)
  BY <1>3 DEF Parsed
<1> QED BY <1>1, <1>2, <1>3

LEMMA AttemptStatusTyped ==
    ASSUME status \in {"Success", "Timeout", "TransportError"}
    PROVE  /\ AttemptStatus \in AttemptStatuses
           /\ status # "Success" => AttemptStatus = status
BY ParsedStatuses DEF AttemptStatus, AttemptStatuses

\* Parts stay parts when another request is written.
LEMMA OlderPart ==
    ASSUME NEW part \in Parts
    PROVE  [part EXCEPT !.of = "older"] \in Parts
BY DEF Parts

LEMMA AgedParts ==
    ASSUME NEW parts \in Seq(Parts)
    PROVE  /\ Aged(parts) \in Seq(Parts)
           /\ Len(Aged(parts)) = Len(parts)
           /\ parts = << >> => Aged(parts) = << >>
           /\ NoForeign(parts) => NoForeign(Aged(parts))
<1> DEFINE aged == Aged(parts)
<1>a. DOMAIN parts = 1..Len(parts) /\ Len(parts) \in Nat
      /\ \A i \in 1..Len(parts) : parts[i] \in Parts
  OBVIOUS
<1>b. aged = [i \in 1..Len(parts) |-> IF parts[i].of = "own"
                                       THEN [parts[i] EXCEPT !.of = "older"]
                                       ELSE parts[i]]
  BY <1>a DEF Aged
<1> HIDE DEF aged
<1>1. /\ DOMAIN aged = 1..Len(parts)
      /\ \A i \in 1..Len(parts) : aged[i] = IF parts[i].of = "own"
                                           THEN [parts[i] EXCEPT !.of = "older"]
                                           ELSE parts[i]
  BY <1>b
<1>2. \A i \in 1..Len(parts) : aged[i] \in Parts
  BY <1>1, <1>a, OlderPart
<1>3. aged = [i \in 1..Len(parts) |-> aged[i]]
  BY <1>1, <1>b
<1>4. \A i \in 1..Len(parts) : parts[i].of # "foreign" => aged[i].of # "foreign"
  BY <1>1, <1>a DEF Parts
<1>5. aged \in Seq(Parts) /\ Len(aged) = Len(parts)
  BY <1>1, <1>2, <1>3, <1>a
<1>6. NoForeign(parts) => NoForeign(aged)
  BY <1>1, <1>4, <1>a DEF NoForeign
<1> QED BY <1>5, <1>6 DEF aged

LEMMA CancelledTyped ==
    ASSUME Flags, BlockBegins
    PROVE  cancelled' \in BOOLEAN
<1>1. CASE Block > Len(Plan) \/ ShouldCancel
  <2>1. cancelled' = (Block <= Len(Plan))
    BY <1>1, Zenon DEF BlockBegins
  <2> QED BY <2>1, SMT
<1>2. CASE ~(Block > Len(Plan) \/ ShouldCancel)
  <2>1. cancelled' = cancelled
    BY <1>2, Zenon DEF BlockBegins
  <2> QED BY <2>1 DEF Flags
<1> QED BY <1>1, <1>2

\* Flags.
LEMMA FlagsKept == ASSUME Inv, Next PROVE Flags'
<1> USE DEF Inv, Typed, Flags
<1>1. CASE ExchangeBegins
  BY <1>1 DEF ExchangeBegins, Observed, Outcome, executor, history
<1>2. CASE RequestWritten
  BY <1>2 DEF RequestWritten, Result, Answers, Answer, FailedCalls, executor
<1>3. CASE WriteChecked
  BY <1>3 DEF WriteChecked, Observed, TransportFailed, Outcome, stream, executor, history, NoResult
<1>4. CASE Look
  BY <1>4 DEF Look, WaitIsOver, Observed, Outcome, stream, executor, history
<1>5. CASE Read
  BY <1>5 DEF Read, Result, FailedCalls, executor, history
<1>6. CASE Received
  BY <1>6 DEF Received, Observed, TransportFailed, Outcome, stream, executor, NoResult
<1>7. CASE ExchangeEnds
  BY <1>7 DEF ExchangeEnds, DiscardIfGone, Observed, stream, executor, history
<1>8. CASE BlockBegins
  <2>3. cancelled' \in BOOLEAN
    BY <1>8, CancelledTyped DEF Inv, Typed
  <2> QED BY <1>8, <2>3 DEF BlockBegins, stream, transport, history
<1>9. CASE AttemptBegins
  BY <1>9 DEF AttemptBegins, CloseBlock, stream, transport, history
<1>10. CASE AttemptEnds
  BY <1>10 DEF AttemptEnds, CloseBlock, Outcome, stream
<1>11. CASE ScanFinished
  BY <1>11 DEF ScanFinished, stream, transport, history
<1>12. CASE Cancel
  BY <1>12 DEF Cancel, stream, transport, executor, history
<1>13. CASE SessionChanges
  BY <1>13 DEF SessionChanges, transport, executor, history
<1>14. CASE DeviceSends
  BY <1>14 DEF DeviceSends, transport, executor, history
<1>15. CASE DeadlinePasses
  BY <1>15 DEF DeadlinePasses, transport, executor, history
<1> QED BY <1>1, <1>2, <1>3, <1>4, <1>5, <1>6, <1>7, <1>8, <1>9, <1>10, <1>11, <1>12, <1>13, <1>14, <1>15 DEF Next, ScanStep

\* Places, words and counts.
LEMMA WordsKept == ASSUME Inv, Next PROVE Words'
<1> USE DEF Inv, Typed, Words, Places, IdlePlaces, LoopPlaces, LastPlaces
<1>1. CASE ExchangeBegins
  BY <1>1 DEF ExchangeBegins, Observed, Outcome, executor, history
<1>2. CASE RequestWritten
  BY <1>2 DEF RequestWritten, Result, Answers, Answer, FailedCalls, executor
<1>3. CASE WriteChecked
  BY <1>3 DEF WriteChecked, Observed, TransportFailed, Outcome, stream, executor, history, NoResult
<1>4. CASE Look
  BY <1>4 DEF Look, WaitIsOver, Observed, Outcome, stream, executor, history
<1>5. CASE Read
  BY <1>5 DEF Read, Result, FailedCalls, executor, history
<1>6. CASE Received
  BY <1>6 DEF Received, Observed, TransportFailed, Outcome, stream, executor, NoResult
<1>7. CASE ExchangeEnds
  BY <1>7 DEF ExchangeEnds, DiscardIfGone, Observed, stream, executor, history
<1>8. CASE BlockBegins
  <2>1. NoAttempt \in Attempts
    BY DEF NoAttempt, Attempts
  <2> QED BY <1>8, <2>1 DEF BlockBegins, stream, transport, history
<1>9. CASE AttemptBegins
  <2>1. blocks' = blocks \/ blocks' = Append(blocks, attempt)
    BY <1>9 DEF AttemptBegins, CloseBlock
  <2>2. blocks \in Seq(Attempts) /\ attempt \in Attempts
    OBVIOUS
  <2>3. blocks' \in Seq(Attempts)
    BY <2>1, <2>2, AppendProperties
  <2> QED BY <1>9, <2>3 DEF AttemptBegins, CloseBlock, stream, transport, history
<1>10. CASE AttemptEnds
  <2>1. AttemptStatus \in AttemptStatuses
    BY <1>10, AttemptStatusTyped DEF AttemptEnds, Exchange, LastPlaces
  <2>2. attempt' \in Attempts
    BY <1>10, <2>1 DEF AttemptEnds, Attempts
  <2>3. blocks' = blocks \/ blocks' = Append(blocks, attempt')
    BY <1>10 DEF AttemptEnds, CloseBlock
  <2>4. blocks \in Seq(Attempts)
    OBVIOUS
  <2>5. blocks' \in Seq(Attempts)
    BY <2>2, <2>3, <2>4, AppendProperties
  <2> QED BY <1>10, <2>2, <2>5 DEF AttemptEnds, CloseBlock, Outcome, stream
<1>11. CASE ScanFinished
  BY <1>11 DEF ScanFinished, stream, transport, history
<1>12. CASE Cancel
  BY <1>12 DEF Cancel, stream, transport, executor, history
<1>13. CASE SessionChanges
  BY <1>13 DEF SessionChanges, transport, executor, history
<1>14. CASE DeviceSends
  BY <1>14 DEF DeviceSends, transport, executor, history
<1>15. CASE DeadlinePasses
  BY <1>15 DEF DeadlinePasses, transport, executor, history
<1> QED BY <1>1, <1>2, <1>3, <1>4, <1>5, <1>6, <1>7, <1>8, <1>9, <1>10, <1>11, <1>12, <1>13, <1>14, <1>15 DEF Next, ScanStep

\* What the device can answer with.
LEMMA AnswerParts ==
    ASSUME Typed, Block \in 1..Len(Plan), NEW answer \in Answers
    PROVE  /\ answer \in Seq(Parts) /\ NoForeign(answer)
           /\ answer = << >> \/ Begun(answer)
<1>1. Plan[Block].quantity \in 1..MaxReadQuantity
  BY PlanFacts
<1> DEFINE q == Plan[Block].quantity
<1> HIDE DEF q
<1>2. \/ answer = << >>
      \/ \E p \in Parts : answer = <<p>> /\ Own(p, {"whole", "head"})
  <2>1. \/ answer = << >>
        \/ answer = <<[of |-> "own", piece |-> "whole", kind |-> "data", quantity |-> q]>>
        \/ answer = <<[of |-> "own", piece |-> "head", kind |-> "data", quantity |-> q]>>
        \/ answer = <<[of |-> "own", piece |-> "whole", kind |-> "exception", quantity |-> q]>>
    BY DEF Answers, Answer, q
  <2>2. ASSUME NEW piece \in {"whole", "head"}, NEW kind \in {"data", "exception"}
        PROVE  /\ [of |-> "own", piece |-> piece, kind |-> kind, quantity |-> q] \in Parts
               /\ Own([of |-> "own", piece |-> piece, kind |-> kind, quantity |-> q],
                      {"whole", "head"})
    BY <1>1 DEF Parts, Own, q
  <2> QED BY <2>1, <2>2
<1>3. CASE answer = << >>
  BY <1>3 DEF NoForeign
<1>4. CASE \E p \in Parts : answer = <<p>> /\ Own(p, {"whole", "head"})
  BY <1>4 DEF NoForeign, Begun, Own
<1> QED BY <1>2, <1>3, <1>4

LEMMA BlockInPlan ==
    ASSUME Inv, pc \notin {"block", "end", "done"}
    PROVE  Block \in 1..Len(Plan)
BY PlanFacts DEF Inv, Typed, Words, Tried, Block

LEMMA NoResultTyped ==
    /\ NoResult \in [status : CallStatuses, mine : BOOLEAN, bytes : Seq(Parts)]
    /\ NoResult.status = "none" /\ NoResult.mine /\ NoResult.bytes = << >>
BY DEF NoResult, CallStatuses

\* What a call returns.
LEMMA ResultTyped ==
    ASSUME Typed, NEW s \in {"Succeeded", "Partial"} \cup FailedCalls, NEW read \in Seq(Parts)
    PROVE  /\ Result(s, read) \in [status : CallStatuses, mine : BOOLEAN, bytes : Seq(Parts)]
           /\ Result(s, read).status = s /\ Result(s, read).bytes = read
           /\ Result(s, read).mine <=> session # "other"
           /\ s = "Timeout" => expired
           /\ s = "Cancelled" => cancel
           /\ s \in {"RejectedClosed", "Disconnected"} => session # "mine"
<1>1. /\ s \in CallStatuses
      /\ s = "Timeout" => expired
      /\ s = "Cancelled" => cancel
      /\ s \in {"RejectedClosed", "Disconnected"} => session # "mine"
  <2>1. CASE session = "mine"
    BY <2>1 DEF FailedCalls, CallStatuses
  <2>2. CASE session = "lost"
    BY <2>2 DEF FailedCalls, CallStatuses
  <2>3. CASE session = "other"
    BY <2>3 DEF FailedCalls, CallStatuses
  <2> QED BY <2>1, <2>2, <2>3 DEF Typed, Words
<1> QED BY <1>1 DEF Result

LEMMA NoParts == << >> \in Seq(Parts)
OBVIOUS

\* What the two calls leave in res.
Reasoned(r) ==
    /\ r \in [status : CallStatuses, mine : BOOLEAN, bytes : Seq(Parts)]
    /\ r.mine <=> session # "other"
    /\ r.status = "Timeout" => expired
    /\ r.status = "Cancelled" => cancel
    /\ r.status \in {"RejectedClosed", "Disconnected"} => session # "mine"

LEMMA WriteResult ==
    ASSUME Typed, RequestWritten
    PROVE  Reasoned(res') /\ res'.bytes = << >>
<1>1. \E s \in {"Succeeded", "Partial"} \cup FailedCalls : res' = Result(s, << >>)
  BY DEF RequestWritten
<1>2. << >> \in Seq(Parts)
  OBVIOUS
<1>3. PICK s \in {"Succeeded", "Partial"} \cup FailedCalls : res' = Result(s, << >>)
  BY <1>1
<1> DEFINE nothing == << >>
<1>4. nothing \in Seq(Parts) /\ res' = Result(s, nothing)
  BY <1>2, <1>3
<1> HIDE DEF nothing
<1>5. Reasoned(res') /\ res'.bytes = nothing
  BY <1>4, ResultTyped DEF Reasoned
<1> QED BY <1>5 DEF nothing

LEMMA ReadResult ==
    ASSUME Typed, Read
    PROVE  /\ Reasoned(res')
           /\ \/ res'.bytes = wire /\ wire' = << >>
              \/ res'.bytes = << >> /\ UNCHANGED wire
<1>1. \/ res' = Result("Succeeded", wire) /\ wire' = << >>
      \/ \E s \in FailedCalls : res' = Result(s, << >>) /\ UNCHANGED wire
  BY DEF Read
<1>2. << >> \in Seq(Parts) /\ wire \in Seq(Parts)
  BY DEF Typed, Streams
<1>3. CASE res' = Result("Succeeded", wire) /\ wire' = << >>
  BY <1>2, <1>3, ResultTyped DEF Reasoned
<1>4. CASE \E s \in FailedCalls : res' = Result(s, << >>) /\ UNCHANGED wire
  <2>1. PICK s \in FailedCalls : res' = Result(s, << >>)
    BY <1>4
  <2> DEFINE nothing == << >>
  <2>2. /\ nothing \in Seq(Parts) /\ res' = Result(s, nothing)
        /\ s \in {"Succeeded", "Partial"} \cup FailedCalls
    BY <1>2, <2>1
  <2> HIDE DEF nothing
  <2>3. Reasoned(res') /\ res'.bytes = nothing
    BY <2>2, ResultTyped DEF Reasoned
  <2> QED BY <1>4, <2>3 DEF nothing
<1> QED BY <1>1, <1>3, <1>4

\* Bytes on their way, and results of calls.
LEMMA StreamsKept == ASSUME Inv, Next PROVE Streams'
<1> USE DEF Inv, Typed, Streams
<1>1. CASE ExchangeBegins
  BY <1>1 DEF ExchangeBegins, Observed, Outcome, executor, history
<1>2. CASE RequestWritten
  <2>1. Block \in 1..Len(Plan)
    BY <1>2, BlockInPlan DEF RequestWritten
  <2>2. Aged(wire) \in Seq(Parts) /\ Aged(due) \in Seq(Parts)
    BY AgedParts
  <2>3. res' \in [status : CallStatuses, mine : BOOLEAN, bytes : Seq(Parts)]
    BY <1>2, WriteResult DEF Reasoned
  <2>4. due' \in Seq(Parts)
    <3>1. CASE due' = Aged(due)
      BY <3>1, <2>2
    <3>2. CASE \E answer \in Answers \cup {<< >>} : due' = Aged(due) \o answer
      <4>1. PICK answer \in Answers \cup {<< >>} : due' = Aged(due) \o answer
        BY <3>2
      <4>2. answer \in Seq(Parts)
        <5>1. Typed
          OBVIOUS
        <5>2. CASE answer \in Answers
          BY <2>1, <5>1, <5>2, AnswerParts
        <5>3. CASE answer = << >>
          BY <5>3, NoParts
        <5> QED BY <5>2, <5>3
      <4> QED BY <4>1, <4>2, <2>2, ConcatProperties
    <3> QED BY <1>2, <3>1, <3>2 DEF RequestWritten
  <2> QED BY <1>2, <2>2, <2>3, <2>4 DEF RequestWritten
<1>3. CASE WriteChecked
  BY <1>3, NoResultTyped DEF WriteChecked, stream
<1>4. CASE Look
  BY <1>4 DEF Look, WaitIsOver, Observed, Outcome, stream, executor, history
<1>5. CASE Read
  <2>1. res' \in [status : CallStatuses, mine : BOOLEAN, bytes : Seq(Parts)]
    BY <1>5, ReadResult DEF Reasoned
  <2>2. wire' = wire \/ wire' = << >>
    BY <1>5, ReadResult
  <2>3. wire' \in Seq(Parts)
    BY <2>2, NoParts
  <2>4. UNCHANGED <<due, response>>
    BY <1>5 DEF Read
  <2> QED BY <2>1, <2>3, <2>4
<1>6. CASE Received
  <2>1. response' = << >> \/ response' = response \/ response' = response \o res.bytes
    BY <1>6 DEF Received
  <2>2. response \in Seq(Parts) /\ res.bytes \in Seq(Parts)
    OBVIOUS
  <2>5. response \o res.bytes \in Seq(Parts)
    BY <2>2, ConcatProperties
  <2>3. response' \in Seq(Parts)
    BY <2>1, <2>2, <2>5, NoParts
  <2>4. res' = NoResult /\ UNCHANGED <<wire, due>>
    BY <1>6 DEF Received, stream
  <2> QED BY <2>3, <2>4, NoResultTyped
<1>7. CASE ExchangeEnds
  <2>1. response' = << >> \/ response' = response
    BY <1>7 DEF ExchangeEnds, DiscardIfGone
  <2>2. response' \in Seq(Parts)
    BY <2>1, NoParts
  <2>3. UNCHANGED <<wire, due, res>>
    BY <1>7 DEF ExchangeEnds, stream
  <2> QED BY <2>2, <2>3
<1>8. CASE BlockBegins
  BY <1>8 DEF BlockBegins, stream, transport, history
<1>9. CASE AttemptBegins
  BY <1>9 DEF AttemptBegins, CloseBlock, stream, transport, history
<1>10. CASE AttemptEnds
  BY <1>10 DEF AttemptEnds, CloseBlock, Outcome, stream
<1>11. CASE ScanFinished
  BY <1>11 DEF ScanFinished, stream, transport, history
<1>12. CASE Cancel
  BY <1>12 DEF Cancel, stream, transport, executor, history
<1>13. CASE SessionChanges
  <2>1. Plan[1].quantity \in 1..MaxReadQuantity
    BY PlanFacts
  <2> DEFINE part == [of |-> "foreign", piece |-> "whole", kind |-> "data",
                      quantity |-> Plan[1].quantity]
  <2>2. part \in Parts
    BY <2>1 DEF Parts
  <2>4. wire' = <<part>> \/ wire' = wire
    BY <1>13 DEF SessionChanges
  <2> HIDE DEF part
  <2>5. <<part>> \in Seq(Parts)
    BY <2>2
  <2>6. wire \in Seq(Parts)
    OBVIOUS
  <2>3. wire' \in Seq(Parts)
    BY <2>4, <2>5, <2>6, Zenon
  <2> QED BY <1>13, <2>3 DEF SessionChanges, transport
<1>14. CASE DeviceSends
  <2>1. Head(due) \in Parts /\ Tail(due) \in Seq(Parts)
    BY <1>14, HeadTailProperties DEF DeviceSends
  <2>2. [Head(due) EXCEPT !.piece = "tail"] \in Parts
    BY <2>1 DEF Parts
  <2>3. <<[Head(due) EXCEPT !.piece = "tail"]>> \o Tail(due) \in Seq(Parts)
    <3>1. <<[Head(due) EXCEPT !.piece = "tail"]>> \in Seq(Parts)
      BY <2>2
    <3> QED BY <3>1, <2>1, ConcatProperties
  <2>4. due' \in Seq(Parts)
    BY <1>14, <2>1, <2>3 DEF DeviceSends
  <2>5. wire' \in Seq(Parts)
    BY <1>14, <2>1, AppendProperties DEF DeviceSends
  <2> QED BY <1>14, <2>4, <2>5 DEF DeviceSends, transport
<1>15. CASE DeadlinePasses
  BY <1>15 DEF DeadlinePasses, transport, executor, history
<1> QED BY <1>1, <1>2, <1>3, <1>4, <1>5, <1>6, <1>7, <1>8, <1>9, <1>10, <1>11, <1>12, <1>13, <1>14, <1>15 DEF Next, ScanStep

----------------------------------------------------------------------------
(* The exchange and its reasons.                                           *)

\* The status belongs to the place.
LEMMA ExchangeKept == ASSUME Inv, Next PROVE Exchange'
<1> USE DEF Inv, Exchange, Places, IdlePlaces, LoopPlaces, LastPlaces
<1>1. CASE ExchangeBegins
  BY <1>1 DEF ExchangeBegins, Observed, Outcome, executor, history
<1>2. CASE RequestWritten
  <2>1. res'.bytes = << >>
    BY <1>2, WriteResult
  <2> QED BY <1>2, <2>1 DEF RequestWritten
<1>3. CASE WriteChecked
  <2>1. \/ Observed /\ pc' = "judge"
        \/ TransportFailed /\ pc' = "judge"
        \/ Outcome("Timeout") /\ pc' = "look"
    BY <1>3, Zenon DEF WriteChecked
  <2> QED BY <1>3, <2>1 DEF WriteChecked, Observed, TransportFailed, Outcome
<1>4. CASE Look
  BY <1>4 DEF Look, WaitIsOver, Observed, Outcome, stream, executor, history
<1>5. CASE Read
  BY <1>5 DEF Read, Result, FailedCalls, executor, history
<1>6. CASE Received
  <2>1. /\ pc = "received" /\ res' = NoResult
        /\ \/ status' = "TransportError" /\ pc' = "finish"
           \/ res.status = "Timeout" /\ pc' = "finish" /\ UNCHANGED status
           \/ status' = "Success" /\ pc' = "finish"
           \/ pc' = "look" /\ UNCHANGED status
        /\ UNCHANGED expired
    BY <1>6 DEF Received, Observed, TransportFailed, Outcome, stream
  <2> QED BY <2>1 DEF Reasons
<1>7. CASE ExchangeEnds
  BY <1>7 DEF ExchangeEnds, DiscardIfGone, Observed, stream, executor, history
<1>8. CASE BlockBegins
  BY <1>8 DEF BlockBegins, stream, transport, history
<1>9. CASE AttemptBegins
  <2>1. pc' \in {"block", "begin", "end"}
    BY <1>9 DEF AttemptBegins, CloseBlock
  <2> QED BY <1>9, <2>1 DEF AttemptBegins, transport, stream
<1>10. CASE AttemptEnds
  <2>1. pc' \in {"block", "attempt", "end"}
    BY <1>10 DEF AttemptEnds, CloseBlock
  <2> QED BY <1>10, <2>1 DEF AttemptEnds, Outcome, stream
<1>11. CASE ScanFinished
  BY <1>11 DEF ScanFinished, stream, transport, history
<1>12. CASE Cancel
  BY <1>12 DEF Cancel, stream, transport, executor, history
<1>13. CASE SessionChanges
  BY <1>13 DEF SessionChanges, transport, executor, history
<1>14. CASE DeviceSends
  BY <1>14 DEF DeviceSends, transport, executor, history
<1>15. CASE DeadlinePasses
  BY <1>15 DEF DeadlinePasses, transport, executor, history
<1> QED BY <1>1, <1>2, <1>3, <1>4, <1>5, <1>6, <1>7, <1>8, <1>9, <1>10, <1>11, <1>12, <1>13, <1>14, <1>15 DEF Next, ScanStep

\* Reasons stay reasons: neither cancel nor a lost session is taken back.
LEMMA ReasonsKept == ASSUME Inv, Next PROVE Reasons'
<1> USE DEF Inv, Reasons
<1>1. CASE ExchangeBegins
  <2>1. res = NoResult
    BY <1>1 DEF ExchangeBegins, Exchange, IdlePlaces
  <2> QED BY <1>1, <2>1, NoResultTyped DEF ExchangeBegins, Observed, Outcome, executor, history,
         CancellationRequested, Current
<1>2. CASE RequestWritten
  <2>1. /\ res'.mine <=> session # "other"
        /\ res'.status = "Timeout" => expired
        /\ res'.status = "Cancelled" => cancel
        /\ res'.status \in {"RejectedClosed", "Disconnected"} => session # "mine"
    BY <1>2, WriteResult DEF Reasoned
  <2> QED BY <1>2, <2>1 DEF RequestWritten
<1>3. CASE WriteChecked
  <2>1. \/ cancelObserved' = TRUE /\ (Stopped \/ cancel \/ session # "mine")
        \/ UNCHANGED cancelObserved
    BY <1>3, Zenon DEF WriteChecked, Observed, TransportFailed, Outcome
  <2>2. Stopped => cancel \/ session # "mine"
    BY <1>3 DEF Stopped, SessionGone, ResultMatches, CancellationRequested, Current, Typed, Words
  <2> QED BY <1>3, <2>1, <2>2, NoResultTyped DEF WriteChecked, stream, history
<1>4. CASE Look
  BY <1>4 DEF Look, WaitIsOver, Observed, Outcome, stream, history, CancellationRequested, Current
<1>5. CASE Read
  <2>1. /\ res'.mine <=> session # "other"
        /\ res'.status = "Timeout" => expired
        /\ res'.status = "Cancelled" => cancel
        /\ res'.status \in {"RejectedClosed", "Disconnected"} => session # "mine"
    BY <1>5, ReadResult DEF Reasoned
  <2> QED BY <1>5, <2>1 DEF Read, history
<1>6. CASE Received
  <2>1. /\ Stopped \/ UNCHANGED cancelObserved
        /\ missing' = (missing \/ (~IsReported /\ res.bytes # << >>))
        /\ res' = NoResult /\ UNCHANGED <<cancel, session, expired>>
    BY <1>6 DEF Received, TransportFailed, Outcome, stream
  <2>2. Stopped => cancel \/ session # "mine"
    BY <1>6 DEF Stopped, SessionGone, ResultMatches, CancellationRequested, Current, Typed, Words
  <2>3. ~IsReported => session # "mine"
    BY DEF IsReported, ResultMatches, CancellationRequested, Current
  <2>4. missing' => session # "mine"
    BY <2>1, <2>3
  <2>5. cancelObserved' => cancel \/ session # "mine"
    BY <2>1, <2>2
  <2> QED BY <2>1, <2>4, <2>5, NoResultTyped
<1>7. CASE ExchangeEnds
  BY <1>7 DEF ExchangeEnds, DiscardIfGone, Observed, stream, history, Current
<1>8. CASE BlockBegins
  BY <1>8 DEF BlockBegins, stream, transport, history
<1>9. CASE AttemptBegins
  BY <1>9 DEF AttemptBegins, CloseBlock, stream, transport, history
<1>10. CASE AttemptEnds
  BY <1>10 DEF AttemptEnds, CloseBlock, Outcome, stream
<1>11. CASE ScanFinished
  BY <1>11 DEF ScanFinished, stream, transport, history
<1>12. CASE Cancel
  BY <1>12 DEF Cancel, stream, transport, executor, history
<1>13. CASE SessionChanges
  BY <1>13 DEF SessionChanges, transport, executor, history
<1>14. CASE DeviceSends
  BY <1>14 DEF DeviceSends, transport, executor, history
<1>15. CASE DeadlinePasses
  BY <1>15 DEF DeadlinePasses, transport, executor, history
<1> QED BY <1>1, <1>2, <1>3, <1>4, <1>5, <1>6, <1>7, <1>8, <1>9, <1>10, <1>11, <1>12, <1>13, <1>14, <1>15 DEF Next, ScanStep

----------------------------------------------------------------------------
(* The executor.                                                           *)

ExchangeStep ==
    \/ ExchangeBegins \/ RequestWritten \/ WriteChecked \/ Look \/ Read \/ Received
    \/ ExchangeEnds

Around == Cancel \/ SessionChanges \/ DeviceSends \/ DeadlinePasses

ExecutorPlaces == {"block", "attempt", "end", "done"}

\* While an exchange goes on the executor waits; neither a cancellation nor the loss
\* of the session is taken back.
LEMMA ExecutorWaits ==
    ASSUME Inv, ExchangeStep \/ Around
    PROVE  /\ UNCHANGED <<attempt, blocks, cancelled, result>>
           /\ \/ pc' = pc
              \/ pc \notin ExecutorPlaces /\ pc' \notin ExecutorPlaces
           /\ cancel => cancel'
           /\ session # "mine" => session' # "mine"
<1> USE DEF ExecutorPlaces
<1>1. CASE ExchangeBegins
  BY <1>1 DEF ExchangeBegins, executor
<1>2. CASE RequestWritten
  BY <1>2 DEF RequestWritten, executor
<1>3. CASE WriteChecked
  <2>1. pc' \in {"judge", "look"}
    BY <1>3, Zenon DEF WriteChecked
  <2> QED BY <1>3, <2>1 DEF WriteChecked, stream, executor
<1>4. CASE Look
  BY <1>4 DEF Look, stream, executor
<1>5. CASE Read
  BY <1>5 DEF Read, executor
<1>6. CASE Received
  BY <1>6 DEF Received, stream, executor
<1>7. CASE ExchangeEnds
  BY <1>7 DEF ExchangeEnds, stream, executor
<1>8. CASE Cancel
  BY <1>8 DEF Cancel, stream, executor
<1>9. CASE SessionChanges
  BY <1>9 DEF SessionChanges, executor
<1>10. CASE DeviceSends
  BY <1>10 DEF DeviceSends, executor
<1>11. CASE DeadlinePasses
  BY <1>11 DEF DeadlinePasses, executor
<1> QED BY <1>1, <1>2, <1>3, <1>4, <1>5, <1>6, <1>7, <1>8, <1>9, <1>10, <1>11
    DEF ExchangeStep, Around

\* One more block is done.
LEMMA BlockDone ==
    ASSUME blocks \in Seq(Attempts), NEW tried \in Attempts, blocks' = Append(blocks, tried)
    PROVE  /\ Len(blocks) \in Nat /\ Len(blocks') = Len(blocks) + 1
           /\ DOMAIN blocks = 1..Len(blocks) /\ DOMAIN blocks' = 1..(Len(blocks) + 1)
           /\ \A b \in 1..Len(blocks) : blocks'[b] = blocks[b]
           /\ blocks'[Len(blocks) + 1] = tried
           /\ AnyFailed' <=> AnyFailed \/ ~Ok(tried)
<1>1. /\ Len(blocks) \in Nat /\ Len(blocks') = Len(blocks) + 1
      /\ DOMAIN blocks = 1..Len(blocks) /\ DOMAIN blocks' = 1..(Len(blocks) + 1)
      /\ \A b \in 1..Len(blocks) : blocks'[b] = blocks[b]
      /\ blocks'[Len(blocks) + 1] = tried
  BY AppendProperties
<1>2. AnyFailed' <=> AnyFailed \/ ~Ok(tried)
  <2>1. \A b \in 1..(Len(blocks) + 1) : b \in 1..Len(blocks) \/ b = Len(blocks) + 1
    BY <1>1
  <2>2. \A b \in 1..Len(blocks) : b \in 1..(Len(blocks) + 1)
    BY <1>1
  <2>3. Len(blocks) + 1 \in 1..(Len(blocks) + 1)
    BY <1>1
  <2>4. AnyFailed => AnyFailed'
    BY <1>1, <2>2 DEF AnyFailed, Ok
  <2>5. ~Ok(tried) => AnyFailed'
    BY <1>1, <2>3 DEF AnyFailed, Ok
  <2>6. AnyFailed' => AnyFailed \/ ~Ok(tried)
    BY <1>1, <2>1 DEF AnyFailed, Ok
  <2> QED BY <2>4, <2>5, <2>6
<1> QED BY <1>1, <1>2

\* What an attempt that has ended leaves: the next attempt, or a block that is done.
LEMMA AttemptOver ==
    ASSUME Inv, AttemptEnds
    PROVE  /\ pc = "judge" /\ UNCHANGED <<result, cancel, session, sent, afterCancel>>
           /\ attempt' = [count |-> attempt.count + 1, last |-> AttemptStatus]
           /\ attempt' \in Attempts /\ AttemptStatus \in AttemptStatuses
           /\ attempt.count \in Nat
           /\ cancelled' <=> AttemptStatus # "Success" /\ ShouldCancel
           /\ \/ /\ blocks' = Append(blocks, attempt')
                 /\ cancelled' \/ ~MayRetry(AttemptStatus)
                 /\ pc' = IF cancelled' \/ (~Ok(attempt') /\ ~ContinueOnError)
                          THEN "end" ELSE "block"
              \/ /\ UNCHANGED blocks /\ pc' = "attempt"
                 /\ ~cancelled' /\ MayRetry(AttemptStatus)
<1>1. AttemptStatus \in AttemptStatuses /\ pc = "judge"
  BY AttemptStatusTyped DEF AttemptEnds, Inv, Exchange, LastPlaces, Typed, Words
<1>2. attempt' = [count |-> attempt.count + 1, last |-> AttemptStatus]
  BY DEF AttemptEnds
<1>3. attempt' \in Attempts /\ attempt' # NoAttempt /\ attempt.count \in Nat
  BY <1>1, <1>2 DEF Attempts, NoAttempt, Inv, Typed, Words
<1>4. cancelled' <=> AttemptStatus # "Success" /\ ShouldCancel
  BY DEF AttemptEnds
<1>5. \/ /\ blocks' = Append(blocks, attempt')
         /\ cancelled' \/ ~MayRetry(AttemptStatus)
         /\ pc' = IF cancelled' \/ (~Ok(attempt') /\ ~ContinueOnError)
                  THEN "end" ELSE "block"
      \/ /\ UNCHANGED blocks /\ pc' = "attempt"
         /\ ~cancelled' /\ MayRetry(AttemptStatus)
  BY <1>3 DEF AttemptEnds, CloseBlock
<1> QED BY <1>1, <1>2, <1>3, <1>4, <1>5 DEF AttemptEnds, stream

\* The scan is stopped before an attempt, or the attempt begins.
LEMMA AttemptStarts ==
    ASSUME Inv, AttemptBegins
    PROVE  /\ pc = "attempt" /\ UNCHANGED <<attempt, result, cancel, session, sent, afterCancel>>
           /\ attempt \in Attempts
           /\ \/ ShouldCancel /\ cancelled' /\ pc' = "end" /\ attempt = NoAttempt
                 /\ UNCHANGED blocks
              \/ ShouldCancel /\ cancelled' /\ pc' = "end" /\ attempt # NoAttempt
                 /\ blocks' = Append(blocks, attempt)
              \/ UNCHANGED <<cancelled, blocks>> /\ pc' = "begin"
BY DEF AttemptBegins, CloseBlock, stream, transport, history, Inv, Typed, Words

LEMMA BlockStarts ==
    ASSUME Inv, BlockBegins
    PROVE  /\ pc = "block" /\ UNCHANGED <<blocks, result, cancel, session, sent, afterCancel>>
           /\ attempt' = NoAttempt /\ NoAttempt.count = 0
           /\ Len(blocks) \in Nat
           /\ \/ Len(blocks) + 1 > Len(Plan) /\ ~cancelled' /\ pc' = "end"
              \/ Len(blocks) + 1 <= Len(Plan) /\ ShouldCancel /\ cancelled' /\ pc' = "end"
              \/ Len(blocks) + 1 <= Len(Plan) /\ UNCHANGED cancelled /\ pc' = "attempt"
<1>1. Len(blocks) \in Nat /\ Len(Plan) \in Nat /\ Block = Len(blocks) + 1
  BY PlanFacts DEF Inv, Typed, Words, Block
<1>2. CASE Block > Len(Plan) \/ ShouldCancel
  <2>1. cancelled' = (Block <= Len(Plan)) /\ pc' = "end"
    BY <1>2, Zenon DEF BlockBegins
  <2>2. cancelled' <=> Block <= Len(Plan)
    BY <2>1
  <2>3. UNCHANGED <<blocks, result, cancel, session, sent, afterCancel>>
    BY DEF BlockBegins, stream, transport, history
  <2>4. pc = "block" /\ attempt' = NoAttempt /\ NoAttempt.count = 0
    BY DEF BlockBegins, NoAttempt
  <2> QED BY <1>1, <1>2, <2>1, <2>2, <2>3, <2>4
<1>3. CASE ~(Block > Len(Plan) \/ ShouldCancel)
  BY <1>1, <1>3 DEF BlockBegins, stream, transport, history, NoAttempt
<1> QED BY <1>2, <1>3

LEMMA StopsForAReason ==
    ASSUME Inv, ShouldCancel
    PROVE  cancel \/ session # "mine"
BY DEF ShouldCancel, CancellationRequested, Current, Inv, Reasons

\* The blocks that are done were tried as the policy asks, and so was the other one.
LEMMA TriedKept == ASSUME Inv, Next PROVE Tried'
<1>0. Tried /\ Decided /\ Typed
  BY DEF Inv
<1>1. CASE ExchangeStep \/ Around
  <2>1. Tried
    BY <1>0
  <2> QED BY <1>1, <2>1, ExecutorWaits DEF Tried, ExecutorPlaces
<1>2. CASE BlockBegins
  <2>1. ~cancelled
    BY <1>0, <1>2, BlockStarts DEF Decided
  <2>2. \A b \in DOMAIN blocks :
           /\ blocks[b].count \in 1..MaxAttempts
           /\ blocks[b].last \notin RetryOn \/ blocks[b].count = MaxAttempts
    BY <1>0, <2>1 DEF Tried
  <2>3. Len(blocks) <= Len(Plan)
    BY <1>0 DEF Tried
  <2> QED BY <1>2, <2>2, <2>3, BlockStarts, PlanFacts DEF Tried
<1>3. CASE AttemptBegins
  <2>1. /\ pc = "attempt" /\ UNCHANGED attempt /\ attempt \in Attempts
        /\ \/ cancelled' /\ pc' = "end" /\ UNCHANGED blocks
           \/ cancelled' /\ pc' = "end" /\ attempt # NoAttempt /\ blocks' = Append(blocks, attempt)
           \/ UNCHANGED <<cancelled, blocks>> /\ pc' = "begin"
    BY <1>3, AttemptStarts
  <2>2. Len(blocks) < Len(Plan) /\ attempt.count < MaxAttempts /\ Len(blocks) \in Nat
    BY <1>0, <2>1 DEF Tried, Typed, Words
  <2>3. CASE UNCHANGED blocks
    BY <1>0, <2>1, <2>2, <2>3 DEF Tried
  <2>4. CASE cancelled' /\ pc' = "end" /\ attempt # NoAttempt /\ blocks' = Append(blocks, attempt)
    <3>1. attempt.count \in 1..MaxAttempts
      BY <1>0, <2>1, <2>2, <2>4, PlanFacts DEF Tried, Attempts
    <3>2. blocks \in Seq(Attempts)
      BY <1>0 DEF Typed, Words
    <3>3. /\ Len(blocks') = Len(blocks) + 1 /\ DOMAIN blocks' = 1..(Len(blocks) + 1)
          /\ DOMAIN blocks = 1..Len(blocks)
          /\ \A b \in 1..Len(blocks) : blocks'[b] = blocks[b]
          /\ blocks'[Len(blocks) + 1] = attempt
      BY <2>1, <2>4, <3>2, BlockDone
    <3>4. \A b \in 1..Len(blocks) : blocks[b].count \in 1..MaxAttempts
      BY <1>0, <3>3 DEF Tried
    <3>5. \A b \in DOMAIN blocks' : blocks'[b].count \in 1..MaxAttempts
      BY <2>2, <3>1, <3>3, <3>4
    <3>6. Len(blocks') <= Len(Plan) /\ attempt'.count <= MaxAttempts /\ Tried
      BY <1>0, <2>1, <2>2, <3>1, <3>3, PlanFacts
    <3>7. \A b \in DOMAIN blocks' :
             blocks'[b].last \notin RetryOn \/ blocks'[b].count = MaxAttempts \/ cancelled'
      BY <2>4
    <3> QED BY <2>4, <3>5, <3>6, <3>7 DEF Tried
  <2> QED BY <2>1, <2>3, <2>4
<1>4. CASE AttemptEnds
  <2>1. /\ pc = "judge"
        /\ attempt' = [count |-> attempt.count + 1, last |-> AttemptStatus]
        /\ attempt' \in Attempts /\ attempt.count \in Nat
        /\ \/ /\ blocks' = Append(blocks, attempt')
              /\ cancelled' \/ ~MayRetry(AttemptStatus)
              /\ pc' \in {"end", "block"}
           \/ /\ UNCHANGED blocks /\ pc' = "attempt"
              /\ ~cancelled' /\ MayRetry(AttemptStatus)
    BY <1>4, AttemptOver
  <2>2. /\ Len(blocks) < Len(Plan) /\ attempt.count < MaxAttempts /\ Len(blocks) \in Nat
        /\ ~cancelled
    BY <1>0, <2>1 DEF Tried, Decided, Typed, Words
  <2>3. attempt'.count = attempt.count + 1 /\ attempt'.last = AttemptStatus
    BY <2>1
  <2>4. /\ DOMAIN blocks = 1..Len(blocks)
        /\ \A b \in 1..Len(blocks) :
              /\ blocks[b].count \in 1..MaxAttempts
              /\ blocks[b].last \notin RetryOn \/ blocks[b].count = MaxAttempts
    BY <1>0, <2>2 DEF Tried, Typed, Words
  <2>5. CASE UNCHANGED blocks /\ pc' = "attempt" /\ MayRetry(AttemptStatus)
    BY <2>1, <2>2, <2>3, <2>4, <2>5, PlanFacts DEF Tried, MayRetry
  <2>6. CASE /\ blocks' = Append(blocks, attempt')
             /\ cancelled' \/ ~MayRetry(AttemptStatus)
             /\ pc' \in {"end", "block"}
    <3>1. /\ attempt'.count \in 1..MaxAttempts
          /\ attempt'.last \notin RetryOn \/ attempt'.count = MaxAttempts \/ cancelled'
      BY <2>1, <2>2, <2>3, <2>6, PlanFacts, SMTT(30) DEF MayRetry
    <3>2. blocks \in Seq(Attempts)
      BY <1>0 DEF Typed, Words
    <3>3. /\ Len(blocks') = Len(blocks) + 1 /\ DOMAIN blocks' = 1..(Len(blocks) + 1)
          /\ \A b \in 1..Len(blocks) : blocks'[b] = blocks[b]
          /\ blocks'[Len(blocks) + 1] = attempt'
      BY <2>1, <2>6, <3>2, BlockDone
    <3>5. \A b \in DOMAIN blocks' :
             /\ blocks'[b].count \in 1..MaxAttempts
             /\ blocks'[b].last \notin RetryOn \/ blocks'[b].count = MaxAttempts \/ cancelled'
      BY <2>2, <2>4, <3>1, <3>3
    <3>6. attempt'.count <= MaxAttempts
      BY <3>1, PlanFacts
    <3> QED BY <2>2, <2>6, <3>3, <3>5, <3>6, PlanFacts, SMTT(30) DEF Tried
  <2> QED BY <2>1, <2>5, <2>6
<1>5. CASE ScanFinished
  BY <1>0, <1>5 DEF ScanFinished, Tried
<1> QED BY <1>1, <1>2, <1>3, <1>4, <1>5 DEF Next, ScanStep, ExchangeStep, Around

\* The executor comes to its end for one of its reasons, and says which.
LEMMA DecidedKept == ASSUME Inv, Next PROVE Decided'
<1>0. Tried /\ Decided /\ Typed
  BY DEF Inv
<1>1. CASE ExchangeStep \/ Around
  <2>1. /\ UNCHANGED <<attempt, blocks, cancelled, result>>
        /\ pc' = pc \/ (pc \notin ExecutorPlaces /\ pc' \notin ExecutorPlaces)
        /\ cancel => cancel'
        /\ session # "mine" => session' # "mine"
    BY <1>1, ExecutorWaits
  <2>2. AnyFailed' = AnyFailed /\ FinalStatus' = FinalStatus
    BY <2>1 DEF AnyFailed, FinalStatus, Failures, Successes
  <2> QED BY <1>0, <2>1, <2>2 DEF Decided, ExecutorPlaces
<1>2. CASE BlockBegins
  <2>1. AnyFailed' = AnyFailed
    BY <1>2, BlockStarts DEF AnyFailed
  <2>2. /\ pc = "block" /\ UNCHANGED <<blocks, result, cancel, session>>
        /\ Len(blocks) \in Nat
        /\ \/ Len(blocks) + 1 > Len(Plan) /\ ~cancelled' /\ pc' = "end"
           \/ Len(blocks) + 1 <= Len(Plan) /\ ShouldCancel /\ cancelled' /\ pc' = "end"
           \/ UNCHANGED cancelled /\ pc' = "attempt"
    BY <1>2, BlockStarts
  <2>3. Len(blocks) <= Len(Plan)
    BY <1>0 DEF Tried
  <2> QED BY <1>0, <2>1, <2>2, <2>3, StopsForAReason, PlanFacts DEF Decided
<1>3. CASE AttemptBegins
  <2>1. /\ pc = "attempt" /\ UNCHANGED <<attempt, result, cancel, session>>
        /\ attempt \in Attempts
        /\ \/ ShouldCancel /\ cancelled' /\ pc' = "end" /\ UNCHANGED blocks
           \/ ShouldCancel /\ cancelled' /\ pc' = "end" /\ attempt # NoAttempt
              /\ blocks' = Append(blocks, attempt)
           \/ UNCHANGED <<cancelled, blocks>> /\ pc' = "begin"
    BY <1>3, AttemptStarts
  <2>2. Len(blocks) < Len(Plan) /\ (attempt # NoAttempt => attempt.last \in RetryOn)
    BY <1>0, <2>1 DEF Tried
  <2>3. CASE ShouldCancel /\ cancelled' /\ pc' = "end" /\ UNCHANGED blocks
    BY <1>0, <2>1, <2>2, <2>3, StopsForAReason DEF Decided
  <2>4. CASE ShouldCancel /\ cancelled' /\ pc' = "end" /\ attempt # NoAttempt
              /\ blocks' = Append(blocks, attempt)
    <3>1. ~Ok(attempt)
      BY <2>2, <2>4, PlanFacts DEF Ok
    <3>2. AnyFailed'
      BY <1>0, <2>1, <2>4, <3>1, BlockDone DEF Typed, Words
    <3> QED BY <1>0, <2>1, <2>4, <3>2, StopsForAReason DEF Decided
  <2>5. CASE UNCHANGED <<cancelled, blocks>> /\ pc' = "begin"
    BY <1>0, <2>1, <2>5 DEF Decided, AnyFailed
  <2> QED BY <2>1, <2>3, <2>4, <2>5
<1>4. CASE AttemptEnds
  <2>1. /\ pc = "judge" /\ UNCHANGED <<result, cancel, session>>
        /\ attempt' \in Attempts
        /\ attempt' = [count |-> attempt.count + 1, last |-> AttemptStatus]
        /\ cancelled' <=> AttemptStatus # "Success" /\ ShouldCancel
        /\ \/ /\ blocks' = Append(blocks, attempt')
              /\ pc' = IF cancelled' \/ (~Ok(attempt') /\ ~ContinueOnError)
                       THEN "end" ELSE "block"
           \/ UNCHANGED blocks /\ pc' = "attempt" /\ ~cancelled'
    BY <1>4, AttemptOver
  <2>2. result = "none" /\ (AnyFailed => ContinueOnError)
    BY <1>0, <2>1 DEF Decided
  <2>3. CASE UNCHANGED blocks /\ pc' = "attempt" /\ ~cancelled'
    BY <1>0, <2>1, <2>2, <2>3 DEF Decided, AnyFailed
  <2>4. CASE /\ blocks' = Append(blocks, attempt')
             /\ pc' = IF cancelled' \/ (~Ok(attempt') /\ ~ContinueOnError)
                      THEN "end" ELSE "block"
    <3>1. AnyFailed' <=> AnyFailed \/ ~Ok(attempt')
      BY <1>0, <2>1, <2>4, BlockDone DEF Typed, Words
    <3>2. cancelled' => ~Ok(attempt') /\ (cancel \/ session # "mine")
      BY <2>1, StopsForAReason DEF Ok
    <3> QED BY <2>1, <2>2, <2>4, <3>1, <3>2 DEF Decided
  <2> QED BY <2>1, <2>3, <2>4
<1>5. CASE ScanFinished
  <2>1. /\ pc = "end" /\ pc' = "done" /\ UNCHANGED <<blocks, cancelled, cancel, session>>
        /\ result' = FinalStatus
    BY <1>5 DEF ScanFinished, stream
  <2>2. AnyFailed' = AnyFailed /\ FinalStatus' = FinalStatus
    BY <2>1 DEF AnyFailed, FinalStatus, Failures, Successes
  <2> QED BY <1>0, <2>1, <2>2 DEF Decided
<1> QED BY <1>1, <1>2, <1>3, <1>4, <1>5 DEF Next, ScanStep, ExchangeStep, Around

\* A request more is written only for an attempt that was begun, and at most one after
\* a cancellation.
LEMMA CountedKept == ASSUME Inv, Next PROVE Counted'
<1> DEFINE M == MaxAttempts
<1>0. /\ Counted /\ Typed /\ M \in Nat /\ sent \in Nat /\ Len(blocks) \in Nat
      /\ attempt.count \in Nat /\ afterCancel \in Nat
  BY PlanFacts DEF Inv, Typed, Words, Attempts
<1>1. CASE ExchangeStep \/ Around
  <2>1. /\ UNCHANGED <<attempt, blocks>>
        /\ cancel => cancel'
        /\ \/ sent' = sent /\ afterCancel' = afterCancel /\ (pc' = "write" => pc = "write" \/ ~cancel)
              /\ Asked' >= Asked
           \/ /\ pc = "write" /\ pc' = "written" /\ sent' = sent + 1
              /\ afterCancel' = IF cancel THEN afterCancel + 1 ELSE afterCancel
              /\ UNCHANGED cancel
    <3>1. UNCHANGED <<attempt, blocks>> /\ (cancel => cancel')
      BY <1>1, ExecutorWaits
    <3> DEFINE Kept == sent' = sent /\ afterCancel' = afterCancel
                       /\ (pc' = "write" => pc = "write" \/ ~cancel) /\ Asked' >= Asked
    <3>2. CASE ExchangeBegins
      BY <1>0, <3>1, <3>2 DEF ExchangeBegins, executor, history, Asked, CancellationRequested
    <3>3. CASE RequestWritten
      BY <3>1, <3>3 DEF RequestWritten
    <3>4. CASE WriteChecked
      <4>1. pc' \in {"judge", "look"}
        BY <3>4, Zenon DEF WriteChecked
      <4> QED BY <1>0, <3>1, <3>4, <4>1 DEF WriteChecked, history, Asked
    <3>5. CASE Look
      BY <1>0, <3>1, <3>5 DEF Look, history, Asked
    <3>6. CASE Read
      BY <1>0, <3>1, <3>6 DEF Read, history, Asked
    <3>7. CASE Received
      BY <1>0, <3>1, <3>7 DEF Received, Asked
    <3>8. CASE ExchangeEnds
      BY <1>0, <3>1, <3>8 DEF ExchangeEnds, history, Asked
    <3>9. CASE Around
      <4>1. /\ UNCHANGED <<pc, sent, afterCancel>>
        BY <3>9 DEF Around, Cancel, SessionChanges, DeviceSends, DeadlinePasses, history
      <4>2. Asked' = Asked
        BY <3>1, <4>1 DEF Asked
      <4>3. Asked \in Nat
        BY <1>0 DEF Asked
      <4> QED BY <3>1, <4>1, <4>2, <4>3
    <3> QED BY <1>1, <3>2, <3>3, <3>4, <3>5, <3>6, <3>7, <3>8, <3>9 DEF ExchangeStep
  <2>2. Asked \in Nat /\ Asked' \in Nat
    BY <1>0, <2>1 DEF Asked
  <2> DEFINE done == Len(blocks) * M
  <2>3. done \in Nat /\ Len(blocks') * M = done /\ sent <= done + Asked
    BY <1>0, <2>1 DEF Counted
  <2> HIDE DEF done
  <2>4. sent' <= done + Asked'
    <3>1. CASE sent' = sent /\ Asked' >= Asked
      <4>1. done \in Nat /\ sent \in Nat /\ Asked \in Nat /\ Asked' \in Nat
        BY <1>0, <2>2, <2>3
      <4>2. sent <= done + Asked
        BY <2>3
      <4>3. \A a, d, k, l \in Nat : a <= d + k /\ l >= k => a <= d + l
        OBVIOUS
      <4>4. sent <= done + Asked'
        BY <3>1, <4>1, <4>2, <4>3
      <4> QED BY <3>1, <4>4
    <3>2. CASE pc = "write" /\ pc' = "written" /\ sent' = sent + 1
      <4>1. Asked = attempt.count /\ Asked' = attempt.count + 1
        BY <2>1, <3>2 DEF Asked
      <4> QED BY <1>0, <2>3, <3>2, <4>1
    <3> QED BY <2>1, <3>1, <3>2
  <2>5. afterCancel' = 0 \/ (cancel' /\ afterCancel' = 1 /\ pc' # "write")
    BY <1>0, <2>1 DEF Counted
  <2> QED BY <2>3, <2>4, <2>5 DEF Counted, done
<1>2. CASE BlockBegins
  <2>1. Asked = 0 /\ Asked' = 0 /\ UNCHANGED <<blocks, sent, afterCancel, cancel>> /\ pc' # "write"
    BY <1>2, BlockStarts DEF Asked
  <2> QED BY <1>0, <2>1 DEF Counted
<1>3. CASE AttemptBegins
  <2>1. /\ pc = "attempt" /\ UNCHANGED <<attempt, sent, afterCancel, cancel>>
        /\ attempt \in Attempts /\ pc' # "write"
        /\ \/ pc' = "end" /\ attempt = NoAttempt /\ UNCHANGED blocks
           \/ pc' = "end" /\ blocks' = Append(blocks, attempt)
           \/ UNCHANGED blocks /\ pc' = "begin"
    BY <1>3, AttemptStarts
  <2>2. Asked = attempt.count /\ attempt.count < M
    BY <2>1 DEF Asked, Inv, Tried
  <2>3. CASE UNCHANGED blocks /\ Asked' = Asked
    BY <1>0, <2>1, <2>3 DEF Counted
  <2>4. CASE pc' = "end" /\ blocks' = Append(blocks, attempt)
    <3>1. Asked' = 0 /\ Len(blocks') = Len(blocks) + 1
      BY <1>0, <2>1, <2>4, BlockDone DEF Asked, Typed, Words
    <3>2. (Len(blocks) + 1) * M = Len(blocks) * M + M
      BY <1>0
    <3> QED BY <1>0, <2>1, <2>2, <3>1, <3>2 DEF Counted
  <2>5. pc' = "end" /\ attempt = NoAttempt => Asked' = 0 /\ Asked = 0
    BY <2>2 DEF Asked, NoAttempt
  <2>6. pc' = "begin" => Asked' = Asked
    BY <2>1, <2>2 DEF Asked
  <2> QED BY <2>1, <2>3, <2>4, <2>5, <2>6
<1>4. CASE AttemptEnds
  <2>1. /\ pc = "judge" /\ UNCHANGED <<sent, afterCancel, cancel>> /\ pc' # "write"
        /\ attempt'.count = attempt.count + 1 /\ attempt' \in Attempts
        /\ \/ blocks' = Append(blocks, attempt') /\ pc' \in {"end", "block"}
           \/ UNCHANGED blocks /\ pc' = "attempt"
    BY <1>4, AttemptOver
  <2>2. Asked = attempt.count + 1 /\ attempt.count < M
    BY <2>1 DEF Asked, Inv, Tried
  <2>3. CASE UNCHANGED blocks /\ pc' = "attempt"
    <3>1. Asked' = Asked
      BY <2>1, <2>2, <2>3 DEF Asked
    <3> QED BY <1>0, <2>1, <2>3, <3>1 DEF Counted
  <2>4. CASE blocks' = Append(blocks, attempt') /\ pc' \in {"end", "block"}
    <3>1. Asked' = 0 /\ Len(blocks') = Len(blocks) + 1
      BY <1>0, <2>1, <2>4, BlockDone DEF Asked, Typed, Words
    <3>2. (Len(blocks) + 1) * M = Len(blocks) * M + M
      BY <1>0
    <3> QED BY <1>0, <2>1, <2>2, <3>1, <3>2 DEF Counted
  <2> QED BY <2>1, <2>3, <2>4
<1>5. CASE ScanFinished
  BY <1>0, <1>5 DEF ScanFinished, Counted, Asked, history
<1> QED BY <1>1, <1>2, <1>3, <1>4, <1>5 DEF Next, ScanStep, ExchangeStep, Around

----------------------------------------------------------------------------
(* Whose bytes they are.                                                   *)

LEMMA NoForeignParts ==
    ASSUME NEW a \in Seq(Parts), NEW b \in Seq(Parts)
    PROVE  /\ NoForeign(<< >>)
           /\ NoForeign(a) /\ NoForeign(b) => NoForeign(a \o b)
           /\ NoForeign(a) => \A p \in Parts : p.of # "foreign" => NoForeign(Append(a, p))
           /\ NoForeign(a) /\ a # << >> => Head(a).of # "foreign" /\ NoForeign(Tail(a))
<1>1. NoForeign(<< >>)
  BY DEF NoForeign
<1>2. ASSUME NoForeign(a), NoForeign(b) PROVE NoForeign(a \o b)
  <2>1. /\ Len(a) \in Nat /\ Len(b) \in Nat
        /\ DOMAIN a = 1..Len(a) /\ DOMAIN b = 1..Len(b)
    BY LenProperties
  <2>2. /\ DOMAIN (a \o b) = 1..(Len(a) + Len(b))
        /\ \A i \in 1..(Len(a) + Len(b)) :
              (a \o b)[i] = IF i <= Len(a) THEN a[i] ELSE b[i - Len(a)]
    BY ConcatProperties, LenProperties
  <2>3. ASSUME NEW i \in 1..(Len(a) + Len(b)) PROVE (a \o b)[i].of # "foreign"
    <3>1. CASE i <= Len(a)
      BY <1>2, <2>1, <2>2, <3>1 DEF NoForeign
    <3>2. CASE ~(i <= Len(a))
      <4>1. i - Len(a) \in 1..Len(b)
        BY <2>1, <3>2
      <4> QED BY <1>2, <2>1, <2>2, <3>2, <4>1 DEF NoForeign
    <3> QED BY <3>1, <3>2
  <2> QED BY <2>2, <2>3 DEF NoForeign
<1>3. ASSUME NoForeign(a), NEW p \in Parts, p.of # "foreign" PROVE NoForeign(Append(a, p))
  BY <1>3, AppendProperties DEF NoForeign
<1>4. ASSUME NoForeign(a), a # << >> PROVE Head(a).of # "foreign" /\ NoForeign(Tail(a))
  <2>1. Len(a) \in Nat \ {0} /\ DOMAIN a = 1..Len(a)
    BY <1>4, EmptySeq, LenProperties
  <2>2. /\ Tail(a) \in Seq(Parts) /\ Len(Tail(a)) = Len(a) - 1
        /\ \A i \in 1..Len(Tail(a)) : Tail(a)[i] = a[i+1]
        /\ Head(a) = a[1]
    BY <1>4, HeadTailProperties
  <2>3. DOMAIN Tail(a) = 1..(Len(a) - 1)
    BY <2>2, LenProperties
  <2> QED BY <1>4, <2>1, <2>2, <2>3 DEF NoForeign
<1> QED BY <1>1, <1>2, <1>3, <1>4

\* What is left after the device has sent.
LEMMA SentParts ==
    ASSUME Typed, DeviceSends
    PROVE  /\ due # << >> /\ pc \in {"look", "read"}
           /\ Head(due) \in Parts /\ Tail(due) \in Seq(Parts)
           /\ [Head(due) EXCEPT !.piece = "tail"] \in Parts
           /\ wire' = Append(wire, Head(due))
           /\ due' = IF Head(due).piece = "head"
                     THEN <<[Head(due) EXCEPT !.piece = "tail"]>> \o Tail(due)
                     ELSE Tail(due)
           /\ UNCHANGED <<session, pc, res, response, status, gaveUp, stolen>>
<1>1. due # << >> /\ due \in Seq(Parts)
  BY DEF DeviceSends, Typed, Streams
<1>2. Head(due) \in Parts /\ Tail(due) \in Seq(Parts)
  BY <1>1, HeadTailProperties
<1>3. [Head(due) EXCEPT !.piece = "tail"] \in Parts
  BY <1>2 DEF Parts
<1> QED BY <1>1, <1>2, <1>3 DEF DeviceSends, transport, history

\* What is due after a request: nothing, or one answer to it.
LEMMA DueAfterRequest ==
    ASSUME Inv, RequestWritten
    PROVE  \/ due' = Aged(due)
           \/ /\ session = "mine" /\ due = << >>
              /\ due' \in Seq(Parts) /\ NoForeign(due') /\ (due' = << >> \/ Begun(due'))
<1>1. Block \in 1..Len(Plan) /\ Typed /\ due \in Seq(Parts)
  BY BlockInPlan DEF RequestWritten, Inv, Typed, Streams
<1>2. \/ due' = Aged(due)
      \/ due' = Aged(due) \o << >>
      \/ session = "mine" /\ due = << >> /\ \E answer \in Answers : due' = Aged(due) \o answer
  BY DEF RequestWritten
<1>3. CASE due' = Aged(due) \o << >>
  BY <1>1, <1>3, AgedParts, ConcatEmptySeq
<1>4. CASE session = "mine" /\ due = << >> /\ \E answer \in Answers : due' = Aged(due) \o answer
  <2>1. PICK answer \in Answers : due' = Aged(due) \o answer
    BY <1>4
  <2>2. Aged(due) = << >>
    BY <1>1, <1>4, AgedParts
  <2>3. /\ answer \in Seq(Parts) /\ NoForeign(answer)
        /\ answer = << >> \/ Begun(answer)
    BY <1>1, AnswerParts
  <2>4. due' = answer
    BY <2>1, <2>2, <2>3, ConcatEmptySeq
  <2> QED BY <1>4, <2>3, <2>4
<1> QED BY <1>2, <1>3, <1>4

\* Steps that neither read, write nor send.
Quiet == UNCHANGED <<session, wire, due, res, response>>

LEMMA QuietSteps ==
    ASSUME Inv, ExchangeBegins \/ Look \/ BlockBegins \/ AttemptBegins \/ ScanFinished
                \/ Cancel \/ DeadlinePasses
    PROVE  Quiet
BY DEF ExchangeBegins, Look, BlockBegins, AttemptBegins, ScanFinished, Cancel, DeadlinePasses,
       Quiet, stream, transport, executor, history, Observed, Outcome

\* Bytes of another session stay apart: the response is dropped with its session, and a
\* result of another session is not looked at.
LEMMA OwnSessionKept == ASSUME Inv, Next PROVE OwnSession'
<1>0. /\ OwnSession /\ Typed /\ Streams /\ session \in {"mine", "lost", "other"}
      /\ NoForeign(<< >>)
  BY NoForeignParts DEF Inv, Typed, Streams, Words
<1>1. CASE ExchangeBegins \/ Look \/ BlockBegins \/ AttemptBegins \/ ScanFinished
           \/ Cancel \/ DeadlinePasses
  <2>1. Quiet
    BY <1>1, QuietSteps
  <2> QED BY <1>0, <2>1 DEF Quiet, OwnSession, NoForeign
<1>2. CASE RequestWritten
  <2>1. UNCHANGED <<session, response>> /\ wire' = Aged(wire) /\ res'.bytes = << >>
    BY <1>0, <1>2, WriteResult DEF RequestWritten
  <2>2. /\ due \in Seq(Parts) /\ wire \in Seq(Parts)
        /\ session # "mine" => due = << >>
        /\ NoForeign(due) /\ NoForeign(response) /\ (session # "other" => NoForeign(wire))
    BY <1>0 DEF OwnSession, Streams
  <2>3. session # "other" => NoForeign(wire')
    BY <2>1, <2>2, AgedParts
  <2>4. NoForeign(due') /\ (session # "mine" => due' = << >>)
    BY <1>2, <2>2, DueAfterRequest, AgedParts
  <2>5. NoForeign(response)' /\ NoForeign(res.bytes)'
    BY <1>0, <2>1, <2>2 DEF NoForeign
  <2>6. NoForeign(wire)' = NoForeign(wire') /\ NoForeign(due)' = NoForeign(due')
    BY DEF NoForeign
  <2> QED BY <2>1, <2>3, <2>4, <2>5, <2>6 DEF OwnSession
<1>3. CASE WriteChecked
  <2>1. UNCHANGED <<session, wire, due, response>> /\ res' = NoResult
    BY <1>3 DEF WriteChecked, stream
  <2>2. NoForeign(res.bytes)'
    BY <1>0, <2>1, NoResultTyped DEF NoForeign
  <2> QED BY <1>0, <2>1, <2>2 DEF OwnSession, NoForeign
<1>4. CASE Read
  <2>1. /\ UNCHANGED <<session, due, response>> /\ (res'.mine <=> session # "other")
        /\ \/ res'.bytes = wire /\ wire' = << >>
           \/ res'.bytes = << >> /\ UNCHANGED wire
    BY <1>0, <1>4, ReadResult DEF Read, Reasoned
  <2> QED BY <1>0, <2>1 DEF OwnSession, NoForeign
<1>5. CASE Received
  <2>1. /\ UNCHANGED <<session, wire, due>> /\ res' = NoResult
        /\ \/ response' = << >> \/ UNCHANGED response
           \/ res.mine /\ response' = response \o res.bytes
    BY <1>5 DEF Received, stream, Stopped, SessionGone, ResultMatches
  <2>2. NoForeign(response')
    <3>1. response \in Seq(Parts) /\ res.bytes \in Seq(Parts) /\ NoForeign(response)
          /\ (res.mine => NoForeign(res.bytes))
      BY <1>0 DEF OwnSession, Streams
    <3>2. res.mine => NoForeign(response \o res.bytes)
      BY <3>1, NoForeignParts
    <3> QED BY <1>0, <2>1, <3>1, <3>2
  <2>3. NoForeign(res.bytes)'
    BY <1>0, <2>1, NoResultTyped DEF NoForeign
  <2>4. NoForeign(response)'
    BY <2>2 DEF NoForeign
  <2> QED BY <1>0, <2>1, <2>3, <2>4 DEF OwnSession, NoForeign
<1>6. CASE ExchangeEnds
  <2>1. /\ UNCHANGED <<session, wire, due, res>>
        /\ response' = << >> \/ UNCHANGED response
    BY <1>6 DEF ExchangeEnds, DiscardIfGone, stream
  <2> QED BY <1>0, <2>1 DEF OwnSession, NoForeign
<1>7. CASE AttemptEnds
  <2>1. UNCHANGED <<session, wire, due, res>> /\ response' = << >>
    BY <1>7 DEF AttemptEnds, stream
  <2> QED BY <1>0, <2>1 DEF OwnSession, NoForeign
<1>8. CASE SessionChanges
  <2>1. /\ UNCHANGED <<res, response>> /\ due' = << >> /\ session = "mine"
        /\ session' = "other" \/ (session' = "lost" /\ UNCHANGED wire)
    BY <1>8 DEF SessionChanges, transport
  <2> QED BY <1>0, <2>1 DEF OwnSession, NoForeign
<1>9. CASE DeviceSends
  <2>1. /\ due # << >> /\ Head(due) \in Parts /\ Tail(due) \in Seq(Parts)
        /\ [Head(due) EXCEPT !.piece = "tail"] \in Parts
        /\ wire' = Append(wire, Head(due))
        /\ due' = IF Head(due).piece = "head"
                  THEN <<[Head(due) EXCEPT !.piece = "tail"]>> \o Tail(due)
                  ELSE Tail(due)
        /\ UNCHANGED <<session, res, response>>
    BY <1>0, <1>9, SentParts
  <2>2. /\ session = "mine" /\ NoForeign(due) /\ NoForeign(wire)
        /\ due \in Seq(Parts) /\ wire \in Seq(Parts)
    BY <1>0, <2>1 DEF OwnSession, Streams
  <2>3. Head(due).of # "foreign" /\ NoForeign(Tail(due))
    BY <2>1, <2>2, NoForeignParts
  <2>4. NoForeign(wire')
    BY <2>1, <2>2, <2>3, NoForeignParts
  <2>5. NoForeign(due')
    <3> DEFINE tail == [Head(due) EXCEPT !.piece = "tail"]
    <3>1. tail \in Parts /\ tail.of # "foreign"
      BY <2>1, <2>3 DEF Parts
    <3>2. due' = <<tail>> \o Tail(due) \/ due' = Tail(due)
      BY <2>1
    <3> HIDE DEF tail
    <3>3. <<tail>> \in Seq(Parts) /\ NoForeign(<<tail>>)
      BY <3>1 DEF NoForeign
    <3>4. NoForeign(<<tail>> \o Tail(due))
      BY <2>1, <2>3, <3>3, NoForeignParts
    <3> QED BY <2>3, <3>2, <3>4
  <2>6. NoForeign(wire)' /\ NoForeign(due)'
    BY <2>4, <2>5 DEF NoForeign
  <2> QED BY <1>0, <2>1, <2>2, <2>6 DEF OwnSession, NoForeign
<1> QED BY <1>1, <1>2, <1>3, <1>4, <1>5, <1>6, <1>7, <1>8, <1>9 DEF Next, ScanStep

----------------------------------------------------------------------------
(* Answers and requests.                                                   *)

\* What has been read of an answer is an own part of it, and cannot look like anything
\* else; a whole answer leaves nothing behind.
LEMMA BeginningOfAnswer ==
    ASSUME NEW a \in Seq(Parts), NEW b \in Seq(Parts), NEW rest \in Seq(Parts),
           OneAnswer(a \o b, rest)
    PROVE  /\ OneAnswer(a, << >>)
           /\ ~Broken(a)
           /\ a # << >> => a[1].of = "own"
           /\ Whole(a) => b = << >> /\ rest = << >>
<1> DEFINE got == a \o b
<1>1. /\ Len(a) \in Nat /\ Len(b) \in Nat /\ Len(got) = Len(a) + Len(b)
      /\ \A i \in 1..(Len(a) + Len(b)) : i <= Len(a) => got[i] = a[i]
      /\ got \in Seq(Parts)
  BY ConcatProperties, LenProperties
<1>2. /\ a = << >> <=> Len(a) = 0
      /\ b = << >> <=> Len(b) = 0
      /\ got = << >> <=> Len(got) = 0
  BY <1>1, EmptySeq
<1>3. OneAnswer(got, rest)
  OBVIOUS
<1> HIDE DEF got
<1>4. CASE got = << >>
  BY <1>1, <1>2, <1>4 DEF OneAnswer, Broken, Whole
<1>5. CASE Begun(got) /\ (rest # << >> => got[1].piece = "head")
  <2>1. /\ got[1].of = "own" /\ got[1].piece \in {"whole", "head"}
        /\ Len(a) + Len(b) = 1
    BY <1>1, <1>5 DEF Begun, Own
  <2>2. CASE Len(a) = 0
    BY <1>2, <2>2 DEF OneAnswer, Broken, Whole
  <2>3. CASE Len(a) = 1 /\ Len(b) = 0
    <3>1. a[1] = got[1] /\ a # << >> /\ b = << >>
      BY <1>1, <1>2, <2>3
    <3>2. Begun(a)
      BY <2>1, <2>3, <3>1 DEF Begun, Own
    <3>3. Whole(a) => rest = << >>
      BY <1>5, <2>3, <3>1 DEF Whole
    <3>4. ~Broken(a)
      BY <2>1, <2>3, <3>1 DEF Broken
    <3> QED BY <2>1, <3>1, <3>2, <3>3, <3>4 DEF OneAnswer
  <2>4. Len(a) = 0 \/ (Len(a) = 1 /\ Len(b) = 0)
    <3>1. \A m, n \in Nat : m + n = 1 => m = 0 \/ (m = 1 /\ n = 0)
      OBVIOUS
    <3> QED BY <1>1, <2>1, <3>1
  <2> QED BY <2>2, <2>3, <2>4, Zenon
<1>6. CASE Both(got) /\ rest = << >>
  <2>1. /\ got[1].of = "own" /\ got[1].piece = "head"
        /\ got[2].of = "own" /\ got[2].piece = "tail"
        /\ Len(a) + Len(b) = 2
    BY <1>1, <1>6 DEF Both, Own
  <2>2. CASE Len(a) = 0
    BY <1>2, <2>2 DEF OneAnswer, Broken, Whole
  <2>3. CASE Len(a) = 1
    <3>1. a[1] = got[1] /\ a # << >>
      BY <1>1, <1>2, <2>3
    <3>2. Begun(a)
      BY <2>1, <2>3, <3>1 DEF Begun, Own
    <3>3. ~Whole(a) /\ ~Broken(a)
      BY <2>1, <2>3, <3>1 DEF Whole, Broken
    <3> QED BY <2>1, <3>1, <3>2, <3>3 DEF OneAnswer
  <2>4. CASE Len(a) = 2 /\ Len(b) = 0
    <3>1. a[1] = got[1] /\ a[2] = got[2] /\ a # << >> /\ b = << >>
      BY <1>1, <1>2, <2>4
    <3>2. Both(a) /\ Whole(a)
      BY <2>1, <2>4, <3>1 DEF Both, Own, Whole
    <3> QED BY <1>6, <2>1, <3>1, <3>2 DEF OneAnswer, Broken
  <2>5. Len(a) = 0 \/ Len(a) = 1 \/ (Len(a) = 2 /\ Len(b) = 0)
    <3>1. \A m, n \in Nat : m + n = 2 => m = 0 \/ m = 1 \/ (m = 2 /\ n = 0)
      OBVIOUS
    <3> QED BY <1>1, <2>1, <3>1
  <2> QED BY <2>2, <2>3, <2>4, <2>5, Zenon
<1> QED BY <1>3, <1>4, <1>5, <1>6 DEF OneAnswer

\* The device sends the next part of its answer.
LEMMA AnswerGoesOn ==
    ASSUME NEW got \in Seq(Parts), NEW rest \in Seq(Parts), rest # << >>, OneAnswer(got, rest),
           NEW next \in Seq(Parts), NEW tail \in Parts,
           tail.of = rest[1].of, tail.piece = "tail",
           next = IF Head(rest).piece = "head" THEN <<tail>> \o Tail(rest) ELSE Tail(rest)
    PROVE  OneAnswer(Append(got, Head(rest)), next)
<1> DEFINE more == Append(got, Head(rest))
<1>1. /\ Len(rest) = 1 /\ rest[1].of = "own" /\ Head(rest) = rest[1]
      /\ \/ got = << >> /\ rest[1].piece \in {"whole", "head"}
         \/ Begun(got) /\ got[1].piece = "head" /\ rest[1].piece = "tail"
  BY DEF OneAnswer, Begun, Rest, Own
<1>2. Tail(rest) = << >>
  <2>1. Tail(rest) \in Seq(Parts) /\ Len(Tail(rest)) = 0
    BY <1>1, HeadTailProperties
  <2> QED BY <2>1, EmptySeq
<1>3. next = IF rest[1].piece = "head" THEN <<tail>> ELSE << >>
  <2>1. <<tail>> \in Seq(Parts)
    OBVIOUS
  <2>2. <<tail>> \o << >> = <<tail>>
    BY <2>1, ConcatEmptySeq
  <2> QED BY <1>1, <1>2, <2>2
<1>4. /\ Len(more) = Len(got) + 1 /\ more[Len(got) + 1] = rest[1]
      /\ \A i \in 1..Len(got) : more[i] = got[i]
      /\ Len(got) \in Nat
  <2>1. Head(rest) \in Parts
    BY HeadTailProperties
  <2> QED BY <1>1, <2>1, AppendProperties, LenProperties
<1> HIDE DEF more
<1>5. CASE got = << >> /\ rest[1].piece \in {"whole", "head"}
  <2>1. Len(more) = 1 /\ more[1] = rest[1]
    BY <1>4, <1>5
  <2>2. Begun(more)
    BY <1>1, <1>5, <2>1 DEF Begun, Own
  <2>3. CASE rest[1].piece = "head"
    <3>1. Rest(next)
      BY <1>1, <1>3, <2>3 DEF Rest, Own
    <3> QED BY <2>1, <2>2, <2>3, <3>1 DEF OneAnswer, more
  <2>4. CASE rest[1].piece = "whole"
    <3>1. next = << >>
      BY <1>3, <2>4
    <3> QED BY <2>2, <3>1 DEF OneAnswer, more
  <2> QED BY <1>5, <2>3, <2>4
<1>6. CASE Begun(got) /\ got[1].piece = "head" /\ rest[1].piece = "tail"
  <2>1. Len(more) = 2 /\ more[1] = got[1] /\ more[2] = rest[1]
    BY <1>4, <1>6 DEF Begun
  <2>2. Both(more) /\ next = << >>
    BY <1>1, <1>3, <1>6, <2>1 DEF Both, Begun, Own
  <2> QED BY <2>2 DEF OneAnswer, more
<1> QED BY <1>1, <1>5, <1>6

LEMMA JoinedParts ==
    \A a, b, c \in Seq(Parts) :
        /\ a \o b \in Seq(Parts)
        /\ << >> \o a = a /\ a \o << >> = a
        /\ (a \o b) \o c = a \o (b \o c)
BY ConcatProperties, ConcatEmptySeq, ConcatAssociative

LEMMA JoinIsAssociative ==
    \A a, b, c \in Seq(Parts) : (a \o b) \o c = a \o (b \o c)
BY ConcatAssociative

\* An attempt that was given up stays so.
LEMMA GivenUpForGood ==
    ASSUME Inv, Next, ~gaveUp'
    PROVE  ~gaveUp
BY DEF Next, ScanStep, ExchangeBegins, RequestWritten, WriteChecked, Look, Read, Received,
       ExchangeEnds, BlockBegins, AttemptBegins, AttemptEnds, ScanFinished, Cancel,
       SessionChanges, DeviceSends, DeadlinePasses, history

\* What OwnAnswer says while no attempt was given up.
NothingComes == due = << >> /\ (session # "other" => wire = << >>)
Answering == /\ pc \notin IdlePlaces /\ res.mine
             /\ pc \in LastPlaces => status = "Success"
AnswerComes ==
    /\ pc \in IdlePlaces => NothingComes
    /\ Answering => OneAnswer(Got, due)
    /\ pc \in LastPlaces /\ status = "Success" => Whole(response)

LEMMA AnswerComesNow == OwnAnswer <=> (~gaveUp => AnswerComes)
BY DEF OwnAnswer, AnswerComes, NothingComes, Answering

\* The request is written, and at most one answer to it begins.
LEMMA AnswerIsAsked ==
    ASSUME Inv, AnswerComes, RequestWritten
    PROVE  AnswerComes'
<1>1. /\ pc = "write" /\ pc' = "written" /\ UNCHANGED <<session, response, status>>
      /\ wire' = Aged(wire) /\ wire \in Seq(Parts) /\ due \in Seq(Parts)
      /\ response = << >>
  BY DEF RequestWritten, Inv, Exchange, IdlePlaces, Typed, Streams
<1>2. /\ due = << >> /\ (session # "other" => wire = << >>)
  BY <1>1 DEF AnswerComes, NothingComes, IdlePlaces
<1>3. due' = << >> \/ Begun(due')
  BY <1>1, <1>2, DueAfterRequest, AgedParts
<1>4. res'.bytes = << >>
  BY WriteResult DEF Inv
<1>5. Mine(wire)' = << >>
  BY <1>1, <1>2, AgedParts DEF Mine
<1>6. Got' = << >>
  <2>1. Got' = << >> \o (<< >> \o << >>)
    BY <1>1, <1>4, <1>5 DEF Got
  <2> QED BY <2>1, NoParts, JoinedParts
<1>7. OneAnswer(Got, due)'
  BY <1>3, <1>6 DEF OneAnswer, Begun
<1> QED BY <1>1, <1>7 DEF AnswerComes, IdlePlaces, LastPlaces

LEMMA AnswerIsAwaited ==
    ASSUME Inv, AnswerComes, WriteChecked
    PROVE  AnswerComes'
<1>1. /\ pc = "written" /\ UNCHANGED <<session, wire, due, response>> /\ res' = NoResult
      /\ \/ status' = "TransportError" /\ pc' = "judge"
         \/ ~Stopped /\ pc' = "look"
  BY DEF WriteChecked, Observed, TransportFailed, Outcome, stream
<1>2. res.bytes = << >> /\ (~Stopped => res.mine)
  BY <1>1 DEF Inv, Exchange, Stopped, SessionGone, ResultMatches
<1>3. res.bytes = res'.bytes /\ Got' = Got
  BY <1>1, <1>2, NoResultTyped DEF Got, Mine
<1>4. ~Stopped => OneAnswer(Got, due)
  BY <1>1, <1>2 DEF AnswerComes, Answering, IdlePlaces, LastPlaces
<1>5. ~Stopped => OneAnswer(Got, due)'
  BY <1>1, <1>3, <1>4 DEF OneAnswer, Begun, Rest, Both
<1> QED BY <1>1, <1>5 DEF AnswerComes, Answering, IdlePlaces, LastPlaces

LEMMA AnswerIsRead ==
    ASSUME Inv, AnswerComes, Read
    PROVE  AnswerComes'
<1>1. /\ pc = "read" /\ pc' = "received" /\ UNCHANGED <<session, due, response, status>>
      /\ res = NoResult /\ wire \in Seq(Parts) /\ response \in Seq(Parts)
  BY DEF Read, Inv, Exchange, Typed, Streams
<1>2. /\ res'.mine <=> session # "other"
      /\ \/ res'.bytes = wire /\ wire' = << >>
         \/ res'.bytes = << >> /\ UNCHANGED wire
  BY ReadResult DEF Inv, Reasoned
<1>3. ASSUME session # "other" PROVE OneAnswer(Got, due)'
  <2>1. OneAnswer(Got, due)
    BY <1>1, NoResultTyped DEF AnswerComes, Answering, IdlePlaces, LastPlaces
  <2>2. Got = response \o (<< >> \o wire)
    BY <1>1, <1>3, NoResultTyped DEF Got, Mine
  <2>3. Got = response \o wire
    BY <1>1, <2>2, JoinedParts
  <2>4. \/ Got' = response \o (wire \o << >>)
        \/ Got' = response \o (<< >> \o wire)
    BY <1>1, <1>2, <1>3 DEF Got, Mine
  <2>5. Got' = Got
    BY <1>1, <2>3, <2>4, JoinedParts
  <2> QED BY <1>1, <2>1, <2>5 DEF OneAnswer, Begun, Rest, Both
<1> QED BY <1>1, <1>2, <1>3 DEF AnswerComes, Answering, IdlePlaces, LastPlaces

LEMMA AnswerIsTaken ==
    ASSUME Inv, AnswerComes, Received
    PROVE  AnswerComes'
<1>1. /\ pc = "received" /\ res' = NoResult /\ UNCHANGED <<session, wire, due>>
      /\ response \in Seq(Parts) /\ res.bytes \in Seq(Parts) /\ wire \in Seq(Parts)
      /\ due \in Seq(Parts) /\ status = "Timeout"
  BY DEF Received, stream, Inv, Typed, Streams, Exchange, LoopPlaces
<1>2. \/ status' # "Success" /\ pc' = "finish"
      \/ /\ ~Stopped /\ res.status = "Succeeded" /\ response' = response \o res.bytes
         /\ \/ (Whole(response') \/ Broken(response')) /\ pc' = "finish"
            \/ pc' = "look"
  BY <1>1 DEF Received, Observed, TransportFailed, Outcome
<1>3. CASE status' # "Success" /\ pc' = "finish"
  BY <1>3 DEF AnswerComes, Answering, IdlePlaces, LastPlaces
<1>4. CASE /\ ~Stopped /\ res.status = "Succeeded" /\ response' = response \o res.bytes
           /\ \/ (Whole(response') \/ Broken(response')) /\ pc' = "finish"
              \/ pc' = "look"
  <2>1. res.mine
    BY <1>4 DEF Stopped, SessionGone, ResultMatches
  <2>2. OneAnswer(Got, due)
    BY <1>1, <2>1 DEF AnswerComes, Answering, IdlePlaces, LastPlaces
  <2>3. Mine(wire) \in Seq(Parts) /\ Mine(wire)' = Mine(wire)
    BY <1>1, NoParts DEF Mine
  <2>4. Got = (response \o res.bytes) \o Mine(wire) /\ response \o res.bytes \in Seq(Parts)
    <3>1. response \in Seq(Parts) /\ res.bytes \in Seq(Parts)
      BY <1>1
    <3>2. /\ response \o res.bytes \in Seq(Parts)
          /\ (response \o res.bytes) \o Mine(wire) = response \o (res.bytes \o Mine(wire))
      BY <3>1, <2>3, JoinIsAssociative, ConcatProperties, Zenon
    <3> QED BY <3>2, Zenon DEF Got
  <2>5. Got = response' \o Mine(wire) /\ response' \in Seq(Parts)
    BY <1>4, <2>4
  <2>6. OneAnswer(response' \o Mine(wire), due)
    BY <2>2, <2>5
  <2>7. ~Broken(response')
    BY <1>1, <2>3, <2>5, <2>6, BeginningOfAnswer
  <2>8. Got' = response' \o (<< >> \o Mine(wire))
    BY <1>1, <2>3, NoResultTyped DEF Got
  <2>9. Got' = Got
    BY <2>3, <2>5, <2>8, JoinedParts
  <2>10. OneAnswer(Got, due)'
    BY <1>1, <2>2, <2>9 DEF OneAnswer, Begun, Rest, Both
  <2>11. pc' = "finish" => Whole(response)'
    BY <1>4, <2>7 DEF Whole
  <2> QED BY <1>4, <2>10, <2>11 DEF AnswerComes, IdlePlaces, LastPlaces
<1> QED BY <1>2, <1>3, <1>4

\* A successful attempt has taken its whole answer, and leaves nothing of it.
LEMMA AnswerIsJudged ==
    ASSUME Inv, AnswerComes, AttemptEnds, ~gaveUp'
    PROVE  /\ status = "Success" /\ Whole(response) /\ response[1].of = "own"
           /\ NothingComes
<1>1. /\ pc = "judge" /\ response \in Seq(Parts) /\ wire \in Seq(Parts) /\ due \in Seq(Parts)
      /\ res = NoResult
  BY DEF AttemptEnds, Inv, Typed, Streams, Exchange
<1>2. status = "Success"
  <2>1. status \in {"Success", "Timeout", "TransportError"} /\ (status = "Timeout" => expired)
    BY <1>1 DEF Inv, Typed, Words, Exchange, LastPlaces
  <2>2. ~(expired /\ status = "Timeout") /\ status # "TransportError"
    BY DEF AttemptEnds
  <2> QED BY <2>1, <2>2
<1>3. Whole(response) /\ OneAnswer(Got, due)
  BY <1>1, <1>2, NoResultTyped DEF AnswerComes, Answering, IdlePlaces, LastPlaces
<1>4. Mine(wire) \in Seq(Parts)
  BY <1>1, NoParts DEF Mine
<1>5. Got = response \o (<< >> \o Mine(wire))
  BY <1>1, NoResultTyped DEF Got
<1>6. Got = response \o Mine(wire)
  BY <1>4, <1>5, JoinedParts
<1>7. OneAnswer(response \o Mine(wire), due)
  BY <1>3, <1>6
<1>8. /\ response # << >> => response[1].of = "own"
      /\ Whole(response) => Mine(wire) = << >> /\ due = << >>
  BY <1>1, <1>4, <1>7, BeginningOfAnswer
<1> QED BY <1>2, <1>3, <1>8 DEF Whole, NothingComes, Mine

\* What comes after another session was opened is not the answer.
LEMMA AnswerIsCutOff ==
    ASSUME Inv, AnswerComes, SessionChanges
    PROVE  AnswerComes'
<1>1. /\ UNCHANGED <<pc, res, response, status>> /\ due' = << >> /\ session = "mine"
      /\ session' = "other" \/ (session' = "lost" /\ UNCHANGED wire)
      /\ response \in Seq(Parts) /\ res.bytes \in Seq(Parts) /\ wire \in Seq(Parts)
      /\ due \in Seq(Parts)
  BY DEF SessionChanges, transport, Inv, Typed, Streams
<1>2. pc' \in IdlePlaces => NothingComes'
  BY <1>1 DEF AnswerComes, NothingComes
<1>3. ASSUME Answering PROVE OneAnswer(Got, due)'
  <2>1. OneAnswer(Got, due) /\ Got = response \o (res.bytes \o wire)
    BY <1>1, <1>3 DEF AnswerComes, Got, Mine
  <2>2. Got = (response \o res.bytes) \o wire /\ response \o res.bytes \in Seq(Parts)
    <3>1. response \in Seq(Parts) /\ res.bytes \in Seq(Parts) /\ wire \in Seq(Parts)
      BY <1>1
    <3>2. /\ response \o res.bytes \in Seq(Parts)
          /\ (response \o res.bytes) \o wire = response \o (res.bytes \o wire)
      BY <3>1, JoinIsAssociative, ConcatProperties, Zenon
    <3> QED BY <2>1, <3>2, Zenon
  <2>3. OneAnswer((response \o res.bytes) \o wire, due)
    BY <2>1, <2>2
  <2>4. OneAnswer(response \o res.bytes, << >>)
    BY <1>1, <2>2, <2>3, BeginningOfAnswer
  <2>5. CASE session' = "other"
    <3>1. Got' = response \o (res.bytes \o << >>)
      BY <1>1, <2>5 DEF Got, Mine
    <3>2. Got' = response \o res.bytes
      BY <1>1, <3>1, JoinedParts
    <3> QED BY <1>1, <2>4, <3>2 DEF OneAnswer, Begun, Rest, Both
  <2>6. CASE session' = "lost" /\ UNCHANGED wire
    <3>1. Got' = Got
      BY <1>1, <2>6 DEF Got, Mine
    <3>2. OneAnswer(Got, << >>)
      BY <2>1 DEF OneAnswer
    <3> QED BY <1>1, <3>1, <3>2 DEF OneAnswer, Begun, Rest, Both
  <2> QED BY <1>1, <2>5, <2>6
<1>4. Answering' => Answering
  BY <1>1 DEF Answering
<1>5. pc' \in LastPlaces /\ status' = "Success" => Whole(response)'
  BY <1>1 DEF AnswerComes, Whole
<1> QED BY <1>2, <1>3, <1>4, <1>5 DEF AnswerComes

LEMMA AnswerIsSent ==
    ASSUME Inv, AnswerComes, DeviceSends
    PROVE  AnswerComes'
<1>1. /\ due # << >> /\ pc \in {"look", "read"}
      /\ Head(due) \in Parts /\ Tail(due) \in Seq(Parts)
      /\ [Head(due) EXCEPT !.piece = "tail"] \in Parts
      /\ wire' = Append(wire, Head(due))
      /\ due' = IF Head(due).piece = "head"
                THEN <<[Head(due) EXCEPT !.piece = "tail"]>> \o Tail(due)
                ELSE Tail(due)
      /\ UNCHANGED <<session, pc, res, response, status, gaveUp, stolen>>
  BY SentParts DEF Inv
<1>2. /\ session = "mine" /\ res = NoResult /\ response \in Seq(Parts) /\ wire \in Seq(Parts)
      /\ due \in Seq(Parts) /\ due' \in Seq(Parts)
  <2>1. due' \in Seq(Parts)
    BY StreamsKept, DeviceSends DEF Streams, Next
  <2> QED BY <1>1, <2>1 DEF Inv, OwnSession, Exchange, Typed, Streams
<1>3. OneAnswer(Got, due)
  BY <1>1, <1>2, NoResultTyped DEF AnswerComes, Answering, IdlePlaces, LastPlaces
<1> DEFINE tail == [Head(due) EXCEPT !.piece = "tail"]
<1>4. tail \in Parts /\ tail.of = due[1].of /\ tail.piece = "tail"
  BY <1>1 DEF Parts
<1>5. due' = IF Head(due).piece = "head" THEN <<tail>> \o Tail(due) ELSE Tail(due)
  BY <1>1
<1> HIDE DEF tail
<1>6. Got = response \o (<< >> \o wire) /\ Got' = response \o (<< >> \o Append(wire, Head(due)))
  BY <1>1, <1>2, NoResultTyped DEF Got, Mine
<1>7. /\ Got = response \o wire /\ Got \in Seq(Parts)
      /\ Got' = Append(Got, Head(due))
  <2>1. Got = response \o wire /\ Got \in Seq(Parts)
    BY <1>2, <1>6, JoinedParts
  <2>2. Append(wire, Head(due)) \in Seq(Parts)
    BY <1>1, <1>2, AppendProperties
  <2>3. Got' = response \o Append(wire, Head(due))
    BY <1>6, <2>2, JoinedParts
  <2>4. response \o Append(wire, Head(due)) = Append(response \o wire, Head(due))
    BY <1>1, <1>2, AppendIsConcat, JoinedParts, SMTT(30)
  <2> QED BY <2>1, <2>3, <2>4
<1>8. OneAnswer(Append(Got, Head(due)), due')
  BY <1>1, <1>2, <1>3, <1>4, <1>5, <1>7, AnswerGoesOn
<1>9. OneAnswer(Got', due')
  BY <1>7, <1>8
<1>10. OneAnswer(Got, due)'
  BY <1>9 DEF OneAnswer, Begun, Rest, Both
<1> QED BY <1>1, <1>10 DEF AnswerComes, IdlePlaces, LastPlaces

\* An answer on its way is the one to the last request, as long as no attempt was
\* given up.
LEMMA OwnAnswerKept == ASSUME Inv, Next PROVE OwnAnswer'
<1> SUFFICES ASSUME ~gaveUp' PROVE AnswerComes'
  BY DEF OwnAnswer, AnswerComes, NothingComes, Answering
<1>0. ~gaveUp /\ AnswerComes
  BY GivenUpForGood, AnswerComesNow DEF Inv
<1>1. CASE ExchangeBegins \/ Look \/ BlockBegins \/ AttemptBegins \/ ScanFinished
           \/ Cancel \/ DeadlinePasses
  <2>1. UNCHANGED <<session, wire, due, res, response>>
    BY <1>1, QuietSteps DEF Quiet
  <2>2. /\ pc' \in IdlePlaces => pc \in IdlePlaces
        /\ pc' \notin IdlePlaces /\ (pc' \in LastPlaces => status' = "Success") =>
               pc \notin IdlePlaces
        /\ pc' \in LastPlaces /\ status' = "Success" => pc \in LastPlaces /\ status = "Success"
        /\ pc' \notin IdlePlaces /\ (pc' \in LastPlaces => status' = "Success") =>
               (pc \in LastPlaces => status = "Success")
    <3> USE DEF IdlePlaces, LastPlaces, LoopPlaces
    <3>1. CASE ExchangeBegins
      BY <3>1 DEF ExchangeBegins, Observed, Outcome
    <3>2. CASE Look
      BY <3>2 DEF Look, Observed, Outcome, Inv, Exchange
    <3>3. CASE BlockBegins
      BY <3>3 DEF BlockBegins, transport
    <3>4. CASE AttemptBegins
      <4>1. pc = "attempt" /\ pc' \in {"end", "begin"}
        BY <3>4, AttemptStarts
      <4> QED BY <4>1
    <3>5. CASE ScanFinished
      BY <3>5 DEF ScanFinished
    <3>6. CASE Cancel \/ DeadlinePasses
      BY <3>6 DEF Cancel, DeadlinePasses, transport
    <3> QED BY <1>1, <3>1, <3>2, <3>3, <3>4, <3>5, <3>6
  <2>3. NothingComes' = NothingComes
    BY <2>1 DEF NothingComes
  <2>4. OneAnswer(Got, due)' = OneAnswer(Got, due) /\ Whole(response)' = Whole(response)
    BY <2>1 DEF OneAnswer, Begun, Rest, Both, Got, Mine, Whole
  <2>5. Answering' => Answering
    BY <2>1, <2>2 DEF Answering, LastPlaces
  <2> QED BY <1>0, <2>2, <2>3, <2>4, <2>5 DEF AnswerComes
<1>2. CASE RequestWritten
  BY <1>0, <1>2, AnswerIsAsked
<1>3. CASE WriteChecked
  BY <1>0, <1>3, AnswerIsAwaited
<1>4. CASE Read
  BY <1>0, <1>4, AnswerIsRead
<1>5. CASE Received
  BY <1>0, <1>5, AnswerIsTaken
<1>6. CASE ExchangeEnds
  <2>1. /\ pc \in {"finish", "deliver"} /\ pc' \in {"deliver", "judge"}
        /\ UNCHANGED <<session, wire, due, res>>
        /\ UNCHANGED <<response, status>> \/ status' = "TransportError"
    BY <1>6 DEF ExchangeEnds, DiscardIfGone, Observed, stream
  <2>2. CASE UNCHANGED <<response, status>>
    <3>1. OneAnswer(Got, due)' = OneAnswer(Got, due) /\ Whole(response)' = Whole(response)
      BY <2>1, <2>2 DEF OneAnswer, Begun, Rest, Both, Got, Mine, Whole
    <3> QED BY <1>0, <2>1, <2>2, <3>1 DEF AnswerComes, Answering, IdlePlaces, LastPlaces
  <2>3. CASE status' = "TransportError"
    BY <2>1, <2>3 DEF AnswerComes, Answering, IdlePlaces, LastPlaces
  <2> QED BY <2>1, <2>2, <2>3
<1>7. CASE AttemptEnds
  <2>1. NothingComes
    BY <1>0, <1>7, AnswerIsJudged
  <2>2. UNCHANGED <<session, wire, due>> /\ pc' \in {"end", "block", "attempt"}
    BY <1>7, AttemptOver DEF AttemptEnds, stream
  <2>3. NothingComes'
    BY <2>1, <2>2 DEF NothingComes
  <2> QED BY <2>2, <2>3 DEF AnswerComes, Answering, IdlePlaces, LastPlaces
<1>8. CASE SessionChanges
  BY <1>0, <1>8, AnswerIsCutOff
<1>9. CASE DeviceSends
  BY <1>0, <1>9, AnswerIsSent
<1> QED BY <1>1, <1>2, <1>3, <1>4, <1>5, <1>6, <1>7, <1>8, <1>9 DEF Next, ScanStep

\* An attempt takes no answer of another session, and none of another request unless an
\* attempt before it was given up.
LEMMA NothingIsStolen == ASSUME Inv, Next PROVE ~stolen'
<1>1. CASE AttemptEnds
  <2>1. stolen' = (stolen \/ Stolen) /\ gaveUp' = (gaveUp \/ (expired /\ status = "Timeout")
                                                        \/ status = "TransportError")
    BY <1>1 DEF AttemptEnds
  <2>2. ASSUME Stolen PROVE FALSE
    <3>1. status = "Success" /\ response \in Seq(Parts) /\ pc = "judge"
      <4>1. status \in {"Success", "Timeout", "TransportError"}
        BY <1>1 DEF AttemptEnds, Inv, Typed, Words, Exchange, LastPlaces
      <4> QED BY <1>1, <2>2, <4>1, AttemptStatusTyped
              DEF Stolen, AttemptEnds, Inv, Typed, Streams
    <3>2. Frame(response).of # "foreign"
      <4>1. NoForeign(response)
        BY DEF Inv, OwnSession
      <4>2. response # << >> => 1 \in DOMAIN response
        BY <3>1, EmptySeq
      <4> QED BY <4>1, <4>2 DEF Frame, Whole, NoForeign
    <3>3. ~gaveUp => Frame(response).of # "older"
      <4>1. ASSUME ~gaveUp PROVE Frame(response).of # "older"
        <5>1. AnswerComes /\ ~gaveUp'
          BY <2>1, <3>1, <4>1, AnswerComesNow DEF Inv
        <5>2. Whole(response) /\ response[1].of = "own"
          BY <1>1, <5>1, AnswerIsJudged
        <5> QED BY <5>2 DEF Frame
      <4> QED BY <4>1
    <3> QED BY <2>2, <3>2, <3>3 DEF Stolen
  <2> QED BY <2>1, <2>2 DEF Inv
<1>2. CASE ~AttemptEnds
  BY <1>2 DEF Inv, Next, ScanStep, ExchangeBegins, RequestWritten, WriteChecked, Look, Read, Received,
     ExchangeEnds, BlockBegins, AttemptBegins, ScanFinished, Cancel, SessionChanges,
     DeviceSends, DeadlinePasses, history
<1> QED BY <1>1, <1>2

----------------------------------------------------------------------------
(* The invariant holds.                                                    *)

LEMMA InvInit == ASSUME Init PROVE Inv
<1> USE DEF Init
<1>1. Flags
  BY DEF Flags
<1>2. Words
  <2>1. NoAttempt \in Attempts
    BY DEF NoAttempt, Attempts
  <2>2. << >> \in Seq(Attempts)
    OBVIOUS
  <2> QED BY <2>1, <2>2 DEF Words, Places, IdlePlaces
<1>3. Streams
  BY NoParts, NoResultTyped DEF Streams
<1>4. Exchange /\ Reasons
  BY NoResultTyped DEF Exchange, Reasons, IdlePlaces, LoopPlaces, LastPlaces
<1>5. Tried
  <2>1. Len(<< >>) = 0 /\ DOMAIN << >> = {}
    OBVIOUS
  <2> QED BY <2>1, PlanFacts DEF Tried, NoAttempt
<1>6. Decided
  <2>1. DOMAIN << >> = {}
    OBVIOUS
  <2> QED BY <2>1 DEF Decided, AnyFailed
<1>7. Counted
  <2>1. Len(blocks) = 0 /\ MaxAttempts \in Nat
    BY PlanFacts
  <2> QED BY <2>1 DEF Counted, Asked
<1>8. OwnSession
  BY NoResultTyped DEF OwnSession, NoForeign
<1>9. OwnAnswer /\ ~stolen
  BY DEF OwnAnswer, IdlePlaces, LastPlaces
<1> QED BY <1>1, <1>2, <1>3, <1>4, <1>5, <1>6, <1>7, <1>8, <1>9 DEF Inv, Typed

LEMMA InvNext == ASSUME Inv, [Next]_vars PROVE Inv'
<1>1. CASE Next
  BY <1>1, FlagsKept, WordsKept, StreamsKept, ExchangeKept, ReasonsKept, TriedKept, DecidedKept,
     CountedKept, OwnSessionKept, OwnAnswerKept, NothingIsStolen DEF Inv, Typed
<1>2. CASE UNCHANGED vars
  <2>1. UNCHANGED <<cancel, session, wire, due, expired, pc, res, response, status,
                    cancelObserved, serialFailed, sent, attempt, blocks, cancelled, result,
                    gaveUp, stolen, missing, afterCancel>>
    BY <1>2 DEF vars, stream, transport, executor, history
  <2>2. Flags' /\ Words' /\ Streams'
    BY <2>1 DEF Inv, Typed, Flags, Words, Streams
  <2>3. Exchange' /\ Reasons' /\ Tried'
    BY <2>1 DEF Inv, Exchange, Reasons, Tried
  <2>4. AnyFailed' = AnyFailed /\ FinalStatus' = FinalStatus /\ Asked' = Asked
    BY <2>1 DEF AnyFailed, FinalStatus, Failures, Successes, Asked
  <2>5. Decided' /\ Counted'
    BY <2>1, <2>4 DEF Inv, Decided, Counted
  <2>6. OwnSession'
    BY <2>1 DEF Inv, OwnSession, NoForeign
  <2>7. OwnAnswer' = OwnAnswer
    BY <2>1 DEF OwnAnswer, OneAnswer, Begun, Rest, Both, Got, Mine, Whole
  <2> QED BY <2>1, <2>2, <2>3, <2>5, <2>6, <2>7 DEF Inv, Typed
<1> QED BY <1>1, <1>2

\* What every reachable state of a scan satisfies.
THEOREM Invariance == Spec => []Inv
<1>1. Init => Inv
  BY InvInit
<1>2. Inv /\ [Next]_vars => Inv'
  BY InvNext
<1> QED BY <1>1, <1>2, PTL DEF Spec

----------------------------------------------------------------------------
(* What it says.                                                           *)

\* A scan takes the answer of another request only after it gave up an attempt
\* (transport 127, executor 225).
THEOREM AnswersAreOwn == Spec => []AnswersTheRequest
<1>1. Inv => AnswersTheRequest
  BY DEF Inv, AnswersTheRequest
<1> QED BY <1>1, Invariance, PTL

\* Whatever a scan read from its own session was reported (transport 176-243).
THEOREM ReadsAreReported == Spec => []ReadIsReported
<1>1. Inv => ReadIsReported
  BY DEF Inv, Reasons, ReadIsReported
<1> QED BY <1>1, Invariance, PTL

\* The blocks that were read, counted.
LEMMA SuccessesCounted ==
    ASSUME Inv
    PROVE  /\ Len(blocks) \in Nat /\ Successes \in Nat /\ Successes <= Len(blocks)
           /\ Successes = Len(blocks) <=> ~AnyFailed
<1> DEFINE read == {b \in DOMAIN blocks : Ok(blocks[b])}
<1>1. Len(blocks) \in Nat /\ DOMAIN blocks = 1..Len(blocks)
  BY LenProperties DEF Inv, Typed, Words
<1>2. IsFiniteSet(1..Len(blocks)) /\ Cardinality(1..Len(blocks)) = Len(blocks)
  <2>1. Len(blocks) \in Int /\ 1 \in Int
    BY <1>1
  <2>2. /\ IsFiniteSet(1..Len(blocks))
        /\ Cardinality(1..Len(blocks)) = IF 1 > Len(blocks) THEN 0 ELSE Len(blocks) - 1 + 1
    BY <2>1, FS_Interval
  <2> QED BY <1>1, <2>2
<1>3. read \in SUBSET (1..Len(blocks))
  BY <1>1
<1>4. read = 1..Len(blocks) <=> ~AnyFailed
  BY <1>1 DEF AnyFailed
<1>5. Successes = Cardinality(read)
  BY DEF Successes
<1> HIDE DEF read
<1>6. /\ IsFiniteSet(read) /\ Cardinality(read) <= Len(blocks)
      /\ Len(blocks) = Cardinality(read) => 1..Len(blocks) = read
  BY <1>2, <1>3, FS_Subset
<1>7. Cardinality(read) \in Nat
  BY <1>6, FS_CardinalityType
<1>8. read = 1..Len(blocks) => Cardinality(read) = Len(blocks)
  BY <1>2
<1> QED BY <1>1, <1>4, <1>5, <1>6, <1>7, <1>8

\* The result of a scan tells what happened to every block of its plan (executor
\* 186-330).
THEOREM ResultsTellAll == Spec => []ResultTellsAll
<1>1. ASSUME Inv, result # "none" PROVE ResultTellsAll
  <2>1. /\ pc = "done" /\ result = FinalStatus /\ cancelled \in BOOLEAN
        /\ cancelled => /\ cancel \/ session # "mine"
                        /\ Len(blocks) < Len(Plan) \/ AnyFailed
        /\ ~cancelled => Len(blocks) = Len(Plan) \/ (~ContinueOnError /\ AnyFailed)
    BY <1>1 DEF Inv, Decided, Typed, Flags
  <2>2. /\ Len(blocks) <= Len(Plan)
        /\ \A b \in DOMAIN blocks :
              /\ blocks[b].count \in 1..MaxAttempts
              /\ blocks[b].last \notin RetryOn \/ blocks[b].count = MaxAttempts \/ cancelled
    BY <1>1 DEF Inv, Tried
  <2>3. /\ Len(blocks) \in Nat /\ Successes \in Nat /\ Successes <= Len(blocks)
        /\ Successes = Len(blocks) <=> ~AnyFailed
    BY <1>1, SuccessesCounted
  <2>4. /\ Failures \in Nat /\ (Failures = 0 <=> ~AnyFailed) /\ (Failures > 0 <=> AnyFailed)
    BY <2>3 DEF Failures
  <2>5. /\ FinalStatus = "Cancelled" <=> cancelled
        /\ FinalStatus = "Completed" <=> ~cancelled /\ ~AnyFailed
        /\ FinalStatus \in {"CompletedWithErrors", "Failed"} => ~cancelled /\ AnyFailed
    <3>1. CASE cancelled
      BY <3>1 DEF FinalStatus
    <3>2. CASE ~cancelled /\ ~AnyFailed
      BY <2>4, <3>2 DEF FinalStatus
    <3>3. CASE ~cancelled /\ AnyFailed
      <4>1. Successes > 0 \/ Successes = 0
        BY <2>3
      <4>2. FinalStatus \in {"CompletedWithErrors", "Failed"}
        BY <2>4, <3>3, <4>1 DEF FinalStatus
      <4> QED BY <3>3, <4>2
    <3> QED BY <2>1, <3>1, <3>2, <3>3
  <2>6. result = "Completed" <=> Successes = Len(Plan)
    <3>1. Len(Plan) \in Nat
      BY PlanFacts
    <3>2. ~cancelled /\ ~AnyFailed => Successes = Len(Plan)
      BY <2>1, <2>3
    <3>3. Successes = Len(Plan) => Len(blocks) = Len(Plan) /\ ~AnyFailed
      BY <2>2, <2>3, <3>1
    <3>4. Successes = Len(Plan) => ~cancelled
      BY <2>1, <3>1, <3>3
    <3> QED BY <2>1, <2>5, <3>2, <3>3, <3>4
  <2>7. result = "Cancelled" => cancel \/ session # "mine"
    BY <2>1, <2>5
  <2>8. result \in {"CompletedWithErrors", "Failed"} =>
           /\ Failures > 0
           /\ ContinueOnError => Len(blocks) = Len(Plan)
           /\ \A b \in DOMAIN blocks :
                 blocks[b].last \notin RetryOn \/ blocks[b].count = MaxAttempts
    BY <2>1, <2>2, <2>4, <2>5
  <2> QED BY <2>2, <2>6, <2>7, <2>8 DEF ResultTellsAll
<1>2. Inv => ResultTellsAll
  BY <1>1 DEF ResultTellsAll
<1> QED BY <1>2, Invariance, PTL

\* No more requests are written than the plan and the policy ask for.
LEMMA RequestsAreBounded ==
    ASSUME Inv
    PROVE  sent <= MaxRequests
<1> DEFINE M == MaxAttempts
<1> DEFINE n == Len(blocks)
<1> DEFINE all == Len(Plan)
<1>1. /\ M \in Nat /\ n \in Nat /\ all \in Nat /\ n <= all /\ sent \in Nat
      /\ attempt.count \in Nat
  BY PlanFacts DEF Inv, Typed, Words, Tried, Attempts
<1>2. sent <= n * M + Asked /\ MaxRequests = all * M
  BY DEF Inv, Counted, MaxRequests
<1>3. (n + 1) * M = n * M + M /\ n * M \in Nat /\ all * M \in Nat
  BY <1>1
<1>4. \A i, j, k \in Nat : i <= j => i * k <= j * k
  OBVIOUS
<1>5. CASE Asked = 0
  <2>1. n * M <= all * M
    BY <1>1, <1>4
  <2> QED BY <1>1, <1>2, <1>3, <1>5, <2>1
<1>6. CASE Asked # 0
  <2>1. n + 1 <= all /\ Asked \in Nat /\ Asked <= M
    BY <1>1, <1>6 DEF Asked, Inv, Tried
  <2>2. (n + 1) * M <= all * M
    <3>1. n + 1 \in Nat
      BY <1>1
    <3> QED BY <1>1, <1>4, <2>1, <3>1
  <2> QED BY <1>1, <1>2, <1>3, <2>1, <2>2
<1> QED BY <1>5, <1>6

\* Requests are written for the attempts the policy asks for, and at most one after a
\* cancellation (executor 83, 228; transport 62).
THEOREM RequestsWanted == Spec => []RequestsAreWanted
<1>1. ASSUME Inv PROVE RequestsAreWanted
  <2>1. /\ cancel \in BOOLEAN /\ expired \in BOOLEAN /\ cancelled \in BOOLEAN
        /\ session \in {"mine", "lost", "other"}
        /\ status \in {"none", "Success", "Timeout", "TransportError"}
    BY <1>1 DEF Inv, Typed, Flags, Words
  <2>2. Range(wire) \cup Range(due) \cup Range(response) \subseteq Parts
    <3>1. \A parts \in Seq(Parts) : Range(parts) \subseteq Parts
      BY LenProperties, ElementOfSeq DEF Range
    <3> QED BY <1>1, <3>1 DEF Inv, Typed, Streams
  <2>3. sent <= MaxRequests
    BY <1>1, RequestsAreBounded
  <2>4. Len(blocks) <= Len(Plan) /\ attempt.count <= MaxAttempts
    BY <1>1 DEF Inv, Tried
  <2>5. afterCancel \in 0..MaxRequests /\ afterCancel <= 1
    <3>1. afterCancel \in Nat /\ afterCancel <= 1
      BY <1>1 DEF Inv, Typed, Words, Counted
    <3>2. MaxRequests \in Nat /\ MaxRequests >= 1
      <4>1. \A i, j \in Nat : i > 0 /\ j > 0 => i * j \in Nat /\ i * j >= 1
        OBVIOUS
      <4> QED BY <4>1, PlanFacts DEF MaxRequests
    <3> QED BY <3>1, <3>2
  <2> QED BY <2>1, <2>2, <2>3, <2>4, <2>5 DEF RequestsAreWanted, TypeOK
<1>2. Inv => RequestsAreWanted
  BY <1>1
<1> QED BY <1>2, Invariance, PTL
----------------------------------------------------------------------------
(* A plan covers its range: what PlanBlocks computes for every accepted    *)
(* range, by induction over the addresses that are left.                   *)

\* Mathematical induction, with a set in the place of the predicate: if the set
\* missed n, adding one would map those below n that it has into those without 0.
LEMMA SetInduction ==
    ASSUME NEW S, 0 \in S, \A n \in Nat : n \in S => n + 1 \in S
    PROVE  \A n \in Nat : n \in S
<1> SUFFICES ASSUME NEW n \in Nat, n \notin S PROVE FALSE
  OBVIOUS
<1> DEFINE A == {m \in 0..n : m \in S}
           f == [m \in A |-> m + 1]
<1>1. IsFiniteSet(A)
  BY FS_Interval, FS_Subset, 0 \in Int, n \in Int
<1>2. f \in [A -> A \ {0}]
  <2> SUFFICES ASSUME NEW m \in A PROVE m + 1 \in A \ {0}
    OBVIOUS
  <2>1. m # n /\ m \in Nat /\ m <= n /\ m + 1 \in S
    OBVIOUS
  <2> QED BY <2>1
<1>3. IsFiniteSet(A \ {0}) /\ Cardinality(A \ {0}) = Cardinality(A) - 1
  <2>1. 0 \in A
    OBVIOUS
  <2> QED BY <1>1, <2>1, FS_RemoveElement
<1>4. Cardinality(A) \in Nat
  BY <1>1, FS_CardinalityType
<1>5. Cardinality(A \ {0}) < Cardinality(A)
  BY <1>3, <1>4
<1> HIDE DEF f
<1>6. \E x, y \in A : x # y /\ f[x] = f[y]
  BY <1>1, <1>2, <1>3, <1>5, FS_PigeonHole
<1>7. \A x, y \in A : f[x] = f[y] => x = y
  BY DEF f
<1> QED BY <1>6, <1>7

\* The options that PlanBlocks cuts: a range, and blocks that are not empty.
IsRange(o) == o.last \in Nat /\ o.blockSize \in Nat \ {0}

FirstBlock(o, address) == [start |-> address, quantity |-> BlockQuantity(o, address)]

\* The body of the recursion of PlanBlocks, and a function that follows it.
Cut(f, o, address) ==
    IF address > o.last THEN << >>
    ELSE <<FirstBlock(o, address)>> \o f[address + BlockQuantity(o, address)]
IsCutting(f, o) == f = [address \in Nat |-> Cut(f, o, address)]

LEMMA BlockGoesOn ==
    ASSUME NEW o, IsRange(o), NEW a \in Nat, a <= o.last
    PROVE  LET q == BlockQuantity(o, a) IN
           /\ q \in 1..o.blockSize /\ q \in Nat /\ a + q \in Nat /\ a + q > a
           /\ a + q - 1 <= o.last
BY DEF IsRange, BlockQuantity

\* There is such a function: if it is right for the last k addresses it can be made
\* right for the one before them.
LEMMA CuttingExists ==
    ASSUME NEW o, IsRange(o)
    PROVE  \E f : IsCutting(f, o)
<1> DEFINE last == o.last
           Right(f, k) == \A a \in Nat : a + k > last => f[a] = Cut(f, o, a)
           S == {k \in Nat : \E f : f = [a \in Nat |-> f[a]] /\ Right(f, k)}
<1>1. last \in Nat
  BY DEF IsRange
<1>2. \A a \in Nat : a <= last => /\ BlockQuantity(o, a) \in Nat
                                  /\ a + BlockQuantity(o, a) \in Nat
                                  /\ a + BlockQuantity(o, a) > a
  BY BlockGoesOn
<1> HIDE DEF last
<1>3. 0 \in S
  <2> DEFINE f == [a \in Nat |-> << >>]
  <2>1. f = [a \in Nat |-> f[a]]
    OBVIOUS
  <2>2. \A a \in Nat : a + 0 > last => f[a] = Cut(f, o, a)
    BY <1>1 DEF Cut, last
  <2> HIDE DEF f
  <2> QED BY <2>1, <2>2
<1>4. ASSUME NEW k \in Nat, k \in S PROVE k + 1 \in S
  <2>1. PICK f : f = [a \in Nat |-> f[a]] /\ Right(f, k)
    BY <1>4
  <2> DEFINE h == [a \in Nat |-> IF a + k = last THEN Cut(f, o, a) ELSE f[a]]
  <2>2. h = [a \in Nat |-> h[a]]
    OBVIOUS
  <2>3. \A a \in Nat : h[a] = IF a + k = last THEN Cut(f, o, a) ELSE f[a]
    OBVIOUS
  <2> HIDE DEF h
  <2>4. ASSUME NEW a \in Nat, a + (k + 1) > last
        PROVE  h[a] = Cut(h, o, a)
    <3> DEFINE b == a + BlockQuantity(o, a)
    <3>1. Cut(f, o, a) = Cut(h, o, a)
      <4>1. CASE a > last
        BY <4>1 DEF Cut, last
      <4>2. CASE ~(a > last)
        <5>1. a <= last
          BY <1>1, <4>2
        <5>2. b \in Nat /\ b > a
          BY <1>2, <5>1
        <5> HIDE DEF b
        <5>3. b + k # last
          BY <1>1, <2>4, <5>2
        <5>4. h[b] = f[b]
          BY <2>3, <5>2, <5>3
        <5> QED BY <5>4 DEF Cut, b
      <4> QED BY <4>1, <4>2
    <3>2. h[a] = Cut(f, o, a)
      <4>1. CASE a + k = last
        BY <2>3, <4>1
      <4>2. CASE a + k # last
        <5>1. a + k > last
          BY <1>1, <2>4, <4>2
        <5> QED BY <2>1, <2>3, <4>2, <5>1
      <4> QED BY <4>1, <4>2
    <3> QED BY <3>1, <3>2
  <2> QED BY <2>2, <2>4
<1> HIDE DEF S
<1>5. \A k \in Nat : k \in S
  BY <1>3, <1>4, SetInduction, Zenon
<1>6. last + 1 \in S
  BY <1>1, <1>5
<1>7. PICK f : f = [a \in Nat |-> f[a]] /\ Right(f, last + 1)
  BY <1>6 DEF S
<1>8. \A a \in Nat : f[a] = Cut(f, o, a)
  <2> SUFFICES ASSUME NEW a \in Nat PROVE f[a] = Cut(f, o, a)
    OBVIOUS
  <2>1. a + (last + 1) > last
    BY <1>1
  <2> QED BY <1>7, <2>1
<1>9. f = [a \in Nat |-> Cut(f, o, a)]
  BY <1>7, <1>8
<1> QED BY <1>9 DEF IsCutting

\* p cuts what is left of the range from address a on.
Covers(p, o, a) ==
    /\ p \in Seq([start : Nat, quantity : Nat]) /\ Len(p) > 0
    /\ p[1].start = a
    /\ p[Len(p)].start + p[Len(p)].quantity - 1 = o.last
    /\ \A i \in 2..Len(p) : p[i].start = p[i-1].start + p[i-1].quantity
    /\ \A i \in 1..Len(p) : /\ p[i].quantity \in 1..o.blockSize
                            /\ p[i].start + p[i].quantity - 1 <= o.last

LEMMA CoversOneMore ==
    ASSUME NEW o, IsRange(o), NEW a \in Nat, a <= o.last, NEW p,
           \/ p = << >> /\ a + BlockQuantity(o, a) > o.last
           \/ Covers(p, o, a + BlockQuantity(o, a))
    PROVE  Covers(<<FirstBlock(o, a)>> \o p, o, a)
<1> DEFINE B == [start : Nat, quantity : Nat]
           q == BlockQuantity(o, a)
           b == FirstBlock(o, a)
           one == <<b>>
           r == one \o p
<1>1. /\ q \in 1..o.blockSize /\ q \in Nat /\ a + q \in Nat /\ a + q > a
      /\ a + q - 1 <= o.last
  BY BlockGoesOn
<1>2. b \in B /\ b.start = a /\ b.quantity = q
  BY <1>1 DEF FirstBlock
<1>3. o.last \in Nat
  BY DEF IsRange
<1> HIDE DEF b, q
<1>4. one \in Seq(B) /\ Len(one) = 1 /\ one[1] = b
  BY <1>2
<1> HIDE DEF one
<1>5. p \in Seq(B) /\ Len(p) \in Nat
  <2>1. CASE p = << >>
    BY <2>1
  <2>2. CASE Covers(p, o, a + BlockQuantity(o, a))
    BY <2>2 DEF Covers
  <2> QED BY <2>1, <2>2
<1>6. /\ r \in Seq(B) /\ Len(r) = 1 + Len(p)
      /\ \A i \in 1..Len(r) : r[i] = IF i = 1 THEN b ELSE p[i - 1]
  <2>1. /\ r \in Seq(B) /\ Len(r) = Len(one) + Len(p)
        /\ \A i \in 1..Len(one) + Len(p) :
              r[i] = IF i <= Len(one) THEN one[i] ELSE p[i - Len(one)]
    BY <1>4, <1>5, ConcatProperties
  <2> HIDE DEF r, B
  <2> QED BY <1>4, <1>5, <2>1
<1> HIDE DEF r, B
<1>7. CASE p = << >> /\ a + q > o.last
  <2>1. Len(r) = 1 /\ r[1] = b
    <3>1. Len(p) = 0
      BY <1>7
    <3> QED BY <1>6, <3>1
  <2>2. a + q - 1 = o.last
    BY <1>1, <1>3, <1>7
  <2>3. \A i \in 1..Len(r) : /\ r[i].quantity \in 1..o.blockSize
                            /\ r[i].start + r[i].quantity - 1 <= o.last
    BY <1>1, <1>2, <2>1
  <2>4. r \in Seq([start : Nat, quantity : Nat])
    BY <1>6 DEF B
  <2>5. 2..Len(r) = {}
    BY <2>1
  <2>6. Covers(r, o, a)
    BY <1>2, <2>1, <2>2, <2>3, <2>4, <2>5 DEF Covers
  <2> QED BY <2>6 DEF r, one, b
<1>8. CASE Covers(p, o, a + q)
  <2>1. /\ Len(p) > 0 /\ p[1].start = a + q
        /\ p[Len(p)].start + p[Len(p)].quantity - 1 = o.last
        /\ \A i \in 2..Len(p) : p[i].start = p[i-1].start + p[i-1].quantity
        /\ \A i \in 1..Len(p) : /\ p[i].quantity \in 1..o.blockSize
                                /\ p[i].start + p[i].quantity - 1 <= o.last
    BY <1>8 DEF Covers
  <2>2. Len(r) > 1 /\ r[1] = b /\ r[Len(r)] = p[Len(p)] /\ r[2] = p[1]
    <3>1. /\ 1 \in 1..Len(r) /\ 2 \in 1..Len(r) /\ Len(r) \in 1..Len(r) /\ Len(r) # 1
          /\ Len(r) - 1 = Len(p) /\ 2 - 1 = 1
      BY <1>5, <1>6, <2>1
    <3>2. \A i \in 1..Len(r) : i # 1 => r[i] = p[i - 1]
      BY <1>6
    <3>3. r[Len(r)] = p[Len(r) - 1] /\ r[2] = p[2 - 1]
      BY <3>1, <3>2
    <3> QED BY <1>6, <3>1, <3>3
  <2>3. ASSUME NEW i \in 2..Len(r) PROVE r[i].start = r[i-1].start + r[i-1].quantity
    <3>1. CASE i = 2
      BY <1>2, <2>1, <2>2, <3>1
    <3>2. CASE i # 2
      <4>1. i - 1 \in 2..Len(p) /\ r[i] = p[i - 1] /\ r[i - 1] = p[i - 2]
        <5>1. i - 1 \in 2..Len(p) /\ i \in 1..Len(r) /\ i - 1 \in 1..Len(r) /\ i # 1 /\ i - 1 # 1
              /\ (i - 1) - 1 = i - 2
          BY <1>5, <1>6, <3>2
        <5>2. \A j \in 1..Len(r) : j # 1 => r[j] = p[j - 1]
          BY <1>6
        <5>3. r[i] = p[i - 1] /\ r[i - 1] = p[(i - 1) - 1]
          BY <5>1, <5>2
        <5> QED BY <5>1, <5>3
      <4>2. p[i - 1].start = p[i - 2].start + p[i - 2].quantity
        BY <2>1, <4>1
      <4> QED BY <4>1, <4>2
    <3> QED BY <3>1, <3>2
  <2>4. ASSUME NEW i \in 1..Len(r)
        PROVE  r[i].quantity \in 1..o.blockSize /\ r[i].start + r[i].quantity - 1 <= o.last
    <3>1. CASE i = 1
      BY <1>1, <1>2, <2>2, <3>1
    <3>2. CASE i # 1
      <4>1. i - 1 \in 1..Len(p) /\ r[i] = p[i - 1]
        BY <1>5, <1>6, <3>2
      <4> QED BY <2>1, <4>1
    <3> QED BY <3>1, <3>2
  <2>5. Covers(r, o, a)
    BY <1>2, <1>6, <2>1, <2>2, <2>3, <2>4 DEF Covers, B
  <2> QED BY <2>5 DEF r, one, b
<1> QED BY <1>7, <1>8 DEF q

LEMMA CuttingCovers ==
    ASSUME NEW o, IsRange(o), NEW f, IsCutting(f, o)
    PROVE  \A a \in Nat : a <= o.last => Covers(f[a], o, a)
<1> DEFINE last == o.last
           S == {k \in Nat : \A a \in Nat : a <= last /\ a + k >= last => Covers(f[a], o, a)}
<1>1. last \in Nat
  BY DEF IsRange
<1>2. \A a \in Nat : f[a] = Cut(f, o, a)
  BY DEF IsCutting
<1>3. ASSUME NEW a \in Nat, a <= last,
             a + BlockQuantity(o, a) <= last
             => Covers(f[a + BlockQuantity(o, a)], o, a + BlockQuantity(o, a))
      PROVE  Covers(f[a], o, a)
  <2> DEFINE b == a + BlockQuantity(o, a)
  <2>1. b \in Nat
    BY <1>3, BlockGoesOn
  <2>2. f[a] = <<FirstBlock(o, a)>> \o f[b]
    <3>1. ~(a > o.last)
      BY <1>1, <1>3
    <3>2. f[a] = Cut(f, o, a)
      BY <1>2
    <3> QED BY <3>1, <3>2, Zenon DEF Cut
  <2>3. b > last => f[b] = << >>
    BY <1>2, <2>1 DEF Cut
  <2>4. \/ f[b] = << >> /\ b > last
        \/ Covers(f[b], o, b)
    BY <1>1, <1>3, <2>1, <2>3
  <2> DEFINE p == f[b]
  <2>5. \/ p = << >> /\ a + BlockQuantity(o, a) > o.last
        \/ Covers(p, o, a + BlockQuantity(o, a))
    BY <2>4
  <2>6. a <= o.last
    BY <1>3
  <2> HIDE DEF p
  <2>7. Covers(<<FirstBlock(o, a)>> \o p, o, a)
    BY <2>5, <2>6, CoversOneMore
  <2> QED BY <2>2, <2>7 DEF p
<1> HIDE DEF last
<1>4. \A a \in Nat : a <= last => /\ a + BlockQuantity(o, a) \in Nat
                                  /\ a + BlockQuantity(o, a) > a
  BY BlockGoesOn DEF last
<1>5. 0 \in S
  <2>1. ASSUME NEW a \in Nat, a <= last, a + 0 >= last PROVE Covers(f[a], o, a)
    <3>1. ~(a + BlockQuantity(o, a) <= last)
      BY <1>1, <1>4, <2>1
    <3> QED BY <1>3, <2>1, <3>1
  <2> QED BY <2>1
<1>6. ASSUME NEW k \in Nat, k \in S PROVE k + 1 \in S
  <2>1. ASSUME NEW a \in Nat, a <= last, a + (k + 1) >= last PROVE Covers(f[a], o, a)
    <3> DEFINE b == a + BlockQuantity(o, a)
    <3>1. b \in Nat /\ b > a
      BY <1>4, <2>1
    <3> HIDE DEF b
    <3>2. b + k >= last
      BY <1>1, <2>1, <3>1
    <3>3. b <= last => Covers(f[b], o, b)
      BY <1>6, <3>1, <3>2
    <3> QED BY <1>3, <2>1, <3>3 DEF b
  <2> QED BY <2>1
<1> HIDE DEF S
<1>7. last \in S
  BY <1>1, <1>5, <1>6, SetInduction, Zenon
<1>8. \A a \in Nat : a <= last => Covers(f[a], o, a)
  BY <1>1, <1>7 DEF S
<1> QED BY <1>8 DEF last

LEMMA PlanBlocksCover ==
    ASSUME NEW o, PlanAccepted(o)
    PROVE  Covers(PlanBlocks(o), o, o.first)
<1>1. /\ IsRange(o) /\ o.first \in Nat /\ o.first <= o.last
  BY PlanLimits DEF PlanAccepted, IsRange
<1> DEFINE from == CHOOSE f : f = [address \in Nat |->
                IF address > o.last
                THEN << >>
                ELSE LET quantity == BlockQuantity(o, address)
                     IN  <<[start |-> address, quantity |-> quantity]>> \o f[address + quantity]]
<1>2. PlanBlocks(o) = from[o.first]
  BY DEF PlanBlocks
<1>3. IsCutting(from, o)
  <2>1. \E f : IsCutting(f, o)
    BY <1>1, CuttingExists
  <2> QED BY <2>1 DEF IsCutting, Cut, FirstBlock
<1> HIDE DEF from
<1>4. Covers(from[o.first], o, o.first)
  BY <1>1, <1>3, CuttingCovers
<1> QED BY <1>2, <1>4

\* A plan covers its range once, and an accepted range is never refused for one of
\* its blocks (modbus_core 317-385).
THEOREM PlansCoverRanges == Spec => []PlanCoversRange
<1>1. ASSUME NEW o \in [first : 0..MaxAddress, last : 0..MaxAddress,
                        blockSize : 0..(MaxBlockSize + 1), retryCount : {0, MaxRetryCount + 1}]
      PROVE  LET plan == BuildScanPlan(o) IN
             /\ PlanAccepted(o) <=> plan # << >>
             /\ plan # << >> =>
                   /\ plan[1].start = o.first
                   /\ Last(plan).start + Last(plan).quantity - 1 = o.last
                   /\ \A i \in 2..Len(plan) : plan[i].start = plan[i-1].start + plan[i-1].quantity
                   /\ \A i \in DOMAIN plan : plan[i].quantity \in 1..o.blockSize
  <2> DEFINE plan == BuildScanPlan(o)
             pieces == PlanBlocks(o)
  <2>1. CASE ~PlanAccepted(o)
    BY <2>1 DEF BuildScanPlan
  <2>2. CASE PlanAccepted(o)
    <3>1. Covers(pieces, o, o.first)
      BY <2>2, PlanBlocksCover
    <3> HIDE DEF pieces
    <3>2. /\ pieces \in Seq([start : Nat, quantity : Nat]) /\ Len(pieces) > 0
          /\ pieces[1].start = o.first
          /\ pieces[Len(pieces)].start + pieces[Len(pieces)].quantity - 1 = o.last
          /\ \A i \in 2..Len(pieces) : pieces[i].start = pieces[i-1].start + pieces[i-1].quantity
          /\ \A i \in 1..Len(pieces) : /\ pieces[i].quantity \in 1..o.blockSize
                                       /\ pieces[i].start + pieces[i].quantity - 1 <= o.last
      BY <3>1 DEF Covers
    <3>3. DOMAIN pieces = 1..Len(pieces) /\ pieces # << >>
          /\ \A i \in 1..Len(pieces) : pieces[i].start \in Nat /\ pieces[i].quantity \in Nat
      <4> DEFINE B == [start : Nat, quantity : Nat]
      <4>1. pieces \in Seq(B) /\ Len(pieces) > 0
        BY <3>2
      <4>2. \A b \in B : b.start \in Nat /\ b.quantity \in Nat
        OBVIOUS
      <4> HIDE DEF B
      <4>3. DOMAIN pieces = 1..Len(pieces) /\ \A i \in 1..Len(pieces) : pieces[i] \in B
        BY <4>1
      <4>4. pieces # << >>
        BY <4>1
      <4> QED BY <4>2, <4>3, <4>4
    <3>4. \A i \in DOMAIN pieces : CanRead(pieces[i].start, pieces[i].quantity)
      <4> SUFFICES ASSUME NEW i \in 1..Len(pieces)
                   PROVE  CanRead(pieces[i].start, pieces[i].quantity)
        BY <3>3
      <4> DEFINE start == pieces[i].start
                 quantity == pieces[i].quantity
      <4>1. /\ start \in Nat /\ quantity \in Nat /\ quantity \in 1..o.blockSize
            /\ start + quantity - 1 <= o.last
        BY <3>2, <3>3
      <4>2. /\ o.last \in 0..MaxAddress /\ o.blockSize \in 1..MaxBlockSize
            /\ MaxBlockSize \in Nat /\ MaxReadQuantity \in Nat /\ MaxAddress \in Nat
            /\ MaxBlockSize <= MaxReadQuantity
        BY <2>2, PlanLimits DEF PlanAccepted
      <4> HIDE DEF start, quantity
      <4>3. CanRead(start, quantity)
        BY <4>1, <4>2 DEF CanRead
      <4> QED BY <4>3 DEF start, quantity
    <3>5. plan = pieces
      BY <2>2, <3>4 DEF BuildScanPlan, pieces
    <3> QED BY <2>2, <3>2, <3>3, <3>5 DEF Last
  <2> QED BY <2>1, <2>2
<1>2. PlanCoversRange
  BY <1>1 DEF PlanCoversRange
<1>3. PlanCoversRange'
  BY <1>1 DEF PlanCoversRange
<1>4. [][TRUE]_vars /\ PlanCoversRange => []PlanCoversRange
  BY <1>3, PTL
<1> QED BY <1>2, <1>4, PTL DEF Spec
=============================================================================
