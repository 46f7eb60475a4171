---------------------------- MODULE CommandSequence ----------------------------
(***************************************************************************)
(* Command sequences (command_sequence/command_sequence.cpp): a list of    *)
(* writes, delays, waits, Modbus reads and assertions is validated as a    *)
(* whole and then executed step by step until a step does not complete or  *)
(* the user cancels.                                                       *)
(*                                                                         *)
(* A response is the set of the patterns it contains; the values of a read *)
(* are a function of the register address.  Time is counted in units.      *)
(***************************************************************************)
EXTENDS ScanPlan, SequencesExt

CONSTANTS
    MaxInt,      \* std::numeric_limits<int>::max()
    Slice,       \* kDelayCancellationSliceMs
    Limits,      \* CommandSequenceSafetyLimits
    Programs,    \* the sequences that are run
    Available,   \* the sets of backends the context may have
    Responses,   \* what waitForResponse may return
    Values       \* what a register may hold

\* What the callers of the code provide.
SequenceAssumption ==
    /\ MaxInt \in Nat /\ Slice \in Nat \ {0}
    /\ Limits.totalBudget <= MaxInt

VARIABLES
    program, backends,   \* the arguments
    cancel,              \* what shouldCancel returns
    csPc,                \* "start", "check", "run", "sleep", "attempt", "exchange", "done"
    left,                \* runDelay: remainingMs; runModbusRead: attempts left
    results,             \* the statuses of result.steps
    outcome,             \* result.status
    lastWrite, lastResponse, lastRead,   \* what assertions look at
    \* history
    got,                 \* per finished step, what its backend returned
    waited,              \* time spent in the backends
    late                 \* calls of a backend since the cancellation

csVars == <<program, backends, cancel, csPc, left, results, outcome,
            lastWrite, lastResponse, lastRead, got, waited, late>>

(***************************************************************************)
(* Validation.  A budget is -1 once it is refused.                         *)
(***************************************************************************)
AddBudget(budget, value) ==
    CASE value <= 0 -> budget
      [] budget > MaxInt - value -> -1
      [] OTHER -> budget + value

ValidCommandTimeout(ms) == ms > 0 /\ ms <= Limits.commandTimeout

PayloadSafe(size) == size > 0 /\ size <= Limits.payload

StepSafe(s) ==
    CASE s.kind \in {"SerialWrite", "Wait"} -> PayloadSafe(s.size) /\ ValidCommandTimeout(s.timeout)
      [] s.kind = "Delay" -> s.ms >= 0 /\ s.ms <= Limits.delay
      [] s.kind = "ModbusRead" ->
            /\ s.supported              \* slave 1..247, function 3 or 4
            /\ s.first >= 0
            /\ s.quantity > 0 /\ s.quantity <= Limits.quantity
            /\ s.retries >= 0 /\ s.retries <= Limits.retries
            /\ ValidCommandTimeout(s.timeout)
            /\ s.timeout <= MaxInt \div (s.retries + 1)
      [] s.kind = "Contains" -> PayloadSafe(s.size)
      [] s.kind = "Register" -> s.address >= 0
      [] OTHER -> TRUE

\* Mutant: the retries of a read are not counted.
FirstAttemptOnly(s) ==
    CASE s.kind \in {"SerialWrite", "Wait", "ModbusRead"} -> s.timeout
      [] s.kind = "Delay" -> s.ms
      [] OTHER -> 0

StepBudget(s) ==
    CASE s.kind \in {"SerialWrite", "Wait"} -> s.timeout
      [] s.kind = "Delay" -> s.ms
      [] s.kind = "ModbusRead" -> s.timeout * (s.retries + 1)
      [] OTHER -> 0

\* The budget after the steps, -1 if one of them is refused.
TotalBudget(steps) ==
    FoldLeft(LAMBDA budget, s :
                LET sum == AddBudget(budget, StepBudget(s))
                IN  IF budget = -1 \/ ~StepSafe(s) \/ sum > Limits.totalBudget THEN -1 ELSE sum,
             0, steps)

ValidateCommandSequence(steps) ==
    /\ steps # << >>
    /\ Len(steps) <= Limits.commandCount
    /\ TotalBudget(steps) # -1

(***************************************************************************)
(* Execution.                                                              *)
(***************************************************************************)
CsInit ==
    /\ program \in Programs /\ backends \in Available
    /\ cancel = FALSE /\ csPc = "start" /\ left = 0 /\ results = << >> /\ outcome = "none"
    /\ lastWrite = "none" /\ lastResponse = << >> /\ lastRead = [status |-> "none"]
    /\ got = << >> /\ waited = 0 /\ late = 0

Step == program[Len(results) + 1]
Running(kind) == csPc = "run" /\ Step.kind = kind
Memory == <<lastWrite, lastResponse, lastRead>>
Arguments == <<program, backends>>

\* The step ends with this status; answer is what its backend returned.
EndStep(status, answer) ==
    /\ results' = Append(results, status) /\ got' = Append(got, answer)
    /\ csPc' = IF status = "Completed" /\ Len(results) + 1 < Len(program) THEN "check" ELSE "done"
    /\ outcome' = IF csPc' = "done" THEN status ELSE "none"

Call(time) == waited' = waited + time /\ late' = IF cancel THEN late + 1 ELSE late

NoCall == UNCHANGED <<waited, late>>

Cancel ==
    /\ csPc # "done" /\ ~cancel
    /\ cancel' = TRUE
    /\ UNCHANGED <<Arguments, csPc, left, results, outcome, Memory, got, waited, late>>

Start ==
    /\ csPc = "start"
    /\ IF ValidateCommandSequence(program)
       THEN csPc' = "check" /\ UNCHANGED outcome
       ELSE csPc' = "done" /\ outcome' = "RejectedUnsafe"
    /\ UNCHANGED <<Arguments, cancel, left, results, Memory, got, waited, late>>

CheckStep ==
    /\ csPc = "check"
    /\ IF cancel
       THEN EndStep("Cancelled", "none") /\ UNCHANGED left
       ELSE /\ csPc' = "run"
            /\ left' = CASE Step.kind = "Delay" -> Step.ms
                         [] Step.kind = "ModbusRead" -> Step.retries + 1
                         [] OTHER -> 0
            /\ UNCHANGED <<results, outcome, got>>
    /\ NoCall /\ UNCHANGED <<Arguments, cancel, Memory>>

\* The context has no backend for the step.  A delay of 0 needs none.
NoBackend ==
    /\ csPc = "run" /\ Step.kind \in {"SerialWrite", "Delay", "Wait", "ModbusRead"} \ backends
    /\ ~(Step.kind = "Delay" /\ Step.ms = 0)
    /\ EndStep("Failed", "none")
    /\ NoCall /\ UNCHANGED <<Arguments, cancel, left, Memory>>

\* enqueueWrite returns the admission; nothing is waited for.
RunSerialWrite(accepted) ==
    /\ Running("SerialWrite") /\ "SerialWrite" \in backends
    /\ lastWrite' = IF accepted THEN "accepted" ELSE "refused"
    /\ EndStep(IF accepted THEN "Completed" ELSE "Failed", lastWrite')
    /\ Call(0) /\ UNCHANGED <<Arguments, cancel, left, lastResponse, lastRead>>

\* Mutant: a delay looks at the cancellation at its end only.
CancelledAtTheEnd == cancel /\ left = 0

DelayCancelled == cancel

RunDelay ==
    /\ Running("Delay") /\ (Step.ms = 0 \/ "Delay" \in backends)
    /\ CASE Step.ms # 0 /\ DelayCancelled -> EndStep("Cancelled", "none")
         [] left = 0 -> EndStep("Completed", "none")
         [] OTHER -> csPc' = "sleep" /\ UNCHANGED <<results, outcome, got>>
    /\ NoCall /\ UNCHANGED <<Arguments, cancel, left, Memory>>

SleepSlice ==
    /\ csPc = "sleep"
    /\ LET slice == IF left < Slice THEN left ELSE Slice
       IN  left' = left - slice /\ Call(slice)
    /\ csPc' = "run"
    /\ UNCHANGED <<Arguments, cancel, results, outcome, Memory, got>>

\* Mutant: the first response is kept.
FirstResponse(response) == IF lastResponse = << >> THEN <<response>> ELSE lastResponse

LatestResponse(response) == <<response>>

WaitForResponse(response) ==
    /\ Running("Wait") /\ "Wait" \in backends
    /\ lastResponse' = LatestResponse(response)
    /\ EndStep(IF Step.pattern \in response THEN "Completed" ELSE "Failed", response)
    /\ \E time \in {0, Step.timeout} : Call(time)
    /\ UNCHANGED <<Arguments, cancel, left, lastWrite, lastRead>>

NoResponse ==
    /\ Running("Wait") /\ "Wait" \in backends
    /\ EndStep("Timeout", "none") /\ Call(Step.timeout)
    /\ UNCHANGED <<Arguments, cancel, left, Memory>>

ReadOptions(s) == [first |-> s.first, last |-> s.first + s.quantity - 1,
                   blockSize |-> s.quantity, retryCount |-> s.retries]

StartRead ==
    /\ Running("ModbusRead") /\ "ModbusRead" \in backends
    /\ IF BuildScanPlan(ReadOptions(Step)) = << >>
       THEN EndStep("Failed", "none")
       ELSE csPc' = "attempt" /\ UNCHANGED <<results, outcome, got>>
    /\ NoCall /\ UNCHANGED <<Arguments, cancel, left, Memory>>

\* The executor looks before the block and before each attempt of it.
StartAttempt ==
    /\ csPc = "attempt"
    /\ IF cancel
       THEN lastRead' = [status |-> "Cancelled"] /\ EndStep("Cancelled", "none")
       ELSE csPc' = "exchange" /\ UNCHANGED <<results, outcome, got, lastRead>>
    /\ NoCall /\ UNCHANGED <<Arguments, cancel, left, lastWrite, lastResponse>>

ReadSucceeds(values) ==
    /\ csPc = "exchange"
    /\ lastRead' = [status |-> "Completed", values |-> values]
    /\ EndStep("Completed", values)
    /\ \E time \in {0, Step.timeout} : Call(time)
    /\ UNCHANGED <<Arguments, cancel, left, lastWrite, lastResponse>>

\* The scan of the step ends without success.
EndRead(status) ==
    /\ lastRead' = [status |-> IF status = "Cancelled" THEN "Cancelled" ELSE "Failed"]
    /\ EndStep(status, "none")

AttemptFails(how) ==
    /\ csPc = "exchange"
    /\ left' = left - 1
    /\ \E time \in IF how = "Timeout" THEN {Step.timeout} ELSE {0, Step.timeout} : Call(time)
    /\ CASE cancel -> EndRead("Cancelled")
         [] ~cancel /\ left > 1 /\ how \in {"Timeout", "TransportError"} ->
                csPc' = "attempt" /\ UNCHANGED <<results, outcome, got, lastRead>>
         [] OTHER -> EndRead(IF how = "Timeout" THEN "Timeout" ELSE "Failed")
    /\ UNCHANGED <<Arguments, cancel, lastWrite, lastResponse>>

Passed(s) ==
    CASE s.kind = "Accepted" -> lastWrite = "accepted"
      [] s.kind = "Contains" -> lastResponse # << >> /\ s.pattern \in lastResponse[1]
      [] s.kind = "ReadSucceeded" -> lastRead.status = "Completed"
      [] s.kind = "Register" ->
            /\ lastRead.status = "Completed"
            /\ s.address \in DOMAIN lastRead.values /\ lastRead.values[s.address] = s.value

RunAssertion ==
    /\ csPc = "run" /\ Step.kind \in {"Accepted", "Contains", "ReadSucceeded", "Register"}
    /\ EndStep(IF Passed(Step) THEN "Completed" ELSE "AssertionFailed", "none")
    /\ NoCall /\ UNCHANGED <<Arguments, cancel, left, Memory>>

ReadAnswers ==
    IF csPc = "exchange" THEN [Step.first..(Step.first + Step.quantity - 1) -> Values] ELSE {}

CsNext ==
    \/ Cancel \/ Start \/ CheckStep \/ NoBackend
    \/ \E accepted \in BOOLEAN : RunSerialWrite(accepted)
    \/ RunDelay \/ SleepSlice
    \/ (\E response \in Responses : WaitForResponse(response)) \/ NoResponse
    \/ StartRead \/ StartAttempt
    \/ \E values \in ReadAnswers : ReadSucceeds(values)
    \/ \E how \in {"Timeout", "TransportError", "ParseError", "ModbusException"} : AttemptFails(how)
    \/ RunAssertion

--------------------------------------------------------------------------------
\* The latest step before i of this kind.
Latest(kind, i) ==
    LET before == {j \in 1..(i - 1) : program[j].kind = kind}
    IN  IF before = {} THEN 0 ELSE CHOOSE j \in before : \A k \in before : k <= j

\* What an assertion claims, of what the backends returned.
Holds(i) ==
    LET s == program[i]
        of(kind) == Latest(kind, i)
    IN  CASE s.kind = "Accepted" -> of("SerialWrite") # 0 /\ got[of("SerialWrite")] = "accepted"
          [] s.kind = "Contains" -> of("Wait") # 0 /\ s.pattern \in got[of("Wait")]
          [] s.kind = "ReadSucceeded" -> of("ModbusRead") # 0
          [] s.kind = "Register" ->
                /\ of("ModbusRead") # 0
                /\ s.address \in DOMAIN got[of("ModbusRead")]
                /\ got[of("ModbusRead")][s.address] = s.value
          [] OTHER -> TRUE

\* A sequence spends no more time than the limit it was validated against, retries
\* included; a cancellation is followed by at most one more call of a backend; and when a
\* sequence completes, each of its assertions holds of what the latest step of its kind was
\* answered, not of an earlier one.
SequenceKeepsItsPromises ==
    /\ waited <= Limits.totalBudget
    /\ late <= 1
    /\ outcome = "Completed" => \A i \in 1..Len(program) : Holds(i)
=============================================================================
