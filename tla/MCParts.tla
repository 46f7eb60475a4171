-------------------------------- MODULE MCParts --------------------------------
(***************************************************************************)
(* The parts of the program that share no state with each other, the write *)
(* queue on its own, and the native store with two failures, one of them   *)
(* at a time: which one a behavior is about is chosen at its start, and    *)
(* the variables of the others stay at 0, those of the queue as they       *)
(* begin.                                                                  *)
(***************************************************************************)
EXTENDS SerialWriteQueue, FiniteSets

CONSTANTS Absent, NoDir    \* model values

VARIABLES
    part,
    \* CommandSequence
    program, backends, cancel, csPc, left, stepResults, outcome,
    lastWrite, lastResponse, lastRead, got, waited, late,
    \* LogView
    next, entries, pending, shown, trimmed, flushTimer, reasons, frameQueued, messages,
    paused, limits, filter, format, timerFailed,
    \* StoreCache
    store, storeOpen, parents, children, saves, asked, repaired,
    \* RecordFile
    bytes, orphan, usable, appends, kept, tail, lastTail, unclear,
    \* EvidenceBundle
    dirs, bundle, bwPc, temporary, tries, success, notRemoved,
    \* Candidates
    sorted, request, at, found, finished,
    \* AnalysisWorkflow
    scans, matches, rules, verifications, isOpen, latestMatch, latestVerification, cached, combo,
    exported,
    \* NativeStore
    disk, opened, nextId, dirty, task, known, crashes, faults,
    \* SendHistory
    edit, settings, writes, file, offered, sends, saved, wasSent

--------------------------------------------------------------------------------
SequenceLimits == [commandCount |-> 3, payload |-> 2, commandTimeout |-> 5, delay |-> 3,
                   totalBudget |-> 8, quantity |-> 3, retries |-> 1]

Write(length) == [kind |-> "SerialWrite", size |-> length, timeout |-> 2]
Delay(ms) == [kind |-> "Delay", ms |-> ms]
Wait(pattern) == [kind |-> "Wait", pattern |-> pattern, size |-> 1, timeout |-> 3]
Read(first, quantity, retries, timeout) ==
    [kind |-> "ModbusRead", supported |-> TRUE, first |-> first, quantity |-> quantity,
     retries |-> retries, timeout |-> timeout]
Heard(pattern) == [kind |-> "Contains", pattern |-> pattern, size |-> 1]
Register(address) == [kind |-> "Register", address |-> address, value |-> 1]

\* The lower-case p and q are two byte patterns; the reads cover one or two of the registers
\* 0..3, and one of them is too large for a plan.
Steps == {Write(1), Write(3), Delay(0), Delay(3), Wait("p"), Wait("q"), Read(1, 2, 1, 2),
          Read(2, 1, 1, 5), Read(0, 3, 0, 1), Heard("p"), Register(1),
          [kind |-> "Accepted"], [kind |-> "ReadSucceeded"]}

\* Of the write queue: 1, 2 and 4 fill the byte capacity of 3 from both sides, 0 is refused.
MCPayloadSizes == {0, 1, 2, 4}
MCTimeoutValues == {0, 1}

CS == INSTANCE CommandSequence WITH
    results <- stepResults,
    MaxAddress <- 3, MaxReadQuantity <- 3, MaxBlockSize <- 2, MaxPlanRegisters <- 4,
    MaxRetryCount <- 1, MaxInt <- 9, Slice <- 2, Limits <- SequenceLimits,
    Programs <- UNION {[1..n -> Steps] : n \in 0..3},
    Available <- {{"SerialWrite", "Delay", "Wait", "ModbusRead"}, {"Wait"}},
    Responses <- SUBSET {"p", "q"}, Values <- {0, 1}

Log == INSTANCE LogView WITH
    TrimBatch <- 2, MaxEntries <- 5, Filters <- {{0, 1}, {0}, {1}}, Formats <- {"text", "hex"},
    CacheLimits <- {[entries |-> 3, visible |-> 2], [entries |-> 2, visible |-> 3]}

Cache == INSTANCE StoreCache WITH
    Groups <- {<<"sessions", "attempts">>, <<"runs", "candidates">>}, Keys <- {"k1", "k2"},
    MaxSaves <- 2

\* Records of 5 to 8 bytes, two of which fit the target.
File == INSTANCE RecordFile WITH
    RecordShapes <- {<<1>>, <<1, 2>>, <<0, 1>>}, Soft <- 20, Target <- 15, Limit <- 2, MaxAppends <- 4

Bundle == INSTANCE EvidenceBundle WITH Writers <- {"w1", "w2"}, Nonces <- {"n1", "n2"}, Attempts <- 2

AllTypes == {"UInt16", "Int16", "PackedBCD", "Gray16", "BitFlags", "UInt32", "Int32", "Float32"}
Scale(multiplier, offset) == [multiplier |-> multiplier, offset |-> offset]

\* Registers of two devices: 18 is 12 or 21, 33 the other way round, 10 and 160 no decimals.
AtDevice(device, address) == [device |-> device, address |-> address]
AllRead == (AtDevice(1, 1) :> 160) @@ (AtDevice(1, 2) :> 18) @@ (AtDevice(2, 2) :> 10)
\* The second register of the first device could not be read, and the others have changed.
NoSecond == (AtDevice(1, 1) :> 10) @@ (AtDevice(2, 2) :> 33)

\* 18 is 0x12, 33 its bytes swapped, 254 a small negative number.
Match == INSTANCE Candidates WITH
    Byte <- 16, MaxSamples <- 3,
    Samples <- [series : {1, 2}, address : 1..3, value : {0, 18, 254}],
    Floats <- [c \in {18, 4626, 4608} |-> c % 7],
    Requests <- {[target |-> 182, tolerance |-> 15, max |-> 2, types |-> AllTypes,
                  scales |-> {Scale(10, 0), Scale(1, 0), Scale(0, 0)}],
                 [target |-> -20, tolerance |-> 0, max |-> 1, types |-> AllTypes,
                  scales |-> {Scale(10, 0), Scale(10, 20)}],
                 [target |-> 12, tolerance |-> 12, max |-> 3,
                  types |-> {"PackedBCD", "Float32", "Int32"}, scales |-> {Scale(10, 0), Scale(1, 0)}]}

Analysis == INSTANCE AnalysisWorkflow WITH
    Byte <- 16, Floats <- [c \in {} |-> 0], Types <- {"PackedBCD"}, Scales <- {Scale(1, 0)},
    Contents <- {AllRead, NoSecond},
    RuleLimit <- 1, MaxScans <- 2, MaxCandidates <- 2, MaxVerifications <- 2

\* Everything that can fail in a save, and the counters that cannot be put back: with two
\* failures also the undoing of one.
AnyInSave ==
    ({"write"} \X {"artifacts", "others", "tail", "counters", "temps"})
    \cup ({"rename"} \X {"recover", "artifacts", "others", "tail", "counters", "undo",
                         "swap", "abort"})
    \cup ({"remove"} \X {"recover", "artifacts", "others", "tail", "abort", "cleanup"})

Faulty == INSTANCE NativeStore WITH
    Raw <- "raw_io_events", History <- "send_history", Group <- <<"scan_sessions", "scan_attempts">>,
    Counters <- "id_counters", SoftLimit <- 1, Calls <- {"append", "rewrite", "save"},
    MaxId <- 3, MaxCrashes <- 2, MaxFaults <- 2, FaultPoints <- AnyInSave

\* A text that is not binary, one that is not decimal, and one that is only text.
Chosen(mode, ending, page) == [mode |-> mode, ending |-> ending, page |-> page]
Sending == INSTANCE SendHistory WITH
    Texts <- {<<1, 16, 2>>, <<1, 0, 0, 0, 0, 0, 0, 1>>}, QuickTexts <- {<<17>>},
    Settings <- {Chosen("text", "CR", "UTF8"), Chosen("hex", "None", "UTF8"),
                 Chosen("decimal", "None", "UTF8"), Chosen("binary", "None", "UTF8")},
    BitsPerByte <- 8, SavedLimit <- 2, ShownLimit <- 1, MaxSends <- 3, shown <- offered

ASSUME CS!SequenceAssumption
ASSUME Match!RequestAssumption

--------------------------------------------------------------------------------
sequenceIdle == <<program, backends, cancel, csPc, left, stepResults, outcome, lastWrite, lastResponse,
                  lastRead, got, waited, late>>
logIdle == <<next, entries, pending, shown, trimmed, flushTimer, reasons, frameQueued, messages,
             paused, limits, filter, format, timerFailed>>
cacheIdle == <<store, storeOpen, parents, children, saves, asked, repaired>>
fileIdle == <<bytes, orphan, usable, appends, kept, tail, lastTail, unclear>>
bundleIdle == <<dirs, bundle, bwPc, temporary, tries, success, notRemoved>>
matchIdle == <<sorted, request, at, found, finished>>
analysisIdle == <<scans, matches, rules, verifications, isOpen, latestMatch, latestVerification,
                  cached, combo, exported>>
sendingIdle == <<edit, settings, writes, file, offered, sends, saved, wasSent>>
faultsIdle == <<disk, opened, nextId, dirty, task, known, crashes, faults>>

NoSequence ==
    /\ program = 0 /\ backends = 0 /\ cancel = 0 /\ csPc = 0 /\ left = 0 /\ stepResults = 0
    /\ outcome = 0
    /\ lastWrite = 0 /\ lastResponse = 0 /\ lastRead = 0 /\ got = 0 /\ waited = 0 /\ late = 0
NoLog ==
    /\ next = 0 /\ entries = 0 /\ pending = 0 /\ shown = 0 /\ trimmed = 0 /\ flushTimer = 0
    /\ reasons = 0 /\ frameQueued = 0 /\ messages = 0 /\ paused = 0 /\ limits = 0 /\ filter = 0
    /\ format = 0 /\ timerFailed = 0
NoCache ==
    /\ store = 0 /\ storeOpen = 0 /\ parents = 0 /\ children = 0 /\ saves = 0 /\ asked = 0 /\ repaired = 0
NoFile ==
    /\ bytes = 0 /\ orphan = 0 /\ usable = 0 /\ appends = 0 /\ kept = 0 /\ tail = 0 /\ lastTail = 0
    /\ unclear = 0
NoBundle ==
    /\ dirs = 0 /\ bundle = 0 /\ bwPc = 0 /\ temporary = 0 /\ tries = 0 /\ success = 0 /\ notRemoved = 0
NoMatch == sorted = 0 /\ request = 0 /\ at = 0 /\ found = 0 /\ finished = 0
NoAnalysis ==
    /\ scans = 0 /\ matches = 0 /\ rules = 0 /\ verifications = 0 /\ isOpen = 0 /\ latestMatch = 0
    /\ latestVerification = 0 /\ cached = 0 /\ combo = 0 /\ exported = 0
NoSending ==
    /\ edit = 0 /\ settings = 0 /\ writes = 0 /\ file = 0 /\ offered = 0 /\ sends = 0
    /\ saved = 0 /\ wasSent = 0
NoFaults ==
    /\ disk = 0 /\ opened = 0 /\ nextId = 0 /\ dirty = 0 /\ task = 0 /\ known = 0
    /\ crashes = 0 /\ faults = 0

PartsInit ==
    /\ Init
    /\ \/ /\ part = "queue"
          /\ NoSequence /\ NoLog /\ NoCache /\ NoFile /\ NoBundle
          /\ NoMatch /\ NoAnalysis /\ NoFaults /\ NoSending
       \/ /\ part = "sequence" /\ CS!CsInit
          /\ NoLog /\ NoCache /\ NoFile /\ NoBundle
          /\ NoMatch /\ NoAnalysis /\ NoFaults /\ NoSending
       \/ /\ part = "log" /\ Log!LogInit
          /\ NoSequence /\ NoCache /\ NoFile /\ NoBundle
          /\ NoMatch /\ NoAnalysis /\ NoFaults /\ NoSending
       \/ /\ part = "cache" /\ Cache!CacheInit
          /\ NoSequence /\ NoLog /\ NoFile /\ NoBundle
          /\ NoMatch /\ NoAnalysis /\ NoFaults /\ NoSending
       \/ /\ part = "file" /\ File!FileInit
          /\ NoSequence /\ NoLog /\ NoCache /\ NoBundle
          /\ NoMatch /\ NoAnalysis /\ NoFaults /\ NoSending
       \/ /\ part = "bundle" /\ Bundle!BundleInit
          /\ NoSequence /\ NoLog /\ NoCache /\ NoFile
          /\ NoMatch /\ NoAnalysis /\ NoFaults /\ NoSending
       \/ /\ part = "match" /\ Match!CandidateInit
          /\ NoSequence /\ NoLog /\ NoCache /\ NoFile
          /\ NoBundle /\ NoAnalysis /\ NoFaults /\ NoSending
       \/ /\ part = "analysis" /\ Analysis!WorkflowInit
          /\ NoSequence /\ NoLog /\ NoCache /\ NoFile
          /\ NoBundle /\ NoMatch /\ NoFaults /\ NoSending
       \/ /\ part = "faults" /\ Faulty!Init
          /\ NoSequence /\ NoLog /\ NoCache /\ NoFile
          /\ NoBundle /\ NoMatch /\ NoAnalysis /\ NoSending
       \/ /\ part = "sending" /\ Sending!HistoryInit
          /\ NoSequence /\ NoLog /\ NoCache /\ NoFile
          /\ NoBundle /\ NoMatch /\ NoAnalysis /\ NoFaults

PartsNext ==
    \/ /\ part = "queue" /\ Next
       /\ UNCHANGED <<part, sequenceIdle, logIdle, cacheIdle, fileIdle, bundleIdle,
                      matchIdle, analysisIdle, faultsIdle, sendingIdle>>
    \/ /\ part = "sequence" /\ CS!CsNext
       /\ UNCHANGED <<part, vars, logIdle, cacheIdle, fileIdle, bundleIdle,
                      matchIdle, analysisIdle, faultsIdle, sendingIdle>>
    \/ /\ part = "log" /\ Log!LogNext
       /\ UNCHANGED <<part, vars, sequenceIdle, cacheIdle, fileIdle, bundleIdle,
                      matchIdle, analysisIdle, faultsIdle, sendingIdle>>
    \/ /\ part = "cache" /\ Cache!CacheNext
       /\ UNCHANGED <<part, vars, sequenceIdle, logIdle, fileIdle, bundleIdle,
                      matchIdle, analysisIdle, faultsIdle, sendingIdle>>
    \/ /\ part = "file" /\ File!FileNext
       /\ UNCHANGED <<part, vars, sequenceIdle, logIdle, cacheIdle, bundleIdle,
                      matchIdle, analysisIdle, faultsIdle, sendingIdle>>
    \/ /\ part = "bundle" /\ Bundle!BundleNext
       /\ UNCHANGED <<part, vars, sequenceIdle, logIdle, cacheIdle, fileIdle,
                      matchIdle, analysisIdle, faultsIdle, sendingIdle>>
    \/ /\ part = "match" /\ Match!CandidateNext
       /\ UNCHANGED <<part, vars, sequenceIdle, logIdle, cacheIdle, fileIdle,
                      bundleIdle, analysisIdle, faultsIdle, sendingIdle>>
    \/ /\ part = "analysis" /\ Analysis!WorkflowNext
       /\ UNCHANGED <<part, vars, sequenceIdle, logIdle, cacheIdle, fileIdle,
                      bundleIdle, matchIdle, faultsIdle, sendingIdle>>
    \/ /\ part = "faults" /\ Faulty!Next
       /\ UNCHANGED <<part, vars, sequenceIdle, logIdle, cacheIdle, fileIdle,
                      bundleIdle, matchIdle, analysisIdle, sendingIdle>>
    \/ /\ part = "sending" /\ Sending!HistoryNext
       /\ UNCHANGED <<part, vars, sequenceIdle, logIdle, cacheIdle, fileIdle,
                      bundleIdle, matchIdle, analysisIdle, faultsIdle>>

partsVars == <<vars, part, sequenceIdle, logIdle, cacheIdle, fileIdle, bundleIdle, matchIdle,
          analysisIdle, faultsIdle, sendingIdle>>

PartsSpec == PartsInit /\ [][PartsNext]_partsVars

--------------------------------------------------------------------------------
\* executeCommandSequence: no more time than validated for, at most one call after a
\* cancellation, and assertions that are about the latest answer.
SequenceKeepsItsPromises == part = "sequence" => CS!SequenceKeepsItsPromises

\* main_window_log.cpp: no line is lost, doubled or left waiting between the log and the view.
LogShowsWhatCame == part = "log" => Log!LogShowsWhatCame

\* native_session_store_cache.cpp: queries return what the files hold.
QueriesAreFresh == part = "cache" => Cache!QueriesAreFresh

\* native_store_record_io.cpp: records written whole survive compaction and repair.
WholeRecordsAreReadBack == part = "file" => File!WholeRecordsAreReadBack

\* writeEvidenceBundle: success exactly for a whole bundle of one's own.
BundleIsWholeAndMine == part = "bundle" => Bundle!BundleIsWholeAndMine

\* generateValueCandidates: the best explanations of the target and nothing else.
BestExplanations == part = "match" => Match!BestExplanations

\* native_analysis_workflow.cpp: what is verified is what the candidate of the rule said, for
\* candidates of the standard order.
VerifiedReadsAsCandidate == part = "analysis" => Analysis!VerifiedReadsAsCandidate

\* main_window_send.cpp: the items of the send history send again what was sent with them.
HistorySendsAgain == part = "sending" => Sending!HistorySendsAgain

\* The guide and the tests: verification checks the saved rules, of any order
\* (native_analysis_workflow.cpp:89 saves names that the verification does not know).
EveryOrderIsVerified == part = "analysis" => Analysis!EveryOrderIsVerified

\* native_session_store.cpp: a call that returns true has its effect in what recovery
\* preserves, and a save or a rewrite that returns false has none.
ResultTellsEffect == [][part = "faults" => Faulty!ResultStep]_partsVars
================================================================================
