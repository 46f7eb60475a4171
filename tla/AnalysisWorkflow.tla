--------------------------- MODULE AnalysisWorkflow ---------------------------
(***************************************************************************)
(* From a scan to a report (main_window_analysis.cpp with                  *)
(* native_analysis_workflow.cpp and native_candidate_cache_state.cpp): the *)
(* candidates of an analysis are saved and offered in a combo box, the     *)
(* selected one becomes a rule, the rules are verified against the latest  *)
(* scan, and the verification is exported.  The store keeps all of this    *)
(* when the program is restarted; the window keeps only what it loaded.    *)
(*                                                                         *)
(* The user's clicks are handled one after the other on the window's       *)
(* thread.  Any query may fail, and then finds nothing; a save that fails  *)
(* changes nothing (NativeStore).  A run is its position in the file.      *)
(***************************************************************************)
EXTENDS RegisterValues

CONSTANTS
    Contents,      \* what a scan may have read: functions from registers to values
    Scales,        \* [multiplier, offset]
    Types,         \* of SingleTypes and PairTypes
    RuleLimit,     \* rules that are verified, 200 in the code
    MaxScans, MaxCandidates, MaxVerifications     \* bounds on what the store holds

\* A register is [device, address]; a device stands for slave and function code.

VARIABLES
    scans,         \* scan_sessions with scan_observations
    matches,       \* match_runs with match_candidates
    rules,         \* protocol_field_rules, in the order of the file
    verifications, \* rule_verification_runs with rule_verification_results
    isOpen,        \* store_.isOpen()
    latestMatch, latestVerification,    \* latestMatchRunId_, latestVerificationRunId_, 0 if empty
    cached,        \* [run, candidates]: cachedCandidateRunId_, candidateRecords_
    combo,         \* [items, selected]: ids of the items after the placeholder, which is item 0
    exported       \* the verification that the last export is about, 0 if none

storeVars == <<scans, matches, rules, verifications>>
windowVars == <<isOpen, latestMatch, latestVerification, cached, combo, exported>>

(***************************************************************************)
(* Records.                                                                *)
(***************************************************************************)
\* wordOrderName and byteOrderName give names to show, in Chinese ...
WordOrderName == [HighWordFirst |-> "high word first", LowWordFirst |-> "low word first"]
ByteOrderName == [BigEndian |-> "high byte first", LittleEndian |-> "low byte first"]

\* ... and decodeNumericValue of text knows keys.
WordOrderFromKey(text) == IF text = "LowWordFirst" THEN "LowWordFirst" ELSE "HighWordFirst"
ByteOrderFromKey(text) == IF text = "LittleEndian" THEN "LittleEndian" ELSE "BigEndian"

RegistersOf(c) == [i \in 1..c.count |-> [device |-> c.device, address |-> c.start + i - 1]]
Values(scan, registers) == [i \in DOMAIN registers |-> scan[registers[i]]]

\* All readings of a scan, of which generateValueCandidates (Candidates) selects some.
Readings(scan) ==
    LET of(types, orders, count) ==
            {[type |-> t, order |-> o, device |-> r.device, start |-> r.address, count |-> count,
              scale |-> s] : t \in types \cap Types, o \in orders, r \in DOMAIN scan, s \in Scales}
    IN  {r \in of(SingleTypes, SingleOrders, 1) \cup of(PairTypes, Orders, 2) :
            /\ ToSet(RegistersOf(r)) \subseteq DOMAIN scan
            /\ DecodeNumericValue(r.type, r.order, Values(scan, RegistersOf(r))) # {}}
ReadingsOf == [scan \in Contents |-> Readings(scan)]

Scaled(scale, v) == v * scale.multiplier + scale.offset

\* nativeCandidateRecordFromCore
CandidateRecord(r, run, id, scan) ==
    [id |-> id, run |-> run, type |-> r.type,
     word |-> WordOrderName[r.order.word], byte |-> ByteOrderName[r.order.byte],
     device |-> r.device, start |-> r.start, count |-> r.count, scale |-> r.scale,
     value |-> Scaled(r.scale, CHOOSE v \in DecodeNumericValue(r.type, r.order,
                                                Values(scans[scan], RegistersOf(r))) : TRUE)]

\* saveRuleFromCandidate.  The id of a rule is made of the candidate's.
RuleFromCandidate(c) ==
    [id |-> c.id, type |-> c.type, word |-> c.word, byte |-> c.byte, device |-> c.device,
     start |-> c.start, count |-> c.count, scale |-> c.scale]

\* rewriteRecordsFiltered
RewriteFiltered(records, keep, appended) == SelectSeq(records, LAMBDA r : r \in keep) \o appended
SaveRule(rule) == RewriteFiltered(rules, {r \in ToSet(rules) : r.id # rule.id}, <<rule>>)

\* A query that may fail.
Query(records) == {records, << >>}

\* The latest record of a file, 0 if there is none or the query fails.
Latest(records) == {Len(found) : found \in Query(records)}

\* recentProtocolFieldRules, latest first.
RecentRules == SubSeq(Reverse(rules), 1, Min({RuleLimit, Len(rules)}))

(***************************************************************************)
(* nativeBuildRuleVerificationResult.                                      *)
(***************************************************************************)
\* Mutant: any device that has a register with the address.
IndexedByAddress(rule, address, scan) == {r \in DOMAIN scan : r.address = address}

\* nativeFindIndexedObservation; no register is read twice in a scan.
IndexedObservation(rule, address, scan) ==
    {r \in DOMAIN scan : r.device = rule.device /\ r.address = address}

Result(rule, scan) ==
    LET observed(i) == IndexedObservation(rule, rule.start + i - 1, scan)
        registers == [i \in 1..rule.count |-> scan[CHOOSE r \in observed(i) : TRUE]]
        order == [word |-> WordOrderFromKey(rule.word), byte |-> ByteOrderFromKey(rule.byte)]
    IN  IF \E i \in 1..rule.count : observed(i) = {} THEN [rule |-> rule.id, status |-> "missing"]
        ELSE LET decoded == DecodeNumericValue(rule.type, order, registers)
             IN  IF decoded = {} THEN [rule |-> rule.id, status |-> "unsupported"]
                 ELSE [rule |-> rule.id, status |-> "verified",
                       value |-> Scaled(rule.scale, CHOOSE v \in decoded : TRUE)]

(***************************************************************************)
(* The combo box and the cached candidates.                                *)
(***************************************************************************)
Placeholder == [items |-> << >>, selected |-> 0]

IsCacheFor(run) == cached.run = run

\* loadCandidateCache: what it leaves, for a query that succeeds or not.
Loaded(run, runs) ==
    IF IsCacheFor(run) THEN {cached}
    ELSE {[run |-> run, candidates |-> c] : c \in Query(runs[run].candidates)}

\* refreshCandidateCombo, with the cache that was loaded.
ComboOf(cache) ==
    [items |-> [i \in DOMAIN cache.candidates |-> cache.candidates[i].id],
     selected |-> IF cache.candidates = << >> THEN 0 ELSE 1]

\* Both are sets with at most one candidate.
CandidateById(cache, id) == {c \in ToSet(cache.candidates) : c.id = id}
DefaultCandidate(cache) == {cache.candidates[i] : i \in DOMAIN cache.candidates \cap {1}}

\* The candidate of the selected item; the placeholder stands for the default.
SelectedIn(cache) ==
    LET byId == IF combo.selected = 0 THEN {} ELSE CandidateById(cache, combo.items[combo.selected])
    IN  IF byId # {} THEN byId ELSE DefaultCandidate(cache)

(***************************************************************************)
(* Actions.                                                                *)
(***************************************************************************)
\* handleCreateMessage: only an open store finds something.
Created(opens) ==
    /\ isOpen' = opens
    /\ \E runs \in IF opens THEN Query(matches) ELSE {<< >>} :
           IF runs = << >>
           THEN latestMatch' = 0 /\ cached' = [run |-> 0, candidates |-> << >>] /\ combo' = Placeholder
           ELSE /\ latestMatch' = Len(runs)
                /\ \E c \in Query(matches[Len(runs)].candidates) :
                       cached' = [run |-> Len(runs), candidates |-> c]
                /\ combo' = ComboOf(cached')
    /\ latestVerification' \in IF opens THEN Latest(verifications) ELSE {0}

WorkflowInit ==
    /\ scans = << >> /\ matches = << >> /\ rules = << >> /\ verifications = << >>
    /\ isOpen \in BOOLEAN /\ latestMatch = 0 /\ latestVerification = 0
    /\ cached = [run |-> 0, candidates |-> << >>] /\ combo = Placeholder /\ exported = 0

Restart ==
    /\ \E opens \in BOOLEAN : Created(opens)
    /\ exported' = 0
    /\ UNCHANGED storeVars

\* The end of a scan (ModbusScanUi), with the store open.
ScanSaved ==
    /\ isOpen /\ Len(scans) < MaxScans
    /\ \E content \in Contents : scans' = Append(scans, content)
    /\ UNCHANGED <<matches, rules, verifications, windowVars>>

Candidates == UNION {ToSet(matches[m].candidates) : m \in DOMAIN matches}

\* analysisDecision, as far as the store goes: a scan with observations.
ScanIsThere == scans # << >> /\ DOMAIN Last(scans) # {}

\* showAnalysisWorkspace, when all queries and the save succeed; otherwise only the status
\* changes.  One or two candidates stand for up to 30.
ShowAnalysisWorkspace ==
    /\ isOpen /\ ScanIsThere
    /\ \E first, second \in ReadingsOf[Last(scans)] :
           LET list == IF first = second THEN <<first>> ELSE <<first, second>> IN
           /\ Cardinality(Candidates) + Len(list) <= MaxCandidates
           /\ matches' = Append(matches,
               [scan |-> Len(scans),
                candidates |-> [i \in DOMAIN list |-> CandidateRecord(list[i], Len(matches) + 1,
                                     Cardinality(Candidates) + i, Len(scans))]])
    /\ latestMatch' = Len(matches')
    /\ cached' \in Loaded(Len(matches'), matches')
    /\ combo' = ComboOf(cached')
    /\ UNCHANGED <<scans, rules, verifications, isOpen, latestVerification, exported>>

SelectCandidate ==
    /\ \E i \in 0..Len(combo.items) : combo' = [combo EXCEPT !.selected = i]
    /\ UNCHANGED <<storeVars, isOpen, latestMatch, latestVerification, cached, exported>>

\* selectedCandidate, but for the candidate itself.
LoadSelected ==
    \E run \in IF latestMatch # 0 THEN {latestMatch} ELSE Latest(matches) :
        /\ latestMatch' = run
        /\ IF run = 0 THEN cached' = cached ELSE cached' \in Loaded(run, matches)

\* The candidate that showRuleVerification works with, if any.
Chosen == IF latestMatch' = 0 THEN {} ELSE SelectedIn(cached')

\* runRuleVerification against the latest scan, with the rules as they are now.
RunRuleVerification(checked) ==
    /\ ScanIsThere /\ checked # << >>
    /\ Len(verifications) < MaxVerifications
    /\ verifications' = Append(verifications,
           [scan |-> Len(scans), results |-> [i \in DOMAIN checked |-> Result(checked[i], Last(scans))]])
    /\ latestVerification' = Len(verifications')

\* showRuleVerification: whatever fails ends it, and what was saved before stays.
ShowRuleVerification ==
    /\ isOpen
    /\ LoadSelected
    /\ \/ \E c \in Chosen : rules' = SaveRule(RuleFromCandidate(c))
       \/ Chosen = {} /\ UNCHANGED rules
    /\ RunRuleVerification(RecentRules')
    /\ UNCHANGED <<scans, matches, isOpen, combo, exported>>

VerificationFails ==
    /\ isOpen
    /\ LoadSelected
    /\ \/ \E c \in Chosen : rules' = SaveRule(RuleFromCandidate(c))
       \/ UNCHANGED rules
    /\ UNCHANGED <<scans, matches, verifications, isOpen, latestVerification, combo, exported>>

\* The verification that an export is about.
ReportedRun == IF latestVerification # 0 THEN {latestVerification} ELSE Latest(verifications)

\* exportReport, with the dialog confirmed and the file written.
ExportReport ==
    /\ isOpen
    /\ exported' \in ReportedRun \ {0}
    /\ UNCHANGED <<storeVars, isOpen, latestMatch, latestVerification, cached, combo>>

\* exportEvidenceBundle: a bundle (EvidenceBundle) has a report only if there is a run.
ExportEvidenceBundle ==
    /\ isOpen
    /\ exported' \in ReportedRun
    /\ UNCHANGED <<storeVars, isOpen, latestMatch, latestVerification, cached, combo>>

WorkflowNext ==
    \/ Restart \/ ScanSaved \/ ShowAnalysisWorkspace \/ SelectCandidate
    \/ ShowRuleVerification \/ VerificationFails \/ ExportReport
    \/ ExportEvidenceBundle

--------------------------------------------------------------------------------
(***************************************************************************)
(* What the user takes a verified rule for: the candidate it was saved     *)
(* from, read again.                                                       *)
(***************************************************************************)
\* The order that the names of a candidate stand for.
OrderOf(c) == CHOOSE o \in Orders : WordOrderName[o.word] = c.word /\ ByteOrderName[o.byte] = c.byte

StandardOrder(c) == OrderOf(c) = [word |-> "HighWordFirst", byte |-> "BigEndian"]

\* The result says what a device must have sent, read as the candidate, and in the scan that
\* the candidate is from it is the candidate's value.
ReadsAs(result, c, run) ==
    LET registers == RegistersOf(c)
        scan == scans[run.scan]
        observed == ToSet(registers) \subseteq DOMAIN scan
        bytes == FlattenSeq([i \in DOMAIN registers |->
                    <<scan[registers[i]] \div Byte, scan[registers[i]] % Byte>>])
    IN  /\ (result.status = "missing") = ~observed
        /\ observed /\ result.status = "verified" =>
              \E n \in 0..(Word ^ c.count - 1) :
                  /\ SentBytes(n, c.count, OrderOf(c)) = bytes
                  /\ \E v \in DecodeNumericValue(c.type, OrderOf(c), Values(scan, registers)) :
                         /\ n \in Bits(c.type, c.count, v)
                         /\ result.value = Scaled(c.scale, v)
        /\ run.scan = matches[c.run].scan => result.status = "verified" /\ result.value = c.value

\* Every result is about a rule that was saved from a candidate, and reads as it.
ResultsReadAs(Holds(_)) ==
    \A run \in ToSet(verifications) : \A i \in DOMAIN run.results :
        \E c \in Candidates : c.id = run.results[i].rule /\ (Holds(c) => ReadsAs(run.results[i], c, run))

\* What is verified, stored over restarts and exported last is what the candidates of the
\* standard order said, of the same device and registers; and what the window takes for the latest run of the store
\* is that, so that a rule is made of, and an export is about, what the user sees.
VerifiedReadsAsCandidate ==
    /\ ResultsReadAs(StandardOrder)
    /\ \A i, k \in DOMAIN rules : i # k => rules[i].id # rules[k].id
    /\ latestVerification \in {0, Len(verifications)} /\ latestMatch \in {0, Len(matches)}
    /\ exported \in 0..Len(verifications)

\* The same for every candidate: the record of a candidate holds the names of its orders,
\* which the verification does not know (native_analysis_workflow.cpp:89).
EveryOrderIsVerified == ResultsReadAs(LAMBDA c : TRUE)
================================================================================
