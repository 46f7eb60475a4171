------------------------------- MODULE Candidates -------------------------------
(***************************************************************************)
(* generateValueCandidates (core/analysis_core.cpp): which readings of the *)
(* registers of a scan explain a known value.  Every sample, and every     *)
(* pair of neighbours, is decoded in every way; what lies within the       *)
(* tolerance becomes a candidate, and the best MaxCandidates are kept      *)
(* while the samples are gone through, one step per sample.                *)
(*                                                                         *)
(* Engineering values, scales, offsets and tolerances are integers in      *)
(* tenths; scores are exact multiples of what the code computes in         *)
(* floating point.                                                         *)
(***************************************************************************)
EXTENDS RegisterValues

CONSTANTS
    Samples,       \* register samples: [series, address, value]
    MaxSamples,    \* bound on the samples of a run
    Requests       \* [target, tolerance, max, types, scales] of a run

\* A series is what sameSeries compares: session, slave and function.
RequestAssumption ==
    /\ Byte >= 10
    /\ \A r \in Requests : r.max > 0 /\ r.tolerance >= 0 /\ \E s \in r.scales : s.multiplier # 0

VARIABLES
    sorted,        \* the samples, sorted
    request,
    at,            \* index of the loop
    found,         \* candidates
    finished

candidateVars == <<sorted, request, at, found, finished>>

(***************************************************************************)
(* Ranking.                                                                *)
(***************************************************************************)
\* In hundredths.
TypePrior == [UInt16 |-> 100, Int16 |-> 98, UInt32 |-> 92, Int32 |-> 90, Float32 |-> 85,
              PackedBCD |-> 96, Gray16 |-> 94, BitFlags |-> 88]

\* In twentieths, as the next one.
EndianPrior(o, count) ==
    CASE count = 1 -> IF o.byte = "BigEndian" THEN 20 ELSE 18
      [] count = 2 /\ o.word = "HighWordFirst" -> IF o.byte = "BigEndian" THEN 20 ELSE 18
      [] OTHER -> IF o.byte = "BigEndian" THEN 19 ELSE 17

\* The multipliers 0.01 to 0.0001 of the code are treated like 0.1.
ScalePrior(s) ==
    CASE s.offset # 0 -> 17
      [] s.offset = 0 /\ s.multiplier = 10 -> 20
      [] s.offset = 0 /\ s.multiplier = 1 -> 19
      [] s.offset = 0 /\ s.multiplier \in {100, 1000, 10000} -> 18
      [] OTHER -> 16

\* scoreFor, times the tolerance.
ScoreFor(type, o, count, scale, absoluteError) ==
    (IF request.tolerance = 0 THEN 100 ELSE 100 * request.tolerance - 40 * absoluteError)
        * TypePrior[type] * EndianPrior(o, count) * ScalePrior(scale)

\* The pairs of keys are compared one after the other.
Rising(keys) == \E i \in DOMAIN keys :
    keys[i][1] < keys[i][2] /\ \A k \in 1..(i - 1) : keys[k][1] = keys[k][2]

\* The rank of a type's name among the others.
NameRank == [BitFlags |-> 1, Float32 |-> 2, Gray16 |-> 3, Int16 |-> 4, Int32 |-> 5,
             PackedBCD |-> 6, UInt16 |-> 7, UInt32 |-> 8]

CandidateRankedBefore(l, r) ==
    Rising(<< <<r.score, l.score>>, <<l.absoluteError, r.absoluteError>>,
              <<Len(l.sources), Len(r.sources)>>,
              <<EndianPrior(r.order, Len(r.sources)), EndianPrior(l.order, Len(l.sources))>>,
              <<sorted[l.sources[1]].address, sorted[r.sources[1]].address>>,
              <<NameRank[l.type], NameRank[r.type]>> >>)

\* Mutant: the candidate that is removed is the last one.
RemoveNewest(candidates) == Front(candidates)

\* The first of the worst.
RemoveWorst(candidates) ==
    LET worst == CHOOSE i \in DOMAIN candidates :
            /\ \A k \in DOMAIN candidates : ~CandidateRankedBefore(candidates[i], candidates[k])
            /\ \A k \in 1..(i - 1) : CandidateRankedBefore(candidates[k], candidates[i])
    IN  SubSeq(candidates, 1, worst - 1) \o SubSeq(candidates, worst + 1, Len(candidates))

AppendBounded(candidates, c) ==
    LET more == Append(candidates, c) IN IF Len(more) > request.max THEN RemoveWorst(more) ELSE more

(***************************************************************************)
(* The loop.                                                               *)
(***************************************************************************)
SampleBefore(l, r) == Rising(<< <<l.series, r.series>>, <<l.address, r.address>> >>)

\* std::sort leaves samples of one address in any order.
CandidateInit ==
    /\ sorted \in {s \in UNION {[1..n -> Samples] : n \in 1..MaxSamples} :
                      \A i \in 1..(Len(s) - 1) : ~SampleBefore(s[i + 1], s[i])}
    /\ request \in Requests
    /\ at = 1 /\ found = << >> /\ finished = FALSE

\* normalizedScaleTransforms
ScaleTransforms == {s \in request.scales : s.multiplier # 0}

ErrorOf(v, scale) ==
    LET delta == v * scale.multiplier + scale.offset - request.target
    IN  IF delta < 0 THEN -delta ELSE delta
CandidateFor(type, o, scale, sources, v) ==
    [type |-> type, order |-> o, scale |-> scale, sources |-> sources, value |-> v,
     absoluteError |-> ErrorOf(v, scale),
     score |-> ScoreFor(type, o, Len(sources), scale, ErrorOf(v, scale))]

\* addCandidate, for every way to read the samples with the indices sources.
CandidatesOf(types, orders, sources) ==
    LET registers == [i \in DOMAIN sources |-> sorted[sources[i]].value]
        readings == {<<t, o>> : t \in types \cap request.types, o \in orders}
        values == [r \in readings |-> DecodeNumericValue(r[1], r[2], registers)]
    IN  UNION {{CandidateFor(r[1], r[2], s, sources, v) :
                   v \in {x \in values[r] : ErrorOf(x, s) <= request.tolerance}} :
               r \in readings, s \in ScaleTransforms}

\* Mutant: the second register may be any other device's.
AnyNeighbour(i) == i + 1 <= Len(sorted) /\ sorted[i + 1].address = sorted[i].address + 1

IsPair(i) ==
    /\ i + 1 <= Len(sorted)
    /\ sorted[i + 1].series = sorted[i].series
    /\ sorted[i + 1].address = sorted[i].address + 1

\* The code adds the candidates of a sample in the order of its loops: which of two that rank
\* the same stays when there is no room for both is not modelled.
ReadSample ==
    /\ ~finished /\ at <= Len(sorted)
    /\ found' = FoldSet(LAMBDA c, candidates : AppendBounded(candidates, c), found,
                  CandidatesOf(SingleTypes, SingleOrders, <<at>>)
                      \cup IF IsPair(at) THEN CandidatesOf(PairTypes, Orders, <<at, at + 1>>) ELSE {})
    /\ at' = at + 1
    /\ UNCHANGED <<sorted, request, finished>>

SortResult ==
    /\ ~finished /\ at > Len(sorted)
    /\ found' = SortSeq(found, CandidateRankedBefore)
    /\ finished' = TRUE
    /\ UNCHANGED <<sorted, request, at>>

CandidateNext == ReadSample \/ SortResult

--------------------------------------------------------------------------------
ReceivedBytes(sources) ==
    FlattenSeq([i \in DOMAIN sources |-> <<sorted[sources[i]].value \div Byte, sorted[sources[i]].value % Byte>>])

\* The values v with v * multiplier + offset within the tolerance of the target.
Explained(s) ==
    LET middle == (request.target - s.offset) \div s.multiplier
    IN  {v \in (middle - request.tolerance - 1)..(middle + request.tolerance + 1) :
        v * s.multiplier + s.offset - request.target \in (-request.tolerance)..request.tolerance}

Neighbours == {p \in (1..Len(sorted)) \X (1..Len(sorted)) :
                  /\ sorted[p[1]].series = sorted[p[2]].series
                  /\ sorted[p[2]].address = sorted[p[1]].address + 1}

\* All readings of values within the tolerance that a device could have sent like this.
Explanations ==
    LET sent(t, o, sources, v) == \E n \in Bits(t, Len(sources), v) :
            SentBytes(n, Len(sources), o) = ReceivedBytes(sources)
        of(types, orders, sources) ==
            UNION {{CandidateFor(t, o, s, sources, v) : v \in {x \in Explained(s) : sent(t, o, sources, x)}} :
                   t \in types \cap request.types, o \in orders, s \in ScaleTransforms}
    IN  UNION {of(SingleTypes, SingleOrders, <<i>>) : i \in DOMAIN sorted}
        \cup UNION {of(PairTypes, Orders, p) : p \in Neighbours}

OneEach == \A i, k \in DOMAIN sorted :
    i # k => sorted[i].series # sorted[k].series \/ sorted[i].address # sorted[k].address

\* The result holds only readings that a device would have sent for a value within the
\* tolerance, of one device's neighbouring registers, best first, and as many as were asked
\* for if there are so many.  If no address was read twice nothing better is left out,
\* although a candidate that does not fit is dropped long before the last sample is seen.
BestExplanations ==
    finished =>
        /\ ToSet(found) \subseteq Explanations
        /\ \A i \in 2..Len(found) : ~CandidateRankedBefore(found[i], found[i - 1])
        /\ Len(found) <= request.max
        /\ OneEach =>
              \/ ToSet(found) = Explanations
              \/ /\ Len(found) = request.max /\ Cardinality(ToSet(found)) = request.max
                 /\ \A e \in Explanations \ ToSet(found) :
                       ~CandidateRankedBefore(e, found[Len(found)])
=============================================================================
