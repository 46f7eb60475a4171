------------------------------- MODULE RecordFile -------------------------------
(***************************************************************************)
(* The bytes of a record file (native_store_record_io.cpp) and what the    *)
(* raw events do with them (native_session_store.cpp): they are appended   *)
(* to, perhaps cut short, compacted, and repaired by the next open.        *)
(*                                                                         *)
(* A record is the sequence of the lengths of its fields.  In the file it  *)
(* is n|, for each of its n fields its length, a colon and its contents,   *)
(* and a newline.  A number is one digit when written; digits that come to *)
(* stand side by side are read as one number.  A byte of contents is       *)
(* never a digit or a delimiter here.                                      *)
(***************************************************************************)
EXTENDS Integers, Sequences, SequencesExt

CONSTANTS
    RecordShapes,   \* the records that are appended
    Soft, Target,   \* rawEventSoftLimitBytes_, rawEventTargetBytes_
    Limit,          \* how many records are asked for
    MaxAppends      \* bound on the appends of a run

Digit(n) == <<"digit", n>>
Mark(what) == <<what, 0>>
Header == <<Mark("header")>>
FieldBytes(length) == <<Digit(length), Mark(":")>> \o [i \in 1..length |-> Mark("contents")]

\* writeRecord
RecordBytes(r) ==
    <<Digit(Len(r)), Mark("|")>> \o FlattenSeq([i \in DOMAIN r |-> FieldBytes(r[i])])
        \o <<Mark("newline")>>

VARIABLES
    bytes,      \* of the file
    orphan,     \* of the .orphan file
    usable,     \* the store is open
    appends,    \* bound counter
    \* history
    kept,       \* the records that are whole in the file
    tail,       \* the bytes of a record cut short behind them
    lastTail,   \* those that the last open found
    unclear     \* a record was cut in its last field, or has others behind it

fileVars == <<bytes, orphan, usable, appends, kept, tail, lastTail, unclear>>

FileInit ==
    /\ bytes = Header /\ orphan = << >> /\ usable = TRUE /\ appends = 0
    /\ kept = << >> /\ tail = << >> /\ lastTail = << >> /\ unclear = FALSE

(***************************************************************************)
(* Reading.                                                                *)
(***************************************************************************)
At(f, p, what) == p <= Len(f) /\ f[p][1] = what
FirstAfter(f, p, kind) == CHOOSE q \in p..(p + Len(f)) :
    ~At(f, q, kind) /\ \A i \in p..(q - 1) : At(f, i, kind)

\* readStreamUnsigned; the digits end before q.
NumberUpTo(f, p, q, delimiter) ==
    [ok |-> p <= Len(f) /\ q > p /\ At(f, q, delimiter), next |-> q + 1,
     value |-> FoldLeft(LAMBDA n, b : 10 * n + b[2], 0, SubSeq(f, p, q - 1))]
ReadNumber(f, p, delimiter) == NumberUpTo(f, p, FirstAfter(f, p, "digit"), delimiter)

\* The fields from p on.  Moving over the contents of a field succeeds beyond the end of
\* the file too (seekg); reading them (whole) does not.
ReadFields(f, p, count, whole) ==
    LET from[left \in Nat, at \in Nat, lengths \in Seq(Nat)] ==
            LET go(n) ==
                    IF ~n.ok \/ (whole /\ n.next + n.value > Len(f) + 1)
                    THEN [ok |-> FALSE, next |-> at, record |-> lengths]
                    ELSE from[left - 1, n.next + n.value, Append(lengths, n.value)]
            IN  IF left = 0 THEN [ok |-> TRUE, next |-> at, record |-> lengths]
                ELSE go(ReadNumber(f, at, ":"))
    IN  from[count, p, << >>]

\* readNextRecordSpan, or readNextRecordFromStream if the record is read whole.
RecordOf(f, p, fields) ==
    IF ~fields.ok THEN [ok |-> FALSE]
    ELSE [ok |-> TRUE, start |-> p, record |-> fields.record,
          end |-> IF At(f, fields.next, "newline") THEN fields.next + 1 ELSE fields.next]
ReadRecord(f, p, whole) ==
    LET from(count) == IF ~count.ok THEN [ok |-> FALSE]
                       ELSE RecordOf(f, p, ReadFields(f, count.next, count.value, whole))
    IN  from(ReadNumber(f, p, "|"))

\* The spans from the header on, up to the end of the file or the first error.
Spans(f) ==
    LET from[p \in Nat, spans \in Seq(Nat \X Nat)] ==
            LET go(next) == IF ~next.ok THEN [ok |-> FALSE, spans |-> spans]
                            ELSE from[next.end, Append(spans, <<next.start, next.end>>)]
                at(start) == IF start > Len(f) THEN [ok |-> TRUE, spans |-> spans]
                             ELSE go(ReadRecord(f, start, FALSE))
            IN  at(IF p > Len(f) THEN p ELSE FirstAfter(f, p, "newline"))
    IN  from[Len(Header) + 1, << >>]

Size(span) == span[2] - span[1]

\* rawEventCount
RawEventCount(f) == IF Spans(f).ok THEN Len(Spans(f).spans) ELSE 0

\* The last of a sequence, the last first.
Newest(records, limit) ==
    Reverse(SubSeq(records, IF Len(records) > limit THEN Len(records) - limit + 1 ELSE 1, Len(records)))

\* recentRawEvents: the spans first, then the records of the last ones, newest first.
RecentRawEvents(f, limit) ==
    LET records(read) == IF \A i \in DOMAIN read : read[i].ok
                         THEN [i \in DOMAIN read |-> read[i].record]
                         ELSE << >>
        reading(recent) == records([i \in DOMAIN recent |-> ReadRecord(f, recent[i][1], TRUE)])
        from(found) == IF found.ok THEN reading(Newest(found.spans, limit)) ELSE << >>
    IN  from(Spans(f))

(***************************************************************************)
(* Compaction and recovery.                                                *)
(***************************************************************************)
\* The window of compactRawEventsIfNeeded over the spans.
Retained(spans) ==
    LET drop[w \in Seq(Nat \X Nat), total \in Nat, size \in Nat] ==
            IF w = << >> \/ total + size <= Target THEN [spans |-> w, total |-> total]
            ELSE drop[Tail(w), total - Size(Head(w)), size]
        add(w, span) == LET rest == drop[w.spans, w.total, Size(span)]
                        IN  [spans |-> Append(rest.spans, span), total |-> rest.total + Size(span)]
    IN  FoldLeft(add, [spans |-> << >>, total |-> Len(Header)], spans).spans

CopyFileTailWithHeader(f, start) == Header \o SubSeq(f, start, Len(f))
CopyFilePrefix(f, start) == SubSeq(f, 1, start - 1)
CopyFileTail(f, start) == SubSeq(f, start, Len(f))

\* compactRawEventsIfNeeded: what it leaves of a file that is too long, if nothing fails.
Compacted(f) ==
    LET keep(found) ==
            CASE ~found.ok -> f
              [] found.ok /\ found.spans = << >> -> Header
              [] OTHER -> CopyFileTailWithHeader(f, Head(Retained(found.spans))[1])
    IN  keep(Spans(f))

\* Mutant: the last whole record ends where it begins.
StartOfLast(spans) == IF spans = << >> THEN Len(Header) + 1 ELSE spans[Len(spans)][1]

EndOfLast(spans) == IF spans = << >> THEN Len(Header) + 1 ELSE spans[Len(spans)][2]

\* open, as far as recoverRecordFileTail.
OpenFile ==
    /\ LET found == Spans(bytes)
           good == EndOfLast(found.spans)
       IN  IF found.ok
           THEN UNCHANGED <<bytes, orphan>>
           ELSE /\ orphan' = CopyFileTail(bytes, good)
                /\ bytes' = CopyFilePrefix(bytes, good)
    /\ usable' = TRUE
    /\ tail' = << >> /\ lastTail' = IF tail = << >> THEN lastTail ELSE tail
    /\ UNCHANGED <<appends, kept, unclear>>

\* The bytes cannot be set aside, or the file not be replaced, and then they are twice there.
OpenFails ==
    /\ ~Spans(bytes).ok
    /\ orphan' \in {<< >>, CopyFileTail(bytes, EndOfLast(Spans(bytes).spans))}
    /\ usable' = FALSE
    /\ UNCHANGED <<bytes, appends, kept, tail, lastTail, unclear>>

(***************************************************************************)
(* appendRawEvents.                                                        *)
(***************************************************************************)
SizeOf(r) == Len(RecordBytes(r))
TotalSize(records) == FoldLeft(LAMBDA n, r : n + SizeOf(r), Len(Header), records)

\* The newest records that fit the target, at least one of them.
NewestWithin(records) ==
    LET suffix(n) == SubSeq(records, n, Len(records))
        fits == {n \in 1..Len(records) :
                    n = Len(records) \/ TotalSize(suffix(n)) <= Target}
    IN  suffix(CHOOSE n \in fits : \A k \in fits : n <= k)

\* What is too long is compacted, or stays if that fails, to be compacted by a later append.
AppendRecord(r) ==
    /\ usable /\ appends < MaxAppends
    /\ appends' = appends + 1
    /\ LET longer == bytes \o RecordBytes(r)
           more == Append(kept, r)
       IN  \/ bytes' = longer /\ kept' = more
          \/ /\ Len(longer) > Soft
             /\ bytes' = Compacted(longer) /\ kept' = NewestWithin(more)
    /\ unclear' = (unclear \/ tail # << >>)
    /\ UNCHANGED <<orphan, usable, tail, lastTail>>

\* The append fails half way, or the process ends in it.  Without its newline a record is whole.
AppendIsCut(r, n) ==
    /\ usable /\ appends < MaxAppends /\ tail = << >> /\ ~unclear
    /\ appends' = appends + 1
    /\ LET part == SubSeq(RecordBytes(r), 1, n)
       IN  /\ bytes' = bytes \o part
           /\ IF n = SizeOf(r) - 1
              THEN kept' = Append(kept, r) /\ UNCHANGED <<tail, unclear>>
              ELSE /\ tail' = part
                   /\ unclear' = (n >= SizeOf(r) - 1 - r[Len(r)])
                   /\ UNCHANGED kept
    /\ UNCHANGED <<orphan, usable, lastTail>>

FileNext ==
    \/ OpenFile \/ OpenFails
    \/ \E r \in RecordShapes : AppendRecord(r)
    \/ \E r \in RecordShapes : \E n \in 1..(SizeOf(r) - 1) : AppendIsCut(r, n)

--------------------------------------------------------------------------------
\* The records that were written whole are read back, newest first and counted right, after
\* any compaction, which keeps the newest that fit its target, and after the repair of a
\* record that was cut short, whose bytes are set aside.  Excepted: a record cut within the
\* contents of its last field is taken for a whole one and stays, and so may one that
\* another was appended to before the repair.
WholeRecordsAreReadBack ==
    ~unclear /\ tail = << >> =>
        /\ RawEventCount(bytes) = Len(kept)
        /\ RecentRawEvents(bytes, Limit) = Newest(kept, Limit)
        /\ orphan = lastTail
=============================================================================
