-------------------------------- MODULE LogView --------------------------------
(***************************************************************************)
(* The receive log (win32/main_window_log.cpp): a bounded list of entries, *)
(* the lines of them queued for the control, and what the control shows.   *)
(* A timer gathers queued lines; it asks the frame scheduler               *)
(* (native_frame_scheduler.cpp) for a flush, which is posted to the window *)
(* as a message that stands for all requests until it is handled.          *)
(*                                                                         *)
(* Entries are numbered in the order they come; every line has the same    *)
(* length; a filter is the set of the remainders modulo 2 that it lets     *)
(* through.  A line is its entry and the display format it was made with.  *)
(***************************************************************************)
EXTENDS Integers, Sequences, SequencesExt

CONSTANTS
    TrimBatch,     \* kLogTrimRebuildBatch
    CacheLimits,   \* pairs of logEntryLimit_ and logVisibleCharLimit_, in lines
    Filters,       \* filter texts
    Formats,       \* encodings, timestamps on or off
    MaxEntries     \* bound on the entries of a run

VARIABLES
    next,          \* number of the next entry
    entries,       \* logEntries_
    pending,       \* pendingLogLines_
    shown,         \* the control's lines
    trimmed,       \* logTrimmedSinceRebuild_
    flushTimer,    \* logFlushTimerActive_
    reasons,       \* pending_ of the frame scheduler
    frameQueued,
    messages,      \* kNativeUiFrameMessage in the message queue
    paused, limits, filter, format,
    timerFailed    \* history: the last SetTimer failed

display == <<paused, limits, filter, format>>
frame == <<reasons, frameQueued, messages>>
logVars == <<next, entries, pending, shown, trimmed, flushTimer, frame, display, timerFailed>>

LogInit ==
    /\ next = 1 /\ entries = << >> /\ pending = << >> /\ shown = << >> /\ trimmed = 0
    /\ flushTimer = FALSE /\ timerFailed = FALSE
    /\ reasons = {} /\ frameQueued = FALSE /\ messages = 0
    /\ paused = FALSE /\ limits \in CacheLimits /\ filter = {0, 1} /\ format \in Formats

Matches(n, f) == n % 2 \in f
Render(n, how) == <<n, how>>
Newest(lines, count) == SubSeq(lines, IF Len(lines) > count THEN Len(lines) - count + 1 ELSE 1, Len(lines))

\* rebuildLogView, with the display settings it finds.
RebuildWith(l, f, how) ==
    /\ shown' = LET matching == SelectSeq(entries, LAMBDA n : Matches(n, f))
                IN  Newest([i \in DOMAIN matching |-> Render(matching[i], how)], l.visible)
    /\ pending' = << >> /\ trimmed' = 0
    /\ flushTimer' = FALSE /\ timerFailed' = FALSE
Rebuild == RebuildWith(limits, filter, format)

KeepView == UNCHANGED <<shown, pending, trimmed, flushTimer, timerFailed>>

\* flushPendingLogEntries
NothingToFlush == pending = << >> /\ trimmed < TrimBatch
Flush ==
    CASE NothingToFlush -> KeepView
      [] ~NothingToFlush /\ (pending = << >> \/ trimmed >= TrimBatch
                               \/ Len(shown \o pending) > limits.visible) -> Rebuild
      [] OTHER ->
            /\ shown' = shown \o pending /\ pending' = << >>
            /\ flushTimer' = FALSE /\ timerFailed' = FALSE
            /\ UNCHANGED trimmed

\* scheduleLogFlush; started is what SetTimer returns.
ScheduleFlush(started) ==
    /\ flushTimer' = (flushTimer \/ started)
    /\ timerFailed' = ~flushTimer'

(***************************************************************************)
(* Frames.                                                                 *)
(***************************************************************************)
\* Mutant: the handled frame still counts as queued.
StaysQueued == frameQueued

AfterConsume == FALSE

ConsumeFrame == reasons' = {} /\ frameQueued' = AfterConsume
ProcessFrame(why) == IF "LogFlush" \in why THEN Flush ELSE KeepView

\* A request is posted unless a frame is queued; a failed post is processed at once.
RequestFrame(reason, posted) ==
    CASE frameQueued ->
            /\ reasons' = reasons \cup {reason}
            /\ UNCHANGED <<frameQueued, messages>> /\ posted
      [] ~frameQueued /\ posted ->
            /\ reasons' = reasons \cup {reason}
            /\ frameQueued' = TRUE /\ messages' = messages + 1
      [] OTHER -> ConsumeFrame /\ UNCHANGED messages

FrameMessage ==
    /\ messages > 0
    /\ messages' = messages - 1 /\ ConsumeFrame /\ ProcessFrame(reasons)
    /\ UNCHANGED <<next, entries, display>>

\* A resize, a splitter drag, a tab switch or a status change asks for a frame.
OtherRequest(posted) ==
    /\ RequestFrame("Other", posted)
    /\ IF posted \/ frameQueued THEN KeepView ELSE ProcessFrame(reasons \cup {"Other"})
    /\ UNCHANGED <<next, entries, display>>

FlushTimer(posted) ==
    /\ flushTimer
    /\ RequestFrame("LogFlush", posted)
    /\ IF posted \/ frameQueued
       THEN flushTimer' = FALSE /\ UNCHANGED <<shown, pending, trimmed, timerFailed>>
       ELSE IF NothingToFlush
            THEN flushTimer' = FALSE /\ UNCHANGED <<shown, pending, trimmed, timerFailed>>
            ELSE Flush
    /\ UNCHANGED <<next, entries, display>>

(***************************************************************************)
(* Entries and the user.                                                   *)
(***************************************************************************)
AddLogEntry(started) ==
    /\ next <= MaxEntries
    /\ next' = next + 1
    /\ entries' = Newest(Append(entries, next), limits.entries)
    /\ trimmed' = trimmed + Len(entries) + 1 - Len(entries')
    /\ CASE paused -> UNCHANGED <<pending, flushTimer, timerFailed>>
         [] ~paused /\ Matches(next, filter) ->
                pending' = Append(pending, Render(next, format)) /\ ScheduleFlush(started)
         [] ~paused /\ ~Matches(next, filter) /\ trimmed' >= TrimBatch ->
                ScheduleFlush(started) /\ UNCHANGED pending
         [] OTHER -> UNCHANGED <<pending, flushTimer, timerFailed>>
    /\ UNCHANGED <<shown, frame, display>>

ClearLog ==
    /\ entries' = << >> /\ pending' = << >> /\ shown' = << >> /\ trimmed' = 0
    /\ flushTimer' = FALSE /\ timerFailed' = FALSE /\ filter' = {0, 1}
    /\ UNCHANGED <<next, frame, paused, limits, format>>

UpdateLogFilter(f) ==
    /\ filter' = f
    /\ IF f = filter THEN KeepView ELSE RebuildWith(limits, f, format)
    /\ UNCHANGED <<next, entries, frame, paused, limits, format>>

\* Encoding, payload format or timestamps: every handler rebuilds.
ChangeFormat(how) ==
    /\ format' = how /\ RebuildWith(limits, filter, how)
    /\ UNCHANGED <<next, entries, frame, paused, limits, filter>>

\* Entries above the new limit stay until the next one comes.
ApplyLogCacheLimit(l) ==
    /\ limits' = l /\ RebuildWith(l, filter, format)
    /\ UNCHANGED <<next, entries, frame, paused, filter, format>>

FindNextLogMatch == Flush /\ UNCHANGED <<next, entries, frame, display>>

\* Mutant: pausing does not flush.
PauseAtOnce == paused' = TRUE /\ KeepView

Pause == paused' = TRUE /\ Flush

TogglePause ==
    /\ IF paused THEN paused' = FALSE /\ Rebuild ELSE Pause
    /\ UNCHANGED <<next, entries, frame, limits, filter, format>>

LogNext ==
    \/ FrameMessage \/ ClearLog \/ FindNextLogMatch \/ TogglePause
    \/ \E posted \in BOOLEAN : OtherRequest(posted) \/ FlushTimer(posted)
    \/ \E started \in BOOLEAN : AddLogEntry(started)
    \/ \E f \in Filters : UpdateLogFilter(f)
    \/ \E how \in Formats : ChangeFormat(how)
    \/ \E l \in CacheLimits : ApplyLogCacheLimit(l)

--------------------------------------------------------------------------------
Lines == shown \o pending
Waiting == pending # << >> \/ (~paused /\ trimmed >= TrimBatch)

\* What is shown and queued is the matching entries in their order, each once, none left
\* out in between, in the current format; without a pause it reaches the newest one, and
\* what waits to be shown has its timer, or a frame with its reason, on the way, unless
\* SetTimer failed.
LogShowsWhatCame ==
    /\ \A i \in DOMAIN Lines : Lines[i][2] = format /\ Matches(Lines[i][1], filter)
    /\ \A i \in 2..Len(Lines) :
          /\ Lines[i - 1][1] < Lines[i][1]
          /\ ~\E n \in (Lines[i - 1][1] + 1)..(Lines[i][1] - 1) : Matches(n, filter)
    /\ ~paused => \A i \in DOMAIN entries : Matches(entries[i], filter) =>
                     Lines # << >> /\ entries[i] <= Lines[Len(Lines)][1]
    /\ paused => pending = << >>
    /\ reasons # {} => messages > 0
    /\ Waiting => flushTimer \/ "LogFlush" \in reasons \/ timerFailed
=============================================================================
