------------------------------ MODULE SendHistory ------------------------------
(***************************************************************************)
(* What the window remembers of what it sent (win32/main_window_send.cpp,  *)
(* native_send_codec.cpp, native_send_history_state.cpp): a text is turned *)
(* into bytes as the send settings say, and when these were written, the   *)
(* text and the settings go to the send history of the store and are       *)
(* offered in a combo box, to be sent again.                               *)
(*                                                                         *)
(* A text is a sequence of characters: the digits 0..15, a Separator, and  *)
(* a Letter that is not ASCII.  Between the sending and the result the     *)
(* user goes on typing, and results come in the order of the writes        *)
(* (SerialSession).                                                        *)
(***************************************************************************)
EXTENDS Integers, Sequences, SequencesExt

CONSTANTS
    Texts, QuickTexts,   \* what is typed, and what is in the quick edits
    Settings,            \* [mode, ending, page]: the three combo boxes
    BitsPerByte,         \* 8 in the code; a hexadecimal digit is half of a byte
    SavedLimit,          \* entries the store keeps, 100 in the code
    ShownLimit,          \* entries the window asks for, 30 in the code
    MaxSends             \* bound on the writes of a run

Separator == 16
Letter == 17

VARIABLES
    edit,           \* the text of sendEdit_
    settings,       \* what the combo boxes show
    writes,         \* pendingSerialWrites_
    file,           \* send_history
    shown,          \* sendHistoryState_, and the items of historyCombo_ after its title
    sends,          \* bound counter
    \* history
    saved,          \* the entries that were saved, again for each time
    wasSent         \* [entry, bytes] for each write that succeeded

historyVars == <<edit, settings, writes, file, shown, sends, saved, wasSent>>

(***************************************************************************)
(* The codec: the set of the bytes, empty if there is an error.            *)
(***************************************************************************)
Without(text, chars) == SelectSeq(text, LAMBDA c : c \notin chars)

\* Groups of n digits below base, as one number each.
Grouped(digits, n, base) ==
    IF Len(digits) % n # 0 \/ \E d \in ToSet(digits) : d >= base THEN {}
    ELSE {[i \in 1..(Len(digits) \div n) |->
              FoldLeft(LAMBDA value, d : base * value + d, 0, SubSeq(digits, n * (i - 1) + 1, n * i))]}

ParseHexPayload(text) == Grouped(Without(text, {Separator}), BitsPerByte \div 4, 16)
ParseBinaryPayload(text) == Grouped(Without(text, {Separator}), BitsPerByte, 2)

\* splitByteTokens, and the number of each token.
Tokens(text) ==
    LET add(split, c) ==
            IF c = Separator THEN [done |-> split.done \o split.open, open |-> << >>]
            ELSE [split EXCEPT !.open = IF @ = << >> THEN <<<<c>>>> ELSE <<Append(@[1], c)>>]
        all == FoldLeft(add, [done |-> << >>, open |-> << >>], text)
    IN  all.done \o all.open
ParseDecimalPayload(text) ==
    LET bytes == [i \in DOMAIN Tokens(text) |->
                     FoldLeft(LAMBDA value, d : 10 * value + d, 0, Tokens(text)[i])]
    IN  IF (\E c \in ToSet(text) : c \in 10..15 \cup {Letter})
               \/ (\E b \in ToSet(bytes) : b >= 2 ^ BitsPerByte)
        THEN {} ELSE {bytes}

Ascii(c) == CASE c \in 0..9 -> 48 + c [] c \in 10..15 -> 55 + c [] OTHER -> 32
LetterIn == [UTF8 |-> <<195, 169>>, Page936 |-> <<168, 166>>]

EncodeTextPayload(text, page) ==
    IF page = "ASCII" /\ Letter \in ToSet(text) THEN {}
    ELSE {FlattenSeq([i \in DOMAIN text |-> IF text[i] = Letter THEN LetterIn[page]
                                            ELSE <<Ascii(text[i])>>])}

LineEnding == [None |-> << >>, CR |-> <<13>>, LF |-> <<10>>, CRLF |-> <<13, 10>>]

\* nativeBuildSendPayload
BuildSendPayload(text, options) ==
    LET parsed == CASE options.mode = "hex" -> ParseHexPayload(text)
                    [] options.mode = "decimal" -> ParseDecimalPayload(text)
                    [] options.mode = "binary" -> ParseBinaryPayload(text)
                    [] OTHER -> EncodeTextPayload(text, options.page)
    IN  {bytes \o LineEnding[options.ending] : bytes \in parsed}

(***************************************************************************)
(* The store.                                                              *)
(***************************************************************************)
Newest(entries, limit) ==
    SubSeq(entries, IF Len(entries) > limit THEN Len(entries) - limit + 1 ELSE 1, Len(entries))

\* saveSendHistory: the others that are kept, and the entry.
SaveSendHistory(entry) ==
    Append(Newest(SelectSeq(file, LAMBDA e : e # entry), SavedLimit - 1), entry)

\* recentSendHistory, latest first.
RecentSendHistory(entries) == Reverse(Newest(entries, ShownLimit))

(***************************************************************************)
(* Actions.                                                                *)
(***************************************************************************)
HistoryInit ==
    /\ edit = << >> /\ settings \in Settings
    /\ writes = << >> /\ file = << >> /\ shown = << >> /\ sends = 0
    /\ saved = << >> /\ wasSent = {}

\* The user types, or chooses other settings.
Edits ==
    /\ \/ \E t \in Texts : edit' = t /\ UNCHANGED settings
       \/ \E s \in Settings : settings' = s /\ UNCHANGED edit
    /\ UNCHANGED <<writes, file, shown, sends, saved, wasSent>>

\* applySelectedHistory: what an item puts into the edit and the combo boxes.
Restored(entry) ==
    [text |-> entry.content,
     settings |-> [mode |-> entry.mode, ending |-> entry.ending, page |-> entry.page]]

ApplySelectedHistory ==
    /\ \E i \in DOMAIN shown :
           /\ edit' = Restored(shown[i]).text
           /\ settings' = Restored(shown[i]).settings
    /\ UNCHANGED <<writes, file, shown, sends, saved, wasSent>>

\* enqueueManualSerialWrite: what is kept of a write until its result.
PendingWrite(text, bytes, saveHistory) ==
    [bytes |-> bytes, text |-> text, settings |-> settings, saveHistory |-> saveHistory]

\* sendPayloadFromText, for a write that is accepted.
Sends(text, saveHistory) ==
    /\ sends < MaxSends
    /\ sends' = sends + 1
    /\ \E bytes \in BuildSendPayload(text, settings) :
           bytes # << >> /\ writes' = Append(writes, PendingWrite(text, bytes, saveHistory))
    /\ UNCHANGED <<edit, settings, file, shown, saved, wasSent>>

SendPayload == Sends(edit, TRUE)
SendQuickPayload == \E t \in QuickTexts : Sends(t, FALSE)

\* Mutant: the settings are those of the moment at which the write has succeeded.
EntryOfNow(w) ==
    [content |-> w.text, mode |-> settings.mode, ending |-> settings.ending, page |-> settings.page]

\* nativeMakeSendHistoryEntry, as publishSuccessfulSerialWrite calls it.
EntryOf(w) ==
    [content |-> w.text, mode |-> w.settings.mode, ending |-> w.settings.ending,
     page |-> w.settings.page]

\* refreshSendHistory, whose query may fail.
Refreshed(entries) == {RecentSendHistory(entries), << >>}

\* publishSuccessfulSerialWrite: the combo box is left alone while the window closes, and
\* when the entry could not be saved.
PublishSuccessfulSerialWrite(w) ==
    /\ wasSent' = wasSent \cup IF w.saveHistory THEN {[entry |-> EntryOf(w), bytes |-> w.bytes]} ELSE {}
    /\ \/ /\ w.saveHistory
          /\ file' = SaveSendHistory(EntryOf(w))
          /\ saved' = Append(saved, EntryOf(w))
          /\ shown' \in Refreshed(file') \cup {shown}
       \/ UNCHANGED <<file, saved, shown>>

WriteEnds ==
    /\ writes # << >>
    /\ writes' = Tail(writes)
    /\ \/ PublishSuccessfulSerialWrite(Head(writes))
       \/ UNCHANGED <<wasSent, file, saved, shown>>
    /\ UNCHANGED <<edit, settings, sends>>

\* The program ends and starts again; the settings come from the preferences.
Restart ==
    /\ edit' = << >> /\ settings' \in Settings
    /\ writes' = << >>
    /\ shown' \in Refreshed(file)
    /\ UNCHANGED <<file, sends, saved, wasSent>>

HistoryNext ==
    \/ Edits \/ ApplySelectedHistory \/ SendPayload \/ SendQuickPayload \/ WriteEnds \/ Restart

--------------------------------------------------------------------------------
\* The last `limit' different entries, the one used last first.
LastUsed(entries, limit) ==
    LET byLastUse == SetToSortSeq(ToSet(entries),
            LAMBDA a, b : SelectLastInSeq(entries, LAMBDA e : e = a)
                          > SelectLastInSeq(entries, LAMBDA e : e = b))
    IN  Reverse(Newest(Reverse(byLastUse), limit))

\* An item of the history sends again the bytes that were sent with it, whatever was typed,
\* chosen or sent while the write was pending (main_window_serial_io.cpp:73); and the
\* history is that of the last different sends, of any settings, over restarts.
HistorySendsAgain ==
    /\ \A i \in DOMAIN shown :
           LET again == Restored(shown[i]) IN
           \E bytes \in BuildSendPayload(again.text, again.settings) :
               [entry |-> shown[i], bytes |-> bytes] \in wasSent
    /\ file = Reverse(LastUsed(saved, SavedLimit))
    /\ shown = << >> \/ \E n \in 1..Len(saved) : shown = LastUsed(SubSeq(saved, 1, n), ShownLimit)
================================================================================
