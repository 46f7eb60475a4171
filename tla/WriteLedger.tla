------------------------------ MODULE WriteLedger ------------------------------
(***************************************************************************)
(* What a serial session promises the callers who queue writes on it, with *)
(* no thread, lock, queue or handle: a ledger of requests.                 *)
(*                                                                         *)
(* A request is admitted only while the session is open, and then owed a   *)
(* result; it is settled once, with one status, and never again.  A        *)
(* session that stops being open may settle any of what it owes at that    *)
(* moment or later, but does not call itself closed, and does not open     *)
(* again, before it owes nothing.  (SerialSessionResult and               *)
(* SerialWriteRequest in src/transport/serial_session.h give the shape,    *)
(* docs/架构说明.md:13 the promise.)                                        *)
(***************************************************************************)
CONSTANTS
    Ids,               \* requests
    Outcomes           \* statuses a settled request can have, other than these two:

Entries == {"free", "owed"} \cup Outcomes

VARIABLES
    phase,             \* "closed", "open", or "shut": no longer open, not yet closed
    ledger             \* ledger[id]

vars == <<phase, ledger>>

TypeOK ==
    /\ phase \in {"closed", "open", "shut"}
    /\ ledger \in [Ids -> Entries]

Init ==
    /\ phase = "closed"
    /\ ledger = [id \in Ids |-> "free"]

OwedIds == {id \in Ids : ledger[id] = "owed"}

\* The requests that change their entry were owed and get an outcome.
Settles ==
    /\ ledger' \in [Ids -> Entries]
    /\ \A id \in Ids : ledger'[id] # ledger[id] =>
           ledger[id] = "owed" /\ ledger'[id] \in Outcomes

Admit(id) ==
    /\ phase = "open"
    /\ ledger[id] = "free"
    /\ ledger' = [ledger EXCEPT ![id] = "owed"]
    /\ UNCHANGED phase

Settle ==
    /\ phase \in {"open", "shut"}
    /\ Settles
    /\ UNCHANGED phase

\* A failure, or the start of a close.
Shut ==
    /\ phase' = "shut"
    /\ Settles

Open ==
    /\ phase = "closed"
    /\ phase' = "open"
    /\ OwedIds = {}
    /\ UNCHANGED ledger

Close ==
    /\ phase = "shut"
    /\ phase' = "closed"
    /\ OwedIds = {}
    /\ UNCHANGED ledger

Next == (\E id \in Ids : Admit(id)) \/ Settle \/ Shut \/ Open \/ Close

Spec == Init /\ [][Next]_vars
=============================================================================
