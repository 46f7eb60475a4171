------------------------------ MODULE AtomicStore ------------------------------
(***************************************************************************)
(* What the native store promises, with no files, no recovery and no       *)
(* failure: a set of records per file, changed at once or not at all.      *)
(*                                                                         *)
(* A save of several files (saveScanExecution and its likes in             *)
(* native_session_store.h) changes all of them in one step.  Restarts and  *)
(* failed calls are steps that change nothing.                             *)
(***************************************************************************)
EXTENDS Integers

CONSTANTS
    DataFiles,         \* the record files
    Groups,            \* the sets of files saved together
    Ids                \* record ids, in the order they are given out

VARIABLES
    records            \* records[f]: the ids of the records of f

Init == records = [f \in DataFiles |-> {}]

Add(f, id) == records' = [records EXCEPT ![f] = @ \cup {id}]

Put(group, id) ==
    records' = [f \in DataFiles |-> IF f \in group THEN {id} ELSE records[f]]

\* Compaction: older records go, the newest stays.
Trim(f) ==
    \E kept \in (SUBSET records[f]) \ {{}} :
        /\ \A old \in records[f] \ kept, new \in kept : old < new
        /\ records' = [records EXCEPT ![f] = kept]

Next ==
    \/ \E f \in DataFiles : (\E id \in Ids : Add(f, id)) \/ Trim(f)
    \/ \E group \in Groups, id \in Ids : Put(group, id)

Spec == Init /\ [][Next]_records
=============================================================================
