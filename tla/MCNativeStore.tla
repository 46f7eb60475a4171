----------------------------- MODULE MCNativeStore -----------------------------
(***************************************************************************)
(* Small instances of NativeStore for TLC: a file of raw records, one that *)
(* is rewritten alone, and two that are saved together.                    *)
(***************************************************************************)
EXTENDS NativeStore

MCGroup == <<"scan_sessions", "scan_attempts">>

AllCalls == {"append", "rewrite", "save"}
SaveAndAppend == {"save", "append"}

\* Everything that can fail, but for the removals after a file or a set of
\* files is complete.
AnyBeforeCompletion ==
    ({"write"} \X {"artifacts", "others", "tail", "counters", "append", "replace",
                   "compact", "temps"})
    \cup ({"rename"} \X {"recover", "artifacts", "others", "tail", "counters", "replace",
                         "compact", "swap"})
    \cup ({"remove"} \X {"recover", "artifacts", "others", "tail"})

CleanupRemoval == {<<"remove", "cleanup">>}
=============================================================================
