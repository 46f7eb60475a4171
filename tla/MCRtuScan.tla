------------------------------- MODULE MCRtuScan -------------------------------
(***************************************************************************)
(* A scan of two blocks with the same quantity, one retry for what the     *)
(* program retries by default.  The limits of the plan are the code's,     *)
(* scaled down so that every range below and at them can be tried.         *)
(***************************************************************************)
EXTENDS RtuScan

MCOptions == [first |-> 0, last |-> 3, blockSize |-> 2, retryCount |-> 1]
MCRetryOn == {"Timeout", "TransportError"}
=============================================================================
