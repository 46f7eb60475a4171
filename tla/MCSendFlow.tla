------------------------------- MODULE MCSendFlow -------------------------------
(* A file of two chunks, other writes beside it, two sessions, two prompts. *)
EXTENDS SendFlow
=============================================================================
