----------------------------- MODULE MCModbusScanUi -----------------------------
(* Two scans of three raw events in batches of two, three sessions.        *)
EXTENDS ModbusScanUi
=============================================================================
