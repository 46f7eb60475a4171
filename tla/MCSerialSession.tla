---------------------------- MODULE MCSerialSession ----------------------------
(***************************************************************************)
(* Small instances of SerialSession for TLC: the window's thread (ui) and  *)
(* the Modbus scan thread (scan), with the calls each of them makes.       *)
(***************************************************************************)
EXTENDS SerialSession

CONSTANTS ui, scan

MCCallers == {ui, scan}

CallsOf(uiCalls, scanCalls) ==
    [c \in MCCallers |-> IF c = ui THEN uiCalls ELSE scanCalls]

\* Queued writes, with a second thread whose reads can report a lost device.
QueueCalls == CallsOf({"open", "close", "enqueue", "cancel", "take"}, {"read"})

\* Uses of the handle on a thread that does not open or close, and on the worker;
\* direct writes between the queued ones.  Reads, which use the handle as a direct
\* write does, race with the rest in QueueCalls.  (One thread only changes the line:
\* two of them could leave the option of the one with the line of the other.)
OrderCalls == CallsOf({"open", "close", "enqueue", "cancel"}, {"line", "write"})

\* Enough for the liveness properties: both threads compete with the worker.
LiveCalls == CallsOf({"open", "close", "enqueue"}, {"read"})

AllFaults == FaultKinds
OrderFaults == {"create", "closeHandle", "unplug", "io", "joinTimeout"}
LiveFaults == {"unplug", "wait", "startWorker", "closeHandle", "joinTimeout"}
=============================================================================
