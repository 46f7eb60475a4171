-------------------------------- MODULE ScanPlan --------------------------------
(***************************************************************************)
(* The plan of a Modbus scan (core/modbus_core.cpp): a range of register   *)
(* addresses cut into requests, and what a read response must look like to *)
(* count as the answer of one.  Frames are records of the fields that are  *)
(* compared; the CRC is taken to reject every frame that is not one        *)
(* complete answer.                                                        *)
(***************************************************************************)
EXTENDS Integers, Sequences

CONSTANTS
    MaxAddress,        \* MaximumRegisterAddress, 0xFFFF in the code
    MaxReadQuantity,   \* MaximumReadQuantity, 125
    MaxBlockSize,      \* MaximumSafeBlockSize, 64
    MaxPlanRegisters,  \* MaximumPlanRegisters, 4096
    MaxRetryCount      \* MaximumRetryCount, 5

ASSUME PlanLimits ==
    /\ {MaxAddress, MaxReadQuantity, MaxBlockSize, MaxPlanRegisters, MaxRetryCount} \subseteq Nat
    /\ MaxBlockSize <= MaxReadQuantity

CanRead(start, quantity) ==
    /\ start \in 0..MaxAddress
    /\ quantity \in 1..MaxReadQuantity
    /\ start + quantity - 1 <= MaxAddress

\* options: first and last address, block size, interval and retries.
PlanAccepted(o) ==
    /\ o.first \in 0..MaxAddress
    /\ o.last \in 0..MaxAddress
    /\ o.last >= o.first
    /\ o.blockSize \in 1..MaxBlockSize
    /\ o.retryCount \in 0..MaxRetryCount
    /\ o.last - o.first + 1 <= MaxPlanRegisters

FullBlockQuantity(o, address) == o.blockSize   \* Mutant: the last block is as large as the others.
BlockQuantity(o, address) ==
    IF o.last - address + 1 < o.blockSize THEN o.last - address + 1 ELSE o.blockSize

PlanBlocks(o) ==
    LET from[address \in Nat] ==
            IF address > o.last
            THEN << >>
            ELSE LET quantity == BlockQuantity(o, address)
                 IN  <<[start |-> address, quantity |-> quantity]>> \o from[address + quantity]
    IN  from[o.first]

\* The plan, or no blocks when the options or one request are refused.
BuildScanPlan(o) ==
    LET blocks == PlanBlocks(o)
    IN  IF /\ PlanAccepted(o)
           /\ \A i \in DOMAIN blocks : CanRead(blocks[i].start, blocks[i].quantity)
        THEN blocks
        ELSE << >>

\* What parseReadResponse makes of a complete frame, for a request of this quantity.
Parsed(frame, quantity) ==
    CASE frame.kind = "exception" -> "ModbusException"
      [] frame.kind = "data" /\ frame.quantity = quantity -> "Success"
      [] OTHER -> "ParseError"
=============================================================================
