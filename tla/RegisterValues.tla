---------------------------- MODULE RegisterValues ----------------------------
(***************************************************************************)
(* How a number is read from registers (core/analysis_core.cpp), and, as   *)
(* the reference for it, how a device sends one.  A byte has Byte values,  *)
(* of which each decimal digit takes all, where the code has two digits in *)
(* a byte.                                                                 *)
(***************************************************************************)
EXTENDS Integers, Sequences, FiniteSets, SequencesExt

CONSTANTS
    Byte,          \* number of the values of a byte, 256 in the code
    Floats         \* bit patterns of finite floats with their value (bitsToFloat32)

(***************************************************************************)
(* Decoding.  What may fail returns a set with at most one value.          *)
(***************************************************************************)
Word == Byte * Byte
Orders == [word : {"HighWordFirst", "LowWordFirst"}, byte : {"BigEndian", "LittleEndian"}]
SingleOrders == {o \in Orders : o.word = "HighWordFirst"}

SwapRegisterBytes(v) == (v % Byte) * Byte + (v \div Byte)
NormalizeRegisterBytes(v, order) == IF order = "BigEndian" THEN v ELSE SwapRegisterBytes(v)

\* The words of the registers in the order of their weight.
Ordered(registers, o) ==
    LET word(i) == NormalizeRegisterBytes(registers[i], o.byte)
    IN  CASE Len(registers) = 1 -> <<word(1)>>
          [] Len(registers) = 2 /\ o.word = "HighWordFirst" -> <<word(1), word(2)>>
          [] OTHER -> <<word(2), word(1)>>
Combine(words, base) == IF Len(words) = 1 THEN words[1] ELSE words[1] * base + words[2]
CombineWords(registers, o) == Combine(Ordered(registers, o), Word)

\* toInt16 and toInt32
Signed(v, size) == IF v < size \div 2 THEN v ELSE v - size

DecodePackedBcdWords(registers, o) ==
    LET words == Ordered(registers, o)
        digits == {w \div Byte : w \in ToSet(words)} \cup {w % Byte : w \in ToSet(words)}
        decimal == [i \in DOMAIN words |-> (words[i] \div Byte) * 10 + (words[i] % Byte)]
    IN  IF \E d \in digits : d > 9 THEN {} ELSE {Combine(decimal, 100)}

Gray16ToBinary(gray) ==
    LET binary[g \in Nat] ==
            IF g = 0 THEN 0 ELSE 2 * binary[g \div 2] + ((g + binary[g \div 2]) % 2)
    IN  binary[gray]

SingleTypes == {"UInt16", "Int16", "PackedBCD", "Gray16", "BitFlags"}
PairTypes == {"UInt32", "Int32", "Float32", "PackedBCD"}

\* decodeNumericValue, and the same cases in generateValueCandidates.
DecodeNumericValue(type, o, registers) ==
    LET combined == CombineWords(registers, o)
    IN  CASE type \in {"UInt16", "BitFlags", "UInt32"} -> {combined}
          [] type = "Int16" -> {Signed(combined, Word)}
          [] type = "Int32" -> {Signed(combined, Word * Word)}
          [] type = "PackedBCD" -> DecodePackedBcdWords(registers, o)
          [] type = "Gray16" -> {Gray16ToBinary(combined)}
          [] type = "Float32" -> {Floats[c] : c \in DOMAIN Floats \cap {combined}}

--------------------------------------------------------------------------------
(***************************************************************************)
(* What a device sends for a value: the reference the decoders are held    *)
(* against.                                                                *)
(***************************************************************************)
Bcd(v) == LET packed[n \in Nat] == IF n < 10 THEN n ELSE Byte * packed[n \div 10] + (n % 10) IN packed[v]
Gray(v) == LET gray[n \in Nat] == IF n = 0 THEN 0 ELSE 2 * gray[n \div 2] + ((n + (n \div 2)) % 2) IN gray[v]

\* The number whose bytes are sent for v as this type in so many registers, if v is one.
Bits(type, count, v) ==
    LET size == IF count = 1 THEN Word ELSE Word * Word
        most == IF count = 1 THEN 99 ELSE 9999
    IN  CASE type \in {"UInt16", "BitFlags", "UInt32"} -> {v} \cap (0..(size - 1))
          [] type \in {"Int16", "Int32"} ->
                {n \in {IF v < 0 THEN v + size ELSE v} : v \in (-(size \div 2))..(size \div 2 - 1)}
          [] type = "PackedBCD" -> {Bcd(n) : n \in {v} \cap (0..most)}
          [] type = "Gray16" -> {Gray(n) : n \in {v} \cap (0..(size - 1))}
          [] type = "Float32" -> {n \in DOMAIN Floats : Floats[n] = v}

SentBytes(n, count, o) ==
    LET high == n \div Word  low == n % Word
        words == CASE count = 1 -> <<n>>
                   [] count = 2 /\ o.word = "HighWordFirst" -> <<high, low>>
                   [] OTHER -> <<low, high>>
        pair(w) == IF o.byte = "BigEndian" THEN <<w \div Byte, w % Byte>> ELSE <<w % Byte, w \div Byte>>
    IN  FlattenSeq([i \in DOMAIN words |-> pair(words[i])])
================================================================================
