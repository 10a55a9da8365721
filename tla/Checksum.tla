------------------------------ MODULE Checksum ------------------------------
(* The CRC-8 of device/core/crc8.c: polynomial 0x07, initial value 0, most *)
(* significant bit first.                                                  *)
EXTENDS Integers, Sequences, Bitwise, SequencesExt

Crc8Poly == 7

(* The inner loop: one round per bit of the byte.                          *)
Crc8Round == [c \in 0 .. 255 |-> IF c >= 128 THEN (2 * c - 256) ^^ Crc8Poly ELSE 2 * c]
Crc8Rounds ==
    [c \in 0 .. 255 |->
        FoldLeft(LAMBDA crc, bit : Crc8Round[crc], c, [bit \in 1 .. 8 |-> bit])]

(* The outer loop's step, tabulated over both of its bytes.                *)
Crc8Step == [c \in 0 .. 255 |-> [b \in 0 .. 255 |-> Crc8Rounds[c ^^ b]]]

UpdCrc8(s) == FoldLeft(LAMBDA crc, b : Crc8Step[crc][b], 0, s)
=============================================================================
