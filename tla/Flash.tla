------------------------------- MODULE Flash -------------------------------
(***************************************************************************)
(* The application region of a device's flash, as device/core/update.c     *)
(* sees it: AppPages pages of PageSize cells.  A cell stands for one       *)
(* little-endian 32-bit word, so that the 16-byte footer at the end of the *)
(* region is four cells: magic, length, CRC, reserved.  Lengths count      *)
(* cells.  The CRC-32 of a byte range is the operator Crc of the sequence  *)
(* of its cells; nothing is assumed of Crc here.                           *)
(***************************************************************************)
EXTENDS Integers, Sequences

CONSTANTS
    PageSize,    \* cells per page (port_info_t.page_size)
    AppPages,    \* pages in the application region (port_info_t.app_pages)
    Blank,       \* the erased cell, 0xFFFFFFFF: the largest word
    Magic,       \* the footer magic 'OTAU'
    Crc(_),      \* CRC-32 of a sequence of cells
    NorAnd(_, _) \* bitwise AND of two words: programming only clears bits

Word  == 0 .. Blank
Pages == 0 .. AppPages - 1
Cells == 0 .. PageSize - 1
Page  == [Cells -> Word]

(* A port may report any geometry: the core guards the degenerate ones.    *)
ASSUME GeometryAssumption == PageSize \in Nat /\ AppPages \in Nat
ASSUME WordAssumption == Blank \in Nat /\ Magic \in Word

(* Programming yields words; over an erased word it writes what it is      *)
(* given, and repeating it is harmless.                                    *)
ASSUME AndAssumption == \A a, b \in Word : NorAnd(a, b) \in Word
ASSUME NorAssumption ==
    \A a, b \in Word : /\ NorAnd(a, b) = NorAnd(b, a)
                       /\ NorAnd(a, Blank) = a
                       /\ NorAnd(NorAnd(a, b), b) = NorAnd(a, b)

FooterLen == 4
RegionCells == PageSize * AppPages
FooterBase == RegionCells - FooterLen

BlankPage  == [c \in Cells |-> Blank]
BlankFlash == [p \in Pages |-> BlankPage]

(* port_flash_write_page: NOR programming, no implicit erase.              *)
Programmed(old, new) == [c \in Cells |-> NorAnd(old[c], new[c])]

(* A page whose erase or program lost power after its first h cells.       *)
Torn(old, new, h) == [c \in Cells |-> IF c < h THEN new[c] ELSE old[c]]

ReadCell(f, a) == f[a \div PageSize][a % PageSize]
Prefix(f, n)   == [i \in 1 .. n |-> ReadCell(f, i - 1)]
FlashCrc(f, n) == Crc(Prefix(f, n))

(* Faulty variant: the gate trusts the footer and computes no CRC.         *)
AppValidNoCrc(f) ==
    /\ RegionCells >= FooterLen
    /\ ReadCell(f, FooterBase) = Magic
    /\ ReadCell(f, FooterBase + 1) <= FooterBase

(* The boot gate: magic, a length that fits in front of the footer, and    *)
(* the CRC of that many cells.                                             *)
AppValid(f) ==
    /\ RegionCells >= FooterLen
    /\ ReadCell(f, FooterBase) = Magic
    /\ ReadCell(f, FooterBase + 1) <= FooterBase
    /\ FlashCrc(f, ReadCell(f, FooterBase + 1)) = ReadCell(f, FooterBase + 2)
=============================================================================
