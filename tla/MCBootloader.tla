---------------------------- MODULE MCBootloader ----------------------------
(***************************************************************************)
(* The bootloader on a two-page region of four-cell pages: one page of     *)
(* code and one that is exactly the footer.  Words are small integers, the *)
(* all-ones word Blank included, so that NOR programming is a real AND.    *)
(***************************************************************************)
EXTENDS Bootloader, Bitwise, SequencesExt

MCAnd(a, b) == a & b

(* A checksum that is collision-free on the contents these models reach.   *)
MCCrc(s) == FoldLeft(LAMBDA acc, w : (acc * 31 + w + 7) % 127, 1, s)

CodeA == <<1, 2, Blank>>
CodeB == <<4>>

FooterOf(code) == [c \in Cells |-> <<Magic, Len(code), MCCrc(code), Blank>>[c + 1]]
PageOf(code)   == [c \in Cells |-> IF c < Len(code) THEN code[c + 1] ELSE Blank]
ImageOf(code)  == [p \in Pages |-> IF p = AppPages - 1 THEN FooterOf(code)
                                   ELSE PageOf(code)]

MCInitialFlash == {BlankFlash, ImageOf(CodeA)}

Write(p, d)  == [cmd |-> "WRITE", full |-> TRUE, page |-> p, data |-> d]
Verify(l, c) == [cmd |-> "VERIFY", full |-> TRUE, length |-> l, crc |-> c]

MCRequests ==
    {[cmd |-> c] : c \in {"INFO", "BOOT", "OTHER"}}
    \cup {[cmd |-> "ERASE", magic |-> m] : m \in BOOLEAN}
    \cup {Write(0, PageOf(CodeB)), Write(1, FooterOf(CodeB)),
          Write(1, FooterOf(CodeA)), Write(AppPages, PageOf(CodeB))}
    \cup {[Write(0, PageOf(CodeB)) EXCEPT !.full = FALSE]}
    \cup {Verify(Len(CodeB), MCCrc(CodeB)), Verify(FooterBase + 1, 0),
          [Verify(1, 0) EXCEPT !.full = FALSE]}
    \cup {[cmd |-> "ECHO", fits |-> f] : f \in BOOLEAN}
=============================================================================
