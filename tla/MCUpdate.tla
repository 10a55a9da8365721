------------------------------ MODULE MCUpdate ------------------------------
(***************************************************************************)
(* Three pages of four cells: two pages of code, one that is the footer.   *)
(* The device first holds a whole old image or nothing.                    *)
(***************************************************************************)
EXTENDS Update, Bitwise, SequencesExt

MCAnd(a, b) == a & b
MCCrc(s) == FoldLeft(LAMBDA acc, w : (acc * 31 + w + 7) % 127, 1, s)

OldCode == <<1, 2>>
NewCode == <<4, Blank, 6, 3, 5>>
MCCodes == {OldCode, NewCode}

ImageOf(c) == [p \in Pages |-> PageInto(c, p)]
MCInitialFlash == {BlankFlash, ImageOf(OldCode)}
MCOldFlash == {ImageOf(OldCode)}

(* What the theorems about whole images ask of the checksum.               *)
ASSUME MCHeadErased == \A c \in Codes : HeadErasedShows(c)
=============================================================================
