---------------------------- MODULE MCHoldFlash ----------------------------
(* Two sectors of two pages, words of two bits, two images that differ in  *)
(* every page and share bits.                                              *)
EXTENDS HoldFlash, Bitwise

MCAnd(a, b) == a & b
MCCrc(s) == 0

ImageA == [p \in Pages |-> [c \in Cells |-> (p + c) % 3]]
ImageB == [p \in Pages |-> [c \in Cells |-> (p + c + 1) % 3]]
MCImages == {ImageA, ImageB}
=============================================================================
