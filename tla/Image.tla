------------------------------- MODULE Image -------------------------------
(***************************************************************************)
(* The host's view of an image (host/updater-core/src/image.rs): a         *)
(* sequence of cells bound to a page geometry, the footer appended to it,  *)
(* its rendering into pages and the pages an update has to send.           *)
(***************************************************************************)
EXTENDS Flash

CONSTANT PageSizeMax   \* PAGE_SIZE_MAX: what a WRITE_PAGE frame can carry

(* The footer's magic is no erased word, and its length field holds the    *)
(* length of any payload.                                                  *)
ASSUME FooterAssumption == Magic # Blank /\ RegionCells <= Blank
ASSUME PageSizeMaxAssumption == PageSizeMax \in Nat

(* Image::from_bin: at least one page, a page that holds the footer and    *)
(* fits a frame, and room for the footer behind the payload.               *)
Fits(code) ==
    /\ AppPages # 0
    /\ PageSize \in FooterLen .. PageSizeMax
    /\ Len(code) <= FooterBase

Footer(code) == <<Magic, Len(code), Crc(code), Blank>>

FooterPage == AppPages - 1

(* Image::page_into: payload, then padding, the footer laid over the end   *)
(* of the last page.                                                       *)
PageInto(code, p) ==
    LET Payload(c) == LET a == p * PageSize + c
                      IN IF a < Len(code) THEN code[a + 1] ELSE Blank
        FooterAt   == PageSize - FooterLen
    IN [c \in Cells |-> IF p = FooterPage /\ c >= FooterAt
                        THEN Footer(code)[c - FooterAt + 1]
                        ELSE Payload(c)]

(* Faulty variant: a page is judged by its first cell.                     *)
MustWriteFirstCell(code, p) ==
    \/ p = FooterPage
    \/ p * PageSize < Len(code) /\ code[p * PageSize + 1] # Blank

(* Image::must_write: the footer page, and every page with a payload cell  *)
(* that is not blank.                                                      *)
MustWrite(code, p) ==
    \/ p = FooterPage
    \/ \E a \in p * PageSize .. (p + 1) * PageSize - 1 :
          a < Len(code) /\ code[a + 1] # Blank

(* Pages::next: the first page at or after the cursor that must be written *)
(* (AppPages: the iterator is exhausted).                                  *)
NextPage(code, cursor) ==
    LET due == {p \in Pages : p >= cursor /\ MustWrite(code, p)}
    IN IF due = {} THEN AppPages ELSE CHOOSE p \in due : \A q \in due : p <= q

(* What is asked of the CRC where a cut erase is to be told from an image: *)
(* a binary whose first n cells are erased has neither the CRC of the      *)
(* binary nor one that reads as erased.                                    *)
HeadErased(code, n) == [i \in 1 .. Len(code) |-> IF i <= n THEN Blank ELSE code[i]]

HeadErasedShows(code) ==
    \A n \in 0 .. Len(code) :
        HeadErased(code, n) # code => Crc(HeadErased(code, n)) \notin {Crc(code), Blank}
=============================================================================
