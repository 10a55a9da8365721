----------------------------- MODULE HoldFlash -----------------------------
(***************************************************************************)
(* The RP2350's flash driver (device/ports/rp2350_uart/flash.c).  Its      *)
(* flash programs two pages at a time and erases a sector at a time, so    *)
(* the driver holds an even page in RAM until its odd partner arrives, a   *)
(* read is asked for or another page is written, and erases a sector when  *)
(* it is called for the sector's first page.  The core calls it: page by   *)
(* page in handle_erase, with a page in range once a full erase has        *)
(* completed in handle_write, and to read the region.  Power fails at any  *)
(* moment, also while the flash is busy.                                   *)
(*                                                                         *)
(* Between two erases a page is written with the same data each time:      *)
(* port.h demands no more of a repeated write than that.                   *)
(***************************************************************************)
EXTENDS Flash

CONSTANTS
    PagesPerSector,  \* FLASH_SECTOR_SIZE / UPDATER_PAGE_SIZE
    Images,          \* what hosts may write
    MaxCuts          \* bound on power failures

Region == [Pages -> Page]

(* The static assertions of flash.c.                                       *)
ASSUME SectorAssumption ==
    /\ PagesPerSector \in Nat \ {0}
    /\ PagesPerSector % 2 = 0
    /\ AppPages > 0
    /\ AppPages % PagesPerSector = 0
ASSUME ImagesAssumption == Images \subseteq Region
ASSUME CutsAssumption == MaxCuts \in Nat

VARIABLES
    raw,        \* the flash itself
    hold,       \* the held page's data,
    holdPage,   \*   its index,
    holdValid,  \*   and whether there is one
    erased,     \* upd_session_t.erased
    cursor,     \* the page handle_erase is about to erase, AppPages: not in it
    job,        \* the image the current host writes
    seen,       \* the region as last read through port_flash_read_byte
    changed,    \* history: flash was touched since it was last read
    cuts        \* counts power failures, for MaxCuts

held == <<hold, holdPage, holdValid>>
vars == <<raw, hold, holdPage, holdValid, erased, cursor, job, seen, changed, cuts>>

ZeroPage == [c \in Cells |-> 0]

Init ==
    /\ raw \in Images
    /\ hold = ZeroPage /\ holdPage = 0 /\ holdValid = FALSE
    /\ erased = FALSE
    /\ cursor = AppPages
    /\ job = raw
    /\ seen = raw
    /\ changed = FALSE
    /\ cuts = 0

-----------------------------------------------------------------------------
(* prog_flash_page: one program operation for the two pages of a unit.     *)
ProgFlashPage(f, even, lo, hi) ==
    [p \in Pages |-> IF p = even THEN Programmed(f[p], lo)
                     ELSE IF p = even + 1 THEN Programmed(f[p], hi)
                     ELSE f[p]]

(* The flash after hold_flush, which pads with an erased half.             *)
Flushed == IF holdValid THEN ProgFlashPage(raw, holdPage, hold, BlankPage) ELSE raw

(* The flash after flash_range_erase of the sector that page q starts.     *)
SectorErased(f, q) ==
    [p \in Pages |-> IF p \in q .. q + PagesPerSector - 1 THEN BlankPage ELSE f[p]]

(* The flash after port_flash_erase_page(q).                               *)
ErasedAt(q) == IF q % PagesPerSector = 0 THEN SectorErased(raw, q) ELSE raw

(* port_flash_write_page(p) programs the unit at once when p completes the *)
(* held page; otherwise it flushes, and programs p if it is odd.           *)
Partner(p) == holdValid /\ p = holdPage + 1

BeforeWrite(p) == IF Partner(p) THEN raw ELSE Flushed

AfterWrite(p) ==
    IF Partner(p) THEN ProgFlashPage(raw, holdPage, hold, job[p])
    ELSE IF p % 2 = 1 THEN ProgFlashPage(Flushed, p - 1, BlankPage, job[p])
    ELSE Flushed

Idle == cursor = AppPages

-----------------------------------------------------------------------------
(* A host that wants to write img sends ERASE_APP.                         *)
EraseStarts(img) ==
    /\ Idle
    /\ cursor' = 0
    /\ job' = img
    /\ UNCHANGED <<raw, held, erased, seen, changed, cuts>>

(* Faulty variant: the erase forgets the held page.                        *)
ErasePageKeepsHeld ==
    /\ ~Idle
    /\ raw' = ErasedAt(cursor)
    /\ cursor' = cursor + 1
    /\ erased' = (erased \/ cursor + 1 = AppPages)
    /\ changed' = TRUE
    /\ UNCHANGED <<held, job, seen, cuts>>

(* One round of handle_erase's loop; the last one completes the erase.     *)
ErasePage ==
    /\ ~Idle
    /\ holdValid' = FALSE
    /\ raw' = ErasedAt(cursor)
    /\ cursor' = cursor + 1
    /\ erased' = (erased \/ cursor + 1 = AppPages)
    /\ changed' = TRUE
    /\ UNCHANGED <<hold, holdPage, job, seen, cuts>>

(* Faulty variant: any page is held, not only an even one.                 *)
WritePageHoldsAny(p) ==
    /\ Idle /\ erased
    /\ raw' = AfterWrite(p)
    /\ hold' = job[p] /\ holdPage' = p /\ holdValid' = TRUE
    /\ changed' = TRUE
    /\ UNCHANGED <<erased, cursor, job, seen, cuts>>

(* A repeat of the held page replaces it, every other even page is held.   *)
WritePage(p) ==
    /\ Idle /\ erased
    /\ IF holdValid /\ p = holdPage
       THEN hold' = job[p] /\ UNCHANGED <<raw, holdPage, holdValid>>
       ELSE /\ raw' = AfterWrite(p)
            /\ IF p % 2 = 0
               THEN hold' = job[p] /\ holdPage' = p /\ holdValid' = TRUE
               ELSE holdValid' = FALSE /\ UNCHANGED <<hold, holdPage>>
    /\ changed' = TRUE
    /\ UNCHANGED <<erased, cursor, job, seen, cuts>>

(* Faulty variant: a read takes the held page from RAM.                    *)
ReadRegionFromRam ==
    /\ Idle
    /\ seen' = Flushed
    /\ changed' = FALSE
    /\ UNCHANGED <<raw, held, erased, cursor, job, cuts>>

(* VERIFY, INFO and the boot gate walk the region.                         *)
ReadRegion ==
    /\ Idle
    /\ raw' = Flushed
    /\ holdValid' = FALSE
    /\ seen' = raw'
    /\ changed' = FALSE
    /\ UNCHANGED <<hold, holdPage, erased, cursor, job, cuts>>

-----------------------------------------------------------------------------
(* A flash operation that turns old into new and is cut off after n cells. *)
TornRegion(old, new, n) ==
    [p \in Pages |-> [c \in Cells |->
        IF p * PageSize + c < n THEN new[p][c] ELSE old[p][c]]]

(* Power fails: RAM is lost, and with it the held page and the session.    *)
Restart ==
    /\ cuts < MaxCuts
    /\ cuts' = cuts + 1
    /\ hold' = ZeroPage /\ holdPage' = 0 /\ holdValid' = FALSE
    /\ erased' = FALSE
    /\ cursor' = AppPages
    /\ UNCHANGED <<job, seen>>

(* While idle, or in the flush of a write or a read.                       *)
CutIdle(n) ==
    /\ Idle
    /\ raw' = TornRegion(raw, Flushed, n)
    /\ Restart
    /\ UNCHANGED changed

CutWrite(p, n) ==
    /\ Idle /\ erased
    /\ ~(holdValid /\ p = holdPage)
    /\ raw' = TornRegion(BeforeWrite(p), AfterWrite(p), n)
    /\ changed' = TRUE
    /\ Restart

CutErase(n) ==
    /\ ~Idle
    /\ raw' = TornRegion(raw, ErasedAt(cursor), n)
    /\ changed' = TRUE
    /\ Restart

PowerFails(n) ==
    CutIdle(n) \/ CutErase(n) \/ \E p \in Pages : CutWrite(p, n)

Next ==
    \/ \E img \in Images : EraseStarts(img)
    \/ ErasePage
    \/ \E p \in Pages : WritePage(p)
    \/ ReadRegion
    \/ \E n \in 0 .. RegionCells : PowerFails(n)

Spec == Init /\ [][Next]_vars
-----------------------------------------------------------------------------
(* Types; a held page is an even page of the host's image.                 *)
TypeOK ==
    /\ raw \in Region /\ job \in Region /\ seen \in Region
    /\ hold \in Page /\ holdPage \in Pages /\ holdValid \in BOOLEAN
    /\ holdValid => holdPage % 2 = 0
    /\ holdValid /\ Idle => hold = job[holdPage]
    /\ erased \in BOOLEAN /\ changed \in BOOLEAN
    /\ cursor \in 0 .. AppPages
    /\ cuts \in 0 .. MaxCuts

Status == IF ~Idle THEN "erasing" ELSE IF erased THEN "ready" ELSE "cold"

Paged == INSTANCE PagedFlash WITH image <- Flushed, status <- Status

(* The driver keeps port.h's contract: to the core, holdback and sector    *)
(* erase are invisible (flash.c: "Correctness therefore does NOT depend on *)
(* ascending order"), for writes in any order with repeats, and a power    *)
(* failure costs at most one unit of two pages.                            *)
Contract == Paged!Spec

(* What a VERIFY or the boot gate has read is in the flash and not in RAM: *)
(* until the region is touched again, power may fail and a later boot sees *)
(* the same (port.h: "Must return what a subsequent boot would see").      *)
ReadIsDurable == ~changed => raw = seen
=============================================================================
