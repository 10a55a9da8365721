-------------------------- MODULE HoldFlash_proofs --------------------------
(***************************************************************************)
(* The RP2350's flash driver keeps the contract of port.h, for every       *)
(* geometry, every set of images and any number of power failures.         *)
(***************************************************************************)
EXTENDS HoldFlash, TLAPS

(* While an erase is under way, the sectors that start below the cursor    *)
(* are erased.                                                             *)
SectorsBehind ==
    ~Idle => \A s \in 0 .. cursor - 1, p \in Pages :
                s % PagesPerSector = 0 /\ p \in s .. s + PagesPerSector - 1
                   => raw[p] = BlankPage

IInv == TypeOK /\ SectorsBehind

(* Every page lies in a sector that starts at or before it.                *)
LEMMA SectorOf ==
    ASSUME NEW p \in Nat
    PROVE  \E s \in 0 .. p : /\ s % PagesPerSector = 0
                             /\ p \in s .. s + PagesPerSector - 1
<1>. DEFINE m == PagesPerSector  q == p \div m  s == m * q
<1>1. m \in Nat /\ m > 0
  BY SectorAssumption
<1>2. q \in Nat /\ p = m * q + (p % m) /\ p % m \in 0 .. m - 1
  BY <1>1
<1>3. s \in 0 .. p /\ p \in s .. s + m - 1
  BY <1>1, <1>2
<1>4. s % m = 0
  <2>. DEFINE d == q - (s \div m)
  <2>1. d \in Int /\ m * d = s % m /\ s % m \in 0 .. m - 1
    BY <1>1, <1>2
  <2>2. d >= 1 => m * d >= m
    BY <1>1, <2>1
  <2>3. d <= -1 => m * d <= -m
    BY <1>1, <2>1
  <2>4. d = 0
    BY <1>1, <2>1, <2>2, <2>3
  <2>. QED BY <1>1, <2>1, <2>4
<1>. QED BY <1>3, <1>4

(* Programming a page: it stays a page, an erased half changes nothing,    *)
(* and a repeat changes nothing.                                           *)
LEMMA Programming ==
    ASSUME NEW a \in Page, NEW b \in Page
    PROVE  /\ Programmed(a, b) \in Page
           /\ Programmed(a, BlankPage) = a
           /\ Programmed(Programmed(a, b), b) = Programmed(a, b)
<1>1. Blank \in Word
  BY WordAssumption DEF Word
<1>2. Programmed(a, b) \in Page
  BY AndAssumption DEF Programmed, Page
<1>3. Programmed(a, BlankPage) = a
  BY <1>1, NorAssumption DEF Programmed, BlankPage, Page
<1>4. Programmed(Programmed(a, b), b) = Programmed(a, b)
  BY NorAssumption DEF Programmed, Page
<1>. QED BY <1>2, <1>3, <1>4

(* An erased and a zeroed page are pages.                                  *)
LEMMA BlankIsPage == BlankPage \in Page /\ ZeroPage \in Page
BY WordAssumption DEF BlankPage, ZeroPage, Page, Word

(* The operations on the region yield regions.                             *)
LEMMA Regions ==
    ASSUME NEW f \in Region, NEW g \in Region, NEW lo \in Page, NEW hi \in Page,
           NEW e \in Int, NEW n \in Int
    PROVE  /\ ProgFlashPage(f, e, lo, hi) \in Region
           /\ SectorErased(f, e) \in Region
           /\ TornRegion(f, g, n) \in Region
<1>1. \A p \in Pages : f[p] \in Page /\ g[p] \in Page
  BY DEF Region
<1>2. ProgFlashPage(f, e, lo, hi) \in Region
  <2>1. \A p \in Pages : Programmed(f[p], lo) \in Page /\ Programmed(f[p], hi) \in Page
    BY <1>1, Programming
  <2>. QED BY <1>1, <2>1 DEF ProgFlashPage, Region
<1>3. SectorErased(f, e) \in Region
  BY <1>1, BlankIsPage DEF SectorErased, Region
<1>4. TornRegion(f, g, n) \in Region
  <2>1. \A p \in Pages : TornRegion(f, g, n)[p] \in Page
    BY <1>1 DEF TornRegion, Page
  <2>. QED BY <2>1 DEF TornRegion, Region
<1>. QED BY <1>2, <1>3, <1>4

(* A torn operation leaves alone the pages the operation leaves alone.     *)
LEMMA TornKeeps ==
    ASSUME NEW f \in Region, NEW g \in Region, NEW n \in Int, NEW p \in Pages,
           f[p] = g[p]
    PROVE  TornRegion(f, g, n)[p] = f[p]
<1>1. f[p] \in Page
  BY DEF Region
<1>. QED BY <1>1 DEF TornRegion, Page

(* The view of the core: the held page counts as programmed.               *)
LEMMA FlushedIs ==
    ASSUME TypeOK
    PROVE  /\ Flushed \in Region
           /\ holdValid => Flushed = [raw EXCEPT ![holdPage] = Programmed(@, hold)]
           /\ ~holdValid => Flushed = raw
<1>1. Flushed \in Region
  <2>1. raw \in Region /\ hold \in Page /\ BlankPage \in Page /\ holdPage \in Int
    BY GeometryAssumption, BlankIsPage DEF TypeOK, Pages
  <2>2. ProgFlashPage(raw, holdPage, hold, BlankPage) \in Region
    BY <2>1, Regions
  <2>. QED BY <2>1, <2>2 DEF Flushed
<1>2. ASSUME holdValid PROVE Flushed = [raw EXCEPT ![holdPage] = Programmed(@, hold)]
  <2>1. \A p \in Pages : raw[p] \in Page
    BY DEF TypeOK, Region
  <2>2. \A p \in Pages : Programmed(raw[p], BlankPage) = raw[p]
    BY <2>1, Programming
  <2>. QED BY <1>2, <2>2 DEF TypeOK, Flushed, ProgFlashPage, Region
<1>. QED BY <1>1, <1>2 DEF Flushed

(* What port_flash_write_page leaves in the flash.                         *)
LEMMA AfterWriteIs ==
    ASSUME TypeOK, NEW p \in Pages
    PROVE  BeforeWrite(p) \in Region /\ AfterWrite(p) \in Region
<1>1. /\ raw \in Region /\ Flushed \in Region
      /\ hold \in Page /\ BlankPage \in Page /\ job[p] \in Page
  BY FlushedIs, BlankIsPage DEF TypeOK, Region
<1>2. holdPage \in Int /\ p - 1 \in Int
  BY GeometryAssumption DEF TypeOK, Pages
<1>3. /\ ProgFlashPage(raw, holdPage, hold, job[p]) \in Region
      /\ ProgFlashPage(Flushed, p - 1, BlankPage, job[p]) \in Region
  BY <1>1, <1>2, Regions
<1>. QED BY <1>1, <1>3 DEF BeforeWrite, AfterWrite

(* Erasing the sector under the cursor leaves a region of pages.           *)
LEMMA ErasedAtIs == ASSUME TypeOK PROVE ErasedAt(cursor) \in Region
<1>1. raw \in Region /\ cursor \in Int /\ BlankPage \in Page
  BY GeometryAssumption, BlankIsPage DEF TypeOK
<1>2. SectorErased(raw, cursor) \in Region
  BY <1>1, Regions
<1>. QED BY <1>1, <1>2 DEF ErasedAt

(* A power cut leaves the driver's statics as the start-up code sets them. *)
LEMMA RestartTypes ==
    ASSUME TypeOK, Restart, raw' \in Region, changed' \in BOOLEAN
    PROVE  TypeOK' /\ Idle'
<1>1. 0 \in Pages /\ ZeroPage \in Page
  BY GeometryAssumption, SectorAssumption, BlankIsPage DEF Pages
<1>2. AppPages \in 0 .. AppPages /\ cuts' \in 0 .. MaxCuts
  BY GeometryAssumption, CutsAssumption DEF TypeOK, Restart
<1>3. /\ raw' \in Region /\ job' \in Region /\ seen' \in Region
      /\ hold' \in Page /\ holdPage' \in Pages /\ holdValid' = FALSE
      /\ erased' = FALSE /\ cursor' = AppPages
  BY <1>1 DEF TypeOK, Restart
<1>. QED BY <1>2, <1>3 DEF TypeOK, Idle

(* A power failure keeps the invariant.                                    *)
LEMMA PowerKeepsIInv ==
    ASSUME IInv, NEW n \in 0 .. RegionCells, PowerFails(n)
    PROVE  IInv'
<1>1. TypeOK /\ n \in Int /\ raw \in Region /\ Flushed \in Region
  BY FlushedIs DEF IInv, TypeOK
<1>2. raw' \in Region /\ changed' \in BOOLEAN /\ Restart
  <2>1. CASE CutIdle(n)
    BY <1>1, <2>1, Regions, BlankIsPage, GeometryAssumption DEF CutIdle, TypeOK
  <2>2. CASE CutErase(n)
    BY <1>1, <2>2, Regions, BlankIsPage, ErasedAtIs, GeometryAssumption DEF CutErase
  <2>3. ASSUME NEW p \in Pages, CutWrite(p, n)
        PROVE  raw' \in Region /\ changed' \in BOOLEAN /\ Restart
    BY <1>1, <2>3, Regions, BlankIsPage, AfterWriteIs, GeometryAssumption DEF CutWrite
  <2>. QED BY <2>1, <2>2, <2>3 DEF PowerFails
<1>3. TypeOK' /\ Idle'
  BY <1>1, <1>2, RestartTypes
<1>. QED BY <1>3 DEF IInv, SectorsBehind

(* The invariant is inductive.                                             *)
LEMMA InitIInv == Init => IInv
<1>. SUFFICES ASSUME Init PROVE IInv OBVIOUS
<1>1. 0 \in Pages /\ ZeroPage \in Page /\ raw \in Region /\ AppPages \in 0 .. AppPages
  BY GeometryAssumption, SectorAssumption, BlankIsPage, ImagesAssumption
     DEF Pages, Init
<1>2. cuts \in 0 .. MaxCuts /\ cursor \in 0 .. AppPages /\ Idle
  BY <1>1, CutsAssumption DEF Init, Idle
<1>3. /\ raw \in Region /\ job \in Region /\ seen \in Region
      /\ hold \in Page /\ holdPage \in Pages /\ holdValid = FALSE
      /\ erased = FALSE /\ changed = FALSE
  BY <1>1 DEF Init
<1>. QED BY <1>2, <1>3 DEF IInv, TypeOK, SectorsBehind

(* Erasing a page keeps the sectors behind the cursor erased.              *)
LEMMA EraseKeepsIInv == ASSUME IInv, ErasePage PROVE IInv'
<1>1. TypeOK' 
  <2>1. raw' \in Region
    BY ErasedAtIs DEF IInv, ErasePage
  <2>2. cursor' \in 0 .. AppPages
    BY GeometryAssumption DEF IInv, TypeOK, ErasePage, Idle
  <2>. QED BY <2>1, <2>2 DEF IInv, TypeOK, ErasePage
<1>2. ASSUME NEW s \in 0 .. cursor, NEW p \in Pages,
             s % PagesPerSector = 0, p \in s .. s + PagesPerSector - 1
      PROVE  raw'[p] = BlankPage
  <2>1. cursor \in Nat /\ cursor < AppPages /\ raw \in Region
    BY GeometryAssumption DEF IInv, TypeOK, ErasePage, Idle
  <2>2. CASE s = cursor
    BY <1>2, <2>2 DEF ErasePage, ErasedAt, SectorErased
  <2>3. CASE s # cursor
    <3>1. raw[p] = BlankPage
      BY <1>2, <2>1, <2>3 DEF IInv, SectorsBehind, ErasePage
    <3>. QED BY <3>1 DEF ErasePage, ErasedAt, SectorErased
  <2>. QED BY <2>2, <2>3
<1>3. cursor' - 1 = cursor
  BY GeometryAssumption DEF IInv, TypeOK, ErasePage
<1>. QED BY <1>1, <1>2, <1>3 DEF IInv, SectorsBehind

(* A page write, whether it is held back or programmed, keeps the          *)
(* invariant.                                                              *)
LEMMA WriteKeepsIInv ==
    ASSUME IInv, NEW p \in Pages, WritePage(p)
    PROVE  IInv'
<1>1. TypeOK /\ Idle /\ Idle' /\ AfterWrite(p) \in Region /\ job[p] \in Page
  BY AfterWriteIs DEF IInv, TypeOK, WritePage, Idle, Region
<1>2. TypeOK'
  <2>1. CASE holdValid /\ p = holdPage
    BY <1>1, <2>1 DEF TypeOK, WritePage
  <2>2. CASE ~(holdValid /\ p = holdPage)
    BY <1>1, <2>2 DEF TypeOK, WritePage
  <2>. QED BY <2>1, <2>2
<1>. QED BY <1>1, <1>2 DEF IInv, SectorsBehind

(* The inductive step, action by action.                                   *)
LEMMA NextIInv == IInv /\ [Next]_vars => IInv'
<1>. SUFFICES ASSUME IInv, [Next]_vars PROVE IInv' OBVIOUS
<1>1. ASSUME NEW img \in Images, EraseStarts(img) PROVE IInv'
  <2>1. 0 \in 0 .. AppPages /\ img \in Region
    BY GeometryAssumption, ImagesAssumption
  <2>2. cursor' = 0 /\ job' = img /\ ~Idle'
    BY <1>1, SectorAssumption, GeometryAssumption DEF EraseStarts, Idle
  <2>3. UNCHANGED <<raw, held, erased, seen, changed, cuts>>
    BY <1>1 DEF EraseStarts
  <2>4. TypeOK'
    BY <2>1, <2>2, <2>3 DEF IInv, TypeOK, held
  <2>. QED BY <2>2, <2>4 DEF IInv, SectorsBehind
<1>2. CASE ErasePage
  BY <1>2, EraseKeepsIInv
<1>3. ASSUME NEW p \in Pages, WritePage(p) PROVE IInv'
  BY <1>3, WriteKeepsIInv
<1>4. CASE ReadRegion
  <2>1. raw' \in Region /\ Idle'
    BY <1>4, FlushedIs DEF IInv, ReadRegion, Idle
  <2>. QED BY <1>4, <2>1 DEF IInv, TypeOK, SectorsBehind, ReadRegion
<1>5. ASSUME NEW n \in 0 .. RegionCells, PowerFails(n) PROVE IInv'
  BY <1>5, PowerKeepsIInv
<1>6. CASE UNCHANGED vars
  BY <1>6 DEF IInv, TypeOK, SectorsBehind, Idle, vars
<1>. QED BY <1>1, <1>2, <1>3, <1>4, <1>5, <1>6 DEF Next

(* The invariant the theorems about the driver rest on.                    *)
LEMMA IInvHolds == Spec => []IInv
<1>. QED BY InitIInv, NextIInv, PTL DEF Spec

(* Types, and that a held page is an even page of the image being written, *)
(* whatever the order of the core's calls.                                 *)
THEOREM HoldTypes == Spec => []TypeOK
<1>1. IInv => TypeOK
  BY DEF IInv
<1>. QED BY <1>1, IInvHolds, PTL

(* Untouched since it was read, the region is in the flash and no page is  *)
(* held.                                                                   *)
Durable == ~changed => raw = seen /\ ~holdValid

(* A power cut before anything was touched tears no page.                  *)
LEMMA TornNothing ==
    ASSUME NEW f \in Region, NEW n \in Int PROVE TornRegion(f, f, n) = f
<1>1. \A p \in Pages : TornRegion(f, f, n)[p] = f[p]
  BY TornKeeps
<1>. QED BY <1>1 DEF TornRegion, Region

(* What was read survives: VERIFY and the boot gate speak about the flash, *)
(* not about the page in RAM that a power failure would take.              *)
THEOREM ReadsSurvive == Spec => []ReadIsDurable
<1>1. Init => Durable
  BY DEF Init, Durable
<1>2. IInv /\ Durable /\ [Next]_vars => Durable'
  <2>. SUFFICES ASSUME IInv, Durable, [Next]_vars PROVE Durable' OBVIOUS
  <2>1. ASSUME NEW img \in Images, EraseStarts(img) PROVE Durable'
    BY <2>1 DEF Durable, EraseStarts, held
  <2>2. CASE ErasePage
    BY <2>2 DEF Durable, ErasePage
  <2>3. ASSUME NEW p \in Pages, WritePage(p) PROVE Durable'
    BY <2>3 DEF Durable, WritePage
  <2>4. CASE ReadRegion
    BY <2>4 DEF Durable, ReadRegion
  <2>5. ASSUME NEW n \in 0 .. RegionCells, CutIdle(n) PROVE Durable'
    <3>1. holdValid' = FALSE /\ seen' = seen /\ changed' = changed
      BY <2>5 DEF CutIdle, Restart
    <3>2. ~changed => raw' = raw
      BY <2>5, TornNothing DEF Durable, CutIdle, Flushed, IInv, TypeOK
    <3>. QED BY <3>1, <3>2 DEF Durable
  <2>6. ASSUME NEW n \in 0 .. RegionCells, CutErase(n) PROVE Durable'
    BY <2>6 DEF Durable, CutErase
  <2>7. ASSUME NEW n \in 0 .. RegionCells, NEW p \in Pages, CutWrite(p, n)
        PROVE  Durable'
    BY <2>7 DEF Durable, CutWrite
  <2>8. CASE UNCHANGED vars
    BY <2>8 DEF Durable, vars
  <2>. QED BY <2>1, <2>2, <2>3, <2>4, <2>5, <2>6, <2>7, <2>8 DEF Next, PowerFails
<1>3. Durable => ReadIsDurable
  BY DEF Durable, ReadIsDurable
<1>. QED BY <1>1, <1>2, <1>3, IInvHolds, PTL DEF Spec

-----------------------------------------------------------------------------
(* The refinement: one lemma for each operation.                           *)

(* When the last page's turn is over, every sector has been erased.        *)
LEMMA EraseRefines == ASSUME IInv, IInv', ErasePage PROVE Paged!Next
<1>1. ~holdValid' /\ Flushed' = raw' /\ raw' \in Region
  BY DEF ErasePage, Flushed, IInv, TypeOK
<1>2. Status = "erasing" /\ seen' = seen
  BY DEF Status, ErasePage
<1>3. CASE Idle'
  <2>1. cursor + 1 = AppPages /\ cursor \in Nat
    BY <1>3, GeometryAssumption DEF ErasePage, Idle, IInv, TypeOK
  <2>2. \A p \in Pages : raw'[p] = BlankPage
    <3>. SUFFICES ASSUME NEW p \in Pages PROVE raw'[p] = BlankPage OBVIOUS
    <3>1. PICK s \in 0 .. p : /\ s % PagesPerSector = 0
                              /\ p \in s .. s + PagesPerSector - 1
      BY SectorOf, GeometryAssumption DEF Pages
    <3>2. s \in 0 .. cursor
      BY <2>1, <3>1, GeometryAssumption DEF Pages
    <3>3. CASE s = cursor
      BY <3>1, <3>3 DEF ErasePage, ErasedAt, SectorErased
    <3>4. CASE s # cursor
      <4>1. s \in 0 .. cursor - 1
        BY <2>1, <3>2, <3>4
      <4>2. raw[p] = BlankPage
        BY <3>1, <4>1 DEF IInv, SectorsBehind, ErasePage
      <4>. QED BY <4>2 DEF ErasePage, ErasedAt, SectorErased
    <3>. QED BY <3>3, <3>4
  <2>3. raw' = BlankFlash
    BY <1>1, <2>2 DEF Region, BlankFlash
  <2>4. Status' = "ready"
    BY <1>3, <2>1 DEF Status, ErasePage
  <2>5. Paged!EraseEnds
    BY <1>1, <1>2, <2>3, <2>4
       DEF Paged!EraseEnds, Paged!BlankFlash, Paged!BlankPage, Paged!Pages,
           Paged!Cells, BlankFlash, BlankPage, Pages, Cells
  <2>. QED BY <2>5 DEF Paged!Next
<1>4. CASE ~Idle'
  <2>1. Status' = "erasing"
    BY <1>4 DEF Status
  <2>2. Paged!Erasing
    BY <1>1, <1>2, <2>1
       DEF Paged!Erasing, Paged!Region, Paged!Page, Paged!Pages, Paged!Cells,
           Paged!Word, Region, Page, Pages, Cells, Word
  <2>. QED BY <2>2 DEF Paged!Next
<1>. QED BY <1>3, <1>4

(* A write, held or programmed, programs one page of the core's view.      *)
LEMMA WriteRefines ==
    ASSUME IInv, IInv', NEW p \in Pages, WritePage(p)
    PROVE  Paged!Next
<1>. DEFINE d == job[p]
<1>1. TypeOK /\ TypeOK' /\ Idle /\ Idle' /\ erased
  BY DEF IInv, WritePage, Idle
<1>2. /\ d \in Page /\ raw \in Region /\ Flushed \in Region
      /\ \A q \in Pages : Flushed[q] \in Page /\ raw[q] \in Page
  BY <1>1, FlushedIs DEF TypeOK, Region
<1>3. Flushed' = [Flushed EXCEPT ![p] = Programmed(@, d)]
  <2>1. CASE holdValid /\ p = holdPage
    <3>1. hold = d /\ hold' = hold /\ holdPage' = holdPage /\ holdValid' = holdValid
          /\ raw' = raw
      BY <1>1, <2>1 DEF TypeOK, WritePage
    <3>2. Flushed' = Flushed
      BY <3>1 DEF Flushed
    <3>3. Flushed[p] = Programmed(raw[p], d)
      BY <1>1, <1>2, <2>1, <3>1, FlushedIs DEF Region
    <3>4. Programmed(Flushed[p], d) = Flushed[p]
      BY <1>2, <3>3, Programming
    <3>. QED BY <1>2, <3>2, <3>4 DEF Region
  <2>2. CASE Partner(p)
    <3>1. p % 2 = 1 /\ p # holdPage /\ holdPage \in Pages
      BY <1>1, <2>2, GeometryAssumption DEF Partner, TypeOK, Pages
    <3>2. raw' = ProgFlashPage(raw, holdPage, hold, d) /\ Flushed' = raw'
      BY <2>2, <3>1 DEF WritePage, AfterWrite, Flushed
    <3>3. Flushed = [raw EXCEPT ![holdPage] = Programmed(@, hold)]
      BY <1>1, <2>2, FlushedIs DEF Partner
    <3>. QED BY <1>2, <2>2, <3>1, <3>2, <3>3 DEF ProgFlashPage, Region, Partner
  <2>3. CASE ~(holdValid /\ p = holdPage) /\ ~Partner(p) /\ p % 2 = 1
    <3>1. raw' = ProgFlashPage(Flushed, p - 1, BlankPage, d) /\ Flushed' = raw'
      BY <2>3 DEF WritePage, AfterWrite, Flushed
    <3>2. p - 1 + 1 = p /\ p - 1 # p
      BY GeometryAssumption DEF Pages
    <3>3. \A q \in Pages : Programmed(Flushed[q], BlankPage) = Flushed[q]
      BY <1>2, Programming
    <3>. QED BY <1>2, <3>1, <3>2, <3>3 DEF ProgFlashPage, Region
  <2>4. CASE ~(holdValid /\ p = holdPage) /\ ~Partner(p) /\ p % 2 = 0
    <3>1. raw' = Flushed /\ hold' = d /\ holdPage' = p /\ holdValid' = TRUE
      BY <2>4 DEF WritePage, AfterWrite
    <3>2. Flushed' = ProgFlashPage(Flushed, p, d, BlankPage)
      BY <3>1 DEF Flushed
    <3>3. \A q \in Pages : Programmed(Flushed[q], BlankPage) = Flushed[q]
      BY <1>2, Programming
    <3>. QED BY <1>2, <3>2, <3>3 DEF ProgFlashPage, Region
  <2>5. p % 2 = 0 \/ p % 2 = 1
    BY GeometryAssumption DEF Pages
  <2>. QED BY <2>1, <2>2, <2>3, <2>4, <2>5
<1>4. Status = "ready" /\ Status' = "ready" /\ seen' = seen
  BY <1>1 DEF Status, WritePage, Idle
<1>5. Paged!Write(p, d)
  BY <1>3, <1>4
     DEF Paged!Write, Paged!Programmed, Paged!Cells, Programmed, Cells
<1>. QED BY <1>2, <1>5
       DEF Paged!Next, Paged!Pages, Paged!Page, Paged!Cells, Paged!Word,
           Pages, Page, Cells, Word

(* Programming a unit leaves the other units alone.                        *)
LEMMA ProgOneUnit ==
    ASSUME NEW f \in Region, NEW lo, NEW hi, NEW u, NEW q \in Pages \ {u, u + 1}
    PROVE  ProgFlashPage(f, u, lo, hi)[q] = f[q]
BY DEF ProgFlashPage

(* A power failure outside an erase changes one unit of the core's view.   *)
LEMMA CutOneUnit ==
    ASSUME IInv, NEW n \in 0 .. RegionCells,
           CutIdle(n) \/ \E p \in Pages : CutWrite(p, n)
    PROVE  \E u \in Pages : /\ u % 2 = 0
                            /\ \A q \in Pages \ {u, u + 1} : raw'[q] = Flushed[q]
<1>1. TypeOK /\ raw \in Region /\ Flushed \in Region /\ n \in Int
  BY FlushedIs DEF IInv, TypeOK
<1>2. ASSUME holdValid
      PROVE  /\ holdPage \in Pages /\ holdPage % 2 = 0
             /\ \A q \in Pages \ {holdPage, holdPage + 1} : Flushed[q] = raw[q]
  BY <1>1, <1>2, ProgOneUnit DEF TypeOK, Flushed
<1>3. 0 \in Pages /\ 0 % 2 = 0
  BY GeometryAssumption, SectorAssumption DEF Pages
<1>4. CASE CutIdle(n)
  <2>1. raw' = TornRegion(raw, Flushed, n)
    BY <1>4 DEF CutIdle
  <2>2. CASE holdValid
    <3>1. \A q \in Pages \ {holdPage, holdPage + 1} : raw'[q] = Flushed[q]
      BY <1>1, <1>2, <2>1, <2>2, TornKeeps
    <3>. QED BY <1>2, <2>2, <3>1
  <2>3. CASE ~holdValid
    <3>1. raw' = Flushed
      BY <1>1, <2>1, <2>3, TornNothing DEF Flushed
    <3>. QED BY <1>3, <3>1
  <2>. QED BY <2>2, <2>3
<1>5. ASSUME NEW p \in Pages, CutWrite(p, n)
      PROVE  \E u \in Pages : /\ u % 2 = 0
                              /\ \A q \in Pages \ {u, u + 1} : raw'[q] = Flushed[q]
  <2>1. /\ raw' = TornRegion(BeforeWrite(p), AfterWrite(p), n)
        /\ BeforeWrite(p) \in Region /\ AfterWrite(p) \in Region
    BY <1>1, <1>5, AfterWriteIs DEF CutWrite
  <2>2. CASE Partner(p)
    <3>1. \A q \in Pages \ {holdPage, holdPage + 1} : AfterWrite(p)[q] = BeforeWrite(p)[q]
      BY <1>1, <2>2, ProgOneUnit DEF AfterWrite, BeforeWrite
    <3>2. \A q \in Pages \ {holdPage, holdPage + 1} : BeforeWrite(p)[q] = Flushed[q]
      BY <1>2, <2>2 DEF BeforeWrite, Partner
    <3>3. \A q \in Pages \ {holdPage, holdPage + 1} : raw'[q] = Flushed[q]
      BY <1>1, <2>1, <3>1, <3>2, TornKeeps
    <3>. QED BY <1>2, <2>2, <3>3 DEF Partner
  <2>3. CASE ~Partner(p) /\ p % 2 = 1
    <3>1. p - 1 \in Pages /\ (p - 1) % 2 = 0
      BY <2>3, GeometryAssumption DEF Pages
    <3>2. \A q \in Pages \ {p - 1, (p - 1) + 1} : AfterWrite(p)[q] = BeforeWrite(p)[q]
      BY <1>1, <2>3, ProgOneUnit DEF AfterWrite, BeforeWrite
    <3>3. BeforeWrite(p) = Flushed
      BY <2>3 DEF BeforeWrite
    <3>4. \A q \in Pages \ {p - 1, (p - 1) + 1} : raw'[q] = Flushed[q]
      BY <1>1, <2>1, <3>2, <3>3, TornKeeps
    <3>. QED BY <3>1, <3>4
  <2>4. CASE ~Partner(p) /\ p % 2 # 1
    <3>1. raw' = Flushed
      BY <1>1, <2>1, <2>4, TornNothing DEF AfterWrite, BeforeWrite
    <3>. QED BY <1>3, <3>1
  <2>. QED BY <2>2, <2>3, <2>4
<1>. QED BY <1>4, <1>5

(* A power cut of the driver is a power cut of the page-wise flash.        *)
LEMMA PowerRefines ==
    ASSUME IInv, IInv', NEW n \in 0 .. RegionCells, PowerFails(n)
    PROVE  Paged!Next
<1>1. Restart
  BY DEF PowerFails, CutIdle, CutErase, CutWrite
<1>2. Flushed' = raw' /\ raw' \in Region /\ seen' = seen /\ Status' = "cold"
  BY <1>1 DEF Restart, Flushed, IInv, TypeOK, Status, Idle
<1>3. \/ Status = "erasing"
      \/ \E u \in Pages : /\ u % 2 = 0
                          /\ \A q \in Pages \ {u, u + 1} : raw'[q] = Flushed[q]
  <2>1. CASE CutErase(n)
    BY <2>1 DEF CutErase, Status
  <2>2. CASE CutIdle(n) \/ \E p \in Pages : CutWrite(p, n)
    BY <2>2, CutOneUnit
  <2>. QED BY <2>1, <2>2 DEF PowerFails
<1>4. Paged!PowerFails
  BY <1>2, <1>3
     DEF Paged!PowerFails, Paged!Region, Paged!Page, Paged!Pages, Paged!Cells,
         Paged!Word, Region, Page, Pages, Cells, Word
<1>. QED BY <1>4 DEF Paged!Next

(* The driver implements port.h's contract: holdback, repeats, sector      *)
(* erase and power failures are steps of a flash that is erased as a whole *)
(* and written page by page.                                               *)
THEOREM HoldImplementsPaged == Spec => Contract
<1>1. Init => Paged!Init
  BY ImagesAssumption, GeometryAssumption
     DEF Init, Flushed, Status, Idle, Paged!Init, Paged!Region, Paged!Page,
         Paged!Pages, Paged!Cells, Paged!Word, Region, Page, Pages, Cells, Word
<1>2. IInv /\ IInv' /\ [Next]_vars => [Paged!Next]_(Paged!pagedVars)
  <2>. SUFFICES ASSUME IInv, IInv', [Next]_vars
                PROVE  Paged!Next \/ UNCHANGED <<Flushed, Status, seen>>
    BY DEF Paged!pagedVars
  <2>1. ASSUME NEW img \in Images, EraseStarts(img) PROVE Paged!Next
    <3>1. Flushed' = Flushed /\ seen' = seen
      BY <2>1 DEF EraseStarts, Flushed, held
    <3>2. Status # "erasing" /\ Status' = "erasing"
      BY <2>1, SectorAssumption, GeometryAssumption DEF EraseStarts, Status, Idle
    <3>3. Paged!EraseStarts
      BY <3>1, <3>2 DEF Paged!EraseStarts
    <3>. QED BY <3>3 DEF Paged!Next
  <2>2. CASE ErasePage
    BY <2>2, EraseRefines
  <2>3. ASSUME NEW p \in Pages, WritePage(p) PROVE Paged!Next
    BY <2>3, WriteRefines
  <2>4. CASE ReadRegion
    <3>1. Flushed' = Flushed /\ seen' = Flushed
      BY <2>4 DEF ReadRegion, Flushed
    <3>2. Status # "erasing" /\ Status' = Status
      BY <2>4 DEF ReadRegion, Status, Idle
    <3>3. Paged!Read
      BY <3>1, <3>2 DEF Paged!Read
    <3>. QED BY <3>3 DEF Paged!Next
  <2>5. ASSUME NEW n \in 0 .. RegionCells, PowerFails(n) PROVE Paged!Next
    BY <2>5, PowerRefines
  <2>6. CASE UNCHANGED vars
    BY <2>6 DEF vars, Flushed, Status, Idle
  <2>. QED BY <2>1, <2>2, <2>3, <2>4, <2>5, <2>6 DEF Next
<1>. QED BY <1>1, <1>2, IInvHolds, PTL DEF Spec, Contract, Paged!Spec
=============================================================================
