---------------------------- MODULE Image_proofs ----------------------------
(***************************************************************************)
(* What the pages of an image amount to on the device, for every geometry  *)
(* an image can be built for, every payload and every checksum: a region   *)
(* that holds every page of an image boots and reads back as the payload,  *)
(* a page that is skipped is blank, and the footer page is sent last.      *)
(***************************************************************************)
EXTENDS Image, WellFoundedInduction, TLAPS

(* A payload with its checksum, as Image::from_bin accepts it.             *)
Payload(code) == code \in Seq(Word) /\ Crc(code) \in Word /\ Fits(code)

(* The region with every page of an image in it.                           *)
ImageOf(code) == [p \in Pages |-> PageInto(code, p)]

-----------------------------------------------------------------------------
(* A nonempty set of natural numbers has a least element.                  *)
LEMMA LeastNatural ==
    ASSUME NEW S, S \subseteq Nat, S # {}
    PROVE  \E m \in S : \A k \in S : m <= k
<1> DEFINE R == OpToRel(<, Nat)
<1>1. IsWellFoundedOn(R, Nat)
  BY NatLessThanWellFounded, Zenon
<1>2. \A k, m \in Nat : <<k, m>> \in R <=> k < m
  BY DEF OpToRel
<1> HIDE DEF R
<1>3. PICK m \in S : \A k \in S : ~(<<k, m>> \in R)
  BY <1>1, WFMin
<1>4. \A k \in S : ~(k < m)
  BY <1>2, <1>3
<1>5. \A k \in S : m <= k
  BY <1>4
<1> QED BY <1>5

(* What a geometry that passes from_bin looks like.                        *)
LEMMA Geometry ==
    ASSUME NEW code, Payload(code)
    PROVE  /\ PageSize \in Nat /\ PageSize >= FooterLen
           /\ AppPages \in Nat /\ AppPages >= 1
           /\ RegionCells \in Nat /\ RegionCells >= PageSize
           /\ FooterBase \in Nat
           /\ FooterPage \in Pages
           /\ Len(code) \in Nat /\ Len(code) <= FooterBase
           /\ Len(code) \in Word
<1>1. /\ PageSize \in Nat /\ PageSize >= FooterLen
      /\ AppPages \in Nat /\ AppPages >= 1
  BY GeometryAssumption, PageSizeMaxAssumption DEF Payload, Fits, FooterLen
<1>2. RegionCells \in Nat
  BY <1>1 DEF RegionCells
<1>3. RegionCells >= PageSize
  <2>1. \A s, n \in Nat : n >= 1 => s * n >= s
    OBVIOUS
  <2> QED BY <1>1, <2>1 DEF RegionCells
<1>4. FooterBase \in Nat
  BY <1>1, <1>2, <1>3 DEF FooterBase, FooterLen
<1>5. FooterPage \in Pages
  BY <1>1 DEF FooterPage, Pages
<1>6. Len(code) \in Nat /\ Len(code) <= FooterBase
  BY DEF Payload, Fits
<1>7. Len(code) \in Word
  BY <1>2, <1>4, <1>6, FooterAssumption, WordAssumption
     DEF Word, FooterBase, FooterLen
<1> QED BY <1>1, <1>2, <1>3, <1>4, <1>5, <1>6, <1>7

(* A page of an image is a page: the footer's fields are words.            *)
LEMMA PageIntoType ==
    ASSUME NEW code, Payload(code), NEW p \in Pages
    PROVE  PageInto(code, p) \in Page
<1>1. \A i \in 1 .. 4 : Footer(code)[i] \in Word
  BY Geometry, WordAssumption DEF Footer, Payload, Word
<1>2. ASSUME NEW c \in Cells
      PROVE  PageInto(code, p)[c] \in Word
  <2>1. CASE p = FooterPage /\ c >= PageSize - FooterLen
    <3>1. c - (PageSize - FooterLen) + 1 \in 1 .. 4
      BY <2>1, Geometry DEF Cells, FooterLen
    <3> QED BY <1>1, <2>1, <3>1 DEF PageInto
  <2>2. CASE ~(p = FooterPage /\ c >= PageSize - FooterLen)
    <3> DEFINE a == p * PageSize + c
    <3>1. a \in Nat
      BY GeometryAssumption DEF Pages, Cells
    <3>2. PageInto(code, p)[c] = IF a < Len(code) THEN code[a + 1] ELSE Blank
      BY <2>2 DEF PageInto
    <3> HIDE DEF a
    <3>3. a < Len(code) => code[a + 1] \in Word
      BY <3>1 DEF Payload
    <3> QED BY <3>2, <3>3, WordAssumption DEF Word
  <2> QED BY <2>1, <2>2
<1> QED BY <1>2 DEF PageInto, Page

(* A page that pages() skips is a blank page: skipping it loses nothing.   *)
LEMMA SkippedIsBlank ==
    ASSUME NEW code, Payload(code), NEW p \in Pages, ~MustWrite(code, p)
    PROVE  PageInto(code, p) = BlankPage
<1>1. ASSUME NEW c \in Cells
      PROVE  PageInto(code, p)[c] = Blank
  <2> DEFINE a == p * PageSize + c
  <2>1. p # FooterPage
    BY DEF MustWrite
  <2>2. PageInto(code, p)[c] = IF a < Len(code) THEN code[a + 1] ELSE Blank
    BY <2>1 DEF PageInto
  <2>3. p \in Nat /\ PageSize \in Nat /\ c \in Nat /\ c < PageSize
    BY GeometryAssumption DEF Pages, Cells
  <2>4. p * PageSize \in Nat /\ (p + 1) * PageSize = p * PageSize + PageSize
    BY <2>3
  <2>5. a \in p * PageSize .. (p + 1) * PageSize - 1
    BY <2>3, <2>4
  <2> HIDE DEF a
  <2>6. ~(a < Len(code) /\ code[a + 1] # Blank)
    BY <2>5 DEF MustWrite
  <2> QED BY <2>2, <2>6
<1> QED BY <1>1 DEF PageInto, BlankPage

(* Pages::next yields the first page from the cursor on that must be       *)
(* written, and AppPages when there is none.                               *)
LEMMA NextPageIs ==
    ASSUME NEW code, NEW from \in Nat
    PROVE  LET n == NextPage(code, from)
           IN \/ /\ n = AppPages
                 /\ \A p \in Pages : p >= from => ~MustWrite(code, p)
              \/ /\ n \in Pages /\ n >= from /\ MustWrite(code, n)
                 /\ \A p \in Pages : p >= from /\ p < n => ~MustWrite(code, p)
<1> DEFINE due == {p \in Pages : p >= from /\ MustWrite(code, p)}
<1>1. CASE due = {}
  BY <1>1 DEF NextPage
<1>2. CASE due # {}
  <2>1. due \subseteq Nat
    BY GeometryAssumption DEF Pages
  <2>2. \E m \in due : \A k \in due : m <= k
    BY <1>2, <2>1, LeastNatural
  <2> DEFINE n == CHOOSE m \in due : \A k \in due : m <= k
  <2>3. n \in due /\ \A k \in due : n <= k
    BY <2>2
  <2>4. NextPage(code, from) = n
    BY <1>2 DEF NextPage
  <2> HIDE DEF n
  <2>5. \A p \in Pages : p >= from /\ p < n => ~MustWrite(code, p)
    BY <2>1, <2>3
  <2> QED BY <2>3, <2>4, <2>5
<1> QED BY <1>1, <1>2

(* The footer page is always due, and last: the iterator is exhausted only *)
(* behind it.                                                              *)
LEMMA FooterPageLast ==
    ASSUME NEW code, Payload(code), NEW from \in Nat
    PROVE  /\ from <= FooterPage => NextPage(code, from) \in Pages
           /\ from > FooterPage => NextPage(code, from) = AppPages
<1>1. FooterPage \in Pages /\ MustWrite(code, FooterPage)
  BY Geometry DEF MustWrite
<1>2. \A p \in Pages : p \in Nat /\ p <= FooterPage
  BY GeometryAssumption DEF Pages, FooterPage
<1> QED BY <1>1, <1>2, NextPageIs
-----------------------------------------------------------------------------
(* A cell's address, its page and its place in the page.                   *)
LEMMA CellPlace ==
    ASSUME PageSize >= 1, NEW a \in Nat, a < RegionCells
    PROVE  /\ a \div PageSize \in Pages
           /\ a % PageSize \in Cells
           /\ a = (a \div PageSize) * PageSize + (a % PageSize)
<1> DEFINE q == a \div PageSize
           r == a % PageSize
<1>1. PageSize \in Nat /\ PageSize >= 1 /\ AppPages \in Nat
  BY GeometryAssumption
<1>2. q \in Nat /\ r \in 0 .. PageSize - 1 /\ a = q * PageSize + r
  <2>1. \A x, d \in Nat : d >= 1 => /\ x \div d \in Nat
                                    /\ x % d \in 0 .. d - 1
                                    /\ x = (x \div d) * d + (x % d)
    OBVIOUS
  <2> QED BY <1>1, <2>1
<1>3. q < AppPages
  <2> HIDE DEF q, r
  <2>1. \A x, n, d \in Nat : x >= n => x * d >= d * n
    OBVIOUS
  <2>2. q >= AppPages => q * PageSize >= PageSize * AppPages
    BY <1>1, <1>2, <2>1
  <2>3. q * PageSize <= a
    BY <1>1, <1>2
  <2>4. PageSize * AppPages \in Nat /\ q * PageSize \in Nat
    BY <1>1, <1>2
  <2> QED BY <1>1, <1>2, <2>2, <2>3, <2>4 DEF RegionCells
<1> QED BY <1>1, <1>2, <1>3 DEF Pages, Cells

(* In particular in a geometry that an image can be built for.             *)
LEMMA CellAddress ==
    ASSUME NEW code, Payload(code), NEW a \in Nat, a < RegionCells
    PROVE  /\ a \div PageSize \in Pages
           /\ a % PageSize \in Cells
           /\ a = (a \div PageSize) * PageSize + (a % PageSize)
<1>1. PageSize \in Nat /\ PageSize >= 1
  BY Geometry DEF FooterLen
<1> QED BY <1>1, CellPlace

(* The last four cells of the region are the last four of the last page.   *)
LEMMA FooterPlace ==
    ASSUME NEW code, Payload(code), NEW p \in Pages, NEW c \in Cells
    PROVE  /\ (p * PageSize + c >= FooterBase)
                <=> (p = FooterPage /\ c >= PageSize - FooterLen)
           /\ p = FooterPage
                => (p * PageSize + c) - FooterBase = c - (PageSize - FooterLen)
<1>1. /\ PageSize \in Nat /\ PageSize >= 4 /\ AppPages \in Nat /\ AppPages >= 1
      /\ p \in Nat /\ p <= AppPages - 1 /\ c \in Nat /\ c <= PageSize - 1
  BY Geometry DEF FooterLen, Pages, Cells
<1>2. FooterBase = (AppPages - 1) * PageSize + (PageSize - 4)
  <2>1. PageSize * AppPages = (AppPages - 1) * PageSize + PageSize
    BY <1>1
  <2>2. (AppPages - 1) * PageSize \in Int
    BY <1>1
  <2> QED BY <1>1, <2>1, <2>2 DEF FooterBase, RegionCells, FooterLen
<1> DEFINE base == (AppPages - 1) * PageSize
<1>3. base \in Int /\ p * PageSize \in Int
  BY <1>1
<1>4. CASE p = FooterPage
  BY <1>1, <1>2, <1>4 DEF FooterPage, FooterLen
<1>5. CASE p # FooterPage
  <2>1. p + 1 <= AppPages - 1
    BY <1>1, <1>5 DEF FooterPage
  <2>2. \A x, y, d \in Nat : x <= y => x * d <= y * d
    OBVIOUS
  <2>3. (p + 1) * PageSize <= base
    BY <1>1, <2>1, <2>2
  <2>4. (p + 1) * PageSize = p * PageSize + PageSize
    BY <1>1
  <2>5. p * PageSize + PageSize <= base
    BY <2>3, <2>4
  <2> HIDE DEF base
  <2>6. FooterBase = base + (PageSize - 4)
    BY <1>2 DEF base
  <2>7. p * PageSize + c < FooterBase
    BY <1>1, <1>3, <2>5, <2>6
  <2> QED BY <1>1, <1>3, <1>5, <2>6, <2>7
<1> QED BY <1>4, <1>5

(* What a region that holds every page of an image reads as, cell by cell: *)
(* the payload, blank cells, the footer.                                   *)
LEMMA ImageCells ==
    ASSUME NEW code, Payload(code), NEW a \in Nat, a < RegionCells
    PROVE  ReadCell(ImageOf(code), a)
             = IF a >= FooterBase THEN Footer(code)[a - FooterBase + 1]
               ELSE IF a < Len(code) THEN code[a + 1] ELSE Blank
<1> DEFINE p == a \div PageSize
           c == a % PageSize
<1>1. p \in Pages /\ c \in Cells /\ a = p * PageSize + c
  BY CellAddress
<1>2. ReadCell(ImageOf(code), a) = PageInto(code, p)[c]
  BY <1>1 DEF ReadCell, ImageOf
<1> HIDE DEF p, c
<1>3. (a >= FooterBase) <=> (p = FooterPage /\ c >= PageSize - FooterLen)
  BY <1>1, FooterPlace
<1>4. CASE a >= FooterBase
  <2>1. (p * PageSize + c) - FooterBase = c - (PageSize - FooterLen)
    BY <1>1, <1>3, <1>4, FooterPlace
  <2>2. a - FooterBase = c - (PageSize - FooterLen)
    BY <1>1, <2>1
  <2> QED BY <1>1, <1>2, <1>3, <1>4, <2>2 DEF PageInto
<1>5. CASE ~(a >= FooterBase)
  BY <1>1, <1>2, <1>3, <1>5 DEF PageInto
<1> QED BY <1>4, <1>5

(* A region that holds every page of an image passes the boot gate, and    *)
(* reads back as the payload with blank cells up to the footer.            *)
THEOREM ImageBoots ==
    ASSUME NEW code, Payload(code)
    PROVE  /\ AppValid(ImageOf(code))
           /\ Prefix(ImageOf(code), Len(code)) = code
           /\ Prefix(ImageOf(code), FooterBase)
                = code \o [i \in 1 .. FooterBase - Len(code) |-> Blank]
<1> DEFINE f == ImageOf(code)
<1>1. /\ FooterBase \in Nat /\ RegionCells = FooterBase + 4
      /\ Len(code) \in Nat /\ Len(code) <= FooterBase
  BY Geometry DEF FooterBase, FooterLen
<1>2. /\ ReadCell(f, FooterBase) = Magic
      /\ ReadCell(f, FooterBase + 1) = Len(code)
      /\ ReadCell(f, FooterBase + 2) = Crc(code)
  <2>1. ReadCell(f, FooterBase) = Footer(code)[FooterBase - FooterBase + 1]
    BY <1>1, ImageCells
  <2>2. ReadCell(f, FooterBase + 1) = Footer(code)[FooterBase + 1 - FooterBase + 1]
    BY <1>1, ImageCells
  <2>3. ReadCell(f, FooterBase + 2) = Footer(code)[FooterBase + 2 - FooterBase + 1]
    BY <1>1, ImageCells
  <2>4. /\ FooterBase - FooterBase + 1 = 1
        /\ FooterBase + 1 - FooterBase + 1 = 2
        /\ FooterBase + 2 - FooterBase + 1 = 3
    BY <1>1
  <2> QED BY <2>1, <2>2, <2>3, <2>4 DEF Footer
<1>3. \A i \in 1 .. FooterBase :
         ReadCell(f, i - 1) = IF i <= Len(code) THEN code[i] ELSE Blank
  <2> SUFFICES ASSUME NEW i \in 1 .. FooterBase
               PROVE  ReadCell(f, i - 1) = IF i <= Len(code) THEN code[i] ELSE Blank
    OBVIOUS
  <2>1. i - 1 \in Nat /\ i - 1 < RegionCells /\ ~(i - 1 >= FooterBase)
        /\ (i - 1 < Len(code) <=> i <= Len(code)) /\ i - 1 + 1 = i
    BY <1>1
  <2> QED BY <2>1, ImageCells
<1> HIDE DEF f
<1>4. code \in Seq(Word) /\ code = [i \in 1 .. Len(code) |-> code[i]]
  BY DEF Payload
<1>5. Prefix(f, Len(code)) = code
  <2>1. \A i \in 1 .. Len(code) : ReadCell(f, i - 1) = code[i]
    BY <1>1, <1>3
  <2> QED BY <1>4, <2>1 DEF Prefix
<1>6. Prefix(f, FooterBase) = code \o [i \in 1 .. FooterBase - Len(code) |-> Blank]
  <2> DEFINE n == FooterBase - Len(code)
             rest == [i \in 1 .. n |-> Blank]
  <2>1. n \in Nat /\ rest \in Seq({Blank}) /\ Len(rest) = n
    BY <1>1
  <2>2. /\ code \o rest = [i \in 1 .. FooterBase |->
                             IF i <= Len(code) THEN code[i] ELSE rest[i - Len(code)]]
    BY <1>1, <1>4, <2>1
  <2>3. \A i \in 1 .. FooterBase : i > Len(code) => rest[i - Len(code)] = Blank
    BY <1>1
  <2> HIDE DEF rest
  <2>4. \A i \in 1 .. FooterBase :
           ReadCell(f, i - 1) = IF i <= Len(code) THEN code[i] ELSE rest[i - Len(code)]
    BY <1>1, <1>3, <2>3
  <2> QED BY <2>2, <2>4 DEF Prefix, rest
<1>7. AppValid(f)
  BY <1>1, <1>2, <1>5 DEF AppValid, FlashCrc, FooterLen
<1> QED BY <1>5, <1>6, <1>7 DEF f

(* A region whose footer page is blank does not pass the boot gate.        *)
LEMMA BlankFooterRefused ==
    ASSUME NEW code, Payload(code), NEW f, f[FooterPage] = BlankPage
    PROVE  ~AppValid(f)
<1>1. FooterBase \in Nat /\ FooterBase < RegionCells
  BY Geometry DEF FooterBase, FooterLen
<1> DEFINE p == FooterBase \div PageSize
           c == FooterBase % PageSize
<1>2. p \in Pages /\ c \in Cells /\ FooterBase = p * PageSize + c
  BY <1>1, CellAddress
<1>3. ReadCell(f, FooterBase) = f[p][c]
  BY DEF ReadCell
<1> HIDE DEF p, c
<1>4. p = FooterPage
  BY <1>1, <1>2, FooterPlace
<1>5. ReadCell(f, FooterBase) = Blank
  BY <1>2, <1>3, <1>4 DEF BlankPage
<1> QED BY <1>5, FooterAssumption DEF AppValid

-----------------------------------------------------------------------------
(* A region that an update has left unfinished: the cells of an image from *)
(* one address up to another, blank cells around them.  Erasing moves the  *)
(* lower end up, writing the upper.                                        *)
PartOf(f, code, lo, hi) ==
    \A p \in Pages, k \in Cells :
        f[p][k] = IF lo <= p * PageSize + k /\ p * PageSize + k < hi
                  THEN PageInto(code, p)[k] ELSE Blank

(* Addresses are ordered by page, then by the place in the page.           *)
LEMMA AddressOrder ==
    ASSUME NEW p \in Pages, NEW q \in Pages, NEW k \in Cells, NEW h \in 0 .. PageSize
    PROVE  /\ (q * PageSize + k < p * PageSize + h) <=> (q < p \/ (q = p /\ k < h))
           /\ p * PageSize + h \in Nat /\ q * PageSize + k \in Nat
<1>1. /\ PageSize \in Nat /\ p \in Nat /\ q \in Nat /\ h \in Nat /\ h <= PageSize
      /\ k \in Nat /\ k + 1 <= PageSize
  BY GeometryAssumption DEF Pages, Cells
<1> DEFINE a == p * PageSize
           b == q * PageSize
<1>2. a \in Nat /\ b \in Nat
  BY <1>1
<1>3. \A x, y, d \in Nat : x + 1 <= y => x * d + d <= y * d
  <2> SUFFICES ASSUME NEW x \in Nat, NEW y \in Nat, NEW d \in Nat, x + 1 <= y
               PROVE  x * d + d <= y * d
    OBVIOUS
  <2>1. (x + 1) * d = x * d + d
    OBVIOUS
  <2>2. \A u, v, w \in Nat : u <= v => u * w <= v * w
    OBVIOUS
  <2> QED BY <2>1, <2>2
<1>4. q + 1 <= p => b + PageSize <= a
  BY <1>1, <1>3
<1>5. p + 1 <= q => a + PageSize <= b
  BY <1>1, <1>3
<1>6. q = p => a = b
  OBVIOUS
<1> HIDE DEF a, b
<1>7. (b + k < a + h) <=> (q < p \/ (q = p /\ k < h))
  BY <1>1, <1>2, <1>4, <1>5, <1>6
<1> QED BY <1>1, <1>2, <1>7 DEF a, b

(* The same, address by address.                                           *)
LEMMA WindowCells ==
    ASSUME NEW code, Payload(code), NEW f, NEW lo \in Nat, NEW hi \in Nat,
           PartOf(f, code, lo, hi), NEW a \in Nat, a < RegionCells
    PROVE  ReadCell(f, a) = IF lo <= a /\ a < hi THEN ReadCell(ImageOf(code), a)
                            ELSE Blank
<1> DEFINE p == a \div PageSize
           k == a % PageSize
<1>1. p \in Pages /\ k \in Cells /\ a = p * PageSize + k
  BY CellAddress
<1>2. ReadCell(f, a) = f[p][k] /\ ReadCell(ImageOf(code), a) = PageInto(code, p)[k]
  BY <1>1 DEF ReadCell, ImageOf
<1> HIDE DEF p, k
<1> QED BY <1>1, <1>2 DEF PartOf

(* An unfinished region that the boot gate accepts holds the binary, whole *)
(* and with its length: the magic and the length are there, so all that is *)
(* missing is a head the erase had begun with, and that the CRC shows.     *)
LEMMA WindowBoots ==
    ASSUME NEW code, Payload(code), HeadErasedShows(code),
           NEW f, NEW lo \in Nat, NEW hi \in Nat, PartOf(f, code, lo, hi), AppValid(f)
    PROVE  ReadCell(f, FooterBase + 1) = Len(code) /\ Prefix(f, Len(code)) = code
<1>1. /\ FooterBase \in Nat /\ RegionCells = FooterBase + 4 /\ RegionCells \in Nat
      /\ Len(code) \in Nat /\ Len(code) <= FooterBase /\ RegionCells <= Blank
      /\ Blank \in Nat
  BY Geometry, FooterAssumption, WordAssumption DEF FooterBase, FooterLen
<1> DEFINE g == ImageOf(code)
<1>2. /\ ReadCell(g, FooterBase + 1) = Len(code)
      /\ ReadCell(g, FooterBase + 2) = Crc(code)
  <2>1. ReadCell(g, FooterBase + 1) = Footer(code)[FooterBase + 1 - FooterBase + 1]
    BY <1>1, ImageCells
  <2>2. ReadCell(g, FooterBase + 2) = Footer(code)[FooterBase + 2 - FooterBase + 1]
    BY <1>1, ImageCells
  <2>3. FooterBase + 1 - FooterBase + 1 = 2 /\ FooterBase + 2 - FooterBase + 1 = 3
    BY <1>1
  <2> QED BY <2>1, <2>2, <2>3 DEF Footer
<1>3. \A i \in 1 .. Len(code) : ReadCell(g, i - 1) = code[i]
  <2> SUFFICES ASSUME NEW i \in 1 .. Len(code) PROVE ReadCell(g, i - 1) = code[i]
    OBVIOUS
  <2>1. i - 1 \in Nat /\ i - 1 < RegionCells /\ ~(i - 1 >= FooterBase)
        /\ i - 1 < Len(code) /\ i - 1 + 1 = i
    BY <1>1
  <2> QED BY <2>1, ImageCells
<1> HIDE DEF g
<1>4. \A a \in Nat : a < RegionCells =>
         ReadCell(f, a) = IF lo <= a /\ a < hi THEN ReadCell(g, a) ELSE Blank
  BY WindowCells DEF g
<1>5. lo <= FooterBase
  <2>1. ReadCell(f, FooterBase) # Blank
    BY FooterAssumption DEF AppValid
  <2> QED BY <1>1, <1>4, <2>1
<1>6. ReadCell(f, FooterBase + 1) = Len(code) /\ FooterBase + 1 < hi
  <2>1. ReadCell(f, FooterBase + 1) <= FooterBase
    BY DEF AppValid
  <2>2. ReadCell(f, FooterBase + 1) # Blank
    BY <1>1, <2>1
  <2> QED BY <1>1, <1>2, <1>4, <2>2
<1>7. ReadCell(f, FooterBase + 2) \in {Crc(code), Blank}
  BY <1>1, <1>2, <1>4
<1> DEFINE n == IF lo <= Len(code) THEN lo ELSE Len(code)
<1>8. n \in 0 .. Len(code)
  BY <1>1
<1>9. Prefix(f, Len(code)) = HeadErased(code, n)
  <2>1. ASSUME NEW i \in 1 .. Len(code)
        PROVE  ReadCell(f, i - 1) = IF i <= n THEN Blank ELSE code[i]
    <3>1. i - 1 \in Nat /\ i - 1 < RegionCells /\ i - 1 < hi /\ (lo <= i - 1 <=> ~(i <= n))
      BY <1>1, <1>6
    <3> HIDE DEF n
    <3> QED BY <1>3, <1>4, <3>1
  <2> HIDE DEF n
  <2> QED BY <2>1 DEF Prefix, HeadErased
<1> HIDE DEF n
<1>10. Crc(HeadErased(code, n)) \in {Crc(code), Blank}
  BY <1>6, <1>7, <1>9 DEF AppValid, FlashCrc
<1>11. HeadErased(code, n) = code
  BY <1>8, <1>10 DEF HeadErasedShows
<1> QED BY <1>6, <1>9, <1>11

(* A blank region does not boot, whatever the geometry.                    *)
LEMMA BlankRefused == ~AppValid(BlankFlash)
<1> SUFFICES ASSUME AppValid(BlankFlash) PROVE FALSE
  OBVIOUS
<1>1. RegionCells >= 4 /\ PageSize \in Nat /\ AppPages \in Nat
  BY GeometryAssumption DEF AppValid, FooterLen
<1>2. PageSize >= 1
  <2>1. 0 * AppPages = 0
    BY <1>1
  <2>2. PageSize # 0
    BY <1>1, <2>1 DEF RegionCells
  <2> QED BY <1>1, <2>2
<1>3. FooterBase \in Nat /\ FooterBase < RegionCells
  <2>1. RegionCells \in Nat
    BY <1>1 DEF RegionCells
  <2> QED BY <1>1, <2>1 DEF FooterBase, FooterLen
<1>4. FooterBase \div PageSize \in Pages /\ FooterBase % PageSize \in Cells
  BY <1>2, <1>3, CellPlace
<1>5. ReadCell(BlankFlash, FooterBase) = Blank
  BY <1>4 DEF ReadCell, BlankFlash, BlankPage
<1> QED BY <1>5, FooterAssumption DEF AppValid

(* An erase that is cut at cell h of page p leaves a smaller window.       *)
LEMMA WindowErased ==
    ASSUME NEW code, NEW f, NEW lo \in Nat, NEW hi \in Nat, PartOf(f, code, lo, hi),
           NEW p \in Pages, NEW h \in 0 .. PageSize, NEW g,
           g = [q \in Pages |-> IF q < p THEN BlankPage
                                ELSE IF q = p THEN Torn(f[q], BlankPage, h) ELSE f[q]]
    PROVE  \E m \in Nat : PartOf(g, code, m, hi)
<1> DEFINE cut == p * PageSize + h
           m == IF lo <= cut THEN cut ELSE lo
<1>1. cut \in Nat /\ m \in Nat
  <2>1. PageSize \in Nat /\ p \in Nat /\ h \in Nat
    BY GeometryAssumption DEF Pages
  <2>2. p * PageSize \in Nat
    BY <2>1
  <2> QED BY <2>1, <2>2
<1>2. ASSUME NEW q \in Pages, NEW k \in Cells
      PROVE  g[q][k] = IF m <= q * PageSize + k /\ q * PageSize + k < hi
                       THEN PageInto(code, q)[k] ELSE Blank
  <2> DEFINE a == q * PageSize + k
  <2>1. a \in Nat /\ (a < cut <=> (q < p \/ (q = p /\ k < h)))
    BY AddressOrder
  <2>2. g[q][k] = IF q < p \/ (q = p /\ k < h) THEN Blank ELSE f[q][k]
    BY DEF BlankPage, Torn
  <2>3. f[q][k] = IF lo <= a /\ a < hi THEN PageInto(code, q)[k] ELSE Blank
    BY DEF PartOf
  <2>4. m <= a <=> (lo <= a /\ ~(a < cut))
    <3> HIDE DEF a, cut
    <3> QED BY <1>1, <2>1 DEF m
  <2> HIDE DEF a, cut, m
  <2>5. g[q][k] = IF m <= a /\ a < hi THEN PageInto(code, q)[k] ELSE Blank
    BY <2>1, <2>2, <2>3, <2>4
  <2> QED BY <2>5 DEF a
<1> HIDE DEF m
<1> QED BY <1>1, <1>2 DEF PartOf

(* The pages of an image up to a page that is programmed as far as cell h. *)
LEMMA WindowWritten ==
    ASSUME NEW code, NEW p \in Pages, NEW h \in 0 .. PageSize, NEW g,
           \A q \in Pages : /\ q < p => g[q] = PageInto(code, q)
                            /\ q > p => g[q] = BlankPage,
           \A k \in Cells : g[p][k] = IF k < h THEN PageInto(code, p)[k] ELSE Blank
    PROVE  \E hi \in Nat : PartOf(g, code, 0, hi)
<1> DEFINE hi == p * PageSize + h
<1>1. hi \in Nat
  <2>1. PageSize \in Nat /\ p \in Nat /\ h \in Nat
    BY GeometryAssumption DEF Pages
  <2>2. p * PageSize \in Nat
    BY <2>1
  <2> QED BY <2>1, <2>2
<1>2. ASSUME NEW q \in Pages, NEW k \in Cells
      PROVE  g[q][k] = IF 0 <= q * PageSize + k /\ q * PageSize + k < hi
                       THEN PageInto(code, q)[k] ELSE Blank
  <2> DEFINE a == q * PageSize + k
  <2>1. a \in Nat /\ (a < hi <=> (q < p \/ (q = p /\ k < h)))
    BY AddressOrder
  <2>2. q \in Int /\ p \in Int
    BY GeometryAssumption DEF Pages
  <2>3. q > p => g[q][k] = Blank
    BY DEF BlankPage
  <2> HIDE DEF a, hi
  <2>4. g[q][k] = IF 0 <= a /\ a < hi THEN PageInto(code, q)[k] ELSE Blank
    BY <2>1, <2>2, <2>3
  <2> QED BY <2>4 DEF a
<1> HIDE DEF hi
<1> QED BY <1>1, <1>2 DEF PartOf
=============================================================================
