------------------------------ MODULE IntelHex ------------------------------
(***************************************************************************)
(* ihex::parse of host/updater-cli/src/ihex.rs, one step per line of the   *)
(* file.  A line is blank, or a record of what its text decodes to:        *)
(*   colon   it starts with ':'                                            *)
(*   digits  the rest is pairs of hex digits, at least five bytes          *)
(*   count, addr, type, data   the fields; addresses count cells of Flash  *)
(*   zeroSum its bytes, checksum included, add up to 0 modulo 256          *)
(***************************************************************************)
EXTENDS Flash

CONSTANTS
    Lines,     \* the lines a file may hold
    MaxLines   \* bound on the lines of a file

(* A record that decodes has an address and words.                         *)
ASSUME LinesAssumption ==
    \A l \in Lines : ~l.blank => l.addr \in Nat /\ l.data \in Seq(Word)

VARIABLES
    read,      \* the lines read so far
    out,       \* the binary so far
    sawEof,    \* an EOF record was read
    hex        \* "reading", "parsed" or "rejected"

hexVars == <<read, out, sawEof, hex>>

HexInit == read = <<>> /\ out = <<>> /\ sawEof = FALSE /\ hex = "reading"

BlankLine == [blank |-> TRUE]

(* What makes a line fail whatever its type.                               *)
Malformed(l) == ~l.colon \/ ~l.digits \/ l.count # Len(l.data) \/ ~l.zeroSum

End(l) == l.addr + Len(l.data)

(* Laid(l, n) copies the data of l over a binary of n cells; what neither  *)
(* holds is filled with the erased value.                                  *)
Laid(l, n) ==
    [i \in 1 .. n |-> IF i \in l.addr + 1 .. End(l) THEN l.data[i - l.addr]
                      ELSE IF i <= Len(out) THEN out[i] ELSE Blank]

(* Faulty variant: the binary always ends where the last record does.      *)
PlaceAndCut(l) == Laid(l, End(l))

(* A data record: the binary grows to its end, and never shrinks.          *)
Place(l) == Laid(l, IF Len(out) < End(l) THEN End(l) ELSE Len(out))

(* One line.  Types 0 and 1 are data and EOF, 3 and 5 are ignored, 2 and 4 *)
(* (extended addresses) and all others are refused.                        *)
HexLine(l) ==
    /\ hex = "reading" /\ Len(read) < MaxLines
    /\ read' = Append(read, l)
    /\ \/ l.blank /\ UNCHANGED <<out, sawEof, hex>>
       \/ /\ ~l.blank
          /\ sawEof \/ Malformed(l) \/ l.type \notin {0, 1, 3, 5}
          /\ hex' = "rejected"
          /\ UNCHANGED <<out, sawEof>>
       \/ /\ ~l.blank
          /\ ~sawEof /\ ~Malformed(l) /\ l.type \in {0, 1, 3, 5}
          /\ out' = IF l.type = 0 THEN Place(l) ELSE out
          /\ sawEof' = (l.type = 1)
          /\ UNCHANGED hex

(* The end of the file: without an EOF record it was cut short.            *)
HexEnd ==
    /\ hex = "reading"
    /\ hex' = IF sawEof THEN "parsed" ELSE "rejected"
    /\ UNCHANGED <<read, out, sawEof>>
-----------------------------------------------------------------------------
(* A file that parses is whole, and the binary is what it says: no record  *)
(* was malformed or carried an extended address, one EOF record closed it, *)
(* each cell holds what the last record that covers it put there (records  *)
(* may come out of order and overlap), the gaps are erased flash and the   *)
(* binary ends with the record that reaches furthest.                      *)
Records == {i \in DOMAIN read : ~read[i].blank}
Data    == {i \in Records : read[i].type = 0}
Covering(a) == {i \in Data : a \in read[i].addr .. End(read[i]) - 1}

HexFaithful ==
    hex = "parsed" =>
        /\ \A i \in Records : ~Malformed(read[i]) /\ read[i].type \notin {2, 4}
        /\ \E e \in Records : \A i \in Records :
              i <= e /\ (read[i].type = 1 <=> i = e)
        /\ \A i \in Data : End(read[i]) <= Len(out)
        /\ Len(out) = 0 \/ \E i \in Data : End(read[i]) = Len(out)
        /\ \A a \in 0 .. Len(out) - 1 :
              \/ Covering(a) = {} /\ out[a + 1] = Blank
              \/ \E i \in Covering(a) :
                    /\ \A j \in Covering(a) : j <= i
                    /\ out[a + 1] = read[i].data[a - read[i].addr + 1]
=============================================================================
