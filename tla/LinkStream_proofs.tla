------------------------- MODULE LinkStream_proofs -------------------------
(***************************************************************************)
(* The receive machines agree, and the device's stays inside its buffer,   *)
(* for every buffer size, every stream and every CRC; and so they do on    *)
(* the wire of LinkStream, whatever it loses and damages.                  *)
(***************************************************************************)
EXTENDS LinkStream, TLAPS

(* The inductive invariant: the receivers hold bytes; a hunting scanner    *)
(* has been reset; a dropped frame leaves no more behind than fits.        *)
Inv ==
    /\ link \in Receivers /\ scanner \in Receivers
    /\ delivered \in BOOLEAN /\ done \in BOOLEAN
    /\ Len(link.buf) <= FrameMax
    /\ ~scanner.inFrame => scanner.buf = <<>>
    /\ LinkInBounds
    /\ Mirrored

(* What one more byte makes of an assembly buffer.                         *)
LEMMA AppendByte ==
    ASSUME NEW buf \in Seq(Byte), NEW b \in Byte
    PROVE  /\ Append(buf, b) \in Seq(Byte)
           /\ Len(Append(buf, b)) = Len(buf) + 1
           /\ Len(buf) >= 1 => Append(buf, b)[2] \in Byte
           /\ Len(buf) >= 2 => Append(buf, b)[2] = buf[2]
<1>1. Append(buf, b) \in Seq(Byte) /\ Len(Append(buf, b)) = Len(buf) + 1
  OBVIOUS
<1>2. Len(buf) >= 1 => 2 \in 1 .. Len(Append(buf, b))
  BY <1>1
<1>3. Len(buf) >= 1 => Append(buf, b)[2] \in Byte
  BY <1>1, <1>2
<1>4. Len(buf) >= 2 => Append(buf, b)[2] = buf[2]
  OBVIOUS
<1>. QED BY <1>1, <1>3, <1>4

(* Where the buffers agree, a declared length fits one receiver exactly    *)
(* when it fits the other.                                                 *)
LEMMA SameFit ==
    ASSUME NEW len \in Byte
    PROVE  ScanFits(len) <=> len + Overhead <= BufLen
BY BufferAssumption, MirrorAssumption DEF ScanFits, PayloadMax, Overhead, Byte

(* A byte keeps the invariant: the frame in progress is the same on both   *)
(* sides, so both go on, complete or drop it together.                     *)
LEMMA ByteKeepsInv ==
    ASSUME Inv, NEW b \in Byte, Arrives(b)
    PROVE  Inv'
<1>. USE BufferAssumption, MirrorAssumption, SyncAssumption
<1>1. CASE ~link.inFrame
  <2>1. /\ ~scanner.inFrame
        /\ link' = LinkHunt(link, b)
        /\ delivered' = FALSE /\ done' = FALSE
    BY <1>1 DEF Inv, Mirrored, Arrives, LinkByte, LinkDelivers, ScanDone, Receivers
  <2>2. BufLen >= Overhead <=> HostBufLen >= Overhead
    BY DEF Overhead
  <2>3. CASE b = Sync /\ BufLen >= Overhead
    <3>1. /\ link' = [inFrame |-> TRUE, buf |-> <<>>]
          /\ scanner' = [inFrame |-> TRUE, buf |-> <<>>]
      BY <2>1, <2>2, <2>3 DEF Arrives, ScanByte, LinkHunt
    <3>2. [inFrame |-> TRUE, buf |-> <<>>] \in Receivers
      BY DEF Receivers
    <3>3. Len(<<>>) = 0 /\ 0 <= FrameMax /\ 0 < BufLen
      BY <2>3 DEF Overhead
    <3>4. InBounds([inFrame |-> TRUE, buf |-> <<>>])
      BY <2>3, <3>3 DEF InBounds
    <3>5. /\ link'.inFrame = TRUE /\ scanner'.inFrame = TRUE
          /\ link'.buf = <<>> /\ scanner'.buf = <<>>
      BY <3>1
    <3>6. Mirrored' /\ LinkInBounds'
      BY <2>1, <3>1, <3>4, <3>5 DEF Mirrored, LinkInBounds
    <3>. QED BY <2>1, <3>1, <3>2, <3>3, <3>5, <3>6 DEF Inv
  <2>4. CASE ~(b = Sync /\ BufLen >= Overhead)
    <3>1. link' = link /\ scanner' = scanner
      BY <2>1, <2>2, <2>4 DEF Arrives, ScanByte, LinkHunt
    <3>. QED BY <1>1, <2>1, <3>1
           DEF Inv, Receivers, LinkInBounds, InBounds, Mirrored
  <2>. QED BY <2>3, <2>4
<1>2. CASE link.inFrame
  <2>. DEFINE next == Append(link.buf, b)
  <2>1. /\ scanner.inFrame /\ scanner.buf = link.buf
        /\ link.buf \in Seq(Byte)
        /\ BufLen >= Overhead /\ Len(link.buf) < BufLen
        /\ Len(link.buf) \in Nat
    BY <1>2 DEF Inv, Mirrored, LinkInBounds, InBounds, Receivers
  <2>2. /\ next \in Seq(Byte) /\ Len(next) = Len(link.buf) + 1
        /\ Len(next) >= 2 => next[2] \in Byte
    BY <2>1, AppendByte
  <2>3. ScanStays(next) <=> LinkStays(next)
    BY <2>2, SameFit DEF ScanStays, LinkStays
  <2>4. Len(link.buf) < HostBufLen
    BY <2>1
  <2>5. link' = [inFrame |-> LinkStays(next), buf |-> next]
    BY <1>2 DEF Arrives, LinkByte
  <2>6. LinkStays(next) \in BOOLEAN
    BY DEF LinkStays
  <2>. HIDE DEF next
  <2>7. ~LinkStays(next) => next[2] \in Byte
    BY <2>2 DEF LinkStays
  <2>8. delivered' = done'
    BY <1>2, <2>1, <2>3, <2>4, <2>7, SameFit DEF next, Arrives, LinkDelivers, ScanDone
  <2>9. delivered' \in BOOLEAN /\ done' \in BOOLEAN
    BY DEF Arrives, LinkDelivers, ScanDone
  <2>10. Len(next) <= FrameMax
    BY <2>1, <2>2
  <2>11. CASE LinkStays(next)
    <3>1. scanner' = [inFrame |-> TRUE, buf |-> next]
      BY <2>1, <2>3, <2>4, <2>11 DEF next, Arrives, ScanByte
    <3>2. InBounds([inFrame |-> TRUE, buf |-> next])
      <4>1. Len(next) \in Nat /\ BufLen \in Nat
        BY <2>1, <2>2
      <4>2. Len(next) >= 2 => /\ next[2] + Overhead <= BufLen
                              /\ Len(next) < next[2] + Overhead
        BY <2>11, <4>1 DEF LinkStays
      <4>3. Len(next) < BufLen
        <5>1. CASE Len(next) < 2
          BY <2>1, <4>1, <5>1 DEF Overhead
        <5>2. CASE Len(next) >= 2
          <6>1. next[2] + Overhead \in Int
            <7>1. next[2] \in Byte
              BY <2>2, <5>2
            <7>. QED BY <7>1 DEF Overhead, Byte
          <6>. QED BY <4>1, <4>2, <5>2, <6>1
        <5>. QED BY <4>1, <5>1, <5>2
      <4>. QED BY <2>1, <4>2, <4>3 DEF InBounds
    <3>3. link' = [inFrame |-> TRUE, buf |-> next]
      <4>1. LinkStays(next) = TRUE
        BY <2>6, <2>11
      <4>. QED BY <2>5, <4>1
    <3>. QED BY <2>2, <2>8, <2>9, <2>10, <3>1, <3>2, <3>3
           DEF Inv, Mirrored, LinkInBounds, Receivers
  <2>12. CASE ~LinkStays(next)
    <3>1. scanner' = Hunting
      BY <2>1, <2>3, <2>12 DEF next, Arrives, ScanByte
    <3>2. link' = [inFrame |-> FALSE, buf |-> next]
      <4>1. LinkStays(next) = FALSE
        BY <2>6, <2>12
      <4>. QED BY <2>5, <4>1
    <3>. QED BY <2>2, <2>8, <2>9, <2>10, <3>1, <3>2
           DEF Inv, Mirrored, LinkInBounds, InBounds, Receivers, Hunting
  <2>. QED BY <2>11, <2>12
<1>. QED BY <1>1, <1>2 DEF Inv, Receivers

(* A freshly initialised receiver satisfies its part of the invariant.     *)
LEMMA HuntingFits ==
    /\ Hunting \in Receivers /\ ~Hunting.inFrame
    /\ Hunting.buf = <<>> /\ Len(Hunting.buf) <= FrameMax
    /\ InBounds(Hunting)
<1>1. Hunting \in Receivers /\ ~Hunting.inFrame /\ Hunting.buf = <<>>
  BY DEF Hunting, Receivers
<1>2. 0 <= FrameMax /\ Len(<<>>) = 0
  BY BufferAssumption
<1>. QED BY <1>1, <1>2 DEF InBounds

(* The three facts that make Inv an invariant of the specification.        *)
LEMMA InvInductive == MirrorSpec => []Inv
<1>1. MirrorInit => Inv
  BY HuntingFits DEF MirrorInit, Inv, LinkInBounds, Mirrored
<1>2. Inv /\ [MirrorNext]_mirrorVars => Inv'
  <2>. SUFFICES ASSUME Inv, [MirrorNext]_mirrorVars PROVE Inv'
    OBVIOUS
  <2>1. ASSUME NEW b \in Alphabet, Arrives(b) PROVE Inv'
    BY <2>1, ByteKeepsInv, MirrorAssumption
  <2>2. CASE Abandon
    BY <2>2, HuntingFits DEF Abandon, Inv, LinkInBounds, Mirrored
  <2>3. CASE UNCHANGED mirrorVars
    BY <2>3 DEF mirrorVars, Inv, LinkInBounds, InBounds, Mirrored
  <2>. QED BY <2>1, <2>2, <2>3 DEF MirrorNext
<1>. QED BY <1>1, <1>2, PTL DEF MirrorSpec

(* link_poll never indexes outside its buffer, for every buffer length the *)
(* port may choose (0, 1 and 2 included) and every byte stream.            *)
THEOREM LinkMemorySafe == MirrorSpec => []LinkInBounds
BY InvInductive, PTL DEF Inv

(* RxScanner is the mirror of link_poll: on every stream the two accept    *)
(* the same frames at the same byte.                                       *)
THEOREM ScannerMirrorsLink == MirrorSpec => []Mirrored
BY InvInductive, PTL DEF Inv
-----------------------------------------------------------------------------
(* What is on the wire of LinkStream is bytes, of a request or damaged.    *)
WireInv == frame \in Frames \cup {Start} /\ wire \in Seq(Byte)

(* A step of LinkStream brings the receivers a byte or leaves them alone.  *)
LEMMA WireStep ==
    ASSUME WireInv, [Next]_vars
    PROVE  WireInv' /\ [\E b \in Byte : Arrives(b)]_mirrorVars
<1>1. Sync \in Byte /\ frame \in Seq(Byte)
  BY SyncAssumption, FramesAssumption DEF WireInv
<1>2. wire # <<>> => Tail(wire) \in Seq(Byte) /\ Head(wire) \in Byte
  BY DEF WireInv
<1>3. Alphabet \subseteq Byte /\ LaterNoise \subseteq Byte
  BY MirrorAssumption, FramesAssumption
<1>4. CASE HostSends
  <2>1. <<Sync>> \o frame \in Seq(Byte)
    BY <1>1
  <2> QED BY <1>4, <2>1 DEF HostSends, WireInv
<1>5. CASE HostGivesUp \/ HostProceeds
  BY <1>5 DEF HostGivesUp, HostProceeds, WireInv
<1>6. CASE LoseByte
  BY <1>2, <1>6 DEF LoseByte, Fault, WireInv
<1>7. ASSUME NEW b \in Damage, DamageByte(b)
      PROVE  WireInv' /\ [\E c \in Byte : Arrives(c)]_mirrorVars
  <2>1. b \in Byte
    BY <1>3 DEF Damage
  <2>2. <<b>> \o Tail(wire) \in Seq(Byte)
    BY <1>2, <1>7, <2>1 DEF DamageByte, Fault
  <2> QED BY <1>7, <2>2 DEF DamageByte, WireInv
<1>8. CASE DevTakesByte
  BY <1>2, <1>8 DEF DevTakesByte, WireInv
<1>9. CASE UNCHANGED vars
  BY <1>9 DEF vars, WireInv
<1> QED BY <1>4, <1>5, <1>6, <1>7, <1>8, <1>9 DEF Next, Host

(* So every step keeps the invariants of the receivers and of the wire.    *)
LEMMA WireKeepsInv ==
    ASSUME Inv, WireInv, [Next]_vars
    PROVE  Inv' /\ WireInv'
<1>1. WireInv' /\ [\E b \in Byte : Arrives(b)]_mirrorVars
  BY WireStep
<1>2. CASE \E b \in Byte : Arrives(b)
  BY <1>1, <1>2, ByteKeepsInv
<1>3. CASE UNCHANGED mirrorVars
  BY <1>1, <1>3 DEF Inv, LinkInBounds, Mirrored, mirrorVars
<1> QED BY <1>1, <1>2, <1>3

(* Behind any wire the two receivers keep step and link_poll stays inside  *)
(* its buffer: for every set of requests, every retry budget and any       *)
(* number of lost and damaged bytes.                                       *)
THEOREM ReceiversSafeOnWire == FairSpec => [](LinkInBounds /\ Mirrored)
<1>1. Init => Inv /\ WireInv
  <2>1. MirrorInit => Inv
    BY HuntingFits DEF MirrorInit, Inv, LinkInBounds, Mirrored
  <2> QED BY <2>1 DEF Init, WireInv
<1>2. ASSUME Inv, WireInv, [Next]_vars PROVE Inv' /\ WireInv'
  BY <1>2, WireKeepsInv
<1>3. Inv => LinkInBounds /\ Mirrored
  BY DEF Inv
<1> QED BY <1>1, <1>2, <1>3, PTL DEF FairSpec
-----------------------------------------------------------------------------
(* What the receiver will have assembled when the wire is empty.           *)
Whole ==
    [j \in 1 .. Len(frame) |->
        IF j <= Len(link.buf) THEN link.buf[j] ELSE wire[j - Len(link.buf)]]

(* An attempt that keeps the receiver in step: not begun, half way, over.  *)
Ahead  == fate = "intact" /\ ~link.inFrame /\ wire = <<Sync>> \o frame
Within == /\ link.inFrame /\ wire # <<>>
          /\ Len(link.buf) + Len(wire) = Len(frame)
          /\ fate = "intact" => Whole = frame
          /\ fate = "damaged" => Whole \in Garbled(frame)
StepInv == fate \in {"intact", "damaged"} =>
              Ahead \/ Within \/ (wire = <<>> /\ InStep)

(* The requests are frames that fit; a garbled one keeps length and LEN.   *)
LEMMA RequestShape ==
    ASSUME NEW f \in Frames \cup {Start}
    PROVE  /\ f \in Seq(Byte) /\ FrameParse(f)
           /\ Len(f) \in Nat /\ Len(f) >= 3 /\ Len(f) <= BufLen
           /\ f[2] \in Byte /\ f[2] + 3 = Len(f)
           /\ \A g \in Garbled(f) : /\ g \in Seq(Byte) /\ Len(g) = Len(f)
                                    /\ g[2] = f[2]
<1>1. f \in Seq(Byte) /\ FrameParse(f) /\ Len(f) <= BufLen
  BY FramesAssumption
<1>2. Len(f) \in Nat /\ Len(f) >= 3 /\ f[2] + 3 = Len(f)
  BY <1>1 DEF FrameParse, Overhead
<1>3. f[2] \in Byte
  BY <1>1, <1>2
<1>4. ASSUME NEW i \in (1 .. Len(f)) \ {2}, NEW b \in Byte
      PROVE  LET g == [f EXCEPT ![i] = b]
             IN g \in Seq(Byte) /\ Len(g) = Len(f) /\ g[2] = f[2]
  BY <1>1, <1>2, <1>4
<1>5. ASSUME NEW g \in Garbled(f)
      PROVE  g \in Seq(Byte) /\ Len(g) = Len(f) /\ g[2] = f[2]
  <2>1. PICK i \in (1 .. Len(f)) \ {2}, b \in Byte : g = [f EXCEPT ![i] = b]
    BY <1>5 DEF Garbled
  <2> QED BY <1>4, <2>1
<1> QED BY <1>1, <1>2, <1>3, <1>5

(* The sync byte opens the frame.                                          *)
LEMMA TakeSync ==
    ASSUME Inv, WireInv, Ahead, DevTakesByte
    PROVE  Within'
<1>1. /\ frame \in Seq(Byte) /\ Len(frame) \in Nat /\ Len(frame) >= 3
      /\ Len(frame) <= BufLen
  BY RequestShape DEF WireInv
<1>2. Head(wire) = Sync /\ Tail(wire) = frame
  BY <1>1, SyncAssumption DEF Ahead
<1>3. BufLen >= Overhead
  BY <1>1, BufferAssumption DEF Overhead
<1>4. link' = [inFrame |-> TRUE, buf |-> <<>>]
  BY <1>2, <1>3 DEF DevTakesByte, Arrives, LinkByte, LinkHunt, Ahead
<1>5. wire' = frame /\ frame' = frame /\ fate' = "intact"
  BY <1>2 DEF DevTakesByte, Ahead
<1>6. link'.inFrame /\ link'.buf = <<>> /\ Len(link'.buf) = 0
  BY <1>4
<1>7. Whole' = frame
  <2>1. Whole' = [j \in 1 .. Len(frame) |-> frame[j]]
    BY <1>1, <1>5, <1>6 DEF Whole
  <2> QED BY <1>1, <2>1
<1>8. wire' # <<>>
  BY <1>1, <1>5
<1> QED BY <1>1, <1>5, <1>6, <1>7, <1>8 DEF Within

(* A byte of the frame: the declared length ends it with the last one.     *)
LEMMA TakeByte ==
    ASSUME Inv, WireInv, DamageDetected, fate \in {"intact", "damaged"},
           Within, DevTakesByte
    PROVE  Within' \/ (wire' = <<>> /\ InStep')
<1> DEFINE h == Head(wire)
           t == Tail(wire)
           next == Append(link.buf, h)
<1>1. /\ link.inFrame /\ link.buf \in Seq(Byte) /\ wire \in Seq(Byte)
      /\ Len(link.buf) \in Nat /\ Len(wire) \in Nat /\ wire # <<>>
      /\ Len(link.buf) + Len(wire) = Len(frame)
  BY DEF Inv, Receivers, WireInv, Within
<1>2. /\ frame \in Seq(Byte) /\ Len(frame) \in Nat /\ Len(frame) >= 3
      /\ Len(frame) <= BufLen /\ FrameParse(frame)
      /\ frame[2] \in Byte /\ frame[2] + 3 = Len(frame)
  BY RequestShape DEF WireInv
<1>3. /\ h \in Byte /\ Len(wire) >= 1
      /\ Len(t) \in Nat /\ Len(t) = Len(wire) - 1
      /\ h = wire[1] /\ \A j \in 1 .. Len(t) : t[j] = wire[j + 1]
      /\ t = <<>> <=> Len(t) = 0
  <2>1. t \in Seq(Byte) /\ Len(wire) >= 1 /\ Len(t) = Len(wire) - 1 /\ h = wire[1]
    BY <1>1
  <2>2. h \in Byte /\ \A j \in 1 .. Len(t) : t[j] = wire[j + 1]
    BY <1>1, <2>1
  <2>3. \A s \in Seq(Byte) : Len(s) \in Nat /\ (s = <<>> <=> Len(s) = 0)
    OBVIOUS
  <2> QED BY <2>1, <2>2, <2>3
<1>4. /\ next \in Seq(Byte) /\ Len(next) \in Nat /\ Len(next) = Len(link.buf) + 1
      /\ \A j \in 1 .. Len(link.buf) : next[j] = link.buf[j]
      /\ next[Len(next)] = h
  BY <1>1, <1>3
<1>5. /\ Whole \in Seq(Byte) /\ Len(Whole) = Len(frame) /\ Whole[2] = frame[2]
      /\ fate = "intact" => Whole = frame
      /\ fate = "damaged" => Whole \in Garbled(frame)
  BY <1>2, RequestShape DEF Within, WireInv
<1>6. link' = [inFrame |-> LinkStays(next), buf |-> next]
  BY <1>1 DEF DevTakesByte, Arrives, LinkByte
<1>7. wire' = t /\ frame' = frame /\ fate' = fate
  BY DEF DevTakesByte
<1>8. \A j \in 1 .. Len(next) : next[j] = Whole[j]
  <2>1. Len(link.buf) + 1 <= Len(frame)
    BY <1>1, <1>3
  <2>2. \A j \in 1 .. Len(link.buf) : Whole[j] = link.buf[j]
    BY <1>1, <1>2, <2>1 DEF Whole
  <2>3. Whole[Len(link.buf) + 1] = wire[1]
    BY <1>1, <1>2, <2>1 DEF Whole
  <2> QED BY <1>1, <1>3, <1>4, <2>2, <2>3
<1>9. LinkStays(next) <=> t # <<>>
  <2>1. Len(next) < 2 => t # <<>>
    BY <1>1, <1>2, <1>3, <1>4
  <2>2. CASE Len(next) >= 2
    <3>1. next[2] + 3 = Len(frame)
      <4>1. 2 \in 1 .. Len(next)
        BY <1>1, <1>4, <2>2
      <4>2. next[2] = frame[2]
        BY <1>5, <1>8, <4>1
      <4> QED BY <1>2, <4>2
    <3>2. LinkStays(next) <=> Len(next) < Len(frame)
      BY <1>2, <1>4, <2>2, <3>1 DEF LinkStays, Overhead
    <3>3. Len(next) < Len(frame) <=> Len(t) # 0
      BY <1>1, <1>2, <1>3, <1>4
    <3> QED BY <1>3, <3>2, <3>3
  <2>3. CASE Len(next) < 2
    BY <2>1, <2>3 DEF LinkStays
  <2> QED BY <1>1, <1>4, <2>2, <2>3
<1> HIDE DEF h, t, next
<1>10. CASE t # <<>>
  <2>1. link'.inFrame /\ link'.buf = next
    BY <1>6, <1>9, <1>10
  <2>2. Len(next) + Len(t) = Len(frame)
    BY <1>1, <1>2, <1>3, <1>4
  <2>3. Whole' = Whole
    <3>1. Whole' = [j \in 1 .. Len(frame) |->
                      IF j <= Len(next) THEN next[j] ELSE t[j - Len(next)]]
      BY <1>7, <2>1 DEF Whole
    <3>2. ASSUME NEW j \in 1 .. Len(frame), j > Len(next)
          PROVE  t[j - Len(next)] = Whole[j]
      <4>1. j - Len(next) \in 1 .. Len(t) /\ (j - Len(next)) + 1 = j - Len(link.buf)
        <5>1. Len(link.buf) \in Nat /\ Len(t) \in Nat /\ Len(next) = Len(link.buf) + 1
          BY <1>1, <1>3, <1>4
        <5> QED BY <5>1, <2>2, <3>2
      <4>2. t[j - Len(next)] = wire[j - Len(link.buf)]
        BY <1>3, <4>1
      <4>3. ~(j <= Len(link.buf))
        BY <1>1, <1>2, <1>4, <3>2
      <4> QED BY <4>2, <4>3 DEF Whole
    <3>3. \A j \in 1 .. Len(frame) :
             (IF j <= Len(next) THEN next[j] ELSE t[j - Len(next)]) = Whole[j]
      <4> TAKE j \in 1 .. Len(frame)
      <4>1. CASE j <= Len(next)
        <5>1. j \in 1 .. Len(next)
          BY <1>1, <1>2, <1>4, <4>1
        <5> QED BY <1>8, <4>1, <5>1
      <4>2. CASE ~(j <= Len(next))
        <5>1. j > Len(next)
          BY <1>1, <1>2, <1>4, <4>2
        <5> QED BY <3>2, <4>2, <5>1
      <4> QED BY <4>1, <4>2
    <3>4. Whole = [j \in 1 .. Len(frame) |-> Whole[j]]
      BY DEF Whole
    <3> QED BY <3>1, <3>3, <3>4
  <2> QED BY <1>5, <1>7, <1>10, <2>1, <2>2, <2>3 DEF Within
<1>11. CASE t = <<>>
  <2>1. next = Whole
    <3>1. Len(next) = Len(Whole)
      <4>1. Len(t) = 0
        BY <1>3, <1>11
      <4>2. Len(next) + Len(t) = Len(frame)
        BY <1>1, <1>2, <1>3, <1>4
      <4>3. Len(next) = Len(frame)
        BY <1>4, <4>1, <4>2
      <4> QED BY <1>5, <4>3
    <3> QED BY <1>4, <1>5, <1>8, <3>1
  <2>2. ~link'.inFrame /\ link'.buf = Whole
    BY <1>6, <1>9, <1>11, <2>1
  <2>3. Whole[2] + Overhead <= BufLen
    BY <1>2, <1>5 DEF Overhead
  <2>4. delivered' = FrameParse(Whole)
    BY <1>1, <1>9, <1>11, <2>1, <2>3
       DEF DevTakesByte, Arrives, LinkDelivers, next, h, FrameParse
  <2>5. CASE fate = "intact"
    <3>1. got' = frame
      BY <1>2, <1>5, <2>2, <2>4, <2>5 DEF DevTakesByte
    <3> QED BY <1>7, <1>11, <2>5, <3>1 DEF InStep
  <2>6. CASE fate = "damaged"
    <3>1. ~FrameParse(Whole)
      BY <1>5, <2>6 DEF DamageDetected, WireInv
    <3> QED BY <1>7, <1>11, <2>2, <2>4, <2>6, <3>1 DEF InStep
  <2> QED BY <2>5, <2>6
<1> QED BY <1>10, <1>11

(* A damaged byte makes one garbled frame of the request.                  *)
LEMMA DamageWithin ==
    ASSUME Inv, WireInv, Within, fate = "intact", ~SyncOrLen,
           NEW b \in Byte, DamageByte(b)
    PROVE  Within'
<1> DEFINE i == Len(link.buf) + 1
<1>1. /\ link.buf \in Seq(Byte) /\ wire \in Seq(Byte) /\ wire # <<>>
      /\ Len(link.buf) \in Nat /\ Len(wire) \in Nat
      /\ Len(link.buf) + Len(wire) = Len(frame) /\ Whole = frame
  BY DEF Inv, Receivers, WireInv, Within
<1>2. frame \in Seq(Byte) /\ Len(frame) \in Nat /\ Len(frame) >= 3
  BY RequestShape DEF WireInv
<1>3. /\ wire' = <<b>> \o Tail(wire) /\ b # Head(wire) /\ fate' = "damaged"
      /\ UNCHANGED <<frame, link>>
  BY DEF DamageByte, mirrorVars
<1>4. /\ Len(wire) >= 1 /\ Len(wire') = Len(wire) /\ wire' # <<>>
      /\ wire'[1] = b /\ \A j \in 2 .. Len(wire) : wire'[j] = wire[j]
      /\ Head(wire) = wire[1]
  <2>1. Tail(wire) \in Seq(Byte) /\ Len(wire) >= 1 /\ Len(Tail(wire)) = Len(wire) - 1
    BY <1>1
  <2>2. \A j \in 1 .. Len(Tail(wire)) : Tail(wire)[j] = wire[j + 1]
    BY <1>1
  <2> DEFINE t == Tail(wire)
  <2>3. wire' = <<b>> \o t /\ t \in Seq(Byte) /\ Len(t) = Len(wire) - 1
    BY <1>3, <2>1
  <2>4. \A j \in 1 .. Len(t) : t[j] = wire[j + 1]
    BY <2>2
  <2> HIDE DEF t
  <2>5. Len(wire') = Len(t) + 1 /\ wire'[1] = b
    BY <2>3
  <2>6. \A j \in 2 .. Len(t) + 1 : wire'[j] = t[j - 1]
    BY <2>3
  <2>7. ASSUME NEW j \in 2 .. Len(wire) PROVE wire'[j] = wire[j]
    <3>1. j \in 2 .. Len(t) + 1 /\ j - 1 \in 1 .. Len(t) /\ (j - 1) + 1 = j
      BY <1>1, <2>3, <2>7
    <3> QED BY <2>4, <2>6, <3>1
  <2>8. wire' # <<>>
    BY <1>1, <2>1, <2>3, <2>5
  <2>9. Head(wire) = wire[1] /\ Len(wire') = Len(wire)
    BY <1>1, <2>3, <2>5
  <2> QED BY <2>1, <2>5, <2>7, <2>8, <2>9
<1>5. i \in (1 .. Len(frame)) \ {2}
  BY <1>1, <1>2, <1>4 DEF SyncOrLen
<1>6. frame[i] = wire[1]
  <2>1. ~(i <= Len(link.buf)) /\ i - Len(link.buf) = 1
    BY <1>1
  <2>2. Whole[i] = wire[1]
    BY <1>5, <2>1 DEF Whole
  <2> QED BY <1>1, <2>2
<1>7. Whole' = [frame EXCEPT ![i] = b]
  <2>1. Whole' = [j \in 1 .. Len(frame) |->
                    IF j <= Len(link.buf) THEN link.buf[j] ELSE wire'[j - Len(link.buf)]]
    BY <1>3 DEF Whole
  <2>2. ASSUME NEW j \in 1 .. Len(frame)
        PROVE  (IF j <= Len(link.buf) THEN link.buf[j] ELSE wire'[j - Len(link.buf)])
                 = [frame EXCEPT ![i] = b][j]
    <3>1. Whole[j] = frame[j]
      BY <1>1
    <3>2. CASE j <= Len(link.buf)
      <4>1. Whole[j] = link.buf[j]
        BY <3>2 DEF Whole
      <4>2. j # i
        BY <1>1, <3>2
      <4>3. [frame EXCEPT ![i] = b][j] = frame[j]
        BY <1>2, <4>2
      <4> QED BY <3>1, <3>2, <4>1, <4>3
    <3>3. CASE j = i
      BY <1>1, <1>2, <1>4, <3>3
    <3>4. CASE ~(j <= Len(link.buf)) /\ j # i
      <4>1. Whole[j] = wire[j - Len(link.buf)]
        BY <3>4 DEF Whole
      <4>2. j - Len(link.buf) \in 2 .. Len(wire)
        BY <1>1, <1>2, <3>4
      <4>3. wire'[j - Len(link.buf)] = wire[j - Len(link.buf)]
        BY <1>4, <4>2
      <4>4. [frame EXCEPT ![i] = b][j] = frame[j]
        BY <1>2, <3>4
      <4> QED BY <3>1, <3>4, <4>1, <4>3, <4>4
    <3> QED BY <3>2, <3>3, <3>4
  <2>3. [frame EXCEPT ![i] = b]
          = [j \in 1 .. Len(frame) |-> [frame EXCEPT ![i] = b][j]]
    BY <1>2
  <2> QED BY <2>1, <2>2, <2>3
<1> HIDE DEF i
<1>8. Whole' \in Garbled(frame)
  <2>1. [frame EXCEPT ![i] = b] # frame
    BY <1>2, <1>3, <1>4, <1>5, <1>6
  <2>2. [frame EXCEPT ![i] = b] \in Garbled(frame)
    BY <1>5, <2>1 DEF Garbled
  <2> QED BY <1>7, <2>2
<1> QED BY <1>1, <1>3, <1>4, <1>8 DEF Within

(* Every step keeps the receiver in step with an attempt that found it     *)
(* between frames.                                                         *)
LEMMA InStepStep ==
    ASSUME Inv, WireInv, DamageDetected, StepInv, [Next]_vars
    PROVE  StepInv'
<1>1. CASE HostSends
  BY <1>1 DEF HostSends, StepInv, Ahead, mirrorVars
<1>2. CASE HostGivesUp \/ HostProceeds \/ LoseByte
  BY <1>2 DEF HostGivesUp, HostProceeds, LoseByte, StepInv
<1>3. ASSUME NEW b \in Damage, DamageByte(b) PROVE StepInv'
  <2>1. CASE fate = "intact" /\ ~SyncOrLen
    <3>1. ~Ahead
      <4>1. frame \in Seq(Byte)
        BY RequestShape DEF WireInv
      <4>2. wire = <<Sync>> \o frame => Len(wire) = Len(frame) + 1
        BY <4>1, SyncAssumption
      <4> QED BY <2>1, <4>2 DEF Ahead, SyncOrLen
    <3>2. Within
      BY <1>3, <2>1, <3>1 DEF StepInv, DamageByte, Fault
    <3>3. b \in Byte
      BY MirrorAssumption, FramesAssumption DEF Damage
    <3> QED BY <1>3, <2>1, <3>2, <3>3, DamageWithin DEF StepInv
  <2>2. CASE ~(fate = "intact" /\ ~SyncOrLen)
    BY <1>3, <2>2 DEF DamageByte, StepInv
  <2> QED BY <2>1, <2>2
<1>4. CASE DevTakesByte
  <2>1. CASE fate \in {"intact", "damaged"} /\ Ahead
    BY <1>4, <2>1, TakeSync DEF StepInv
  <2>2. CASE fate \in {"intact", "damaged"} /\ Within
    BY <1>4, <2>2, TakeByte DEF StepInv
  <2>3. wire # <<>> /\ fate' = fate
    BY <1>4 DEF DevTakesByte
  <2> QED BY <2>1, <2>2, <2>3 DEF StepInv
<1>5. CASE UNCHANGED vars
  BY <1>5 DEF vars, mirrorVars, StepInv, Ahead, Within, Whole, InStep
<1> QED BY <1>1, <1>2, <1>3, <1>4, <1>5 DEF Next, Host

(* An attempt that finds the receiver between frames is taken exactly as   *)
(* sent, or, one byte of it damaged, not at all: for every set of requests *)
(* that fit the buffer, whatever their payloads hold, after any number of  *)
(* faults, for a CRC that tells each request from its neighbours.          *)
THEOREM TakenAsSent ==
    ASSUME DamageDetected
    PROVE  FairSpec => []InStep
<1>1. Init => Inv /\ WireInv /\ StepInv
  <2>1. MirrorInit => Inv
    BY HuntingFits DEF MirrorInit, Inv, LinkInBounds, Mirrored
  <2> QED BY <2>1 DEF Init, WireInv, StepInv
<1>2. ASSUME Inv, WireInv, StepInv, [Next]_vars PROVE Inv' /\ WireInv' /\ StepInv'
  <2>1. Inv' /\ WireInv'
    BY <1>2, WireKeepsInv
  <2> QED BY <1>2, <2>1, InStepStep
<1>3. WireInv /\ StepInv => InStep
  <2>1. wire = <<>> => ~Ahead /\ ~Within
    <3>1. <<Sync>> \o frame # <<>>
      BY SyncAssumption, RequestShape DEF WireInv
    <3> QED BY <3>1 DEF Ahead, Within
  <2> QED BY <2>1 DEF StepInv, InStep
<1> QED BY <1>1, <1>2, <1>3, PTL DEF FairSpec
=============================================================================
