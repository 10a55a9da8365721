---------------------------- MODULE StreamMirror ----------------------------
(***************************************************************************)
(* The device's and the host's receive machines side by side on the same   *)
(* bytes, whatever they are.  stream.rs calls its scanner the byte-exact   *)
(* mirror of link_stream.c.                                                *)
(***************************************************************************)
EXTENDS Framing

CONSTANT Alphabet   \* the bytes that may arrive

(* The buffers agree: equal, or both no smaller than the largest frame.    *)
ASSUME MirrorAssumption ==
    /\ Alphabet \subseteq Byte
    /\ HostBufLen = BufLen \/ (BufLen = FrameMax /\ HostBufLen >= FrameMax)

VARIABLES
    link,      \* the device's receiver
    scanner,   \* the host's receiver
    delivered, \* link_poll returned a frame at the last byte
    done       \* push returned Done at the last byte

mirrorVars == <<link, scanner, delivered, done>>

MirrorInit == link = Hunting /\ scanner = Hunting /\ delivered = FALSE /\ done = FALSE

Arrives(b) ==
    /\ link' = LinkByte(link, b)
    /\ scanner' = ScanByte(scanner, b)
    /\ delivered' = LinkDelivers(link, b)
    /\ done' = ScanDone(scanner, b)

(* link_init, reset(): a stalled frame is abandoned.                       *)
Abandon ==
    /\ link' = Hunting /\ scanner' = Hunting
    /\ delivered' = FALSE /\ done' = FALSE

MirrorNext == (\E b \in Alphabet : Arrives(b)) \/ Abandon
MirrorSpec == MirrorInit /\ [][MirrorNext]_mirrorVars
-----------------------------------------------------------------------------
Receivers == [inFrame : BOOLEAN, buf : Seq(Byte)]

(* link_poll never writes outside its buffer: between bytes the next index *)
(* is inside it, and a frame in progress will end inside it.               *)
LinkInBounds == InBounds(link)

(* The machines accept the same frames at the same byte, and agree on      *)
(* whether they are inside a frame and on its bytes.                       *)
Mirrored ==
    /\ delivered = done
    /\ link.inFrame = scanner.inFrame
    /\ link.inFrame => link.buf = scanner.buf
=============================================================================
