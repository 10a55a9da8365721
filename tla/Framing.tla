------------------------------ MODULE Framing ------------------------------
(***************************************************************************)
(* Frames on a byte stream: the codec (device/core/proto.c) and the two    *)
(* receive machines, the device's link_poll (device/core/link_stream.c)    *)
(* and the host's RxScanner (host/updater-core/src/stream.rs), each as     *)
(* what one received byte does to it.                                      *)
(*                                                                         *)
(* A receiver is a record: inFrame, and buf, the bytes assembled since the *)
(* last sync, whose length is the counter n of the code.                   *)
(***************************************************************************)
EXTENDS Integers, Sequences

CONSTANTS
    Sync,        \* UPD_LINK_SYNC, 0x7E
    FrameMax,    \* the largest frame a u8 length can carry, 255
    BufLen,      \* link_t.buf_len: the device's assembly buffer
    HostBufLen,  \* the buffer handed to RxScanner::push
    Crc8(_)      \* CRC-8 of a sequence of bytes

Byte     == 0 .. 255
Overhead == 3                       \* UPD_FRAME_OVERHEAD: CMD, LEN, CRC8
PayloadMax == FrameMax - Overhead   \* PAYLOAD_MAX of frame.rs
Filler   == 255                     \* an idle bus reads as 0xFF

ASSUME SyncAssumption == Sync \in Byte
ASSUME BufferAssumption ==
    /\ FrameMax \in Nat /\ FrameMax >= Overhead
    /\ BufLen \in 0 .. FrameMax
    /\ HostBufLen \in Nat

Hunting == [inFrame |-> FALSE, buf |-> <<>>]

(* Faulty variant: the CRC is not checked.                                 *)
FrameParseNoCrc(buf) == Len(buf) >= Overhead /\ buf[2] + Overhead = Len(buf)

(* upd_frame_parse: the declared length is the length, and the CRC agrees. *)
FrameParse(buf) ==
    /\ Len(buf) >= Overhead
    /\ buf[2] + Overhead = Len(buf)
    /\ Crc8(SubSeq(buf, 1, Len(buf) - 1)) = buf[Len(buf)]

(* decode: as upd_frame_parse, and no length a frame cannot have.          *)
Decode(raw) == FrameParse(raw) /\ raw[2] <= PayloadMax

(* decode_padded: a frame as long as LEN says, and nothing but 0xFF filler *)
(* behind it.                                                              *)
DecodePadded(raw) ==
    /\ Len(raw) >= 2 /\ raw[2] + Overhead <= Len(raw)
    /\ \A i \in raw[2] + Overhead + 1 .. Len(raw) : raw[i] = Filler
    /\ Decode(SubSeq(raw, 1, raw[2] + Overhead))

(* upd_frame_build: << >> when the frame exceeds the u8 wire size.         *)
FrameBuild(cmd, payload) ==
    LET head == <<cmd, Len(payload)>> \o payload
    IN IF Len(payload) + Overhead > FrameMax THEN <<>> ELSE Append(head, Crc8(head))

-----------------------------------------------------------------------------
(* link_poll, one byte.  A completed or dropped frame leaves the machine   *)
(* hunting; buf keeps its contents until the next sync, and a delivered    *)
(* frame is read from there.                                               *)
LinkHunt(l, b) ==
    IF b = Sync /\ BufLen >= Overhead THEN [inFrame |-> TRUE, buf |-> <<>>] ELSE l

(* Faulty variant: the declared length is believed.                        *)
LinkStaysUnchecked(buf) == Len(buf) < 2 \/ Len(buf) < buf[2] + Overhead

LinkStays(buf) ==
    Len(buf) < 2 \/ (buf[2] + Overhead <= BufLen /\ Len(buf) < buf[2] + Overhead)

(* Faulty variant: after a frame that does not parse the next byte is      *)
(* taken for the start of another, without its sync.                       *)
LinkByteNoHunt(l, b) ==
    LET next == Append(l.buf, b)
    IN IF ~l.inFrame THEN LinkHunt(l, b)
       ELSE IF LinkStays(next) THEN [inFrame |-> TRUE, buf |-> next]
       ELSE IF FrameParse(next) THEN [inFrame |-> FALSE, buf |-> next]
       ELSE [inFrame |-> TRUE, buf |-> <<>>]

LinkByte(l, b) ==
    IF ~l.inFrame THEN LinkHunt(l, b)
    ELSE [inFrame |-> LinkStays(Append(l.buf, b)), buf |-> Append(l.buf, b)]

(* Faulty variant: a frame of its declared length is good enough.          *)
LinkDeliversUnparsed(l, b) ==
    /\ l.inFrame
    /\ ~LinkStays(Append(l.buf, b))
    /\ Append(l.buf, b)[2] + Overhead <= BufLen

LinkDelivers(l, b) ==
    /\ l.inFrame
    /\ ~LinkStays(Append(l.buf, b))
    /\ Append(l.buf, b)[2] + Overhead <= BufLen
    /\ FrameParse(Append(l.buf, b))

(* The state invariant of link_stream.c, which keeps its writes in bounds. *)
InBounds(l) ==
    l.inFrame => /\ BufLen >= Overhead
                 /\ Len(l.buf) < BufLen
                 /\ Len(l.buf) >= 2 => /\ l.buf[2] + Overhead <= BufLen
                                       /\ Len(l.buf) < l.buf[2] + Overhead

-----------------------------------------------------------------------------
(* Faulty variant: a large host buffer takes any declared length.          *)
ScanFitsAnyLen(len) == len + Overhead <= HostBufLen

(* RxScanner::push, one byte.  reset() forgets the partial frame.          *)
ScanFits(len) == len <= PayloadMax /\ len + Overhead <= HostBufLen

ScanStays(buf) ==
    Len(buf) < 2 \/ (ScanFits(buf[2]) /\ Len(buf) < buf[2] + Overhead)

ScanByte(s, b) ==
    IF ~s.inFrame
    THEN IF b = Sync /\ HostBufLen >= Overhead
         THEN [inFrame |-> TRUE, buf |-> <<>>] ELSE s
    ELSE IF Len(s.buf) < HostBufLen /\ ScanStays(Append(s.buf, b))
    THEN [inFrame |-> TRUE, buf |-> Append(s.buf, b)]
    ELSE Hunting

ScanDone(s, b) ==
    /\ s.inFrame
    /\ Len(s.buf) < HostBufLen
    /\ ~ScanStays(Append(s.buf, b))
    /\ ScanFits(Append(s.buf, b)[2])
    /\ FrameParse(Append(s.buf, b))
=============================================================================
