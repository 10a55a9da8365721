----------------------------- MODULE MCSpiLink -----------------------------
(* INFO, whose reply is longer than its request and holds a sync byte, two *)
(* writes that only their pages tell apart, and BOOT.                      *)
EXTENDS SpiLink, Checksum

Head2(cmd, payload) == <<cmd, Len(payload)>> \o payload

RequestHeads == <<Head2(1, <<>>), Head2(3, <<0, 0, 9>>), Head2(3, <<1, 0, 9>>),
                  Head2(5, <<>>)>>

ReplyHead(cmd) == Head2(cmd, CASE cmd = 1 -> <<0, 126, 2>>
                               [] cmd = 0 -> <<2>>
                               [] OTHER   -> <<0>>)

(* Any number of bytes may be lost here, and no 8-bit CRC detects that in  *)
(* every case.  A frame has its real CRC and what is glued together from   *)
(* remains has none; zeros alone still make a frame, of command 0.         *)
Sound == {RequestHeads[i] : i \in 1 .. 4} \cup {<<0, 0>>}
            \cup {ReplyHead(c) : c \in {0, 1, 3, 5}}
MCCrc8(s) == IF s \in Sound THEN UpdCrc8(s) ELSE 256

MCJob == [i \in 1 .. 4 |-> Append(RequestHeads[i], MCCrc8(RequestHeads[i]))]
MCReply(f) == Append(ReplyHead(f[1]), MCCrc8(ReplyHead(f[1])))
=============================================================================
