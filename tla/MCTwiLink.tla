----------------------------- MODULE MCTwiLink -----------------------------
(* INFO, whose reply holds filler bytes, two writes that differ in their   *)
(* page, and a write of a page the client's buffer cannot hold; the real   *)
(* CRC-8.                                                                  *)
EXTENDS TwiLink, Checksum

Info == FrameBuild(1, <<>>)
Write(p) == FrameBuild(3, <<p>>)
Long == FrameBuild(3, <<2, 9, 9>>)
MCRequests == <<Info, Write(0), Write(1), Long>>

MCWindow(req) == IF req[1] = 1 THEN 6 ELSE 4
MCAnswer(req) == FrameBuild((req[1] % 128) + 128, IF req[1] = 1 THEN <<0, 255, 255>> ELSE <<0>>)
MCBadFrame(req) == FrameBuild((req[1] % 128) + 128, <<1>>)
=============================================================================
