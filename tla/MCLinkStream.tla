---------------------------- MODULE MCLinkStream ----------------------------
(* Real request frames with their real CRC-8: INFO, ERASE_APP with its     *)
(* "ERAS" magic, VERIFY-like eight-byte payloads, and page writes whose    *)
(* data hold a sync byte and, one byte on, something that reads as a       *)
(* length, or a whole framed INFO.                                         *)
EXTENDS LinkStream, Checksum

Info  == FrameBuild(1, <<>>)
Erase == FrameBuild(2, <<69, 82, 65, 83>>)
Verify == FrameBuild(4, <<8, 0, 0, 0, 17, 34, 51, 68>>)

SyncInPage == FrameBuild(3, <<0, 0, 126, 1, 4, 9>>)

InfoInPage == FrameBuild(3, <<0, 0, Sync>> \o Info)

Requests  == {Erase, Verify, SyncInPage, InfoInPage}
EraseOnly == {Erase}

(* The hypothesis of the theorem about InStep.                             *)
ASSUME MCDamageDetected == DamageDetected
=============================================================================
