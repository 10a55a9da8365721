----------------------------- MODULE Bootloader -----------------------------
(***************************************************************************)
(* The device: the update session FSM (device/core/update.c), the main     *)
(* loop every port runs around it (main.c of each port), the entry pair    *)
(* an application leaves behind to be updated (entry.c, app_stub.h), and   *)
(* resets and power cuts at any moment, in the middle of a flash operation *)
(* included.                                                               *)
(*                                                                         *)
(* The device is single threaded.  The loop body has three stages, pc:     *)
(* "recv" polls the link and serves at most one frame, "boot" acts on an   *)
(* accepted BOOT, "window" applies the entry window T_ENTRY.  On a polled  *)
(* transactional link (TWI) the host's read of a reply is one of the       *)
(* things a poll may see; on a byte stream (UART) the device pushes it.    *)
(***************************************************************************)
EXTENDS Flash

CONSTANTS
    Transactional,  \* TRUE: TWI port; FALSE: UART ports
    Requests,       \* the well-formed frames a host may send
    InitialFlash,   \* what the region may hold when first powered
    MaxResets       \* bound on the resets of a behaviour

NoReply == [cmd |-> "none", st |-> "none", app |-> FALSE]

Commands == {"INFO", "ERASE", "WRITE", "VERIFY", "BOOT", "ECHO", "OTHER"}
Statuses == {"OK", "BAD_FRAME", "BAD_CMD", "NOT_ERASED", "OUT_OF_RANGE",
             "BAD_CRC", "BAD_MAGIC", "NO_APP"}
Replies  == [cmd : Commands, st : Statuses, app : BOOLEAN] \cup {NoReply}

(* What a parsed frame carries, reduced to what the handlers test:         *)
(* magic: the ERASE payload is "ERAS"; full: the payload has the length    *)
(* the handler demands; fits: an ECHO payload of at most UPD_ECHO_MAX.     *)
WriteRequest == [cmd : {"WRITE"}, full : BOOLEAN, page : Nat, data : Page]
WellFormed(r) == r.cmd \in Commands /\ (r.cmd = "WRITE" => r \in WriteRequest)

ASSUME TransactionalAssumption == Transactional \in BOOLEAN
ASSUME RequestsAssumption == \A r \in Requests : WellFormed(r)
ASSUME InitialFlashAssumption == InitialFlash \subseteq [Pages -> Page]
ASSUME MaxResetsAssumption == MaxResets \in Nat

VARIABLES
    flash,        \* the application region
    erased,       \* upd_session_t.erased
    bootPending,  \* upd_session_t.boot_pending
    resident,     \* main: stay in the bootloader
    expired,      \* port_ticks_ms() >= UPDATER_T_ENTRY_MS
    pc,           \* stage of the main loop
    rsp,          \* the reply handed to the link and not yet on its way
    consumed,     \* twi_response_consumed(): the host read the whole reply
    entryPair,    \* the entry magic and its complement, in noinit memory
    mode,         \* who runs: "boot" loader or "app"
    written,      \* history: pages programmed since the last full erase
    resets        \* counts resets, for MaxResets

session == <<erased, bootPending>>
wire    == <<rsp, consumed>>
vars    == <<flash, erased, bootPending, resident, expired, pc, rsp, consumed,
             entryPair, mode, written, resets>>

Init ==
    /\ flash \in InitialFlash
    /\ erased = FALSE /\ bootPending = FALSE
    /\ resident = FALSE /\ expired = FALSE
    /\ pc = "recv"
    /\ rsp = NoReply /\ consumed = FALSE
    /\ entryPair = FALSE
    /\ mode = "boot"
    /\ written = {}
    /\ resets = 0

-----------------------------------------------------------------------------
(* upd_handle: one operator per command handler.                           *)

Answer(c, st) == rsp' = [cmd |-> c, st |-> st, app |-> FALSE]

HandleInfo ==
    /\ rsp' = [cmd |-> "INFO", st |-> "OK", app |-> AppValid(flash)]
    /\ UNCHANGED <<flash, session, written>>

(* Faulty variant: the loop stops one page short.                          *)
HandleEraseShort(req) ==
    IF req.magic
    THEN /\ flash' = [p \in Pages |-> IF p < AppPages - 1 THEN BlankPage ELSE flash[p]]
         /\ erased' = TRUE
         /\ written' = {}
         /\ Answer("ERASE", "OK")
         /\ UNCHANGED bootPending
    ELSE /\ Answer("ERASE", "BAD_MAGIC")
         /\ UNCHANGED <<flash, session, written>>

HandleErase(req) ==
    IF req.magic
    THEN /\ flash' = BlankFlash
         /\ erased' = TRUE
         /\ written' = {}
         /\ Answer("ERASE", "OK")
         /\ UNCHANGED bootPending
    ELSE /\ Answer("ERASE", "BAD_MAGIC")
         /\ UNCHANGED <<flash, session, written>>

(* Faulty variant: the page index is off by one at the end of the region.  *)
WriteStatusOffByOne(req) ==
    IF ~erased THEN "NOT_ERASED"
    ELSE IF ~req.full THEN "BAD_FRAME"
    ELSE IF req.page > AppPages THEN "OUT_OF_RANGE"
    ELSE "OK"

(* The status of a WRITE, in the order the handler tests.                  *)
WriteStatus(req) ==
    IF ~erased THEN "NOT_ERASED"
    ELSE IF ~req.full THEN "BAD_FRAME"
    ELSE IF req.page \notin Pages THEN "OUT_OF_RANGE"
    ELSE "OK"

HandleWrite(req) ==
    /\ IF WriteStatus(req) = "OK"
       THEN /\ flash' = [flash EXCEPT ![req.page] = Programmed(@, req.data)]
            /\ written' = written \cup {req.page}
       ELSE UNCHANGED <<flash, written>>
    /\ Answer("WRITE", WriteStatus(req))
    /\ UNCHANGED session

(* Faulty variant: the CRC is computed and not compared.                   *)
VerifyStatusUncompared(req) ==
    IF ~req.full THEN "BAD_FRAME"
    ELSE IF RegionCells < FooterLen \/ req.length > FooterBase THEN "OUT_OF_RANGE"
    ELSE "OK"

VerifyStatus(req) ==
    IF ~req.full THEN "BAD_FRAME"
    ELSE IF RegionCells < FooterLen \/ req.length > FooterBase THEN "OUT_OF_RANGE"
    ELSE IF FlashCrc(flash, req.length) # req.crc THEN "BAD_CRC"
    ELSE "OK"

HandleVerify(req) ==
    /\ Answer("VERIFY", VerifyStatus(req))
    /\ UNCHANGED <<flash, session, written>>

HandleBoot ==
    /\ IF AppValid(flash)
       THEN bootPending' = TRUE /\ Answer("BOOT", "OK")
       ELSE UNCHANGED bootPending /\ Answer("BOOT", "NO_APP")
    /\ UNCHANGED <<flash, erased, written>>

HandleEcho(req) ==
    /\ Answer("ECHO", IF req.fits THEN "OK" ELSE "BAD_FRAME")
    /\ UNCHANGED <<flash, session, written>>

HandleUnknown ==
    /\ Answer("OTHER", "BAD_CMD")
    /\ UNCHANGED <<flash, session, written>>

Handle(req) ==
    \/ req.cmd = "INFO"   /\ HandleInfo
    \/ req.cmd = "ERASE"  /\ HandleErase(req)
    \/ req.cmd = "WRITE"  /\ HandleWrite(req)
    \/ req.cmd = "VERIFY" /\ HandleVerify(req)
    \/ req.cmd = "BOOT"   /\ HandleBoot
    \/ req.cmd = "ECHO"   /\ HandleEcho(req)
    \/ req.cmd = "OTHER"  /\ HandleUnknown

-----------------------------------------------------------------------------
(* The main loop.                                                          *)

At(stage) == mode = "boot" /\ pc = stage

(* port_recv or link_poll delivered a frame that parses: handle it, hold   *)
(* the device in the bootloader, hand the reply to the link.  Receiving    *)
(* disarms the previous reply (twi.c port_recv).                           *)
RecvFrame(req) ==
    /\ At("recv")
    /\ Handle(req)
    /\ resident' = TRUE
    /\ consumed' = FALSE
    /\ pc' = "boot"
    /\ UNCHANGED <<expired, entryPair, mode, resets>>

(* Faulty variant: anything on the bus opens the entry window anew.        *)
RecvUnparseableRestartsWindow(c) ==
    /\ At("recv") /\ Transactional
    /\ Answer(c, "BAD_FRAME")
    /\ consumed' = FALSE
    /\ pc' = "boot"
    /\ expired' = FALSE
    /\ UNCHANGED <<flash, session, written, resident, entryPair, mode, resets>>

(* A transactional link delivers frames that do not parse too: they are    *)
(* answered BAD_FRAME under whatever command c their first byte reads as,  *)
(* and touch neither the session nor the entry window.  A byte stream      *)
(* drops them inside link_poll (RecvNothing).                              *)
RecvUnparseable(c) ==
    /\ At("recv") /\ Transactional
    /\ Answer(c, "BAD_FRAME")
    /\ consumed' = FALSE
    /\ pc' = "boot"
    /\ UNCHANGED <<flash, session, written, resident, expired, entryPair,
                   mode, resets>>

(* TWI: the host's read transaction clocked out the last reply byte.       *)
ReplyRead ==
    /\ At("recv") /\ Transactional
    /\ rsp # NoReply
    /\ rsp' = NoReply
    /\ consumed' = TRUE
    /\ pc' = "boot"
    /\ UNCHANGED <<flash, session, written, resident, expired, entryPair,
                   mode, resets>>

(* TWI: a write transaction that parks no frame (empty, oversized, torn    *)
(* down by a bus error) has disarmed the reply all the same.               *)
RecvDropped ==
    /\ At("recv") /\ Transactional
    /\ rsp' = NoReply
    /\ pc' = "boot"
    /\ UNCHANGED <<flash, session, written, resident, expired, consumed,
                   entryPair, mode, resets>>

(* Nothing arrived.  A stream's reply leaves the wire by itself.           *)
RecvNothing ==
    /\ At("recv")
    /\ rsp' = IF Transactional THEN rsp ELSE NoReply
    /\ pc' = "boot"
    /\ UNCHANGED <<flash, session, written, resident, expired, consumed,
                   entryPair, mode, resets>>

(* Faulty variant: the image was valid when BOOT was accepted, so jump.    *)
BootUngated == mode' = "app"

(* upd_boot_if_valid: the only jump to the application.                    *)
BootIfValid == mode' = IF AppValid(flash) THEN "app" ELSE mode

(* Faulty variants: the jump does not wait for the reply; a refused jump   *)
(* is tried again and again.                                               *)
CheckBootAtOnce ==
    /\ At("boot")
    /\ pc' = "window"
    /\ IF bootPending
       THEN bootPending' = FALSE /\ UNCHANGED rsp /\ BootIfValid
       ELSE UNCHANGED <<bootPending, rsp, mode>>
    /\ UNCHANGED <<flash, erased, written, resident, expired, consumed,
                   entryPair, resets>>

CheckBootAgain ==
    /\ At("boot")
    /\ pc' = "window"
    /\ IF bootPending /\ (Transactional => consumed)
       THEN /\ bootPending' = ~AppValid(flash)
            /\ rsp' = IF Transactional THEN rsp ELSE NoReply
            /\ BootIfValid
       ELSE UNCHANGED <<bootPending, rsp, mode>>
    /\ UNCHANGED <<flash, erased, written, resident, expired, consumed,
                   entryPair, resets>>

(* An accepted BOOT jumps once its reply has been read (TWI) or has left   *)
(* the wire (UART, which drains its transmitter first).  One attempt.      *)
CheckBoot ==
    /\ At("boot")
    /\ pc' = "window"
    /\ IF bootPending /\ (Transactional => consumed)
       THEN /\ bootPending' = FALSE
            /\ rsp' = IF Transactional THEN rsp ELSE NoReply
            /\ BootIfValid
       ELSE UNCHANGED <<bootPending, rsp, mode>>
    /\ UNCHANGED <<flash, erased, written, resident, expired, consumed,
                   entryPair, resets>>

(* Faulty variant: the window closes on a device a host is using.          *)
CheckWindowAlways ==
    /\ At("window")
    /\ pc' = "recv"
    /\ IF expired THEN BootIfValid ELSE UNCHANGED mode
    /\ UNCHANGED <<flash, session, written, resident, expired, wire, entryPair,
                   resets>>

(* The entry window closed without a frame: boot, or stay for a rescue.    *)
CheckWindow ==
    /\ At("window")
    /\ pc' = "recv"
    /\ IF ~resident /\ expired
       THEN /\ BootIfValid
            /\ resident' = ~AppValid(flash)
       ELSE UNCHANGED <<mode, resident>>
    /\ UNCHANGED <<flash, session, written, expired, wire, entryPair, resets>>

Tick ==
    /\ mode = "boot" /\ ~expired
    /\ expired' = TRUE
    /\ UNCHANGED <<flash, session, written, resident, pc, wire, entryPair,
                   mode, resets>>

-----------------------------------------------------------------------------
(* Resets.  RAM is lost; the entry pair survives a soft reset only, and is *)
(* captured and cleared first thing.                                       *)

(* Faulty variant: the entry pair is read and not cleared.                 *)
RestartKeepsPair(pair) ==
    /\ resets < MaxResets
    /\ resets' = resets + 1
    /\ mode' = "boot" /\ pc' = "recv"
    /\ erased' = FALSE /\ bootPending' = FALSE
    /\ resident' = pair /\ entryPair' = pair
    /\ expired' = FALSE
    /\ rsp' = NoReply /\ consumed' = FALSE

Restart(pair) ==
    /\ resets < MaxResets
    /\ resets' = resets + 1
    /\ mode' = "boot" /\ pc' = "recv"
    /\ erased' = FALSE /\ bootPending' = FALSE
    /\ resident' = pair /\ entryPair' = FALSE
    /\ expired' = FALSE
    /\ rsp' = NoReply /\ consumed' = FALSE

PowerCycle == Restart(FALSE) /\ UNCHANGED <<flash, written>>

SoftReset == Restart(entryPair) /\ UNCHANGED <<flash, written>>

(* updater_reboot_to_bootloader writes the pair and then resets.           *)
AppWritesEntryPair ==
    /\ mode = "app" /\ ~entryPair
    /\ entryPair' = TRUE
    /\ UNCHANGED <<flash, session, written, resident, expired, pc, wire, mode,
                   resets>>

(* Power fails inside the ERASE loop: pages below p are erased, page p is  *)
(* torn after h cells, the pages above still hold what they held.          *)
CutErase(req, p, h) ==
    /\ At("recv")
    /\ req.cmd = "ERASE" /\ req.magic
    /\ flash' = [q \in Pages |->
                   IF q < p THEN BlankPage
                   ELSE IF q = p THEN Torn(flash[q], BlankPage, h)
                   ELSE flash[q]]
    /\ Restart(FALSE)
    /\ UNCHANGED written

(* Power fails while a page is being programmed.                           *)
CutWrite(req, h) ==
    /\ At("recv")
    /\ req.cmd = "WRITE" /\ WriteStatus(req) = "OK"
    /\ flash' = [flash EXCEPT ![req.page] =
                   Torn(@, Programmed(@, req.data), h)]
    /\ Restart(FALSE)
    /\ UNCHANGED written

-----------------------------------------------------------------------------
Loop ==
    \/ \E req \in Requests : RecvFrame(req)
    \/ \E c \in Commands : RecvUnparseable(c)
    \/ ReplyRead
    \/ RecvDropped
    \/ RecvNothing
    \/ CheckBoot
    \/ CheckWindow

Reset ==
    \/ PowerCycle
    \/ SoftReset
    \/ \E req \in Requests, p \in Pages, h \in 0 .. PageSize : CutErase(req, p, h)
    \/ \E req \in Requests, h \in 0 .. PageSize : CutWrite(req, h)

(* The application keeps running.                                          *)
AppRuns == mode = "app" /\ UNCHANGED vars

Next == Loop \/ Tick \/ Reset \/ AppWritesEntryPair \/ AppRuns

(* The processor runs its loop and its millisecond timer; nothing is       *)
(* assumed of the host, of the application or of resets.                   *)
Spec     == Init /\ [][Next]_vars
FairSpec == Spec /\ WF_vars(Loop) /\ WF_vars(Tick)
-----------------------------------------------------------------------------
(* The types of the device's state, and that the bound is kept.            *)
TypeOK ==
    /\ flash \in [Pages -> Page]
    /\ erased \in BOOLEAN /\ bootPending \in BOOLEAN
    /\ resident \in BOOLEAN /\ expired \in BOOLEAN
    /\ pc \in {"recv", "boot", "window"}
    /\ rsp \in Replies /\ consumed \in BOOLEAN
    /\ entryPair \in BOOLEAN
    /\ mode \in {"boot", "app"}
    /\ written \subseteq Pages
    /\ resets \in 0 .. MaxResets

(* Jump gating (Invariant 2 of update.c): while the application runs, the  *)
(* region passes the boot gate.  An image that was valid when BOOT was     *)
(* accepted may have been erased before the reply was read; upd_boot_if_   *)
(* valid must look again.                                                  *)
JumpGated == mode = "app" => AppValid(flash)

(* handle_erase sets erased only after the whole region is erased, and a   *)
(* reset forgets it: in a session that has erased, every page not          *)
(* programmed since is blank, so no page of an older image survives into   *)
(* a new one.                                                              *)
NoStalePages == erased => \A p \in Pages \ written : flash[p] = BlankPage

(* A host that has got one frame through keeps the device: from then on    *)
(* only an accepted BOOT (or a reset) hands over to the application, never *)
(* the entry window (resident in main.c).                                  *)
HeldByHost ==
    [][mode = "boot" /\ mode' = "app" /\ resident => bootPending]_vars

(* BOOT replies before it jumps: when a BOOT hands over to the             *)
(* application, no reply is left with the link (the wait on                *)
(* twi_response_consumed, uart_tx_drain).                                  *)
RepliesBeforeJump ==
    [][mode = "boot" /\ mode' = "app" /\ bootPending => rsp' = NoReply]_vars

(* An application's request for an update is honoured once (entry.c: "a    *)
(* stale pair must not re-trigger on the next reset"): a reset comes back  *)
(* held in the updater only if an application ran since the last one.      *)
(* However often the bootloader is reset after that, in the middle of an   *)
(* update or behind it, its entry window is open again and a valid image   *)
(* gets to run.                                                            *)
EntryHonouredOnce ==
    [][resets' # resets /\ resident' => mode = "app"]_vars

(* A valid image that no host holds back is booted, whatever the link      *)
(* delivers that does not parse (the entry window cannot be kept open).    *)
Autoboots ==
    (mode = "boot" /\ ~resident /\ AppValid(flash)) ~> (mode = "app" \/ resident)

(* An accepted BOOT whose reply the host has read is acted upon.           *)
BootActedUpon ==
    (mode = "boot" /\ bootPending /\ (Transactional => consumed)) ~> ~bootPending
=============================================================================
