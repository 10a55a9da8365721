---------------------------- MODULE Update_proofs ----------------------------
(***************************************************************************)
(* Host, link and device together, for every page geometry, checksum, set  *)
(* of binaries, retry budget and number of jobs, faults and resets.  On    *)
(* either link the device keeps its own guarantees and an incompatible     *)
(* device is left alone; on a transactional link flash returning Ok means  *)
(* that the image is in the region and boots, no jump enters a half        *)
(* written image, all of it implements one slot that holds an image or     *)
(* nothing (ImageSlot), and the retry budget repairs as many faults as it  *)
(* has re-sends.                                                           *)
(*                                                                         *)
(* The device comes first, by itself: its inductive steps are lemmas about *)
(* DeviceStep, a step of the device under any well-formed request, so that *)
(* they hold of the device alone and of the device behind a host.          *)
(***************************************************************************)
EXTENDS Update, Image_proofs

USE DEF session, wire
-----------------------------------------------------------------------------
(* The device: every page geometry, set of requests, initial flash and     *)
(* number of resets, both kinds of link.                                   *)

(* A step of the device: a frame served, any other step of the main loop,  *)
(* the timer, a restart at any moment, a step of the application.          *)
Serves     == \E req : WellFormed(req) /\ RecvFrame(req)
HearsNoise == \/ \E c \in Commands : RecvUnparseable(c)
              \/ ReplyRead \/ RecvDropped \/ RecvNothing
Restarts   == \/ PowerCycle \/ SoftReset
              \/ \E req, p, h : p \in Pages /\ h \in Nat /\ CutErase(req, p, h)
              \/ \E req, h : WellFormed(req) /\ h \in Nat /\ CutWrite(req, h)

DeviceStep ==
    \/ Serves \/ HearsNoise \/ CheckBoot \/ CheckWindow \/ Tick
    \/ Restarts \/ AppWritesEntryPair

(* Every action of the stand-alone device is a step the lemmas below are   *)
(* about.                                                                  *)
LEMMA NextIsDeviceStep == [Next]_vars => [DeviceStep]_vars
<1>1. 0 .. PageSize \subseteq Nat
  BY GeometryAssumption
<1>2. Loop => DeviceStep
  BY RequestsAssumption DEF Loop, DeviceStep, Serves, HearsNoise
<1>3. Reset => Restarts
  BY <1>1, RequestsAssumption DEF Reset, Restarts
<1> QED BY <1>2, <1>3 DEF Next, DeviceStep, AppRuns

-----------------------------------------------------------------------------
(* Programming, erasing or tearing a page yields a page.                   *)
LEMMA PageOperations ==
    /\ BlankPage \in Page
    /\ \A old, new \in Page : Programmed(old, new) \in Page
    /\ \A old, new \in Page : \A h \in Nat : Torn(old, new, h) \in Page
<1>1. BlankPage \in Page
  BY WordAssumption DEF BlankPage, Page, Word
<1>2. \A old, new \in Page : Programmed(old, new) \in Page
  BY AndAssumption DEF Programmed, Page
<1>3. \A old, new \in Page : \A h \in Nat : Torn(old, new, h) \in Page
  BY DEF Torn, Page
<1> QED BY <1>1, <1>2, <1>3

(* No reply is one of the values of rsp.                                   *)
LEMMA NoReplyType == NoReply \in Replies
BY DEF Replies

(* Answer puts a reply of the protocol into rsp.                           *)
LEMMA AnswerType ==
    ASSUME NEW c \in Commands, NEW st \in Statuses, Answer(c, st)
    PROVE  rsp' \in Replies
BY DEF Answer, Replies

(* Every handler leaves the session and the region well typed.             *)
LEMMA HandleType ==
    ASSUME TypeOK, NEW req, WellFormed(req), Handle(req)
    PROVE  /\ flash' \in [Pages -> Page]
           /\ erased' \in BOOLEAN /\ bootPending' \in BOOLEAN
           /\ rsp' \in Replies
           /\ written' \subseteq Pages
<1> USE DEF TypeOK
<1>1. CASE req.cmd = "INFO" /\ HandleInfo
  <2>1. AppValid(flash) \in BOOLEAN
    BY DEF AppValid
  <2> QED BY <1>1, <2>1 DEF HandleInfo, Replies, Commands, Statuses
<1>2. CASE req.cmd = "ERASE" /\ HandleErase(req)
  <2>1. rsp' \in Replies
    BY <1>2, AnswerType DEF HandleErase, Commands, Statuses
  <2>2. BlankFlash \in [Pages -> Page]
    BY PageOperations DEF BlankFlash
  <2> QED BY <1>2, <2>1, <2>2 DEF HandleErase
<1>3. CASE req.cmd = "WRITE" /\ HandleWrite(req)
  <2>1. req \in WriteRequest
    BY <1>3 DEF WellFormed
  <2>2. req.data \in Page
    BY <2>1 DEF WriteRequest
  <2>3. WriteStatus(req) \in Statuses
    BY DEF WriteStatus, Statuses
  <2>4. rsp' \in Replies
    BY <1>3, <2>3, AnswerType DEF HandleWrite, Commands
  <2>5. CASE WriteStatus(req) = "OK"
    <3>1. req.page \in Pages
      BY <2>1, <2>5 DEF WriteStatus, WriteRequest
    <3>2. Programmed(flash[req.page], req.data) \in Page
      BY <2>2, <3>1, PageOperations
    <3> QED BY <1>3, <2>4, <2>5, <3>1, <3>2 DEF HandleWrite
  <2>6. CASE WriteStatus(req) # "OK"
    BY <1>3, <2>4, <2>6 DEF HandleWrite
  <2> QED BY <2>5, <2>6
<1>4. CASE req.cmd = "VERIFY" /\ HandleVerify(req)
  <2>1. VerifyStatus(req) \in Statuses
    BY DEF VerifyStatus, Statuses
  <2> QED BY <1>4, <2>1, AnswerType DEF HandleVerify, Commands
<1>5. CASE req.cmd = "BOOT" /\ HandleBoot
  BY <1>5, AnswerType DEF HandleBoot, Commands, Statuses
<1>6. CASE req.cmd = "ECHO" /\ HandleEcho(req)
  <2>1. (IF req.fits THEN "OK" ELSE "BAD_FRAME") \in Statuses
    BY DEF Statuses
  <2> QED BY <1>6, <2>1, AnswerType DEF HandleEcho, Commands
<1>7. CASE req.cmd = "OTHER" /\ HandleUnknown
  BY <1>7, AnswerType DEF HandleUnknown, Commands, Statuses
<1> QED BY <1>1, <1>2, <1>3, <1>4, <1>5, <1>6, <1>7 DEF Handle

-----------------------------------------------------------------------------
(* Types are inductive.                                                    *)
LEMMA TypeInit == Init => TypeOK
<1> SUFFICES ASSUME Init PROVE TypeOK
  OBVIOUS
<1>1. resets \in 0 .. MaxResets
  BY MaxResetsAssumption DEF Init
<1>2. flash \in [Pages -> Page]
  BY InitialFlashAssumption DEF Init
<1> QED BY <1>1, <1>2, NoReplyType DEF Init, TypeOK

(* No request, noise or reset takes the device's state out of its types.   *)
LEMMA TypeStep ==
    ASSUME TypeOK, [DeviceStep]_vars
    PROVE  TypeOK'
<1> USE DEF TypeOK
<1>1. CASE Serves
  <2>1. PICK req : WellFormed(req) /\ RecvFrame(req)
    BY <1>1 DEF Serves
  <2> QED BY <2>1, HandleType DEF RecvFrame
<1>2. CASE (\E c \in Commands : RecvUnparseable(c))
  <2>1. rsp' \in Replies
    BY <1>2, AnswerType DEF RecvUnparseable, Commands, Statuses
  <2> QED BY <1>2, <2>1 DEF RecvUnparseable
<1>3. CASE ReplyRead \/ RecvDropped \/ RecvNothing
  BY <1>3, NoReplyType DEF ReplyRead, RecvDropped, RecvNothing
<1>4. CASE CheckBoot
  BY <1>4, NoReplyType DEF CheckBoot, BootIfValid
<1>5. CASE CheckWindow
  BY <1>5 DEF CheckWindow, BootIfValid
<1>6. CASE Tick
  BY <1>6 DEF Tick
<1>7. ASSUME NEW pair \in BOOLEAN, Restart(pair),
             flash' \in [Pages -> Page], written' \subseteq Pages
      PROVE  TypeOK'
  <2>1. resets' \in 0 .. MaxResets
    BY <1>7, MaxResetsAssumption DEF Restart
  <2> QED BY <1>7, <2>1, NoReplyType DEF Restart
<1>8. CASE PowerCycle
  BY <1>7, <1>8 DEF PowerCycle
<1>9. CASE SoftReset
  BY <1>7, <1>9 DEF SoftReset
<1>10. ASSUME NEW req, NEW p \in Pages, NEW h \in Nat, CutErase(req, p, h)
       PROVE  TypeOK'
  <2>1. \A q \in Pages : Torn(flash[q], BlankPage, h) \in Page
    BY PageOperations
  <2>2. flash' \in [Pages -> Page]
    BY <1>10, <2>1, PageOperations DEF CutErase
  <2> QED BY <1>7, <1>10, <2>2 DEF CutErase
<1>11. ASSUME NEW req, WellFormed(req), NEW h \in Nat, CutWrite(req, h)
       PROVE  TypeOK'
  <2>1. req \in WriteRequest
    BY <1>11 DEF CutWrite, WellFormed
  <2>2. req.page \in Pages /\ req.data \in Page
    BY <1>11, <2>1 DEF CutWrite, WriteStatus, WriteRequest
  <2> DEFINE new == Programmed(flash[req.page], req.data)
  <2>3. flash[req.page] \in Page
    BY <2>2
  <2>4. new \in Page
    BY <2>2, <2>3, PageOperations
  <2> HIDE DEF new
  <2>5. Torn(flash[req.page], new, h) \in Page
    BY <2>3, <2>4, PageOperations
  <2>6. flash' \in [Pages -> Page]
    BY <1>11, <2>2, <2>5 DEF CutWrite, new
  <2> QED BY <1>7, <1>11, <2>6 DEF CutWrite
<1>12. CASE AppWritesEntryPair
  BY <1>12 DEF AppWritesEntryPair
<1>13. CASE UNCHANGED vars
  BY <1>13 DEF vars
<1> QED
  BY <1>1, <1>2, <1>3, <1>4, <1>5, <1>6, <1>8, <1>9, <1>10, <1>11, <1>12, <1>13
     DEF DeviceStep, HearsNoise, Restarts

(* The types hold in every reachable state.                                *)
THEOREM TypeCorrect == Spec => []TypeOK
BY TypeInit, TypeStep, NextIsDeviceStep, PTL DEF Spec

-----------------------------------------------------------------------------
(* The only two ways into the application: an accepted BOOT whose reply    *)
(* has been read, and the entry window of a device nobody holds.           *)
LEMMA JumpSites ==
    ASSUME DeviceStep, mode = "boot", mode' = "app"
    PROVE  \/ CheckBoot /\ bootPending /\ (Transactional => consumed)
           \/ CheckWindow /\ ~resident
<1>1. ~Serves
  BY DEF Serves, RecvFrame
<1>2. ~(HearsNoise \/ Tick)
  BY DEF HearsNoise, RecvUnparseable, ReplyRead, RecvDropped, RecvNothing, Tick
<1>3. ~(Restarts \/ AppWritesEntryPair)
  BY DEF Restarts, PowerCycle, SoftReset, CutErase, CutWrite, Restart,
         AppWritesEntryPair
<1>4. CheckBoot => bootPending /\ (Transactional => consumed)
  BY DEF CheckBoot
<1>5. CheckWindow => ~resident
  BY DEF CheckWindow
<1> QED BY <1>1, <1>2, <1>3, <1>4, <1>5 DEF DeviceStep

(* The gate is a function of the region alone.                             *)
LEMMA GateOfRegion ==
    ASSUME UNCHANGED flash
    PROVE  AppValid(flash)' = AppValid(flash)
BY DEF AppValid, ReadCell, FlashCrc, Prefix

(* A running application writes no flash.                                  *)
LEMMA AppKeepsFlash ==
    ASSUME [DeviceStep]_vars, mode = "app", mode' = "app"
    PROVE  UNCHANGED flash
BY DEF DeviceStep, Serves, HearsNoise, Restarts, RecvFrame, RecvUnparseable,
       ReplyRead, RecvDropped, RecvNothing, CheckBoot, CheckWindow, Tick, At,
       PowerCycle, SoftReset, CutErase, CutWrite, Restart, AppWritesEntryPair,
       vars

(* A step that starts the application has just read the gate, and none of  *)
(* the application's changes the flash.                                    *)
LEMMA JumpStep ==
    ASSUME TypeOK, JumpGated, [DeviceStep]_vars
    PROVE  JumpGated'
<1> SUFFICES ASSUME mode' = "app" PROVE AppValid(flash)'
  BY DEF JumpGated
<1>1. CASE mode = "app"
  BY <1>1, AppKeepsFlash, GateOfRegion DEF JumpGated
<1>2. CASE mode = "boot"
  <2>1. DeviceStep
    BY <1>2 DEF vars
  <2>2. BootIfValid /\ UNCHANGED flash
    BY <1>2, <2>1, JumpSites DEF CheckBoot, CheckWindow
  <2> QED BY <1>2, <2>2, GateOfRegion DEF BootIfValid
<1> QED BY <1>1, <1>2 DEF TypeOK

(* Jump gating for every geometry and every checksum: the application runs *)
(* only over a region that passes the boot gate.                           *)
THEOREM JumpGating == Spec => []JumpGated
<1>1. Init => JumpGated
  BY DEF Init, JumpGated
<1> QED BY <1>1, TypeCorrect, JumpStep, NextIsDeviceStep, PTL DEF Spec

(* Which steps change what a session has erased and programmed.  Types are *)
(* needed for the pages a WRITE addresses.                                 *)
LEMMA StaleStep ==
    ASSUME TypeOK, NoStalePages, [DeviceStep]_vars
    PROVE  NoStalePages'
<1> USE DEF NoStalePages
<1>1. ASSUME flash' = flash, written' = written, erased' = erased
      PROVE  NoStalePages'
  BY <1>1
<1>2. ASSUME NEW req, RecvFrame(req) PROVE NoStalePages'
  <2>1. CASE HandleErase(req) /\ req.magic
    BY <2>1 DEF HandleErase, BlankFlash
  <2>2. CASE HandleErase(req) /\ ~req.magic
    BY <1>1, <2>2 DEF HandleErase
  <2>3. CASE HandleWrite(req) /\ WriteStatus(req) = "OK"
    <3>1. erased' = erased /\ written' = written \cup {req.page}
      BY <2>3 DEF HandleWrite
    <3>2. \A p \in Pages \ {req.page} : flash'[p] = flash[p]
      BY <2>3 DEF HandleWrite, TypeOK
    <3> QED BY <3>1, <3>2
  <2>4. CASE HandleWrite(req) /\ WriteStatus(req) # "OK"
    BY <1>1, <2>4 DEF HandleWrite
  <2>5. CASE HandleInfo \/ HandleVerify(req) \/ HandleBoot \/ HandleEcho(req)
             \/ HandleUnknown
    BY <1>1, <2>5
       DEF HandleInfo, HandleVerify, HandleBoot, HandleEcho, HandleUnknown
  <2> QED BY <1>2, <2>1, <2>2, <2>3, <2>4, <2>5 DEF RecvFrame, Handle
<1>3. CASE HearsNoise
  BY <1>1, <1>3
     DEF HearsNoise, RecvUnparseable, ReplyRead, RecvDropped, RecvNothing
<1>4. CASE CheckBoot \/ CheckWindow \/ Tick
  BY <1>1, <1>4 DEF CheckBoot, CheckWindow, Tick
<1>5. CASE Restarts
  BY <1>5 DEF Restarts, PowerCycle, SoftReset, CutErase, CutWrite, Restart
<1>6. CASE AppWritesEntryPair \/ UNCHANGED vars
  BY <1>1, <1>6 DEF AppWritesEntryPair, vars
<1> QED BY <1>2, <1>3, <1>4, <1>5, <1>6 DEF DeviceStep, Serves

(* Within a session that has erased, unprogrammed pages are blank.         *)
THEOREM NoStale == Spec => []NoStalePages
<1>1. Init => NoStalePages
  BY DEF Init, NoStalePages
<1> QED BY <1>1, TypeCorrect, StaleStep, NextIsDeviceStep, PTL DEF Spec

-----------------------------------------------------------------------------
(* Once a frame got through, the entry window never hands over.            *)
LEMMA HoldStep ==
    ASSUME [DeviceStep]_vars
    PROVE  [mode = "boot" /\ mode' = "app" /\ resident => bootPending]_vars
BY JumpSites

(* A host that got a frame through is never timed out by the entry window. *)
THEOREM HostHolds == Spec => HeldByHost
BY HoldStep, NextIsDeviceStep, PTL DEF Spec, HeldByHost

(* What makes the wait on twi_response_consumed a wait for a reply sent    *)
(* after BOOT was accepted: a reply read by the host is no longer with the *)
(* link, and a pending BOOT rules the entry window out.                    *)
ReplyInv ==
    /\ consumed => rsp = NoReply
    /\ bootPending => resident

(* A new reply clears the consumed flag, and only a frame that got through *)
(* makes a BOOT pending.                                                   *)
LEMMA ReplyInvStep ==
    ASSUME ReplyInv, [DeviceStep]_vars
    PROVE  ReplyInv'
<1> USE DEF ReplyInv
<1>1. CASE Serves
  BY <1>1 DEF Serves, RecvFrame
<1>2. CASE HearsNoise
  BY <1>2 DEF HearsNoise, RecvUnparseable, ReplyRead, RecvDropped, RecvNothing
<1>3. CASE CheckBoot \/ CheckWindow \/ Tick
  BY <1>3 DEF CheckBoot, CheckWindow, Tick
<1>4. CASE Restarts
  BY <1>4 DEF Restarts, PowerCycle, SoftReset, CutErase, CutWrite, Restart
<1>5. CASE AppWritesEntryPair \/ UNCHANGED vars
  BY <1>5 DEF AppWritesEntryPair, vars
<1> QED BY <1>1, <1>2, <1>3, <1>4, <1>5 DEF DeviceStep

(* The hand-over on BOOT waits until the link is done with the reply.      *)
LEMMA ReplyStep ==
    ASSUME ReplyInv, [DeviceStep]_vars
    PROVE  [mode = "boot" /\ mode' = "app" /\ bootPending => rsp' = NoReply]_vars
<1> SUFFICES ASSUME DeviceStep, mode = "boot", mode' = "app", bootPending
             PROVE  rsp' = NoReply
  OBVIOUS
<1>1. CASE CheckBoot /\ (Transactional => consumed)
  BY <1>1, TransactionalAssumption DEF CheckBoot, ReplyInv
<1>2. CASE CheckWindow /\ ~resident
  BY <1>2 DEF CheckWindow, ReplyInv
<1> QED BY <1>1, <1>2, JumpSites

(* A BOOT hands over only when no reply is left with the link, on either   *)
(* kind of link.                                                           *)
THEOREM ReplyFirst == Spec => RepliesBeforeJump
<1>1. Init => ReplyInv
  BY DEF Init, ReplyInv
<1> QED BY <1>1, ReplyInvStep, ReplyStep, NextIsDeviceStep, PTL
        DEF Spec, RepliesBeforeJump

-----------------------------------------------------------------------------
(* Only the application arms the entry pair, and the reset it ends in      *)
(* clears it: in the bootloader it is never armed.                         *)
PairCleared == mode = "boot" => ~entryPair

LEMMA PairClearedStep ==
    ASSUME PairCleared, [DeviceStep]_vars
    PROVE  PairCleared'
<1> USE DEF PairCleared
<1>1. CASE Serves
  BY <1>1 DEF Serves, RecvFrame, At
<1>2. CASE HearsNoise
  BY <1>2 DEF HearsNoise, RecvUnparseable, ReplyRead, RecvDropped, RecvNothing
<1>3. CASE CheckBoot \/ CheckWindow \/ Tick
  BY <1>3 DEF CheckBoot, CheckWindow, Tick, At
<1>4. CASE Restarts
  BY <1>4 DEF Restarts, PowerCycle, SoftReset, CutErase, CutWrite, Restart
<1>5. CASE AppWritesEntryPair \/ UNCHANGED vars
  BY <1>5 DEF AppWritesEntryPair, vars
<1> QED BY <1>1, <1>2, <1>3, <1>4, <1>5 DEF DeviceStep

(* A reset that comes back held read an armed pair, so it was not the      *)
(* bootloader that was reset.                                              *)
LEMMA EntryStep ==
    ASSUME TypeOK, PairCleared, [DeviceStep]_vars
    PROVE  [resets' # resets /\ resident' => mode = "app"]_vars
<1>1. CASE Serves \/ HearsNoise
  BY <1>1 DEF Serves, RecvFrame, HearsNoise, RecvUnparseable, ReplyRead,
              RecvDropped, RecvNothing
<1>2. CASE CheckBoot \/ CheckWindow \/ Tick \/ AppWritesEntryPair
  BY <1>2 DEF CheckBoot, CheckWindow, Tick, AppWritesEntryPair
<1>3. CASE Restarts
  <2>1. resident' = FALSE \/ resident' = entryPair
    BY <1>3 DEF Restarts, PowerCycle, SoftReset, CutErase, CutWrite, Restart
  <2>2. entryPair => mode = "app"
    BY DEF PairCleared, TypeOK
  <2> QED BY <2>1, <2>2
<1> QED BY <1>1, <1>2, <1>3 DEF DeviceStep

(* One request, one entry: no reset of the bootloader itself comes back    *)
(* held in the updater, whatever sequence of frames, resets and power cuts *)
(* led there.                                                              *)
THEOREM EntryOnce == Spec => EntryHonouredOnce
<1>1. Init => PairCleared
  BY DEF Init, PairCleared
<1> QED BY <1>1, PairClearedStep, EntryStep, TypeCorrect, NextIsDeviceStep, PTL
        DEF Spec, EntryHonouredOnce
-----------------------------------------------------------------------------
(* The host, the link and the device.                                      *)

(* What the session puts on the link: harmless frames alone when the       *)
(* device's INFO does not suit the image.                                  *)
HarmlessFrames == [cmd : {"INFO", "BOOT"}]
HostFrames ==
    HarmlessFrames \cup [cmd : {"ERASE"}, magic : {TRUE}] \cup WriteRequest
    \cup [cmd : {"VERIFY"}, full : {TRUE}, length : Nat, crc : Word]
Frames == IF compatible THEN HostFrames ELSE HarmlessFrames

(* The types of the host's state, and what a job asks for when.            *)
SessionType ==
    /\ job \in {"none", "flash", "boot"}
    /\ job = "flash" => Payload(code) /\ ask \in {"INFO", "ERASE", "WRITE", "VERIFY"}
    /\ job = "boot" => ask = "BOOT"
    /\ job = "none" => hpc = "idle" /\ ask = "INFO"
    /\ ask = "WRITE" => page \in Pages
    /\ attempt \in 0 .. RetryBudget
    /\ hpc \in {"idle", "send", "wait", "ok", "failed"}
    /\ compatible \in BOOLEAN
    /\ jobs \in Nat /\ faults \in Nat

(* An incompatible device is only ever asked for INFO or to boot.          *)
LinkType ==
    /\ toDev \in Seq(Frames)
    /\ toHost \in Seq(Replies)
    /\ midFrame \in BOOLEAN
    /\ ~compatible => ask \in {"INFO", "BOOT"}

UpdateType == TypeOK /\ SessionType /\ LinkType

-----------------------------------------------------------------------------
(* The transactional link: one frame at most, and none from an earlier     *)
(* exchange once the host waits, or once a flash job is past its INFO.     *)
Asking == hpc \in {"send", "wait"}

BusInv ==
    /\ toHost = <<>> /\ ~midFrame
    /\ Len(toDev) <= 1
    /\ toDev # <<>> /\ (hpc = "wait" \/ (Asking /\ job = "flash" /\ ask # "INFO"))
       => Head(toDev) = Request

(* The host waits, the frame is off the link, the device is there to read  *)
(* from: rsp is what it will get.                                          *)
Answered  == hpc = "wait" /\ toDev = <<>> /\ mode = "boot"
Confirmed == Answered /\ rsp.cmd = ask /\ rsp.st = "OK"

(* Page by page: behind the page being written the image, before it blank  *)
(* pages; what the device has confirmed is done, and what VERIFY confirms  *)
(* is the whole image.                                                     *)
FlashInv ==
    job = "flash" =>
    /\ Asking /\ ask = "WRITE" /\ erased =>
         \A q \in Pages : /\ q < page => flash[q] = PageInto(code, q)
                          /\ q > page => flash[q] = BlankPage
                          /\ q = page => flash[q] \in {BlankPage, PageInto(code, q)}
    /\ Confirmed /\ ask = "ERASE" => erased /\ flash = BlankFlash
    /\ Confirmed /\ ask = "WRITE" => erased /\ flash[page] = PageInto(code, page)
    /\ Asking /\ ask = "VERIFY" => flash = ImageOf(code)
    /\ hpc = "ok" => toDev = <<>> /\ flash = ImageOf(code)

(* Every attempt has been paid for by a fault, an answer that will not be  *)
(* accepted too.                                                           *)
Unpaid == IF Answered /\ ~Confirmed THEN 1 ELSE 0

BudgetInv ==
    job = "flash" /\ compatible /\ resets = 0 /\ mode = "boot" =>
    /\ Asking => attempt + Unpaid <= faults
    /\ Asking /\ ask = "WRITE" => erased
    /\ Answered /\ rsp.cmd = ask => rsp.st \in {"OK", "BAD_FRAME"}
    /\ hpc = "failed" => faults > RetryBudget

-----------------------------------------------------------------------------
(* What the session sends is well formed.                                  *)
LEMMA FramesWellFormed ==
    ASSUME NEW r \in HostFrames
    PROVE  WellFormed(r)
BY DEF HostFrames, HarmlessFrames, WellFormed, WriteRequest, Commands

(* The request of an exchange is one of the frames the link may carry, on  *)
(* an incompatible device a harmless one.                                  *)
LEMMA RequestIsFrame ==
    ASSUME UpdateType, Asking
    PROVE  Request \in Frames /\ Request.cmd = ask
<1> USE DEF UpdateType, SessionType, LinkType, Asking
<1>1. CASE ask = "INFO" \/ ask = "BOOT"
  BY <1>1 DEF Request, Frames, HostFrames, HarmlessFrames
<1>2. CASE ask = "ERASE"
  BY <1>2 DEF Request, Frames, HostFrames
<1>3. CASE ask = "WRITE"
  <2>1. Payload(code) /\ page \in Pages /\ page \in Nat
    BY <1>3, GeometryAssumption DEF Pages
  <2>2. PageInto(code, page) \in Page
    BY <2>1, PageIntoType
  <2>3. Request = [cmd |-> "WRITE", full |-> TRUE, page |-> page,
                   data |-> PageInto(code, page)]
    BY <1>3 DEF Request
  <2>4. Request \in WriteRequest
    BY <2>1, <2>2, <2>3 DEF WriteRequest
  <2> QED BY <1>3, <2>3, <2>4 DEF Frames, HostFrames
<1>4. CASE ask = "VERIFY"
  <2>1. Len(code) \in Nat /\ Crc(code) \in Word
    BY <1>4, Geometry DEF Payload
  <2>2. Request = [cmd |-> "VERIFY", full |-> TRUE,
                   length |-> Len(code), crc |-> Crc(code)]
    BY <1>4 DEF Request
  <2> QED BY <1>4, <2>1, <2>2 DEF Frames, HostFrames
<1> QED BY <1>1, <1>2, <1>3, <1>4

(* The frame at the head of the link is well formed.                       *)
LEMMA HeadFrame ==
    ASSUME UpdateType, toDev # <<>>
    PROVE  /\ Head(toDev) \in Frames
           /\ WellFormed(Head(toDev))
           /\ Head(toDev).cmd \in Commands
           /\ Tail(toDev) \in Seq(Frames)
<1>1. Head(toDev) \in Frames /\ Tail(toDev) \in Seq(Frames)
  BY DEF UpdateType, LinkType
<1>2. Frames \subseteq HostFrames
  BY DEF Frames, HostFrames
<1>3. WellFormed(Head(toDev))
  BY <1>1, <1>2, FramesWellFormed
<1> QED BY <1>1, <1>3 DEF WellFormed

(* The composition takes no step of the device that the device does not    *)
(* take by itself under well-formed requests.                              *)
LEMMA UpdateIsDeviceStep ==
    ASSUME UpdateType, [UpdateNext]_all
    PROVE  [DeviceStep]_vars
<1>1. CASE UNCHANGED vars
  BY <1>1
<1>2. CASE DevServe
  BY <1>2, HeadFrame DEF DevServe, DeviceStep, Serves
<1>3. CASE DevLoop \/ DevTick
  BY <1>3 DEF DevLoop, DevTick, DeviceStep, HearsNoise
<1>4. CASE HostReads
  BY <1>4 DEF HostReads, DeviceStep, HearsNoise
<1>5. CASE DevGetsDamaged
  <2>1. \A c \in {Head(toDev).cmd, "OTHER"} : c \in Commands
    BY <1>5, HeadFrame DEF DevGetsDamaged, Commands
  <2> QED BY <1>5, <2>1 DEF DevGetsDamaged, DeviceStep, HearsNoise
<1>6. CASE DevSwallows
  BY <1>6 DEF DevSwallows, DeviceStep, HearsNoise
<1>7. CASE DevReset
  <2>1. 0 .. PageSize \subseteq Nat
    BY GeometryAssumption
  <2>2. CASE PowerCycle \/ SoftReset
    BY <2>2 DEF DeviceStep, Restarts
  <2>3. ASSUME NEW p \in Pages, NEW h \in 0 .. PageSize, toDev # <<>>,
               CutErase(Head(toDev), p, h)
        PROVE  DeviceStep
    BY <2>1, <2>3 DEF DeviceStep, Restarts
  <2>4. ASSUME NEW h \in 0 .. PageSize, toDev # <<>>, CutWrite(Head(toDev), h)
        PROVE  DeviceStep
    BY <2>1, <2>4, HeadFrame DEF DeviceStep, Restarts
  <2> QED BY <1>7, <2>2, <2>3, <2>4 DEF DevReset
<1>8. CASE AppAsksForUpdate
  BY <1>8 DEF AppAsksForUpdate, DeviceStep
<1>9. CASE HostSend \/ HostWriteFails \/ HostReadsFiller \/ HostDropsLong
           \/ HostScans \/ HostTimesOut \/ HostStarts \/ AppIgnores
           \/ ReplyDamaged \/ Idle
  BY <1>1, <1>9
     DEF HostSend, HostWriteFails, HostReadsFiller, HostDropsLong, HostScans,
         HostTimesOut, HostStarts, AppIgnores, ReplyDamaged, Idle, all
<1> QED
  BY <1>1, <1>2, <1>3, <1>4, <1>5, <1>6, <1>7, <1>8, <1>9
     DEF UpdateNext, Host, Device, all

-----------------------------------------------------------------------------
(* What a step may do to the host's session.                               *)
SessionMove ==
    \/ UNCHANGED sessionVars
    \/ Sent
    \/ Asking /\ \E e : Retry(e) \/ Fail(e)
    \/ hpc = "wait" /\ Accept
    \/ HostStarts

(* What a step of the composed system can do to the session.               *)
LEMMA SessionMoves ==
    ASSUME [UpdateNext]_all
    PROVE  SessionMove /\ (faults' = faults \/ faults' = faults + 1)
<1> USE DEF SessionMove, Asking
<1>1. CASE UNCHANGED all
  BY <1>1 DEF all, link
<1>2. CASE HostSend
  BY <1>2 DEF HostSend
<1>3. CASE HostWriteFails
  BY <1>3 DEF HostWriteFails, Fault
<1>4. ASSUME NEW reply, Got(reply), hpc = "wait" PROVE SessionMove
  BY <1>4 DEF Got
<1>5. CASE HostReads
  BY <1>4, <1>5 DEF HostReads, Fault
<1>6. CASE HostReadsFiller
  BY <1>6 DEF HostReadsFiller, link
<1>7. CASE HostScans
  BY <1>4, <1>7 DEF HostScans
<1>8. CASE HostTimesOut
  BY <1>8 DEF HostTimesOut, Fault
<1>9. CASE HostStarts
  BY <1>9 DEF HostStarts
<1>10. CASE HostDropsLong \/ ReplyDamaged \/ AppIgnores \/ Idle
  BY <1>10 DEF HostDropsLong, ReplyDamaged, AppIgnores, Idle, Fault, all, link
<1>11. CASE DevServe \/ DevLoop \/ DevTick \/ DevReset \/ AppAsksForUpdate
            \/ DevGetsDamaged \/ DevSwallows
  BY <1>11 DEF DevServe, DevLoop, DevTick, DevReset, AppAsksForUpdate,
               DevGetsDamaged, DevSwallows, Fault, link
<1> QED
  BY <1>1, <1>2, <1>3, <1>5, <1>6, <1>7, <1>8, <1>9, <1>10, <1>11
     DEF UpdateNext, Host, Device

(* Where a flash job goes from an accepted answer.                         *)
LEMMA AcceptGoes ==
    ASSUME UpdateType, hpc = "wait", Accept
    PROVE  \/ ask = "INFO" /\ ~compatible /\ Fail("Incompatible")
           \/ /\ ask \in {"VERIFY", "BOOT"} /\ hpc' = "ok" /\ attempt' = 0
              /\ UNCHANGED <<ask, page, job, code, error, compatible, jobs>>
           \/ /\ job = "flash" /\ ask \in {"INFO", "ERASE", "WRITE"}
              /\ compatible
              /\ hpc' = "send" /\ attempt' = 0
              /\ UNCHANGED <<job, code, error, compatible, jobs>>
              /\ \/ ask = "INFO" /\ ask' = "ERASE"
                 \/ /\ ask = "ERASE" /\ ask' = "WRITE"
                    /\ page' = NextPage(code, 0) /\ page' \in Pages
                 \/ /\ ask = "WRITE" /\ ask' = "WRITE" /\ page \in Pages
                    /\ page' = NextPage(code, page + 1) /\ page' \in Pages
                 \/ /\ ask = "WRITE" /\ ask' = "VERIFY" /\ page \in Pages
                    /\ NextPage(code, page + 1) = AppPages
<1> USE DEF UpdateType, SessionType, LinkType
<1>1. CASE ask = "INFO"
  BY <1>1 DEF Accept, Follows
<1>2. CASE ask \in {"VERIFY", "BOOT"}
  BY <1>2 DEF Accept
<1>3. CASE ask = "ERASE"
  <2>1. job = "flash" /\ Payload(code) /\ compatible
    BY <1>3
  <2>2. NextPage(code, 0) \in Pages /\ NextPage(code, 0) # AppPages
    <3>1. 0 <= FooterPage /\ FooterPage \in Nat /\ AppPages \notin Pages
      BY <2>1, Geometry, GeometryAssumption DEF Pages
    <3> QED BY <2>1, <3>1, FooterPageLast
  <2> QED BY <1>3, <2>1, <2>2 DEF Accept, Follows, Yields
<1>4. CASE ask = "WRITE"
  <2>1. job = "flash" /\ Payload(code) /\ compatible /\ page \in Pages
    BY <1>4
  <2>2. \/ NextPage(code, page + 1) = AppPages
        \/ NextPage(code, page + 1) \in Pages /\ NextPage(code, page + 1) # AppPages
    <3>1. page + 1 \in Nat /\ AppPages \notin Pages
      BY <2>1, GeometryAssumption DEF Pages
    <3> QED BY <3>1, NextPageIs
  <2> QED BY <1>4, <2>1, <2>2 DEF Accept, Follows, Yields
<1> QED BY <1>1, <1>2, <1>3, <1>4

(* A flash job is started on a binary from_bin accepts.                    *)
LEMMA StartGoes ==
    ASSUME HostStarts
    PROVE  /\ \/ job' = "flash" /\ Payload(code') /\ ask' = "INFO"
              \/ job' = "boot" /\ ask' = "BOOT"
           /\ attempt' = 0 /\ hpc' = "send"
           /\ compatible' = compatible /\ jobs' = jobs + 1
           /\ hpc \in {"idle", "ok", "failed"}
BY CodesAssumption DEF HostStarts, StartJob, Payload

(* The session asks for pages of the region and stays within its retry     *)
(* budget.                                                                 *)
LEMMA SessionTypeStep ==
    ASSUME UpdateType, [UpdateNext]_all
    PROVE  SessionType' /\ compatible' = compatible
           /\ (~compatible => ask' \in {"INFO", "BOOT"})
<1> USE DEF UpdateType, SessionType, LinkType, Asking
<1>1. faults' \in Nat /\ SessionMove
  BY SessionMoves
<1>2. CASE UNCHANGED sessionVars
  BY <1>1, <1>2 DEF sessionVars, Payload, Fits, FooterBase, RegionCells
<1>3. CASE Sent
  BY <1>1, <1>3 DEF Sent
<1>4. ASSUME Asking, NEW e, Fail(e) PROVE SessionType'
  BY <1>1, <1>4 DEF Fail
<1>5. ASSUME Asking, NEW e, Retry(e) PROVE SessionType'
  <2>1. CASE attempt = RetryBudget
    BY <1>4, <1>5, <2>1 DEF Retry
  <2>2. CASE attempt # RetryBudget
    <3>1. attempt' \in 0 .. RetryBudget
      BY <1>5, <2>2, BudgetAssumption DEF Retry
    <3> QED BY <1>1, <1>5, <2>2, <3>1 DEF Retry
  <2> QED BY <2>1, <2>2
<1>6. CASE hpc = "wait" /\ Accept
  <2>1. 0 \in 0 .. RetryBudget
    BY BudgetAssumption
  <2> QED BY <1>1, <1>4, <1>6, <2>1, AcceptGoes DEF Fail
<1>7. CASE HostStarts
  <2>1. 0 \in 0 .. RetryBudget
    BY BudgetAssumption
  <2> QED BY <1>1, <1>7, <2>1, StartGoes
<1> QED BY <1>1, <1>2, <1>3, <1>4, <1>5, <1>6, <1>7 DEF SessionMove, Retry, Fail

(* What travels on the link is a well-formed request or a reply of the     *)
(* device.                                                                 *)
LEMMA LinkTypeStep ==
    ASSUME UpdateType, TypeOK', [UpdateNext]_all
    PROVE  LinkType'
<1>1. compatible' = compatible /\ (~compatible => ask' \in {"INFO", "BOOT"})
  BY SessionTypeStep
<1>2. Frames' = Frames
  BY <1>1 DEF Frames, HostFrames, HarmlessFrames
<1>3. /\ toDev \in Seq(Frames) /\ toHost \in Seq(Replies)
      /\ midFrame \in BOOLEAN /\ rsp' \in Replies
  BY DEF UpdateType, LinkType, TypeOK
<1>4. SUFFICES /\ toDev' \in Seq(Frames) /\ toHost' \in Seq(Replies)
               /\ midFrame' \in BOOLEAN
  BY <1>1, <1>2 DEF LinkType
<1> HIDE DEF Frames
<1>5. CASE DevServe
  <2>1. toDev' \in Seq(Frames)
    BY <1>5, HeadFrame DEF DevServe
  <2>2. toHost' \in Seq(Replies)
    BY <1>3, <1>5 DEF DevServe
  <2> QED BY <1>3, <1>5, <2>1, <2>2 DEF DevServe
<1>6. CASE DevGetsDamaged
  BY <1>3, <1>6, HeadFrame DEF DevGetsDamaged
<1>7. CASE DevSwallows
  BY <1>3, <1>7, HeadFrame DEF DevSwallows
<1>8. CASE AppIgnores \/ DevReset
  <2>1. toDev' = <<>> /\ toHost' = toHost /\ midFrame' \in {midFrame, FALSE}
    BY <1>8 DEF AppIgnores, DevReset
  <2>2. <<>> \in Seq(Frames)
    OBVIOUS
  <2> QED BY <1>3, <2>1, <2>2
<1>9. CASE HostSend
  <2>1. Request \in Frames
    BY <1>9, RequestIsFrame DEF HostSend, Sent, Asking
  <2> QED BY <1>3, <1>9, <2>1 DEF HostSend
<1>10. CASE HostDropsLong
  <2>1. Tail(toHost) \in Seq(Replies)
    BY <1>3, <1>10 DEF HostDropsLong
  <2> QED BY <1>3, <1>10, <2>1 DEF HostDropsLong
<1>11. ASSUME NEW n \in 1 .. Len(toHost)
       PROVE  SubSeq(toHost, n + 1, Len(toHost)) \in Seq(Replies)
  BY <1>3
<1>12. CASE HostScans
  BY <1>3, <1>11, <1>12 DEF HostScans
<1>13. CASE ReplyDamaged
  BY <1>3, <1>11, <1>13 DEF ReplyDamaged
<1>14. CASE HostStarts
  BY <1>3, <1>14 DEF HostStarts
<1>15. CASE UNCHANGED <<toDev, toHost, midFrame>>
  BY <1>3, <1>15
<1>16. CASE HostWriteFails \/ HostReads \/ HostReadsFiller \/ HostTimesOut
            \/ DevLoop \/ DevTick \/ AppAsksForUpdate \/ Idle \/ UNCHANGED all
  BY <1>15, <1>16
     DEF HostWriteFails, HostReads, HostReadsFiller, HostTimesOut, DevLoop,
         DevTick, AppAsksForUpdate, Idle, all, link
<1> QED
  BY <1>5, <1>6, <1>7, <1>8, <1>9, <1>10, <1>12, <1>13, <1>14, <1>16
     DEF UpdateNext, Host, Device

(* The composed system starts well typed.                                  *)
LEMMA UpdateTypeInit == UpdateInit => UpdateType
<1> SUFFICES ASSUME UpdateInit PROVE UpdateType
  OBVIOUS
<1>1. TypeOK
  BY TypeInit DEF UpdateInit
<1>2. SessionType
  BY BudgetAssumption DEF UpdateInit, SessionInit, SessionType
<1>3. <<>> \in Seq(Frames) /\ <<>> \in Seq(Replies)
  OBVIOUS
<1>4. LinkType
  BY <1>3 DEF UpdateInit, SessionInit, LinkType
<1> QED BY <1>1, <1>2, <1>4 DEF UpdateType

(* The composed system stays well typed.                                   *)
LEMMA UpdateTypeStep ==
    ASSUME UpdateType, [UpdateNext]_all
    PROVE  UpdateType'
<1>1. TypeOK'
  BY UpdateIsDeviceStep, TypeStep DEF UpdateType
<1> QED BY <1>1, SessionTypeStep, LinkTypeStep DEF UpdateType

(* Whatever the link does, the session sends only well-formed requests for *)
(* pages of the region, and the host's and the device's state keep their   *)
(* types.                                                                  *)
THEOREM UpdateTypeCorrect == UpdateSpec => []UpdateType
BY UpdateTypeInit, UpdateTypeStep, PTL DEF UpdateSpec

DeviceInv == JumpGated /\ NoStalePages /\ PairCleared /\ ReplyInv

(* The device keeps its guarantees in the composed system: with this host, *)
(* on either link, under every fault.                                      *)
THEOREM DeviceSafeUnderUpdate ==
    UpdateSpec => /\ []JumpGated /\ []NoStalePages
                  /\ EntryHonouredOnce /\ HeldByHost /\ RepliesBeforeJump
<1>1. UpdateInit => DeviceInv
  BY DEF UpdateInit, Init, DeviceInv, JumpGated, NoStalePages, PairCleared, ReplyInv
<1>2. UpdateType /\ DeviceInv /\ [UpdateNext]_all => DeviceInv'
  <2> SUFFICES ASSUME UpdateType, DeviceInv, [UpdateNext]_all PROVE DeviceInv'
    OBVIOUS
  <2>1. [DeviceStep]_vars /\ TypeOK
    BY UpdateIsDeviceStep DEF UpdateType
  <2> QED BY <2>1, JumpStep, StaleStep, PairClearedStep, ReplyInvStep DEF DeviceInv
<1>3. UpdateType /\ DeviceInv /\ [UpdateNext]_all
      => /\ [mode = "boot" /\ mode' = "app" /\ resident => bootPending]_vars
         /\ [mode = "boot" /\ mode' = "app" /\ bootPending => rsp' = NoReply]_vars
         /\ [resets' # resets /\ resident' => mode = "app"]_vars
  BY UpdateIsDeviceStep, HoldStep, ReplyStep, EntryStep DEF DeviceInv, UpdateType
<1>4. DeviceInv => JumpGated /\ NoStalePages
  BY DEF DeviceInv
<1> QED BY <1>1, <1>2, <1>3, <1>4, UpdateTypeCorrect, PTL
        DEF UpdateSpec, EntryHonouredOnce, HeldByHost, RepliesBeforeJump

-----------------------------------------------------------------------------
(* A device with another protocol version or geometry is never erased or   *)
(* written, on either link, in any job, not even by a frame that a failed  *)
(* job has left on the link.                                               *)
THEOREM IncompatibleSafe == UpdateSpec => IncompatibleUntouched
<1>1. UpdateType /\ [UpdateNext]_all => [~compatible => flash' = flash]_flash
  <2> SUFFICES ASSUME UpdateType, UpdateNext, ~compatible PROVE UNCHANGED flash
    BY DEF all, vars
  <2>1. toDev # <<>> => Head(toDev).cmd \in {"INFO", "BOOT"}
    BY HeadFrame DEF Frames, HarmlessFrames
  <2>2. CASE DevServe
    BY <2>1, <2>2 DEF DevServe, RecvFrame, Handle, HandleInfo, HandleBoot
  <2>3. CASE DevReset
    BY <2>1, <2>3 DEF DevReset, PowerCycle, SoftReset, CutErase, CutWrite
  <2>4. CASE DevLoop \/ DevTick \/ DevGetsDamaged \/ DevSwallows \/ HostReads
             \/ AppAsksForUpdate
    BY <2>4 DEF DevLoop, DevTick, DevGetsDamaged, DevSwallows, HostReads,
                AppAsksForUpdate, RecvNothing, CheckBoot, CheckWindow, Tick,
                RecvUnparseable, RecvDropped, ReplyRead, AppWritesEntryPair
  <2>5. CASE HostSend \/ HostWriteFails \/ HostReadsFiller \/ HostDropsLong
             \/ HostScans \/ HostTimesOut \/ HostStarts \/ AppIgnores
             \/ ReplyDamaged \/ Idle
    BY <2>5 DEF HostSend, HostWriteFails, HostReadsFiller, HostDropsLong,
                HostScans, HostTimesOut, HostStarts, AppIgnores, ReplyDamaged,
                Idle, all, vars
  <2> QED BY <2>2, <2>3, <2>4, <2>5 DEF UpdateNext, Host, Device
<1> QED BY <1>1, UpdateTypeCorrect, PTL DEF UpdateSpec, IncompatibleUntouched

-----------------------------------------------------------------------------
(* A request is repeated identically while its exchange lasts.             *)
LEMMA RequestKept ==
    ASSUME UNCHANGED <<ask, page, code>>
    PROVE  Request' = Request
BY DEF Request

(* Retrying or failing stays with the exchange.                            *)
LEMMA RetryKeeps ==
    ASSUME NEW e, Retry(e) \/ Fail(e)
    PROVE  /\ UNCHANGED <<job, code, ask, page, compatible, jobs>>
           /\ hpc' \in {"send", "failed"}
BY DEF Retry, Fail

(* Nothing is on the bus at the start.                                     *)
LEMMA BusInit == UpdateInit => BusInv
BY DEF UpdateInit, SessionInit, BusInv, Asking

(* On a transactional bus the request or reply in flight belongs to the    *)
(* exchange in progress.                                                   *)
LEMMA BusStep ==
    ASSUME Transactional, UpdateType, BusInv, [UpdateNext]_all
    PROVE  BusInv'
<1> USE DEF BusInv, Asking
<1>1. toDev \in Seq(Frames)
  BY DEF UpdateType, LinkType
<1>2. ASSUME toDev' = <<>>, toHost' = <<>>, ~midFrame' PROVE BusInv'
  BY <1>2
<1>3. ASSUME UNCHANGED <<toDev, toHost, midFrame, job, code, ask, page>>,
             hpc' = "wait" => hpc = "wait", Asking' => Asking
      PROVE  BusInv'
  BY <1>3, RequestKept
<1>4. CASE DevServe \/ DevGetsDamaged
  <2>1. toDev # <<>> /\ toDev' = Tail(toDev)
    BY <1>4 DEF DevServe, DevGetsDamaged
  <2>2. Tail(toDev) = <<>>
    BY <1>1, <2>1
  <2> QED BY <1>2, <1>4, <2>1, <2>2 DEF DevServe, DevGetsDamaged
<1>5. CASE DevReset \/ AppIgnores
  BY <1>2, <1>5 DEF DevReset, AppIgnores
<1>6. CASE HostSend
  <2>1. toDev' = <<Request>>
    BY <1>6 DEF HostSend, BusFree
  <2>2. Request' = Request
    BY <1>6, RequestKept DEF HostSend, Sent
  <2>3. Len(toDev') = 1 /\ Head(toDev') = Request
    BY <2>1
  <2> QED BY <1>6, <2>2, <2>3 DEF HostSend
<1>7. CASE HostWriteFails \/ HostReadsFiller \/ HostTimesOut
  BY <1>3, <1>7, RetryKeeps
     DEF HostWriteFails, HostReadsFiller, HostTimesOut, link
<1>8. CASE HostReads
  BY <1>2, <1>8 DEF HostReads
<1>9. ~(DevSwallows \/ HostDropsLong \/ HostScans)
  BY DEF DevSwallows, HostDropsLong, HostScans
<1>10. ~ReplyDamaged
  BY DEF ReplyDamaged
<1>11. CASE HostStarts
  <2>1. hpc' = "send" /\ (job' = "boot" \/ ask' = "INFO")
    BY <1>11, StartGoes
  <2> QED BY <1>11, <2>1 DEF HostStarts
<1>12. CASE DevLoop \/ DevTick \/ AppAsksForUpdate \/ Idle \/ UNCHANGED all
  BY <1>3, <1>12
     DEF DevLoop, DevTick, AppAsksForUpdate, Idle, all, link, sessionVars
<1> QED
  BY <1>4, <1>5, <1>6, <1>7, <1>8, <1>9, <1>10, <1>11, <1>12
     DEF UpdateNext, Host, Device

-----------------------------------------------------------------------------
(* Programming a page over blank cells, or over itself, leaves the page:   *)
(* a repeated WRITE_PAGE is harmless.                                      *)
LEMMA ProgramAgain ==
    ASSUME NEW old, NEW new \in Page, old \in {BlankPage, new}
    PROVE  Programmed(old, new) = new
<1>1. ASSUME NEW c \in Cells PROVE NorAnd(old[c], new[c]) = new[c]
  <2>1. new[c] \in Word /\ Blank \in Word
    BY WordAssumption DEF Page, Word
  <2>2. NorAnd(Blank, new[c]) = new[c]
    BY <2>1, NorAssumption
  <2>3. NorAnd(new[c], new[c]) = new[c]
    BY <2>1, <2>2, NorAssumption
  <2> QED BY <2>2, <2>3 DEF BlankPage
<1> QED BY <1>1 DEF Programmed, Page

(* The pages between the cursor and the page that pages() yields.          *)
LEMMA PagesBetween ==
    ASSUME NEW c, Payload(c), NEW from \in Nat, NEW q \in Pages,
           q >= from, q < NextPage(c, from)
    PROVE  PageInto(c, q) = BlankPage
<1>1. ~MustWrite(c, q)
  BY NextPageIs
<1> QED BY <1>1, SkippedIsBlank

(* An accepted answer moves a flash job on with the image in place.        *)
LEMMA AcceptKeepsImage ==
    ASSUME UpdateType, FlashInv, Confirmed, Accept,
           UNCHANGED <<flash, erased>>, toDev' = <<>>
    PROVE  FlashInv'
<1> SUFFICES ASSUME job' = "flash" PROVE FlashInv'
  BY DEF FlashInv
<1> USE DEF Asking, Answered, Confirmed
<1>0. hpc = "wait" /\ job = "flash" /\ code' = code /\ Payload(code)
  BY AcceptGoes DEF UpdateType, SessionType, Fail
<1>1. CASE ask = "INFO"
  BY <1>0, <1>1, AcceptGoes DEF FlashInv, Fail
<1>2. CASE ask \in {"VERIFY", "BOOT"}
  BY <1>0, <1>2, AcceptGoes DEF FlashInv, UpdateType, SessionType
<1>3. CASE ask = "ERASE"
  <2>1. ask' = "WRITE" /\ page' = NextPage(code, 0) /\ page' \in Pages /\ hpc' = "send"
    BY <1>0, <1>3, AcceptGoes
  <2>2. flash' = BlankFlash
    BY <1>0, <1>3 DEF FlashInv
  <2>3. ASSUME NEW q \in Pages PROVE flash'[q] = BlankPage /\ q \in Nat
    BY <2>2, GeometryAssumption DEF BlankFlash, Pages
  <2>4. ASSUME NEW q \in Pages, q < page' PROVE flash'[q] = PageInto(code, q)
    BY <1>0, <2>1, <2>3, <2>4, PagesBetween
  <2> QED BY <1>0, <2>1, <2>3, <2>4 DEF FlashInv
<1>4. CASE ask = "WRITE"
  <2>1. erased /\ flash[page] = PageInto(code, page) /\ page \in Pages /\ page \in Nat
    BY <1>0, <1>4, GeometryAssumption DEF FlashInv, UpdateType, SessionType, Pages
  <2>2. \A q \in Pages : /\ q \in Nat
                         /\ q <= page => flash'[q] = PageInto(code, q)
                         /\ q > page => flash'[q] = BlankPage
    BY <1>0, <1>4, <2>1, GeometryAssumption DEF FlashInv, Pages
  <2>3. ASSUME NEW q \in Pages, q < NextPage(code, page + 1)
        PROVE  flash'[q] = PageInto(code, q)
    <3>1. CASE q <= page
      BY <2>2, <3>1
    <3>2. CASE q > page
      <4>1. q >= page + 1 /\ page + 1 \in Nat
        BY <2>1, <2>2, <3>2
      <4> QED BY <1>0, <2>2, <2>3, <3>2, <4>1, PagesBetween
    <3> QED BY <2>1, <2>2, <3>1, <3>2
  <2>4. CASE NextPage(code, page + 1) \in Pages /\ page' = NextPage(code, page + 1)
             /\ ask' = "WRITE" /\ hpc' = "send"
    <3>1. page' > page
      BY <2>1, <2>4, NextPageIs DEF Pages
    <3>2. page' \in Nat
      BY <2>2, <2>4
    <3>3. \A q \in Pages : q >= page' => q > page
      BY <2>1, <2>2, <3>1, <3>2
    <3> QED BY <1>0, <2>2, <2>3, <2>4, <3>3 DEF FlashInv
  <2>5. CASE NextPage(code, page + 1) = AppPages /\ ask' = "VERIFY" /\ hpc' = "send"
    <3>1. \A q \in Pages : q < AppPages
      BY GeometryAssumption DEF Pages
    <3>2. \A q \in Pages : flash'[q] = PageInto(code, q)
      BY <2>3, <2>5, <3>1
    <3>3. flash' = ImageOf(code)
      BY <3>2 DEF ImageOf, UpdateType, TypeOK
    <3> QED BY <1>0, <2>5, <3>3 DEF FlashInv
  <2> QED BY <1>0, <1>4, <2>4, <2>5, AcceptGoes
<1> QED BY <1>0, <1>1, <1>2, <1>3, <1>4 DEF UpdateType, SessionType

(* The device serves the frame of the exchange a flash job is in.          *)
LEMMA ServeKeepsImage ==
    ASSUME Transactional, UpdateType, BusInv, FlashInv, DevServe
    PROVE  FlashInv'
<1> SUFFICES ASSUME job = "flash", Asking, ask # "INFO" PROVE FlashInv'
  BY DEF FlashInv, DevServe, sessionVars, Asking, Answered, Confirmed,
         UpdateType, SessionType
<1>1. Head(toDev) = Request /\ Handle(Request) /\ Request.cmd = ask
  BY RequestIsFrame DEF DevServe, RecvFrame, BusInv
<1>2. UNCHANGED <<job, code, ask, page, hpc>> /\ hpc # "ok"
  BY DEF DevServe, sessionVars, Asking
<1>3. Payload(code) /\ ask \in {"ERASE", "WRITE", "VERIFY"}
  BY DEF UpdateType, SessionType
<1> USE DEF Asking, Answered, Confirmed
<1>4. CASE ask = "ERASE"
  <2>1. HandleErase(Request) /\ Request.magic
    BY <1>1, <1>4 DEF Handle, Request
  <2> QED BY <1>2, <1>4, <2>1 DEF FlashInv, HandleErase
<1>5. CASE ask = "WRITE"
  <2>1. HandleWrite(Request)
    BY <1>1, <1>5 DEF Handle
  <2>2. /\ Request.full /\ Request.page = page /\ page \in Pages
        /\ Request.data = PageInto(code, page)
    BY <1>5 DEF Request, UpdateType, SessionType
  <2>3. CASE ~erased
    <3>1. erased' = FALSE /\ rsp'.st = "NOT_ERASED"
      BY <2>1, <2>3 DEF HandleWrite, WriteStatus, Answer
    <3> QED BY <1>2, <1>5, <3>1 DEF FlashInv
  <2>4. CASE erased
    <3>1. WriteStatus(Request) = "OK"
      BY <2>2, <2>4 DEF WriteStatus
    <3>2. /\ flash' = [flash EXCEPT ![page] = Programmed(flash[page], PageInto(code, page))]
          /\ erased'
      BY <2>1, <2>2, <2>4, <3>1 DEF HandleWrite
    <3>3. flash[page] \in {BlankPage, PageInto(code, page)}
      BY <1>5, <2>2, <2>4 DEF FlashInv
    <3>4. PageInto(code, page) \in Page
      BY <1>3, <2>2, PageIntoType
    <3>5. Programmed(flash[page], PageInto(code, page)) = PageInto(code, page)
      BY <3>3, <3>4, ProgramAgain
    <3>6. flash' = [flash EXCEPT ![page] = PageInto(code, page)]
      BY <3>2, <3>5
    <3>7. \A q \in Pages : flash'[q] = IF q = page THEN PageInto(code, page) ELSE flash[q]
      BY <2>2, <3>6 DEF UpdateType, TypeOK
    <3> QED BY <1>2, <1>5, <2>2, <2>4, <3>2, <3>7 DEF FlashInv
  <2> QED BY <2>3, <2>4
<1>6. CASE ask = "VERIFY"
  <2>1. UNCHANGED flash
    BY <1>1, <1>6 DEF Handle, HandleVerify
  <2> QED BY <1>2, <1>6, <2>1 DEF FlashInv
<1> QED BY <1>3, <1>4, <1>5, <1>6

(* A reset or a power cut loses the session, never a finished image.       *)
LEMMA ResetKeepsImage ==
    ASSUME Transactional, UpdateType, BusInv, FlashInv, DevReset
    PROVE  FlashInv'
<1> USE DEF Asking, Answered, Confirmed
<1>1. /\ erased' = FALSE /\ rsp' = NoReply /\ toDev' = <<>>
      /\ UNCHANGED <<job, code, ask, page, hpc>>
  BY DEF DevReset, PowerCycle, SoftReset, CutErase, CutWrite, Restart, sessionVars
<1>2. ~Confirmed'
  BY <1>1 DEF NoReply, UpdateType, SessionType
<1>3. CASE PowerCycle \/ SoftReset
  BY <1>1, <1>2, <1>3 DEF PowerCycle, SoftReset, FlashInv
<1>4. CASE ~(PowerCycle \/ SoftReset)
  <2>1. toDev # <<>> /\ Head(toDev).cmd \in {"ERASE", "WRITE"}
    BY <1>4 DEF DevReset, CutErase, CutWrite
  <2>2. ASSUME job = "flash", Asking PROVE ask # "VERIFY"
    BY <2>1, <2>2, RequestIsFrame DEF BusInv
  <2> QED BY <1>1, <1>2, <2>1, <2>2 DEF FlashInv
<1> QED BY <1>3, <1>4

(* While a job writes, the pages before the iterator hold the image and    *)
(* the rest are blank.                                                     *)
LEMMA FlashStep ==
    ASSUME Transactional, UpdateType, BusInv, FlashInv, [UpdateNext]_all
    PROVE  FlashInv'
<1> USE DEF Asking, Answered, Confirmed
<1>1. CASE DevServe
  BY <1>1, ServeKeepsImage
<1>2. CASE DevReset
  BY <1>2, ResetKeepsImage
<1>3. CASE DevGetsDamaged
  <2>1. /\ UNCHANGED <<flash, erased, job, code, ask, page, hpc>>
        /\ rsp' = NoReply \/ rsp'.st = "BAD_FRAME"
        /\ toDev # <<>>
    BY <1>3 DEF DevGetsDamaged, RecvUnparseable, RecvDropped, Answer, sessionVars
  <2>2. ~Confirmed'
    BY <2>1 DEF NoReply
  <2> QED BY <2>1, <2>2 DEF FlashInv
<1>4. ASSUME UNCHANGED <<flash, erased, rsp, toDev, job, code, ask, page, hpc>>,
             mode' = "boot" => mode = "boot"
      PROVE  FlashInv'
  BY <1>4 DEF FlashInv
<1>5. CASE DevLoop \/ DevTick \/ AppAsksForUpdate \/ Idle \/ UNCHANGED all
  BY <1>4, <1>5
     DEF DevLoop, DevTick, AppAsksForUpdate, Idle, all, vars, sessionVars, link,
         RecvNothing, CheckBoot, CheckWindow, Tick, AppWritesEntryPair, At
<1>6. CASE AppIgnores
  BY <1>6 DEF AppIgnores, vars, sessionVars, FlashInv
<1>7. CASE HostSend
  <2>1. toDev' # <<>>
    BY <1>7 DEF HostSend, UpdateType, LinkType
  <2> QED BY <1>7, <2>1 DEF HostSend, Sent, vars, FlashInv
<1>8. ASSUME NEW e, Retry(e) \/ Fail(e), UNCHANGED <<flash, erased>>, Asking
      PROVE  FlashInv'
  BY <1>8, RetryKeeps DEF FlashInv
<1>9. CASE HostWriteFails \/ HostReadsFiller \/ HostTimesOut
  BY <1>8, <1>9 DEF HostWriteFails, HostReadsFiller, HostTimesOut, vars
<1>10. CASE HostReads
  <2>1. UNCHANGED <<flash, erased>> /\ mode = "boot" /\ toDev' = <<>> /\ hpc = "wait"
        /\ toDev = <<>>
    BY <1>10 DEF HostReads, ReplyRead, At
  <2>2. \/ \E e : Retry(e) \/ Fail(e)
        \/ rsp.cmd = ask /\ rsp.st = "OK" /\ Accept
    BY <1>10 DEF HostReads, Got
  <2> QED BY <1>8, <2>1, <2>2, AcceptKeepsImage
<1>11. CASE HostStarts
  BY <1>11, StartGoes DEF FlashInv
<1>12. ~(DevSwallows \/ HostDropsLong \/ HostScans \/ ReplyDamaged)
  BY DEF BusInv, DevSwallows, HostDropsLong, HostScans, ReplyDamaged
<1> QED
  BY <1>1, <1>2, <1>3, <1>5, <1>6, <1>7, <1>9, <1>10, <1>11, <1>12
     DEF UpdateNext, Host, Device

(* On a transactional link, flash returning Ok means that the region holds *)
(* exactly the image (code, padding and footer), so that the boot gate     *)
(* accepts it: for every checksum, whatever was lost, damaged, late or cut *)
(* on the way, and however often the job was tried before.                 *)
THEOREM FlashMeansBootable ==
    ASSUME Transactional
    PROVE  UpdateSpec => []FlashedImageBoots
<1>1. UpdateInit => BusInv /\ FlashInv
  BY BusInit DEF UpdateInit, SessionInit, FlashInv
<1>2. UpdateType /\ BusInv /\ FlashInv /\ [UpdateNext]_all => BusInv' /\ FlashInv'
  BY BusStep, FlashStep
<1>3. UpdateType /\ FlashInv => FlashedImageBoots
  BY ImageBoots
     DEF FlashInv, FlashedImageBoots, FlashSucceeded, UpdateType, SessionType
<1> QED BY <1>1, <1>2, <1>3, UpdateTypeCorrect, PTL DEF UpdateSpec

-----------------------------------------------------------------------------
(* What the region may hold when first powered: nothing, or an image.      *)
FactoryFlash == {BlankFlash} \cup {ImageOf(c) : c \in {d \in Codes : Fits(d)}}

(* What a flash job writes is one of the binaries.                         *)
CodeChosen == job = "flash" => code \in Codes

(* A page an erased device is about to program belongs to an image whose   *)
(* pages below it are there and whose pages above it are blank: true of a  *)
(* frame that a failed job has left on the bus, too.                       *)
FrameInv ==
    LET w == Head(toDev)
    IN toDev # <<>> /\ w.cmd = "WRITE" /\ erased =>
       /\ w.page \in Pages
       /\ \E c \in Codes :
            /\ Fits(c)
            /\ w.data = PageInto(c, w.page)
            /\ \A q \in Pages : /\ q < w.page => flash[q] = PageInto(c, q)
                                /\ q > w.page => flash[q] = BlankPage
                                /\ q = w.page => flash[q] \in {BlankPage, w.data}

Unfinished(f, c) == Fits(c) /\ \E lo, hi \in Nat : PartOf(f, c, lo, hi)

(* At any moment the region is blank or a window of one binary's image.    *)
WindowInv == flash = BlankFlash \/ \E c \in Codes : Unfinished(flash, c)

SlotInv == CodeChosen /\ FrameInv /\ WindowInv

(* A binary from_bin accepts is a payload.                                 *)
LEMMA CodeIsPayload ==
    ASSUME NEW c \in Codes, Fits(c)
    PROVE  Payload(c)
BY CodesAssumption DEF Payload

(* The region with a whole image is a window of it.                        *)
LEMMA ImageIsWindow ==
    ASSUME NEW c \in Codes, Fits(c)
    PROVE  Unfinished(ImageOf(c), c)
<1>1. Payload(c)
  BY CodeIsPayload
<1>2. FooterPage \in Pages /\ PageSize \in 0 .. PageSize
  BY <1>1, Geometry
<1>3. \A q \in Pages : ~(q > FooterPage)
  BY GeometryAssumption DEF Pages, FooterPage
<1>4. \A k \in Cells : k < PageSize
  BY GeometryAssumption DEF Cells
<1>5. \E hi \in Nat : PartOf(ImageOf(c), c, 0, hi)
  BY <1>2, <1>3, <1>4, WindowWritten DEF ImageOf
<1> QED BY <1>5 DEF Unfinished

(* At power-up the region is blank or holds one image.                     *)
LEMMA SlotInvInit ==
    ASSUME InitialFlash \subseteq FactoryFlash
    PROVE  UpdateInit => SlotInv
<1> SUFFICES ASSUME UpdateInit PROVE SlotInv
  OBVIOUS
<1>1. CodeChosen /\ FrameInv
  BY DEF UpdateInit, SessionInit, CodeChosen, FrameInv
<1>2. flash \in FactoryFlash
  BY DEF UpdateInit, Init
<1>3. WindowInv
  BY <1>2, ImageIsWindow DEF FactoryFlash, WindowInv
<1> QED BY <1>1, <1>3 DEF SlotInv

(* A job is started on one of the binaries and keeps it.                   *)
LEMMA CodeStep ==
    ASSUME UpdateType, CodeChosen, [UpdateNext]_all
    PROVE  CodeChosen'
<1> USE DEF CodeChosen
<1>1. SessionMove
  BY SessionMoves
<1>2. CASE UNCHANGED sessionVars \/ Sent
  BY <1>2 DEF sessionVars, Sent
<1>3. CASE Asking /\ \E e : Retry(e) \/ Fail(e)
  BY <1>3, RetryKeeps
<1>4. CASE hpc = "wait" /\ Accept
  BY <1>4 DEF Accept, Fail
<1>5. CASE HostStarts
  BY <1>5 DEF HostStarts, StartJob
<1> QED BY <1>1, <1>2, <1>3, <1>4, <1>5 DEF SessionMove

(* A frame is put on the bus when the pages before its own are in place,   *)
(* and nothing happens to the region while it waits there.                 *)
LEMMA FrameStep ==
    ASSUME Transactional, UpdateType, BusInv, FlashInv, CodeChosen, FrameInv,
           [UpdateNext]_all
    PROVE  FrameInv'
<1>1. ASSUME UNCHANGED <<flash, erased, toDev>> PROVE FrameInv'
  BY <1>1 DEF FrameInv
<1>2. ASSUME toDev' = <<>> PROVE FrameInv'
  BY <1>2 DEF FrameInv
<1>3. CASE DevServe \/ DevGetsDamaged
  <2>1. toDev # <<>> /\ toDev' = Tail(toDev) /\ toDev \in Seq(Frames)
    BY <1>3 DEF DevServe, DevGetsDamaged, UpdateType, LinkType
  <2>2. Tail(toDev) = <<>>
    BY <2>1 DEF BusInv
  <2> QED BY <1>2, <2>1, <2>2
<1>4. CASE DevReset \/ AppIgnores
  BY <1>2, <1>4 DEF DevReset, AppIgnores
<1>5. CASE HostSend
  <2>1. /\ toDev' = <<Request>> /\ Head(toDev') = Request /\ Asking
        /\ UNCHANGED <<flash, erased>> /\ Request.cmd = ask
    BY <1>5, RequestIsFrame DEF HostSend, BusFree, Sent, Asking, vars
  <2> SUFFICES ASSUME ask = "WRITE", erased PROVE FrameInv'
    BY <2>1 DEF FrameInv
  <2>2. job = "flash" /\ page \in Pages /\ code \in Codes /\ Fits(code)
    BY DEF UpdateType, SessionType, CodeChosen, Payload
  <2>3. Request.page = page /\ Request.data = PageInto(code, page)
    BY DEF Request
  <2>4. \A q \in Pages : /\ q < page => flash[q] = PageInto(code, q)
                         /\ q > page => flash[q] = BlankPage
                         /\ q = page => flash[q] \in {BlankPage, PageInto(code, page)}
    BY <2>1, <2>2 DEF FlashInv
  <2> HIDE DEF BusInv, FlashInv
  <2> QED BY <2>1, <2>2, <2>3, <2>4 DEF FrameInv
<1>6. CASE DevLoop \/ DevTick \/ AppAsksForUpdate \/ HostReads
  BY <1>1, <1>6
     DEF DevLoop, DevTick, AppAsksForUpdate, HostReads, link, ReplyRead,
         RecvNothing, CheckBoot, CheckWindow, Tick, AppWritesEntryPair
<1>7. CASE HostWriteFails \/ HostReadsFiller \/ HostTimesOut \/ HostStarts \/ Idle
           \/ UNCHANGED all
  BY <1>1, <1>7
     DEF HostWriteFails, HostReadsFiller, HostTimesOut, HostStarts, Idle, all,
         vars, link
<1>8. ~(DevSwallows \/ HostDropsLong \/ HostScans \/ ReplyDamaged)
  BY DEF BusInv, DevSwallows, HostDropsLong, HostScans, ReplyDamaged
<1> QED
  BY <1>3, <1>4, <1>5, <1>6, <1>7, <1>8 DEF UpdateNext, Host, Device

(* A step that changes the region: the device is in its bootloader and no  *)
(* job has reported anything; what was there is erased, or was and is an   *)
(* unfinished image of one and the same binary.                            *)
RegionChange ==
    /\ mode = "boot" /\ mode' = "boot"
    /\ ~FlashSucceeded /\ ~FlashSucceeded'
    /\ \/ flash' = BlankFlash
       \/ \E c \in Codes : Unfinished(flash, c) /\ Unfinished(flash', c)

(* Programming the page of a WRITE frame, whole or up to cell h.           *)
LEMMA WriteMoves ==
    ASSUME UpdateType, FrameInv, toDev # <<>>, Head(toDev).cmd = "WRITE", erased,
           NEW h \in 0 .. PageSize,
           LET w == Head(toDev)
           IN flash' = [flash EXCEPT ![w.page] = Torn(@, Programmed(@, w.data), h)]
    PROVE  \E c \in Codes : Unfinished(flash, c) /\ Unfinished(flash', c)
<1> DEFINE p == Head(toDev).page
           d == Head(toDev).data
<1>1. p \in Pages
  BY DEF FrameInv
<1>2. PICK c \in Codes :
         /\ Fits(c)
         /\ d = PageInto(c, p)
         /\ \A q \in Pages : /\ q < p => flash[q] = PageInto(c, q)
                             /\ q > p => flash[q] = BlankPage
                             /\ q = p => flash[q] \in {BlankPage, d}
  BY DEF FrameInv
<1>3. d \in Page
  BY <1>1, <1>2, CodeIsPayload, PageIntoType
<1>4. flash' = [flash EXCEPT ![p] = Torn(flash[p], Programmed(flash[p], d), h)]
  OBVIOUS
<1> HIDE DEF p, d
<1>5. flash[p] \in {BlankPage, d} /\ Programmed(flash[p], d) = d
  BY <1>1, <1>2, <1>3, ProgramAgain
<1>6. flash' = [flash EXCEPT ![p] = Torn(flash[p], d, h)]
  BY <1>4, <1>5
<1>7. flash' = [q \in Pages |-> IF q = p THEN Torn(flash[p], d, h) ELSE flash[q]]
  BY <1>1, <1>6 DEF UpdateType, TypeOK
<1>8. \A q \in Pages : /\ q \in Int /\ p \in Int
                       /\ q # p => flash'[q] = flash[q]
                       /\ q < p => flash'[q] = PageInto(c, q)
                       /\ q > p => flash'[q] = BlankPage
  BY <1>1, <1>2, <1>7, GeometryAssumption DEF Pages
<1>9. \A k \in Cells : k \in Nat /\ k < PageSize /\ ~(k < 0)
  BY GeometryAssumption DEF Cells
<1>10. 0 \in 0 .. PageSize /\ PageSize \in 0 .. PageSize
  BY GeometryAssumption
<1>11. CASE flash[p] = BlankPage
  <2>1. \A k \in Cells : flash[p][k] = IF k < 0 THEN PageInto(c, p)[k] ELSE Blank
    BY <1>9, <1>11 DEF BlankPage
  <2>2. \A k \in Cells : flash'[p][k] = IF k < h THEN PageInto(c, p)[k] ELSE Blank
    BY <1>1, <1>2, <1>7, <1>11 DEF BlankPage, Torn
  <2>3. \E hi \in Nat : PartOf(flash, c, 0, hi)
    BY <1>1, <1>2, <1>10, <2>1, WindowWritten
  <2>4. \E hi \in Nat : PartOf(flash', c, 0, hi)
    <3> DEFINE g == flash'
    <3>1. /\ \A q \in Pages : /\ q < p => g[q] = PageInto(c, q)
                              /\ q > p => g[q] = BlankPage
          /\ \A k \in Cells : g[p][k] = IF k < h THEN PageInto(c, p)[k] ELSE Blank
      BY <1>8, <2>2
    <3> HIDE DEF g
    <3>2. \E hi \in Nat : PartOf(g, c, 0, hi)
      BY <1>1, <3>1, WindowWritten
    <3> QED BY <3>2 DEF g
  <2> QED BY <1>2, <2>3, <2>4 DEF Unfinished
<1>12. CASE flash[p] = d
  <2>1. \A k \in Cells : flash[p][k] = IF k < PageSize THEN PageInto(c, p)[k] ELSE Blank
    BY <1>2, <1>9, <1>12
  <2>2. Torn(d, d, h) = d
    BY <1>3 DEF Torn, Page
  <2>3. flash' = flash
    BY <1>1, <1>6, <1>12, <2>2 DEF UpdateType, TypeOK
  <2>4. \E hi \in Nat : PartOf(flash, c, 0, hi)
    BY <1>1, <1>2, <1>10, <2>1, WindowWritten
  <2> QED BY <1>2, <2>3, <2>4 DEF Unfinished
<1> QED BY <1>5, <1>11, <1>12

(* Cutting an erase.                                                       *)
LEMMA EraseMoves ==
    ASSUME WindowInv, NEW p \in Pages, NEW h \in 0 .. PageSize,
           flash' = [q \in Pages |-> IF q < p THEN BlankPage
                                     ELSE IF q = p THEN Torn(flash[q], BlankPage, h)
                                     ELSE flash[q]]
    PROVE  \/ flash' = BlankFlash
           \/ \E c \in Codes : Unfinished(flash, c) /\ Unfinished(flash', c)
<1>1. CASE flash = BlankFlash
  <2>1. Torn(BlankPage, BlankPage, h) = BlankPage
    BY DEF Torn, BlankPage
  <2>2. \A q \in Pages : flash[q] = BlankPage
    BY <1>1 DEF BlankFlash
  <2> QED BY <2>1, <2>2 DEF BlankFlash
<1>2. CASE flash # BlankFlash
  <2>1. PICK c \in Codes : Unfinished(flash, c)
    BY <1>2 DEF WindowInv
  <2>2. PICK lo \in Nat, hi \in Nat : PartOf(flash, c, lo, hi)
    BY <2>1 DEF Unfinished
  <2>3. \E m \in Nat : PartOf(flash', c, m, hi)
    BY <2>2, WindowErased
  <2> QED BY <2>1, <2>3 DEF Unfinished
<1> QED BY <1>1, <1>2

(* Only a served or cut ERASE or WRITE changes the region.                 *)
LEMMA RegionMoves ==
    ASSUME Transactional, UpdateType, BusInv, FlashInv, FrameInv, WindowInv,
           [UpdateNext]_all
    PROVE  UNCHANGED flash \/ RegionChange
<1> SUFFICES ASSUME flash' # flash PROVE RegionChange
  OBVIOUS
<1> DEFINE f == Head(toDev)
<1>1. CASE DevServe
  <2>1. /\ mode = "boot" /\ mode' = "boot" /\ toDev # <<>> /\ Handle(f)
        /\ UNCHANGED sessionVars
    BY <1>1 DEF DevServe, RecvFrame, At
  <2>2. ~FlashSucceeded /\ ~FlashSucceeded'
    BY <2>1 DEF FlashInv, FlashSucceeded, sessionVars
  <2>3. \/ HandleErase(f) /\ f.magic
        \/ f.cmd = "WRITE" /\ HandleWrite(f) /\ WriteStatus(f) = "OK"
    BY <2>1 DEF Handle, HandleInfo, HandleErase, HandleWrite, HandleVerify,
                HandleBoot, HandleEcho, HandleUnknown
  <2>4. CASE HandleErase(f) /\ f.magic
    BY <2>1, <2>2, <2>4 DEF HandleErase, RegionChange
  <2>5. CASE f.cmd = "WRITE" /\ HandleWrite(f) /\ WriteStatus(f) = "OK"
    <3>1. /\ erased /\ f.page \in Pages
          /\ flash' = [flash EXCEPT ![f.page] = Programmed(flash[f.page], f.data)]
      BY <2>5 DEF WriteStatus, HandleWrite
    <3>2. \A c \in Cells : c < PageSize
      BY GeometryAssumption DEF Cells
    <3>3. Torn(flash[f.page], Programmed(flash[f.page], f.data), PageSize)
            = Programmed(flash[f.page], f.data)
      BY <3>2 DEF Torn, Programmed
    <3>4. PageSize \in 0 .. PageSize
      BY GeometryAssumption
    <3>5. flash' = [flash EXCEPT ![f.page] =
                       Torn(@, Programmed(@, f.data), PageSize)]
      BY <3>1, <3>3
    <3>6. \E c \in Codes : Unfinished(flash, c) /\ Unfinished(flash', c)
      BY <2>1, <2>5, <3>1, <3>4, <3>5, WriteMoves
    <3> QED BY <2>1, <2>2, <3>6 DEF RegionChange
  <2> QED BY <2>3, <2>4, <2>5
<1>2. CASE DevReset
  <2>1. toDev # <<>> /\ UNCHANGED sessionVars
    BY <1>2 DEF DevReset, PowerCycle, SoftReset
  <2>2. ~FlashSucceeded /\ ~FlashSucceeded'
    BY <2>1 DEF FlashInv, FlashSucceeded, sessionVars
  <2>3. ASSUME NEW p \in Pages, NEW h \in 0 .. PageSize, CutErase(f, p, h)
        PROVE  RegionChange
    <3>1. mode = "boot" /\ mode' = "boot"
      BY <2>3 DEF CutErase, At, Restart
    <3>2. \/ flash' = BlankFlash
          \/ \E c \in Codes : Unfinished(flash, c) /\ Unfinished(flash', c)
      BY <2>3, EraseMoves DEF CutErase
    <3> QED BY <2>2, <3>1, <3>2 DEF RegionChange
  <2>4. ASSUME NEW h \in 0 .. PageSize, CutWrite(f, h) PROVE RegionChange
    <3>1. mode = "boot" /\ mode' = "boot" /\ f.cmd = "WRITE" /\ erased
      BY <2>4 DEF CutWrite, At, Restart, WriteStatus
    <3>2. flash' = [flash EXCEPT ![f.page] = Torn(@, Programmed(@, f.data), h)]
      BY <2>4 DEF CutWrite
    <3>3. \E c \in Codes : Unfinished(flash, c) /\ Unfinished(flash', c)
      BY <2>1, <3>1, <3>2, WriteMoves
    <3> QED BY <2>2, <3>1, <3>3 DEF RegionChange
  <2> QED BY <1>2, <2>3, <2>4 DEF DevReset, PowerCycle, SoftReset
<1>3. CASE DevLoop \/ DevTick \/ DevGetsDamaged \/ DevSwallows \/ HostReads
           \/ AppAsksForUpdate
  BY <1>3 DEF DevLoop, DevTick, DevGetsDamaged, DevSwallows, HostReads,
              AppAsksForUpdate, RecvNothing, CheckBoot, CheckWindow, Tick,
              RecvUnparseable, RecvDropped, ReplyRead, AppWritesEntryPair
<1>4. CASE HostSend \/ HostWriteFails \/ HostReadsFiller \/ HostDropsLong
           \/ HostScans \/ HostTimesOut \/ HostStarts \/ AppIgnores
           \/ ReplyDamaged \/ Idle \/ UNCHANGED all
  BY <1>4 DEF HostSend, HostWriteFails, HostReadsFiller, HostDropsLong,
              HostScans, HostTimesOut, HostStarts, AppIgnores, ReplyDamaged,
              Idle, all, vars
<1> QED BY <1>1, <1>2, <1>3, <1>4 DEF UpdateNext, Host, Device

(* The region stays a window of one image.                                 *)
LEMMA SlotInvStep ==
    ASSUME Transactional, UpdateType, BusInv, FlashInv, SlotInv, [UpdateNext]_all
    PROVE  SlotInv'
<1>1. CodeChosen' /\ FrameInv'
  BY CodeStep, FrameStep DEF SlotInv
<1>2. WindowInv'
  <2>1. CASE UNCHANGED flash
    <3>1. WindowInv
      BY DEF SlotInv
    <3>2. \A c : Unfinished(flash, c) => Unfinished(flash', c)
      BY <2>1
    <3> QED BY <2>1, <3>1, <3>2 DEF WindowInv, Unfinished, PartOf
  <2>2. CASE RegionChange
    BY <2>2 DEF RegionChange, WindowInv, Unfinished, PartOf
  <2> QED BY <2>1, <2>2, RegionMoves DEF SlotInv
<1> QED BY <1>1, <1>2 DEF SlotInv

(* The gate accepts an unfinished image as its own binary or not at all.   *)
LEMMA UnfinishedHolds ==
    ASSUME NEW f, NEW c \in Codes, HeadErasedShows(c), Unfinished(f, c)
    PROVE  {d \in Codes : Holds(f, d)} = IF AppValid(f) THEN {c} ELSE {}
<1>1. CASE AppValid(f)
  <2>1. Payload(c)
    BY CodeIsPayload DEF Unfinished
  <2>2. PICK lo \in Nat, hi \in Nat : PartOf(f, c, lo, hi)
    BY DEF Unfinished
  <2>3. ReadCell(f, FooterBase + 1) = Len(c) /\ Prefix(f, Len(c)) = c
    BY <1>1, <2>1, <2>2, WindowBoots
  <2>4. \A d \in Codes : Holds(f, d) => d = c
    BY <2>3 DEF Holds
  <2>5. Holds(f, c)
    BY <1>1, <2>3 DEF Holds
  <2> QED BY <1>1, <2>4, <2>5
<1>2. CASE ~AppValid(f)
  BY <1>2 DEF Holds
<1> QED BY <1>1, <1>2

(* So a region that is blank or unfinished holds one binary at most, and   *)
(* one when it boots.                                                      *)
LEMMA WindowHolds ==
    ASSUME \A c \in Codes : HeadErasedShows(c), WindowInv
    PROVE  \/ Accepted = {} /\ ~AppValid(flash)
           \/ AppValid(flash) /\ \E c \in Codes : Accepted = {c}
<1>1. CASE flash = BlankFlash
  BY <1>1, BlankRefused DEF Accepted, Holds
<1>2. ASSUME NEW c \in Codes, Unfinished(flash, c)
      PROVE  Accepted = IF AppValid(flash) THEN {c} ELSE {}
  BY <1>2, UnfinishedHolds DEF Accepted
<1> QED BY <1>1, <1>2 DEF WindowInv

(* The device and the session do not move in one step.                     *)
LEMMA OneMoves ==
    ASSUME [UpdateNext]_all
    PROVE  UNCHANGED sessionVars \/ UNCHANGED mode
<1>1. CASE DevServe \/ DevGetsDamaged \/ DevSwallows \/ DevLoop \/ DevTick
           \/ DevReset \/ AppAsksForUpdate \/ AppIgnores \/ HostDropsLong
           \/ ReplyDamaged \/ Idle \/ UNCHANGED all
  BY <1>1 DEF DevServe, DevGetsDamaged, DevSwallows, DevLoop, DevTick, DevReset,
              AppAsksForUpdate, AppIgnores, HostDropsLong, ReplyDamaged, Idle, all
<1>2. CASE HostSend \/ HostWriteFails \/ HostReads \/ HostReadsFiller
           \/ HostScans \/ HostTimesOut \/ HostStarts
  BY <1>2 DEF HostSend, HostWriteFails, HostReads, HostReadsFiller, HostScans,
              HostTimesOut, HostStarts, ReplyRead, vars
<1> QED BY <1>1, <1>2 DEF UpdateNext, Host, Device

(* Every step of an update over a transactional link is a step of the slot *)
(* or none.                                                                *)
LEMMA SlotStep ==
    ASSUME Transactional, \A c \in Codes : HeadErasedShows(c),
           UpdateType, JumpGated, BusInv, FlashInv, SlotInv,
           UpdateType', JumpGated', BusInv', FlashInv', SlotInv', [UpdateNext]_all
    PROVE  [Slot!Next]_(Slot!slot)
<1> USE DEF Slot!Next, Slot!slot, Slot!Empty, Slot!Images
<1>1. WindowInv /\ WindowInv' /\ CodeChosen'
  BY DEF SlotInv
<1>2. CASE flash' # flash
  <2>1. RegionChange
    BY <1>1, <1>2, RegionMoves DEF SlotInv
  <2>2. mode = "boot" /\ mode' = "boot" /\ Reported = {} /\ Reported' = {}
    BY <2>1 DEF RegionChange, Reported
  <2>3. Accepted' = {} \/ (Accepted = {} /\ \E c \in Codes : Accepted' = {c})
        \/ Accepted' = Accepted
    <3>1. CASE flash' = BlankFlash
      BY <3>1, BlankRefused DEF Accepted, Holds
    <3>2. ASSUME NEW c \in Codes, Unfinished(flash, c), Unfinished(flash', c)
          PROVE  Accepted \in {{}, {c}} /\ Accepted' \in {{}, {c}}
      <4>1. Accepted = IF AppValid(flash) THEN {c} ELSE {}
        BY <3>2, UnfinishedHolds DEF Accepted
      <4>2. {d \in Codes : Holds(flash', d)} = IF AppValid(flash') THEN {c} ELSE {}
        BY <3>2, UnfinishedHolds
      <4> QED BY <4>1, <4>2 DEF Accepted, Holds
    <3> QED BY <2>1, <3>1, <3>2 DEF RegionChange
  <2>4. Slot!Lose \/ Slot!Gain \/ UNCHANGED <<Accepted, mode, Reported>>
    BY <2>2, <2>3 DEF Slot!Lose, Slot!Gain
  <2> QED BY <2>4
<1>3. CASE flash' = flash
  <2>1. Accepted' = Accepted /\ AppValid(flash)' = AppValid(flash)
    BY <1>3, GateOfRegion DEF Accepted, Holds
  <2>2. CASE UNCHANGED sessionVars
    <3>1. Reported' = Reported
      BY <2>2 DEF Reported, FlashSucceeded, sessionVars
    <3>2. CASE mode' = "app"
      <4>1. Accepted # {}
        BY <1>1, <2>1, <3>2, WindowHolds DEF JumpGated
      <4>2. Slot!Run
        BY <2>1, <3>1, <3>2, <4>1 DEF Slot!Run
      <4> QED BY <4>2
    <3>3. CASE mode' # "app"
      <4>1. Slot!Reset
        BY <2>1, <3>1, <3>3 DEF Slot!Reset
      <4> QED BY <4>1
    <3> QED BY <3>2, <3>3
  <2>3. CASE UNCHANGED mode
    <3>1. CASE FlashSucceeded'
      <4>1. /\ flash' = ImageOf(code') /\ Payload(code') /\ code' \in Codes
        BY <1>1, <3>1
           DEF FlashSucceeded, FlashInv, UpdateType, SessionType, CodeChosen
      <4>2. Accepted' = {code'} /\ Accepted = {code'}
        <5>1. Unfinished(ImageOf(code'), code')
          BY <4>1, ImageIsWindow DEF Payload
        <5>2. AppValid(ImageOf(code'))
          BY <4>1, ImageBoots
        <5>3. {d \in Codes : Holds(ImageOf(code'), d)} = {code'}
          BY <4>1, <5>1, <5>2, UnfinishedHolds
        <5> QED BY <1>3, <2>1, <4>1, <5>3 DEF Accepted
      <4>3. Reported' = {code'}
        BY <3>1 DEF Reported
      <4>4. Slot!Report
        BY <2>1, <2>3, <4>2, <4>3 DEF Slot!Report
      <4> QED BY <4>4
    <3>2. CASE ~FlashSucceeded'
      <4>1. Slot!NewJob
        BY <2>1, <2>3, <3>2 DEF Slot!NewJob, Reported
      <4> QED BY <4>1
    <3> QED BY <3>1, <3>2
  <2> QED BY <2>2, <2>3, OneMoves
<1> QED BY <1>2, <1>3

(* What holds throughout an update over a transactional link.              *)
LEMMA TransactionalInvariants ==
    ASSUME Transactional, InitialFlash \subseteq FactoryFlash
    PROVE  UpdateSpec => [](UpdateType /\ JumpGated /\ BusInv /\ FlashInv /\ SlotInv)
<1>1. UpdateInit => JumpGated /\ BusInv /\ FlashInv /\ SlotInv
  BY BusInit, SlotInvInit DEF UpdateInit, SessionInit, FlashInv, Init, JumpGated
<1>2. UpdateType /\ JumpGated /\ BusInv /\ FlashInv /\ SlotInv /\ [UpdateNext]_all
      => JumpGated' /\ BusInv' /\ FlashInv' /\ SlotInv'
  BY BusStep, FlashStep, SlotInvStep, JumpStep, UpdateIsDeviceStep DEF UpdateType
<1> QED BY <1>1, <1>2, UpdateTypeCorrect, PTL DEF UpdateSpec

(* Whatever is lost, damaged, late or cut, and wherever, an application    *)
(* that runs after updates over a transactional link is one of the         *)
(* binaries, whole: for every geometry and every CRC that shows an erased  *)
(* head, with a device that at first holds nothing or an image.            *)
THEOREM WholeImagesRun ==
    ASSUME Transactional, InitialFlash \subseteq FactoryFlash,
           \A c \in Codes : HeadErasedShows(c)
    PROVE  UpdateSpec => []OnlyWholeImagesRun
<1>1. JumpGated /\ SlotInv => OnlyWholeImagesRun
  <2> SUFFICES ASSUME JumpGated, SlotInv, mode = "app" PROVE OnlyWholeImagesRun
    BY DEF OnlyWholeImagesRun
  <2>1. PICK c \in Codes : Accepted = {c}
    BY WindowHolds DEF JumpGated, SlotInv
  <2>2. Holds(flash, c)
    BY <2>1 DEF Accepted
  <2> QED BY <2>2 DEF Holds, OnlyWholeImagesRun
<1> QED BY <1>1, TransactionalInvariants, PTL

(* Under the same hypotheses an update implements the one-image slot: all  *)
(* the detail of pages, frames, retries, resets and power cuts comes to an *)
(* image that is there, whole, or is not.                                  *)
THEOREM UpdateImplementsSlot ==
    ASSUME Transactional, InitialFlash \subseteq FactoryFlash,
           \A c \in Codes : HeadErasedShows(c)
    PROVE  UpdateSpec => OneImageSlot
<1> DEFINE Inv == UpdateType /\ JumpGated /\ BusInv /\ FlashInv /\ SlotInv
<1>1. UpdateInit /\ SlotInv => Slot!Init
  <2> SUFFICES ASSUME UpdateInit, SlotInv PROVE Slot!Init
    OBVIOUS
  <2>1. Accepted = {} \/ \E c \in Codes : Accepted = {c}
    BY WindowHolds DEF SlotInv
  <2>2. mode # "app" /\ Reported = {}
    BY DEF UpdateInit, Init, SessionInit, Reported, FlashSucceeded
  <2> QED BY <2>1, <2>2 DEF Slot!Init, Slot!Images, Slot!Empty
<1>2. Inv /\ Inv' /\ [UpdateNext]_all => [Slot!Next]_(Slot!slot)
  BY SlotStep
<1> QED
  BY <1>1, <1>2, TransactionalInvariants, PTL DEF UpdateSpec, OneImageSlot, Slot!Spec

-----------------------------------------------------------------------------
(* In a session that has not been reset, what the device answers to the    *)
(* frame of a flash job's exchange is OK.                                  *)
LEMMA ServeSaysOk ==
    ASSUME Transactional, UpdateType, BusInv, FlashInv, BudgetInv, DevServe,
           job = "flash", compatible, resets = 0, hpc = "wait"
    PROVE  rsp'.cmd = ask /\ rsp'.st = "OK"
<1>1. Head(toDev) = Request /\ Handle(Request) /\ Request.cmd = ask
  BY RequestIsFrame DEF DevServe, RecvFrame, BusInv, Asking
<1>2. Payload(code) /\ ask \in {"INFO", "ERASE", "WRITE", "VERIFY"} /\ mode = "boot"
  BY DEF UpdateType, SessionType, DevServe, RecvFrame, At
<1>3. CASE ask = "INFO"
  BY <1>1, <1>3 DEF Handle, HandleInfo
<1>4. CASE ask = "ERASE"
  BY <1>1, <1>4 DEF Handle, HandleErase, Answer, Request
<1>5. CASE ask = "WRITE"
  <2>1. HandleWrite(Request)
    BY <1>1, <1>5 DEF Handle
  <2>2. Request.full /\ Request.page \in Pages
    BY <1>5 DEF Request, UpdateType, SessionType
  <2>3. WriteStatus(Request) = "OK"
    BY <1>2, <1>5, <2>2 DEF WriteStatus, BudgetInv, Asking
  <2> QED BY <1>5, <2>1, <2>3 DEF HandleWrite, Answer
<1>6. CASE ask = "VERIFY"
  <2>1. HandleVerify(Request)
    BY <1>1, <1>6 DEF Handle
  <2>2. Request.full /\ Request.length = Len(code) /\ Request.crc = Crc(code)
    BY <1>6 DEF Request
  <2>3. FlashCrc(flash, Len(code)) = Crc(code)
    BY <1>2, <1>6, ImageBoots DEF FlashInv, Asking, FlashCrc
  <2>4. ~(RegionCells < FooterLen \/ Len(code) > FooterBase)
    BY <1>2, Geometry DEF FooterLen
  <2>5. VerifyStatus(Request) = "OK"
    BY <2>2, <2>3, <2>4 DEF VerifyStatus
  <2> QED BY <1>6, <2>1, <2>5 DEF HandleVerify, Answer
<1> QED BY <1>2, <1>3, <1>4, <1>5, <1>6

(* A retry or a failure is paid for: by a fault now, or by the one that    *)
(* left no acceptable answer.                                              *)
LEMMA RetryPaid ==
    ASSUME UpdateType, BudgetInv, Asking, NEW e, Retry(e),
           faults' = faults + 1 \/ (Answered /\ ~Confirmed /\ faults' = faults),
           resets' = resets, mode' = mode, erased' = erased
    PROVE  BudgetInv'
<1> SUFFICES ASSUME job' = "flash", compatible', resets' = 0, mode' = "boot"
             PROVE  BudgetInv'
  BY DEF BudgetInv
<1>1. /\ UNCHANGED <<job, code, ask, page, compatible, jobs>>
      /\ hpc' \in {"send", "failed"}
  BY RetryKeeps
<1>2. attempt + Unpaid <= faults /\ (ask = "WRITE" => erased)
  BY <1>1 DEF BudgetInv
<1>3. attempt \in Nat /\ faults \in Nat /\ RetryBudget \in Nat
  BY BudgetAssumption DEF UpdateType, SessionType
<1>4. attempt + 1 <= faults'
  BY <1>2, <1>3 DEF Unpaid
<1>5. ~Answered'
  BY <1>1 DEF Answered
<1>6. CASE attempt = RetryBudget
  BY <1>1, <1>3, <1>4, <1>5, <1>6 DEF Retry, Fail, BudgetInv, Asking
<1>7. CASE attempt # RetryBudget
  <2>1. hpc' = "send" /\ attempt' = attempt + 1
    BY <1>7 DEF Retry
  <2>2. Unpaid' = 0
    BY <1>5 DEF Unpaid
  <2>3. attempt' + Unpaid' <= faults'
    BY <1>3, <1>4, <2>1, <2>2
  <2> QED BY <1>1, <1>2, <1>5, <2>1, <2>3 DEF BudgetInv, Asking
<1> QED BY <1>6, <1>7

(* Every attempt spent is paid for by a fault of its own.                  *)
LEMMA BudgetStep ==
    ASSUME Transactional, UpdateType, BusInv, FlashInv, BudgetInv, [UpdateNext]_all
    PROVE  BudgetInv'
<1> SUFFICES ASSUME job' = "flash", compatible', resets' = 0, mode' = "boot"
             PROVE  BudgetInv'
  BY DEF BudgetInv
<1>1. /\ attempt \in Nat /\ faults \in Nat /\ RetryBudget \in Nat /\ resets \in Nat
      /\ Unpaid \in {0, 1}
  BY BudgetAssumption, MaxResetsAssumption
     DEF UpdateType, SessionType, TypeOK, Unpaid
<1>2. ~DevReset
  BY <1>1 DEF DevReset, PowerCycle, SoftReset, CutErase, CutWrite, Restart
<1>3. CASE DevServe
  <2>1. /\ UNCHANGED <<job, code, ask, page, hpc, attempt, compatible, faults>>
        /\ resets = 0 /\ mode = "boot"
    BY <1>3 DEF DevServe, sessionVars, RecvFrame, At
  <2>2. erased => erased'
    <3>1. Handle(Head(toDev))
      BY <1>3 DEF DevServe, RecvFrame
    <3> QED BY <3>1 DEF Handle, HandleInfo, HandleErase, HandleWrite, HandleVerify,
                        HandleBoot, HandleEcho, HandleUnknown
  <2>3. Answered' => Confirmed'
    BY <1>3, <2>1, ServeSaysOk DEF Answered, Confirmed
  <2>4. Unpaid' = 0
    BY <2>3 DEF Unpaid
  <2>5. Asking' => attempt' + Unpaid' <= faults'
    BY <1>1, <2>1, <2>4 DEF BudgetInv, Asking
  <2> QED BY <2>1, <2>2, <2>3, <2>5 DEF BudgetInv, Asking, Confirmed
<1>4. CASE DevGetsDamaged
  <2>1. /\ UNCHANGED <<job, code, ask, page, hpc, attempt, compatible, erased>>
        /\ resets = 0 /\ mode = "boot"
        /\ faults' = faults + 1
    BY <1>4 DEF DevGetsDamaged, Fault, sessionVars, RecvUnparseable, RecvDropped, At
  <2>2. rsp' = NoReply \/ rsp'.st = "BAD_FRAME"
    BY <1>4 DEF DevGetsDamaged, RecvUnparseable, RecvDropped, Answer
  <2>3. Unpaid' = 0 \/ Unpaid' = 1
    BY DEF Unpaid
  <2>4. Asking => attempt <= faults
    BY <1>1, <2>1 DEF BudgetInv
  <2>5. Asking' => attempt' + Unpaid' <= faults'
    <3>1. Asking' => attempt' \in Nat /\ attempt' <= faults
      BY <1>1, <2>1, <2>4 DEF Asking
    <3> QED BY <1>1, <2>1, <2>3, <3>1
  <2>6. rsp'.cmd = ask' => rsp'.st = "BAD_FRAME"
    BY <2>1, <2>2 DEF NoReply, UpdateType, SessionType
  <2> QED BY <1>1, <2>1, <2>5, <2>6 DEF BudgetInv, Asking
<1>5. CASE DevLoop \/ DevTick \/ AppAsksForUpdate \/ Idle \/ UNCHANGED all
  <2>1. /\ UNCHANGED <<job, code, ask, page, hpc, attempt, compatible, erased,
                       faults, resets, rsp, toDev>>
        /\ mode = "boot"
    BY <1>5
       DEF DevLoop, DevTick, AppAsksForUpdate, Idle, all, vars, sessionVars, link,
           RecvNothing, CheckBoot, CheckWindow, Tick, AppWritesEntryPair, At
  <2> QED BY <2>1 DEF BudgetInv, Asking, Answered, Confirmed, Unpaid
<1>6. ~AppIgnores
  BY DEF AppIgnores, vars
<1>7. CASE HostSend
  <2>1. /\ UNCHANGED <<vars, job, code, ask, page, attempt, compatible, faults>>
        /\ hpc = "send" /\ hpc' = "wait"
    BY <1>7 DEF HostSend, Sent
  <2>2. toDev' # <<>>
    BY <1>7 DEF HostSend, UpdateType, LinkType
  <2>3. ~Answered' /\ Unpaid' = 0
    BY <2>2 DEF Answered, Unpaid
  <2>4. attempt' + Unpaid' <= faults' /\ (ask = "WRITE" => erased)
    BY <1>1, <2>1, <2>3 DEF BudgetInv, Asking, vars
  <2> QED BY <2>1, <2>3, <2>4 DEF BudgetInv, Asking, vars
<1>8. CASE HostWriteFails
  BY <1>8, RetryPaid DEF HostWriteFails, Fault, vars, Asking
<1>9. CASE HostReadsFiller
  <2>1. Answered /\ ~Confirmed
    BY <1>9 DEF HostReadsFiller, BusFree, Answered, Confirmed, NoReply,
                UpdateType, SessionType
  <2> QED BY <1>9, <2>1, RetryPaid DEF HostReadsFiller, vars, link, Asking
<1>10. CASE HostTimesOut
  <2>1. ~AnswerToCome => Answered /\ ~Confirmed
    BY <1>10 DEF HostTimesOut, AnswerToCome, Answered, Confirmed, NoReply, vars,
                 UpdateType, SessionType
  <2> QED BY <1>10, <2>1, RetryPaid DEF HostTimesOut, Fault, vars, Asking
<1>11. CASE HostReads
  <2>1. /\ UNCHANGED <<flash, erased, resets, mode>> /\ Answered /\ Asking
        /\ resets = 0 /\ mode = "boot"
    BY <1>11 DEF HostReads, ReplyRead, At, Answered, Asking
  <2>2. CASE (Retry("BadFrame") \/ Retry("Transport")) /\ Fault
    BY <2>1, <2>2, RetryPaid DEF Fault
  <2>3. CASE Got(rsp) /\ faults' = faults /\ ~Confirmed
    <3>1. CASE rsp.cmd # ask
      BY <2>1, <2>3, <3>1, RetryPaid DEF Got
    <3>2. CASE rsp.cmd = ask /\ rsp.st = "BAD_FRAME"
      BY <2>1, <2>3, <3>2, RetryPaid DEF Got
    <3>3. CASE rsp.cmd = ask /\ rsp.st # "BAD_FRAME"
      <4>1. Fail("Device") /\ job = "flash" /\ compatible
        BY <2>1, <2>3, <3>3 DEF Got, Confirmed, Fail
      <4> QED BY <2>1, <2>3, <3>3, <4>1 DEF BudgetInv, Confirmed
    <3> QED BY <3>1, <3>2, <3>3
  <2>4. CASE Got(rsp) /\ faults' = faults /\ Confirmed
    <3>1. Accept /\ hpc = "wait"
      BY <2>4 DEF Got, Confirmed, Answered
    <3>2. job = "flash" /\ compatible
      BY <3>1, AcceptGoes DEF Fail
    <3>3. CASE hpc' = "ok"
      BY <3>3 DEF BudgetInv, Asking, Answered
    <3>4. CASE hpc' = "send" /\ attempt' = 0 /\ (ask' = "WRITE" => ask \in {"ERASE", "WRITE"})
      <4>1. ask' = "WRITE" => erased'
        BY <2>1, <2>4, <3>2, <3>4 DEF FlashInv, BudgetInv
      <4>2. ~Answered' /\ attempt' + Unpaid' <= faults'
        BY <1>1, <2>4, <3>4 DEF Answered, Unpaid
      <4> QED BY <3>4, <4>1, <4>2 DEF BudgetInv
    <3> QED BY <3>1, <3>2, <3>3, <3>4, AcceptGoes
  <2> QED BY <1>11, <2>2, <2>3, <2>4 DEF HostReads
<1>12. CASE HostStarts
  <2>1. hpc' = "send" /\ attempt' = 0 /\ faults' = faults /\ ask' = "INFO"
    BY <1>12, StartGoes DEF HostStarts
  <2>2. ~Answered' /\ attempt' + Unpaid' <= faults'
    BY <1>1, <2>1 DEF Answered, Unpaid
  <2> QED BY <2>1, <2>2 DEF BudgetInv
<1>13. ~(DevSwallows \/ HostDropsLong \/ HostScans \/ ReplyDamaged)
  BY DEF BusInv, DevSwallows, HostDropsLong, HostScans, ReplyDamaged
<1> QED
  BY <1>2, <1>3, <1>4, <1>5, <1>6, <1>7, <1>8, <1>9, <1>10, <1>11, <1>12, <1>13
     DEF UpdateNext, Host, Device

(* On a transactional link a flash job on a compatible device that stays   *)
(* in the bootloader fails only after more faults than RETRY_BUDGET: every *)
(* re-send is paid for by a fault of its own, whichever budget is chosen.  *)
THEOREM BudgetSuffices ==
    ASSUME Transactional
    PROVE  UpdateSpec => []BudgetCoversFaults
<1>1. UpdateInit => BusInv /\ FlashInv /\ BudgetInv
  BY BusInit DEF UpdateInit, SessionInit, FlashInv, BudgetInv
<1>2. UpdateType /\ BusInv /\ FlashInv /\ BudgetInv /\ [UpdateNext]_all
      => BusInv' /\ FlashInv' /\ BudgetInv'
  BY BusStep, FlashStep, BudgetStep
<1>3. BudgetInv => BudgetCoversFaults
  BY DEF BudgetInv, BudgetCoversFaults
<1> QED BY <1>1, <1>2, <1>3, UpdateTypeCorrect, PTL DEF UpdateSpec

-----------------------------------------------------------------------------
(* The byte stream.  Replies may answer an earlier request there; what     *)
(* VERIFY reports can still be relied on in the first job on the link.     *)
IsVerify(s, i) == s[i].cmd = "VERIFY"
CrcMatches == FlashCrc(flash, Len(code)) = Crc(code)

(* A VERIFY on the link is of this binary and only VERIFYs come behind it, *)
(* so that nothing changes what it has found in order.                     *)
VerifyInv ==
    /\ jobs = 0 => job = "none" /\ toDev = <<>> /\ toHost = <<>>
    /\ jobs <= 1 /\ job = "flash" =>
       /\ \A i \in 1 .. Len(toDev) : IsVerify(toDev, i) =>
            /\ ask = "VERIFY"
            /\ toDev[i] = [cmd |-> "VERIFY", full |-> TRUE,
                           length |-> Len(code), crc |-> Crc(code)]
            /\ \A j \in 1 .. Len(toDev) : i <= j => IsVerify(toDev, j)
       /\ \A i \in 1 .. Len(toHost) : IsVerify(toHost, i) =>
            /\ ask = "VERIFY"
            /\ \A j \in 1 .. Len(toDev) : IsVerify(toDev, j)
            /\ toHost[i].st = "OK" => CrcMatches
       /\ hpc = "ok" => /\ CrcMatches
                        /\ \A j \in 1 .. Len(toDev) : IsVerify(toDev, j)

(* The first job is in progress or over, and was to flash.                 *)
FirstFlash == jobs <= 1 /\ job = "flash"

(* Nothing but frames and replies that leave the link: the requests from   *)
(* the front, replies as they may, and no job ends.                        *)
LEMMA VerifyLess ==
    ASSUME UpdateType, VerifyInv,
           UNCHANGED <<flash, code, ask, job, jobs>>, hpc' = "ok" => hpc = "ok",
           toDev' \in {toDev, <<>>, Tail(toDev)},
           \/ toHost' = toHost
           \/ toHost # <<>> /\ toHost' = Tail(toHost)
           \/ \E n \in 1 .. Len(toHost) : toHost' = SubSeq(toHost, n + 1, Len(toHost)),
           toDev = <<>> => toDev' = <<>>
    PROVE  VerifyInv'
<1>1. toDev \in Seq(Frames) /\ toHost \in Seq(Replies)
  BY DEF UpdateType, LinkType
<1>2. /\ Len(toDev') \in Nat
      /\ \A i \in 1 .. Len(toDev') : \E d \in Nat :
            i + d \in 1 .. Len(toDev) /\ toDev'[i] = toDev[i + d]
            /\ \A j \in 1 .. Len(toDev') : j + d \in 1 .. Len(toDev)
                                           /\ toDev'[j] = toDev[j + d]
  <2>1. CASE toDev' = toDev
    BY <1>1, <2>1
  <2>2. CASE toDev' = <<>>
    BY <2>2
  <2>3. CASE toDev # <<>> /\ toDev' = Tail(toDev)
    BY <1>1, <2>3
  <2> QED BY <2>1, <2>2, <2>3
<1>3. \A i \in 1 .. Len(toHost') : \E k \in 1 .. Len(toHost) : toHost'[i] = toHost[k]
  <2>1. CASE toHost' = toHost
    BY <2>1
  <2>2. CASE toHost # <<>> /\ toHost' = Tail(toHost)
    BY <1>1, <2>2
  <2>3. ASSUME NEW n \in 1 .. Len(toHost), toHost' = SubSeq(toHost, n + 1, Len(toHost))
        PROVE  \A i \in 1 .. Len(toHost') : \E k \in 1 .. Len(toHost) :
                  toHost'[i] = toHost[k]
    <3>1. /\ Len(toHost) \in Nat
          /\ Len(toHost') = Len(toHost) - n
          /\ \A i \in 1 .. Len(toHost) - n : toHost'[i] = toHost[i + n]
      BY <1>1, <2>3
    <3>2. \A i \in 1 .. Len(toHost') : i + n \in 1 .. Len(toHost)
      BY <3>1
    <3> QED BY <3>1, <3>2
  <2> QED BY <2>1, <2>2, <2>3
<1>4. CrcMatches' = CrcMatches
  BY DEF CrcMatches, FlashCrc, Prefix, ReadCell
<1>5. jobs' = 0 => job' = "none" /\ toDev' = <<>> /\ toHost' = <<>>
  <2>1. toHost = <<>> => toHost' = <<>>
    BY <1>1
  <2> QED BY <2>1 DEF VerifyInv
<1>6. ASSUME FirstFlash PROVE VerifyInv'
  <2>1. ASSUME NEW i \in 1 .. Len(toDev'), IsVerify(toDev', i)
        PROVE  /\ ask = "VERIFY"
               /\ toDev'[i] = [cmd |-> "VERIFY", full |-> TRUE,
                               length |-> Len(code), crc |-> Crc(code)]
               /\ \A j \in 1 .. Len(toDev') : i <= j => IsVerify(toDev', j)
    <3>1. PICK d \in Nat : /\ i + d \in 1 .. Len(toDev) /\ toDev'[i] = toDev[i + d]
                           /\ \A j \in 1 .. Len(toDev') :
                                 j + d \in 1 .. Len(toDev) /\ toDev'[j] = toDev[j + d]
      BY <1>2
    <3>2. IsVerify(toDev, i + d)
      BY <2>1, <3>1 DEF IsVerify
    <3>3. \A j \in 1 .. Len(toDev) : i + d <= j => IsVerify(toDev, j)
      BY <1>6, <3>1, <3>2 DEF VerifyInv, FirstFlash
    <3>4. \A j \in 1 .. Len(toDev') : i <= j => i + d <= j + d
      BY <1>2
    <3>5. \A j \in 1 .. Len(toDev') : i <= j => IsVerify(toDev', j)
      BY <3>1, <3>3, <3>4 DEF IsVerify
    <3> QED BY <1>6, <3>1, <3>2, <3>5 DEF VerifyInv, FirstFlash
  <2>2. ASSUME \A j \in 1 .. Len(toDev) : IsVerify(toDev, j)
        PROVE  \A j \in 1 .. Len(toDev') : IsVerify(toDev', j)
    BY <1>2, <2>2 DEF IsVerify
  <2>3. ASSUME NEW i \in 1 .. Len(toHost'), IsVerify(toHost', i)
        PROVE  /\ ask = "VERIFY"
               /\ \A j \in 1 .. Len(toDev') : IsVerify(toDev', j)
               /\ toHost'[i].st = "OK" => CrcMatches
    <3>1. PICK k \in 1 .. Len(toHost) : toHost'[i] = toHost[k]
      BY <1>3
    <3>2. IsVerify(toHost, k)
      BY <2>3, <3>1 DEF IsVerify
    <3> QED BY <1>6, <2>2, <3>1, <3>2 DEF VerifyInv, FirstFlash
  <2>4. hpc' = "ok" => CrcMatches /\ \A j \in 1 .. Len(toDev') : IsVerify(toDev', j)
    BY <1>6, <2>2 DEF VerifyInv, FirstFlash
  <2> QED BY <1>4, <1>5, <2>1, <2>3, <2>4 DEF VerifyInv, IsVerify
<1>7. ASSUME ~FirstFlash PROVE VerifyInv'
  BY <1>5, <1>7 DEF VerifyInv, FirstFlash
<1> QED BY <1>6, <1>7

(* The device serves the next frame of the stream.                         *)
LEMMA VerifyServe ==
    ASSUME ~Transactional, UpdateType, VerifyInv, DevServe
    PROVE  VerifyInv'
<1>1. /\ toDev \in Seq(Frames) /\ toHost \in Seq(Replies) /\ toDev # <<>>
      /\ toDev' = Tail(toDev) /\ toHost' = Append(toHost, rsp')
      /\ Handle(Head(toDev)) /\ UNCHANGED <<job, code, ask, hpc, jobs>>
  BY DEF UpdateType, LinkType, DevServe, RecvFrame, sessionVars
<1>2. /\ Head(toDev) = toDev[1] /\ Len(toDev) \in Nat /\ 1 \in 1 .. Len(toDev)
      /\ Len(toDev') = Len(toDev) - 1
      /\ \A j \in 1 .. Len(toDev') : j + 1 \in 1 .. Len(toDev) /\ toDev'[j] = toDev[j + 1]
  BY <1>1
<1>3. /\ Len(toHost) \in Nat /\ Len(toHost') = Len(toHost) + 1
      /\ toHost'[Len(toHost) + 1] = rsp'
      /\ \A i \in 1 .. Len(toHost) : toHost'[i] = toHost[i]
  BY <1>1
<1>4. jobs' # 0
  BY <1>1 DEF VerifyInv
<1> SUFFICES ASSUME FirstFlash PROVE VerifyInv'
  BY <1>1, <1>4 DEF VerifyInv, FirstFlash
<1>5. ASSUME NEW i \in 1 .. Len(toDev'), IsVerify(toDev', i)
      PROVE  /\ ask = "VERIFY"
             /\ toDev'[i] = [cmd |-> "VERIFY", full |-> TRUE,
                             length |-> Len(code), crc |-> Crc(code)]
             /\ \A j \in 1 .. Len(toDev') : i <= j => IsVerify(toDev', j)
  <2>1. i + 1 \in 1 .. Len(toDev) /\ IsVerify(toDev, i + 1)
    BY <1>2, <1>5 DEF IsVerify
  <2>2. \A j \in 1 .. Len(toDev) : i + 1 <= j => IsVerify(toDev, j)
    BY <2>1 DEF VerifyInv, FirstFlash
  <2>3. \A j \in 1 .. Len(toDev') : i <= j => IsVerify(toDev', j)
    <3> SUFFICES ASSUME NEW j \in 1 .. Len(toDev'), i <= j PROVE IsVerify(toDev', j)
      OBVIOUS
    <3>1. j + 1 \in 1 .. Len(toDev) /\ i + 1 <= j + 1 /\ toDev'[j] = toDev[j + 1]
      BY <1>2
    <3> QED BY <2>2, <3>1 DEF IsVerify
  <2> QED BY <1>2, <2>1, <2>3 DEF VerifyInv, FirstFlash
<1>6. CASE Head(toDev).cmd = "VERIFY"
  <2>1. /\ ask = "VERIFY"
        /\ Head(toDev) = [cmd |-> "VERIFY", full |-> TRUE,
                          length |-> Len(code), crc |-> Crc(code)]
        /\ \A j \in 1 .. Len(toDev) : IsVerify(toDev, j)
    <3>1. IsVerify(toDev, 1) /\ \A j \in 1 .. Len(toDev) : 1 <= j
      BY <1>2, <1>6 DEF IsVerify
    <3> QED BY <1>2, <3>1 DEF VerifyInv, FirstFlash
  <2>2. \A j \in 1 .. Len(toDev') : IsVerify(toDev', j)
    BY <1>2, <2>1 DEF IsVerify
  <2>3. HandleVerify(Head(toDev))
    BY <1>1, <1>6 DEF Handle
  <2>4. UNCHANGED flash /\ rsp'.st = VerifyStatus(Head(toDev))
    BY <2>3 DEF HandleVerify, Answer
  <2>5. rsp'.st = "OK" => CrcMatches
    BY <2>1, <2>4 DEF VerifyStatus, CrcMatches
  <2>6. CrcMatches' = CrcMatches
    BY <1>1, <2>4 DEF CrcMatches, FlashCrc, Prefix, ReadCell
  <2>7. ASSUME NEW i \in 1 .. Len(toHost'), IsVerify(toHost', i)
        PROVE  toHost'[i].st = "OK" => CrcMatches
    <3>1. CASE i = Len(toHost) + 1
      BY <1>3, <2>5, <3>1
    <3>2. CASE i # Len(toHost) + 1
      <4>1. i \in 1 .. Len(toHost) /\ toHost'[i] = toHost[i]
        BY <1>3, <3>2
      <4> QED BY <2>7, <4>1 DEF VerifyInv, FirstFlash, IsVerify
    <3> QED BY <3>1, <3>2
  <2>8. hpc = "ok" => CrcMatches
    BY DEF VerifyInv, FirstFlash
  <2> QED BY <1>1, <1>4, <1>5, <2>1, <2>2, <2>6, <2>7, <2>8 DEF VerifyInv, IsVerify
<1>7. CASE Head(toDev).cmd # "VERIFY"
  <2>1. ~IsVerify(toDev, 1)
    BY <1>2, <1>7 DEF IsVerify
  <2>2. hpc # "ok" /\ \A i \in 1 .. Len(toHost) : ~IsVerify(toHost, i)
    BY <1>2, <2>1 DEF VerifyInv, FirstFlash
  <2>3. rsp'.cmd # "VERIFY"
    BY <1>1, <1>7 DEF Handle, HandleInfo, HandleErase, HandleWrite, HandleBoot,
                      HandleEcho, HandleUnknown, Answer
  <2>4. \A i \in 1 .. Len(toHost') : ~IsVerify(toHost', i)
    <3> SUFFICES ASSUME NEW i \in 1 .. Len(toHost') PROVE ~IsVerify(toHost', i)
      OBVIOUS
    <3>1. CASE i = Len(toHost) + 1
      BY <1>3, <2>3, <3>1 DEF IsVerify
    <3>2. CASE i # Len(toHost) + 1
      BY <1>3, <2>2, <3>2 DEF IsVerify
    <3> QED BY <3>1, <3>2
  <2> QED BY <1>1, <1>4, <1>5, <2>2, <2>4 DEF VerifyInv, IsVerify
<1> QED BY <1>6, <1>7

(* The host takes a reply off the stream and accepts it.                   *)
LEMMA VerifyAccept ==
    ASSUME ~Transactional, UpdateType, VerifyInv, HostScans, Accept,
           Head(toHost).cmd = ask, Head(toHost).st = "OK"
    PROVE  VerifyInv'
<1>1. /\ toHost \in Seq(Replies) /\ toHost # <<>> /\ hpc = "wait"
      /\ UNCHANGED <<flash, toDev>>
  BY DEF UpdateType, LinkType, HostScans, vars
<1>2. Head(toHost) = toHost[1] /\ 1 \in 1 .. Len(toHost)
  BY <1>1
<1>3. UNCHANGED <<job, code, jobs>> /\ jobs # 0
  BY <1>1 DEF Accept, Fail, VerifyInv
<1> SUFFICES ASSUME FirstFlash PROVE VerifyInv'
  BY <1>3 DEF VerifyInv, FirstFlash
<1>4. CrcMatches' = CrcMatches
  BY <1>1, <1>3 DEF CrcMatches, FlashCrc, Prefix, ReadCell
<1>5. \A i \in 1 .. Len(toHost') : \E k \in 1 .. Len(toHost) : toHost'[i] = toHost[k]
  <2>1. PICK n \in 1 .. Len(toHost) : toHost' = SubSeq(toHost, n + 1, Len(toHost))
    BY DEF HostScans
  <2>2. /\ Len(toHost) \in Nat
        /\ Len(toHost') = Len(toHost) - n
        /\ \A i \in 1 .. Len(toHost) - n : toHost'[i] = toHost[i + n]
    BY <1>1, <2>1
  <2>3. \A i \in 1 .. Len(toHost') : i + n \in 1 .. Len(toHost)
    BY <2>2
  <2> QED BY <2>2, <2>3
<1>6. CASE ask = "VERIFY"
  <2>1. ask' = "VERIFY"
    BY <1>6 DEF Accept
  <2>2. CrcMatches /\ \A j \in 1 .. Len(toDev) : IsVerify(toDev, j)
    <3>1. IsVerify(toHost, 1) /\ toHost[1].st = "OK"
      BY <1>2, <1>6 DEF IsVerify
    <3> QED BY <1>2, <3>1 DEF VerifyInv, FirstFlash
  <2> QED BY <1>1, <1>3, <1>4, <1>6, <2>1, <2>2 DEF VerifyInv, FirstFlash, IsVerify
<1>7. CASE ask # "VERIFY"
  <2>1. /\ \A i \in 1 .. Len(toDev) : ~IsVerify(toDev, i)
        /\ \A i \in 1 .. Len(toHost) : ~IsVerify(toHost, i)
    BY <1>7 DEF VerifyInv, FirstFlash
  <2>2. \A i \in 1 .. Len(toHost') : ~IsVerify(toHost', i)
    BY <1>5, <2>1 DEF IsVerify
  <2>3. hpc' # "ok"
    BY <1>1, <1>7, AcceptGoes DEF FirstFlash, UpdateType, SessionType, Fail
  <2> QED BY <1>1, <1>3, <2>1, <2>2, <2>3 DEF VerifyInv, IsVerify
<1> QED BY <1>6, <1>7

(* The host sends the request of its exchange.                             *)
LEMMA VerifySend ==
    ASSUME ~Transactional, UpdateType, VerifyInv, HostSend
    PROVE  VerifyInv'
<1>1. /\ toDev \in Seq(Frames) /\ toDev' = Append(toDev, Request) /\ hpc = "send"
      /\ UNCHANGED <<flash, toHost, job, code, ask, jobs>> /\ hpc' = "wait"
  BY DEF UpdateType, LinkType, HostSend, Sent, vars
<1>2. jobs # 0
  BY <1>1 DEF VerifyInv, UpdateType, SessionType
<1> SUFFICES ASSUME FirstFlash PROVE VerifyInv'
  BY <1>1, <1>2 DEF VerifyInv, FirstFlash
<1>3. /\ Len(toDev) \in Nat /\ Len(toDev') = Len(toDev) + 1
      /\ toDev'[Len(toDev) + 1] = Request
      /\ \A i \in 1 .. Len(toDev) : toDev'[i] = toDev[i]
  BY <1>1
<1>4. CrcMatches' = CrcMatches
  BY <1>1 DEF CrcMatches, FlashCrc, Prefix, ReadCell
<1>5. Request.cmd = ask
  BY <1>1, RequestIsFrame DEF Asking
<1>6. CASE ask = "VERIFY"
  <2>1. Request = [cmd |-> "VERIFY", full |-> TRUE,
                   length |-> Len(code), crc |-> Crc(code)]
    BY <1>6 DEF Request
  <2>2. IsVerify(toDev', Len(toDev) + 1)
    BY <1>3, <2>1 DEF IsVerify
  <2>3. ASSUME NEW i \in 1 .. Len(toDev'), IsVerify(toDev', i)
        PROVE  /\ toDev'[i] = [cmd |-> "VERIFY", full |-> TRUE,
                               length |-> Len(code), crc |-> Crc(code)]
               /\ \A j \in 1 .. Len(toDev') : i <= j => IsVerify(toDev', j)
    <3>1. CASE i = Len(toDev) + 1
      <4>1. \A j \in 1 .. Len(toDev') : i <= j => j = i
        BY <1>3, <3>1
      <4> QED BY <1>3, <2>1, <2>3, <3>1, <4>1
    <3>2. CASE i # Len(toDev) + 1
      <4>1. i \in 1 .. Len(toDev) /\ IsVerify(toDev, i)
        BY <1>3, <2>3, <3>2 DEF IsVerify
      <4>2. /\ toDev[i] = [cmd |-> "VERIFY", full |-> TRUE,
                           length |-> Len(code), crc |-> Crc(code)]
            /\ \A j \in 1 .. Len(toDev) : i <= j => IsVerify(toDev, j)
        BY <4>1 DEF VerifyInv, FirstFlash
      <4>3. \A j \in 1 .. Len(toDev') : j = Len(toDev) + 1 \/ j \in 1 .. Len(toDev)
        BY <1>3
      <4>4. \A j \in 1 .. Len(toDev) : IsVerify(toDev, j) => IsVerify(toDev', j)
        BY <1>3 DEF IsVerify
      <4> QED BY <1>3, <2>2, <4>1, <4>2, <4>3, <4>4
    <3> QED BY <3>1, <3>2
  <2>4. ASSUME \A j \in 1 .. Len(toDev) : IsVerify(toDev, j)
        PROVE  \A j \in 1 .. Len(toDev') : IsVerify(toDev', j)
    <3>1. \A j \in 1 .. Len(toDev') : j = Len(toDev) + 1 \/ j \in 1 .. Len(toDev)
      BY <1>3
    <3> QED BY <1>3, <2>2, <2>4, <3>1 DEF IsVerify
  <2>5. \A i \in 1 .. Len(toHost) : IsVerify(toHost, i) =>
           /\ \A j \in 1 .. Len(toDev') : IsVerify(toDev', j)
           /\ toHost[i].st = "OK" => CrcMatches
    BY <2>4 DEF VerifyInv, FirstFlash
  <2> QED BY <1>1, <1>2, <1>4, <1>6, <2>3, <2>5 DEF VerifyInv, IsVerify
<1>7. CASE ask # "VERIFY"
  <2>1. /\ \A i \in 1 .. Len(toDev) : ~IsVerify(toDev, i)
        /\ \A i \in 1 .. Len(toHost) : ~IsVerify(toHost, i)
    BY <1>7 DEF VerifyInv, FirstFlash
  <2>2. \A i \in 1 .. Len(toDev') : ~IsVerify(toDev', i)
    BY <1>3, <1>5, <1>7, <2>1 DEF IsVerify
  <2> QED BY <1>1, <1>2, <2>1, <2>2 DEF VerifyInv, IsVerify
<1> QED BY <1>6, <1>7

(* A reset or a power cut changes the region only under an ERASE or WRITE, *)
(* and none comes behind a VERIFY.                                         *)
LEMMA VerifyReset ==
    ASSUME ~Transactional, UpdateType, VerifyInv, DevReset
    PROVE  VerifyInv'
<1>1. /\ toDev \in Seq(Frames) /\ toDev' = <<>>
      /\ UNCHANGED <<job, code, ask, hpc, jobs, toHost>>
  BY DEF UpdateType, LinkType, DevReset, sessionVars
<1>2. CASE UNCHANGED flash
  BY <1>1, <1>2, VerifyLess
<1>3. CASE ~UNCHANGED flash
  <2>1. toDev # <<>> /\ Head(toDev).cmd # "VERIFY"
    BY <1>3 DEF DevReset, PowerCycle, SoftReset, CutErase, CutWrite
  <2>2. 1 \in 1 .. Len(toDev) /\ ~IsVerify(toDev, 1)
    BY <1>1, <2>1 DEF IsVerify
  <2>3. FirstFlash => hpc # "ok" /\ \A i \in 1 .. Len(toHost) : ~IsVerify(toHost, i)
    BY <2>2 DEF VerifyInv, FirstFlash
  <2> QED BY <1>1, <2>1, <2>3 DEF VerifyInv, FirstFlash, IsVerify
<1> QED BY <1>2, <1>3

(* What VERIFY has found stays so on a byte stream.                        *)
LEMMA VerifyStep ==
    ASSUME ~Transactional, UpdateType, VerifyInv, [UpdateNext]_all
    PROVE  VerifyInv'
<1>1. CASE DevServe
  BY <1>1, VerifyServe
<1>2. CASE DevReset
  BY <1>2, VerifyReset
<1>3. CASE HostSend
  BY <1>3, VerifySend
<1>4. CASE DevGetsDamaged \/ DevSwallows
  <2>1. /\ UNCHANGED <<flash, code, ask, job, jobs, hpc, toHost>>
        /\ toDev' = Tail(toDev) /\ toDev # <<>>
    BY <1>4 DEF DevGetsDamaged, DevSwallows, RecvNothing, sessionVars
  <2> QED BY <2>1, VerifyLess
<1>5. CASE AppIgnores \/ HostDropsLong \/ ReplyDamaged
  BY <1>5, VerifyLess
     DEF AppIgnores, HostDropsLong, ReplyDamaged, vars, sessionVars
<1>6. CASE DevLoop \/ DevTick \/ AppAsksForUpdate \/ Idle \/ UNCHANGED all
  <2>1. UNCHANGED <<flash, code, ask, job, jobs, hpc, toHost, toDev>>
    BY <1>6 DEF DevLoop, DevTick, AppAsksForUpdate, RecvNothing, CheckBoot,
                CheckWindow, Tick, AppWritesEntryPair, Idle, all, vars, link,
                sessionVars
  <2> QED BY <2>1, VerifyLess
<1>7. CASE HostTimesOut
  <2>1. /\ UNCHANGED <<flash, code, ask, job, jobs, toHost, toDev>>
        /\ hpc' \in {"send", "failed"}
    BY <1>7, RetryKeeps DEF HostTimesOut, vars
  <2> QED BY <2>1, VerifyLess
<1>8. CASE HostScans
  <2>1. \/ \E e : Retry(e) \/ Fail(e)
        \/ Head(toHost).cmd = ask /\ Head(toHost).st = "OK" /\ Accept
    BY <1>8 DEF HostScans, Got
  <2>2. ASSUME NEW e, Retry(e) \/ Fail(e) PROVE VerifyInv'
    <3>1. /\ UNCHANGED <<flash, code, ask, job, jobs, toDev>>
          /\ hpc' \in {"send", "failed"}
          /\ \E n \in 1 .. Len(toHost) : toHost' = SubSeq(toHost, n + 1, Len(toHost))
      BY <1>8, <2>2, RetryKeeps DEF HostScans, vars
    <3> QED BY <3>1, VerifyLess
  <2> QED BY <1>8, <2>1, <2>2, VerifyAccept
<1>9. CASE HostStarts
  <2>1. hpc' = "send" /\ toHost' = <<>> /\ toDev' = toDev /\ jobs' = jobs + 1
    BY <1>9, StartGoes DEF HostStarts
  <2>2. jobs \in Nat
    BY DEF UpdateType, SessionType
  <2>3. jobs' # 0 /\ (jobs' <= 1 => toDev' = <<>>)
    BY <2>1, <2>2 DEF VerifyInv
  <2> QED BY <2>1, <2>3 DEF VerifyInv
<1>10. ~(HostWriteFails \/ HostReads \/ HostReadsFiller)
  BY DEF HostWriteFails, HostReads, HostReadsFiller
<1> QED
  BY <1>1, <1>2, <1>3, <1>4, <1>5, <1>6, <1>7, <1>8, <1>9, <1>10
     DEF UpdateNext, Host, Device

(* The CRC tells the binary from what is in the region.                    *)
CrcTells == CrcMatches => Prefix(flash, Len(code)) = code

(* What a VERIFY answered OK is worth, on either link: in the first job on *)
(* a byte stream, and in every job on a transactional link, flash          *)
(* returning Ok means that the code is in place, for every CRC in every    *)
(* state in which it has no collision with what is in the region.          *)
THEOREM VerifyMeansInPlace ==
    UpdateSpec => [](Transactional \/ jobs <= 1 => (CrcTells => VerifiedCodeInPlace))
<1>1. CASE Transactional
  <2>1. UpdateSpec => []FlashedImageBoots
    BY <1>1, FlashMeansBootable
  <2>2. FlashedImageBoots => VerifiedCodeInPlace
    BY DEF FlashedImageBoots, VerifiedCodeInPlace
  <2> QED BY <2>1, <2>2, PTL
<1>2. CASE ~Transactional
  <2>1. UpdateInit => VerifyInv
    BY DEF UpdateInit, SessionInit, VerifyInv
  <2>2. UpdateType /\ VerifyInv /\ [UpdateNext]_all => VerifyInv'
    BY <1>2, VerifyStep
  <2>3. VerifyInv => (Transactional \/ jobs <= 1 => (CrcTells => VerifiedCodeInPlace))
    BY <1>2 DEF VerifyInv, VerifiedCodeInPlace, FlashSucceeded, CrcTells
  <2> QED BY <2>1, <2>2, <2>3, UpdateTypeCorrect, PTL DEF UpdateSpec
<1> QED BY <1>1, <1>2
=============================================================================
