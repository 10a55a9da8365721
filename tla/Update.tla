------------------------------- MODULE Update -------------------------------
(***************************************************************************)
(* Host, link and device together.  The host runs flash and boot jobs, the *)
(* link loses, damages and delays frames, the device may lose power at any *)
(* moment, inside a flash operation included.                              *)
(*                                                                         *)
(* Transactional link (I2C): the host writes one frame, the device holds   *)
(* the bus until it has answered, the host reads the reply the device has  *)
(* armed; a write replaces an unread reply.  Byte stream (UART): frames    *)
(* and replies queue up in both directions; the host does not discard what *)
(* is already in its receive buffer before it sends, and a damaged frame   *)
(* may leave the device's receiver inside it, where it swallows the frames *)
(* that follow (LinkStream models why).                                    *)
(***************************************************************************)
EXTENDS Bootloader, Session

CONSTANT MaxFaults   \* bound on lost, damaged or late frames

ASSUME MaxFaultsAssumption == MaxFaults \in Nat

VARIABLES
    toDev,    \* request frames on their way
    toHost,   \* stream only: replies on their way
    midFrame, \* stream only: the device's receiver is inside a damaged frame
    faults    \* counts faults, for MaxFaults

link == <<toDev, toHost, midFrame, faults>>
all  == <<vars, sessionVars, link>>

UpdateInit ==
    /\ Init /\ SessionInit
    /\ toDev = <<>> /\ toHost = <<>> /\ midFrame = FALSE
    /\ faults = 0

Fault == faults < MaxFaults /\ faults' = faults + 1

-----------------------------------------------------------------------------
(* The device takes the next frame off the link and answers it.            *)
DevServe ==
    /\ toDev # <<>> /\ ~midFrame
    /\ RecvFrame(Head(toDev))
    /\ toDev' = Tail(toDev)
    /\ toHost' = IF Transactional THEN toHost ELSE Append(toHost, rsp')
    /\ UNCHANGED <<sessionVars, midFrame, faults>>

(* The frame was damaged on the way: answered BAD_FRAME or, when it came   *)
(* out empty or oversized, not at all on a transactional link, dropped by  *)
(* link_poll on a stream.                                                  *)
DevGetsDamaged ==
    /\ toDev # <<>> /\ ~midFrame
    /\ Fault
    /\ toDev' = Tail(toDev)
    /\ IF Transactional
       THEN /\ \/ \E c \in {Head(toDev).cmd, "OTHER"} : RecvUnparseable(c)
               \/ RecvDropped
            /\ UNCHANGED midFrame
       ELSE RecvNothing /\ midFrame' \in BOOLEAN
    /\ UNCHANGED <<sessionVars, toHost>>

(* A receiver inside a frame takes the sync of the next one for a frame    *)
(* byte, so that one is lost too, and maybe more.                          *)
DevSwallows ==
    /\ toDev # <<>> /\ midFrame
    /\ toDev' = Tail(toDev)
    /\ RecvNothing
    /\ midFrame' \in BOOLEAN
    /\ UNCHANGED <<sessionVars, toHost, faults>>

(* The running application takes no updater frames.                        *)
AppIgnores ==
    /\ mode = "app" /\ toDev # <<>>
    /\ toDev' = <<>>
    /\ UNCHANGED <<vars, sessionVars, toHost, midFrame, faults>>

DevLoop ==
    /\ RecvNothing \/ CheckBoot \/ CheckWindow
    /\ UNCHANGED <<sessionVars, link>>

DevTick == Tick /\ UNCHANGED <<sessionVars, link>>

(* A reset drops what the device had not taken yet; power may fail inside  *)
(* the flash operation of the frame it is serving.                         *)
DevReset ==
    /\ \/ PowerCycle \/ SoftReset
       \/ /\ toDev # <<>>
          /\ \/ \E p \in Pages, h \in 0 .. PageSize : CutErase(Head(toDev), p, h)
             \/ \E h \in 0 .. PageSize : CutWrite(Head(toDev), h)
    /\ toDev' = <<>> /\ midFrame' = FALSE
    /\ UNCHANGED <<sessionVars, toHost, faults>>

AppAsksForUpdate == AppWritesEntryPair /\ UNCHANGED <<sessionVars, link>>

-----------------------------------------------------------------------------
(* Transport::request, the write half.  An I2C write needs a device that   *)
(* acknowledges and is not still holding the bus for the last frame.       *)
BusFree == mode = "boot" /\ toDev = <<>>

HostSend ==
    /\ Transactional => BusFree
    /\ Sent
    /\ toDev' = Append(toDev, Request)
    /\ UNCHANGED <<vars, toHost, midFrame, faults>>

HostWriteFails ==
    /\ Transactional /\ ~BusFree
    /\ hpc = "send"
    /\ Retry("Transport")
    /\ IF mode = "boot" THEN Fault ELSE UNCHANGED faults
    /\ UNCHANGED <<vars, toDev, toHost, midFrame>>

(* The read half on I2C: the device's armed reply, intact, damaged, or     *)
(* clocked out by a read that failed on the host's side.                   *)
HostReads ==
    /\ Transactional /\ toDev = <<>>
    /\ hpc = "wait"
    /\ \/ Got(rsp) /\ UNCHANGED faults
       \/ (Retry("BadFrame") \/ Retry("Transport")) /\ Fault
    /\ ReplyRead
    /\ UNCHANGED <<toDev, toHost, midFrame>>

(* A bootloader with nothing armed, because it has dropped the write or    *)
(* restarted since, answers a read with filler, which does not decode.     *)
HostReadsFiller ==
    /\ Transactional /\ BusFree
    /\ hpc = "wait" /\ rsp = NoReply
    /\ Retry("BadFrame")
    /\ UNCHANGED <<vars, link>>

(* The receive window of an exchange is as long as its own reply: the      *)
(* scanner drops a longer one, which only INFO's is, at its length byte.   *)
TooLong(reply) == reply.cmd = "INFO" /\ ask # "INFO"

HostDropsLong ==
    /\ ~Transactional
    /\ hpc = "wait" /\ toHost # <<>>
    /\ TooLong(Head(toHost))
    /\ toHost' = Tail(toHost)
    /\ UNCHANGED <<vars, sessionVars, toDev, midFrame, faults>>

(* The read half on a stream: the first valid frame in the receive buffer, *)
(* whichever request it answers; frames that arrived in the same chunk are *)
(* thrown away with the rest of the chunk.                                 *)
HostScans ==
    /\ ~Transactional
    /\ hpc = "wait" /\ toHost # <<>>
    /\ ~TooLong(Head(toHost))
    /\ Got(Head(toHost))
    /\ \E n \in 1 .. Len(toHost) : toHost' = SubSeq(toHost, n + 1, Len(toHost))
    /\ UNCHANGED <<vars, toDev, midFrame, faults>>

(* A damaged reply is dropped by the scanner, with replies behind it when  *)
(* it declares too long a frame.                                           *)
ReplyDamaged ==
    /\ Fault
    /\ \E n \in 1 .. Len(toHost) : toHost' = SubSeq(toHost, n + 1, Len(toHost))
    /\ UNCHANGED <<vars, sessionVars, toDev, midFrame>>

(* The poll budget runs out.  With an answer still to come that is a       *)
(* timeout racing a late answer, which counts as a fault.                  *)
AnswerToCome ==
    \/ toHost # <<>>
    \/ mode = "boot" /\ (toDev # <<>> \/ (Transactional /\ rsp # NoReply))

HostTimesOut ==
    /\ hpc = "wait"
    /\ Retry("Transport")
    /\ IF AnswerToCome THEN Fault ELSE UNCHANGED faults
    /\ UNCHANGED <<vars, toDev, toHost, midFrame>>

(* A job is a new run of the tool: opening the port flushes its input.     *)
HostStarts ==
    /\ \/ \E c \in Codes : Fits(c) /\ StartJob("flash", c)
       \/ StartJob("boot", <<>>)
    /\ toHost' = <<>>
    /\ UNCHANGED <<vars, toDev, midFrame, faults>>

Idle == hpc \in {"ok", "failed"} /\ jobs = MaxJobs /\ UNCHANGED all

-----------------------------------------------------------------------------
Host ==
    \/ HostSend \/ HostWriteFails
    \/ HostReads \/ HostReadsFiller \/ HostDropsLong \/ HostScans
    \/ HostTimesOut

Device == DevServe \/ DevLoop \/ DevTick

UpdateNext ==
    \/ Host \/ HostStarts \/ Device
    \/ DevReset \/ AppAsksForUpdate \/ AppIgnores
    \/ DevGetsDamaged \/ DevSwallows \/ ReplyDamaged
    \/ Idle

UpdateSpec == UpdateInit /\ [][UpdateNext]_all

(* The host blocks only for a bounded time; the device runs its loop, and  *)
(* its polls do see a frame that stays on the link.                        *)
UpdateFairSpec ==
    /\ UpdateSpec
    /\ SF_all(Host)
    /\ WF_all(DevLoop) /\ SF_all(DevServe) /\ SF_all(DevSwallows)
-----------------------------------------------------------------------------
FlashSucceeded == job = "flash" /\ hpc = "ok"

(* What Session::flash returning Ok is taken to mean (campaigns.rs and     *)
(* stream.rs assert it): the image is in place and the boot gate accepts   *)
(* it, whatever was lost, damaged, late or cut on the way.                 *)
FlashedImageBoots ==
    FlashSucceeded => AppValid(flash) /\ Prefix(flash, Len(code)) = code

(* The weaker promise VERIFY alone makes: the code itself is in place.     *)
VerifiedCodeInPlace ==
    FlashSucceeded => Prefix(flash, Len(code)) = code

(* No brick and no mix: an application that runs is one of the binaries,   *)
(* whole, never what an interrupted update left.                           *)
OnlyWholeImagesRun ==
    mode = "app" => \E c \in Codes :
        /\ Prefix(flash, Len(c)) = c
        /\ ReadCell(flash, FooterBase + 1) = Len(c)

(* The refinement mapping: the binaries that the boot gate accepts the     *)
(* region as, whole, and what a flash job that ended well has said.        *)
Holds(f, c) ==
    /\ AppValid(f)
    /\ ReadCell(f, FooterBase + 1) = Len(c)
    /\ Prefix(f, Len(c)) = c

Accepted == {c \in Codes : Holds(flash, c)}
Reported == IF FlashSucceeded THEN {code} ELSE {}

Slot == INSTANCE ImageSlot
    WITH image <- Accepted, running <- (mode = "app"), reported <- Reported

(* On a transactional link an update implements a slot for one image: a    *)
(* mix of two binaries is never accepted, nothing replaces an image before *)
(* it is gone, and what flash reported stays installed.                    *)
OneImageSlot == Slot!Spec

(* The version and geometry gates: a host that finds an incompatible       *)
(* device never erases or writes it.                                       *)
IncompatibleUntouched == [][~compatible => flash' = flash]_flash

(* On a transactional link RETRY_BUDGET re-sends repair as many faults: a  *)
(* flash job on a device that stays in the bootloader fails only after     *)
(* more faults than that.                                                  *)
BudgetCoversFaults ==
    job = "flash" /\ hpc = "failed" /\ compatible /\ resets = 0 /\ mode = "boot"
    => faults > RetryBudget

(* What `updater-cli boot` says of every outcome but a lost ACK: a refusal *)
(* means the device did not boot.                                          *)
RefusalIsRefusal ==
    job = "boot" /\ hpc = "failed" /\ BootReport = "BOOT refused" /\ resets = 0
    => mode # "app"

(* Every job ends: the retry budget bounds it even when nothing answers.   *)
JobsEnd == (hpc \in {"send", "wait"}) ~> (hpc \in {"ok", "failed"})
=============================================================================
