------------------------------ MODULE SpiLink ------------------------------
(***************************************************************************)
(* An update over SPI, byte exchange by byte exchange: the host's          *)
(* SpiTransport::request (host/updater-eh/src/spi.rs) under the session's  *)
(* retries, and the device's spi_pump (device/ports/skeletons/spi_pump.c)  *)
(* with the receiver of link_stream.c and a main loop around it, used as   *)
(* spi_pump.h prescribes.                                                  *)
(*                                                                         *)
(* The host's clock moves a byte in each direction at once.  What the host *)
(* sees is the byte the device staked before; what it sends waits in the   *)
(* device's data register until the pump runs.  A host that is faster than *)
(* the pump overruns the register: a byte is lost and the staked byte is   *)
(* seen again.                                                             *)
(***************************************************************************)
EXTENDS Framing

CONSTANTS
    Job,           \* the requests of a job: a sequence of frames
    Reply(_),      \* the device's reply to a request, of status OK
    BootCmd,       \* UPD_CMD_BOOT
    TxCap,         \* spi_pump_t.tx_cap
    PollAttempts,  \* SpiTransport::poll_attempts, at least 1
    RetryBudget    \* RETRY_BUDGET of session.rs

IdleByte == 0      \* SPI_PUMP_IDLE, and what the host clocks out to read

ASSUME JobAssumption ==
    /\ Job \in Seq(Seq(Byte)) /\ Job # <<>>
    /\ \A i \in DOMAIN Job : /\ FrameParse(Job[i]) /\ FrameParse(Reply(Job[i]))
                             /\ Reply(Job[i]) \in Seq(Byte)
                             /\ Reply(Job[i])[1] = Job[i][1]

(* The buffers hold the frames of the job, the reply queue a sync byte     *)
(* more (spi_pump.h: "size it sync + largest response frame").             *)
ASSUME BuffersAssumption ==
    \A i \in DOMAIN Job : /\ Len(Job[i]) <= BufLen
                          /\ Len(Reply(Job[i])) <= HostBufLen
                          /\ Len(Reply(Job[i])) <= FrameMax
                          /\ Len(Reply(Job[i])) < TxCap
ASSUME LimitsAssumption ==
    TxCap \in Nat /\ PollAttempts \in Nat \ {0} /\ RetryBudget \in Nat
ASSUME IdleAssumption == Sync # IdleByte

VARIABLES
    rx,                \* the data register: << >> or the byte received
    stake,             \* the byte the next exchange shifts out
    stakedFromQueue,   \* it is a byte of a reply
    txBuf, txIdx,      \* the reply queue and how much of it has been staked
    link,              \* the device's receiver
    pc,                \* the device's loop: "poll", "serve", "app"
    req,               \* the request it serves
    bootPending,       \* upd_session_t.boot_pending
    step,              \* the exchange the host is in, an index into Job
    hpc,               \* "send", "poll", "done", "failed"
    sent,              \* bytes of the request clocked out
    scanner, attempts, \* SpiTransport::request's locals
    tries,             \* re-sends made in this exchange
    executed,          \* history: requests served since the exchange began
    fresh, unsent,     \* history: the staked byte is of the latest reply and
                       \* has not been clocked; bytes of it not yet clocked
    faulted            \* history: a byte was lost or the bus reported an error

pump    == <<txBuf, txIdx, stake, stakedFromQueue>>
device  == <<pump, link, pc, req, bootPending, executed>>
host    == <<step, hpc, sent, scanner, attempts, tries>>
history == <<fresh, unsent, faulted>>
vars    == <<rx, device, host, history>>

Init ==
    /\ rx = <<>> /\ stake = IdleByte /\ stakedFromQueue = FALSE
    /\ txBuf = <<>> /\ txIdx = 0
    /\ link = Hunting /\ pc = "poll" /\ req = <<>> /\ bootPending = FALSE
    /\ step = 1 /\ hpc = "send" /\ sent = 0
    /\ scanner = Hunting /\ attempts = 0 /\ tries = 0
    /\ executed = {} /\ fresh = FALSE /\ unsent = 0
    /\ faulted = FALSE

-----------------------------------------------------------------------------
(* One exchange: mosi reaches the register, or is lost, or displaces the   *)
(* byte the pump has not taken.                                            *)
Exchange(mosi) ==
    /\ rx' \in IF rx = <<>> THEN {<<mosi>>} ELSE {rx, <<mosi>>}
    /\ fresh' = FALSE
    /\ unsent' = IF fresh THEN unsent - 1 ELSE unsent
    /\ faulted' = (faulted \/ rx # <<>>)

(* The session: send the same request again, or give up.                   *)
Retry ==
    /\ IF tries < RetryBudget
       THEN tries' = tries + 1 /\ hpc' = "send" /\ sent' = 0
       ELSE hpc' = "failed" /\ UNCHANGED <<tries, sent>>
    /\ UNCHANGED step

(* The next request is another exchange.                                   *)
Proceed ==
    /\ step' = step + 1
    /\ hpc' = IF step = Len(Job) THEN "done" ELSE "send"
    /\ sent' = 0 /\ tries' = 0

Wire == <<Sync>> \o Job[step]

(* Sync and request in one transaction, without a pause between bytes.     *)
HostSends ==
    /\ hpc = "send"
    /\ Exchange(Wire[sent + 1])
    /\ sent' = sent + 1
    /\ hpc' = IF sent + 1 = Len(Wire) THEN "poll" ELSE "send"
    /\ scanner' = Hunting /\ attempts' = 0
    /\ UNCHANGED <<device, step, tries>>

(* Faulty variant: only dropped frames are counted.                        *)
CountedDropsOnly(scan) == IF scanner.inFrame /\ ~scan.inFrame THEN attempts + 1 ELSE attempts

Counted(scan) == IF scan.inFrame THEN attempts ELSE attempts + 1
Spent(n) == n >= PollAttempts

(* Faulty variant: any valid frame is taken for the reply.                 *)
MatchesAny(reply) == TRUE

(* validate: the reply names the request's command.                        *)
Matches(reply) == reply[1] = Job[step][1]

(* Clock an idle byte and scan what comes back.  Bytes that are not part   *)
(* of a frame count as attempts.                                           *)
HostPolls ==
    /\ hpc = "poll"
    /\ Exchange(IdleByte)
    /\ scanner' = ScanByte(scanner, stake)
    /\ UNCHANGED <<pump, link, pc, req, bootPending>>
    /\ IF ScanDone(scanner, stake)
       THEN IF Matches(scanner.buf)
            THEN Proceed /\ executed' = {} /\ UNCHANGED attempts
            ELSE Retry /\ UNCHANGED <<attempts, executed>>
       ELSE /\ attempts' = Counted(scanner')
            /\ IF Spent(attempts')
               THEN Retry
               ELSE UNCHANGED <<step, hpc, sent, tries>>
            /\ UNCHANGED executed

(* The bus reports an error (SpiTransportError::Write and Read).           *)
HostBusError ==
    /\ hpc \in {"send", "poll"}
    /\ Retry
    /\ faulted' = TRUE
    /\ UNCHANGED <<rx, device, scanner, attempts, fresh, unsent>>

-----------------------------------------------------------------------------
Queued == txIdx < Len(txBuf)

(* Faulty variant: spi_pump_tx_clear is not called.                        *)
DevPumpsNoClear ==
    /\ pc = "poll" /\ rx # <<>>
    /\ rx' = <<>>
    /\ stake' = IF Queued THEN txBuf[txIdx + 1] ELSE IdleByte
    /\ stakedFromQueue' = Queued
    /\ link' = LinkByte(link, rx[1])
    /\ txIdx' = IF Queued THEN txIdx + 1 ELSE txIdx
    /\ fresh' = Queued
    /\ IF LinkDelivers(link, rx[1])
       THEN pc' = "serve" /\ req' = link'.buf
       ELSE UNCHANGED <<pc, req>>
    /\ UNCHANGED <<txBuf, unsent, bootPending, executed, host, faulted>>

(* pump_get, link_poll's byte, and spi_pump_tx_clear when it completes a   *)
(* request.                                                                *)
DevPumps ==
    /\ pc = "poll" /\ rx # <<>>
    /\ rx' = <<>>
    /\ stake' = IF Queued THEN txBuf[txIdx + 1] ELSE IdleByte
    /\ stakedFromQueue' = Queued
    /\ link' = LinkByte(link, rx[1])
    /\ IF LinkDelivers(link, rx[1])
       THEN /\ pc' = "serve" /\ req' = link'.buf
            /\ txBuf' = <<>> /\ txIdx' = 0
            /\ fresh' = FALSE /\ unsent' = 0
       ELSE /\ txIdx' = IF Queued THEN txIdx + 1 ELSE txIdx
            /\ fresh' = Queued
            /\ UNCHANGED <<pc, req, txBuf, unsent>>
    /\ UNCHANGED <<bootPending, executed, host, faulted>>

(* pump_put: what does not fit is dropped.                                 *)
Put(buf, bytes) ==
    LET all == buf \o bytes
    IN IF Len(all) <= TxCap THEN all ELSE SubSeq(all, 1, TxCap)

(* The handler runs, however long it takes, and link_send queues a reply.  *)
DevServes ==
    /\ pc = "serve"
    /\ pc' = "poll"
    /\ executed' = executed \cup {req}
    /\ bootPending' = (bootPending \/ req[1] = BootCmd)
    /\ txBuf' = Put(txBuf, <<Sync>> \o Reply(req))
    /\ fresh' = FALSE /\ unsent' = 1 + Len(Reply(req))
    /\ UNCHANGED <<rx, stake, stakedFromQueue, txIdx, link, req, host, faulted>>

(* Faulty variant: the queue is empty, so the reply is out.                *)
TxIdleQueueOnly == txIdx = Len(txBuf)

(* spi_pump_tx_idle: no byte of a reply is queued or staked.               *)
TxIdle == txIdx = Len(txBuf) /\ ~stakedFromQueue

DevJumps ==
    /\ pc = "poll" /\ bootPending /\ TxIdle
    /\ pc' = "app"
    /\ UNCHANGED <<rx, pump, link, req, bootPending, executed, host, history>>

-----------------------------------------------------------------------------
Host   == HostSends \/ HostPolls
Device == DevPumps \/ DevServes \/ DevJumps

Rests == hpc \in {"done", "failed"} /\ UNCHANGED vars

Next == Host \/ HostBusError \/ Device \/ Rests

(* The host runs; nothing is assumed of the device.                        *)
FairSpec == Init /\ [][Next]_vars /\ WF_vars(Host)
-----------------------------------------------------------------------------
(* An acknowledged request has been carried out: also when the device was  *)
(* late and the host has sent again, when bytes were lost, and when a half *)
(* read reply was abandoned, a reply the host takes answers this request   *)
(* and not an earlier one of the same command (a new request clears the    *)
(* queue, and its bytes clock the stale reply's sync out).                 *)
AckMeansDone == [][step' # step => Job[step] \in executed]_vars

(* The device leaves for the application only when the whole reply to BOOT *)
(* has been on the wire (spi_pump_tx_idle).                                *)
BootAfterReply == pc = "app" => unsent = 0

(* A pump that keeps up with the host is enough: unless a byte was lost or *)
(* the bus failed, no request runs out of attempts, the one-byte lag of    *)
(* every reply included.                                                   *)
PacedSucceeds == hpc = "failed" => faulted

(* Every job ends, whatever the device does or fails to do: bytes that are *)
(* no frame use up the attempts, and a frame cannot go on for ever.        *)
JobEnds == <>(hpc \in {"done", "failed"})
=============================================================================
