-------------------------- MODULE SpiLink_proofs --------------------------
(***************************************************************************)
(* The SPI pump, for every job, every size of its buffers and every pace   *)
(* of host and device: the application never starts before the reply to    *)
(* BOOT is out, and a pump that keeps up serves every request at the first *)
(* attempt.                                                                *)
(***************************************************************************)
EXTENDS SpiLink, TLAPS

(* The replies to whatever parses fit the queue, as spi_pump.h demands.    *)
RepliesFit ==
    \A r \in Seq(Byte) :
        FrameParse(r) => Reply(r) \in Seq(Byte) /\ Len(Reply(r)) < TxCap

SpiType ==
    /\ step \in Nat /\ sent \in Nat /\ attempts \in Nat /\ tries \in Nat
    /\ hpc \in {"send", "poll", "done", "failed"}
    /\ hpc \in {"send", "poll"} => step \in DOMAIN Job
    /\ hpc = "send" => sent < Len(Wire)
    /\ pc \in {"poll", "serve", "app"}
    /\ rx = <<>> \/ \E b \in Byte : rx = <<b>>
    /\ link \in [inFrame : BOOLEAN, buf : Seq(Byte)]
    /\ req \in Seq(Byte) /\ (pc = "serve" => FrameParse(req))
    /\ txBuf \in Seq(Byte) /\ txIdx \in Nat
    /\ faulted \in BOOLEAN

(* What is still to come of the latest reply: the queue, and the staked    *)
(* byte until it is clocked.  A request that is served finds the queue     *)
(* cleared, so no reply is ever cut off behind another.                    *)
QueueInv ==
    /\ fresh \in BOOLEAN /\ (fresh => stakedFromQueue /\ rx = <<>>)
    /\ pc = "serve" => txBuf = <<>>
    /\ txIdx <= Len(txBuf)
    /\ ~fresh => unsent = Len(txBuf) - txIdx
    /\ fresh => unsent = (Len(txBuf) - txIdx) + 1
    /\ BootAfterReply

-----------------------------------------------------------------------------
(* A request on the wire: the sync byte, then the frame.                   *)
LEMMA WireIs ==
    ASSUME step \in DOMAIN Job
    PROVE  /\ Job[step] \in Seq(Byte) /\ Len(Job[step]) \in Nat /\ Len(Job[step]) >= 3
           /\ Wire \in Seq(Byte) /\ Len(Wire) = Len(Job[step]) + 1 /\ Wire[1] = Sync
           /\ \A i \in 1 .. Len(Job[step]) : Wire[i + 1] = Job[step][i]
<1>1. Job[step] \in Seq(Byte) /\ Len(Job[step]) >= 3
  BY JobAssumption DEF FrameParse, Overhead
<1>2. <<Sync>> \in Seq(Byte) /\ Len(<<Sync>>) = 1
  BY SyncAssumption
<1> QED BY <1>1, <1>2 DEF Wire

(* One byte into the device's receiver.                                    *)
LEMMA LinkByteType ==
    ASSUME NEW l \in [inFrame : BOOLEAN, buf : Seq(Byte)], NEW b \in Byte
    PROVE  /\ LinkByte(l, b) \in [inFrame : BOOLEAN, buf : Seq(Byte)]
           /\ LinkDelivers(l, b) => FrameParse(LinkByte(l, b).buf)
<1>1. Append(l.buf, b) \in Seq(Byte) /\ <<>> \in Seq(Byte)
  OBVIOUS
<1>2. LinkStays(Append(l.buf, b)) \in BOOLEAN
  BY DEF LinkStays
<1>3. LinkByte(l, b) \in [inFrame : BOOLEAN, buf : Seq(Byte)]
  BY <1>1, <1>2 DEF LinkByte, LinkHunt
<1>4. LinkDelivers(l, b) => FrameParse(LinkByte(l, b).buf)
  BY DEF LinkDelivers, LinkByte
<1> QED BY <1>3, <1>4

(* A reply that fits is queued whole.                                      *)
LEMMA PutWhole ==
    ASSUME NEW r \in Seq(Byte), Len(r) < TxCap
    PROVE  /\ Put(<<>>, <<Sync>> \o r) = <<Sync>> \o r
           /\ <<Sync>> \o r \in Seq(Byte) /\ Len(<<Sync>> \o r) = 1 + Len(r)
<1>1. <<Sync>> \in Seq(Byte) /\ Len(<<Sync>>) = 1
  BY SyncAssumption
<1>2. /\ <<Sync>> \o r \in Seq(Byte) /\ Len(<<Sync>> \o r) = 1 + Len(r)
      /\ <<>> \o (<<Sync>> \o r) = <<Sync>> \o r
  BY <1>1
<1> QED BY <1>2, LimitsAssumption DEF Put

(* Host and device stay well typed, also when bytes are lost.              *)
LEMMA SpiTypeStep ==
    ASSUME RepliesFit, SpiType, QueueInv, [Next]_vars
    PROVE  SpiType'
<1>0. IdleByte \in Byte
  BY DEF IdleByte, Byte
<1>1. ASSUME Retry PROVE /\ tries' \in Nat /\ sent' \in Nat /\ step' = step
                         /\ hpc' \in {"send", "failed"} /\ (hpc' = "send" => sent' = 0)
  BY <1>1 DEF Retry, SpiType
<1>2. ASSUME step \in DOMAIN Job PROVE Len(Wire) > 0 /\ (step' = step => Wire' = Wire)
  BY <1>2, WireIs DEF Wire
<1>3. ASSUME NEW b \in Byte, Exchange(b)
      PROVE  (\E c \in Byte : rx' = <<c>>) /\ faulted' \in BOOLEAN
  BY <1>3 DEF Exchange, SpiType
<1>4. CASE HostSends
  <2>1. step \in DOMAIN Job /\ Wire[sent + 1] \in Byte /\ Len(Wire) \in Nat
    BY <1>4, WireIs DEF HostSends, SpiType
  <2>2. (\E c \in Byte : rx' = <<c>>) /\ faulted' \in BOOLEAN /\ Wire' = Wire
    BY <1>2, <1>3, <1>4, <2>1 DEF HostSends
  <2> QED BY <1>4, <2>1, <2>2 DEF HostSends, device, pump, SpiType
<1>5. CASE HostPolls
  <2>1. /\ (\E c \in Byte : rx' = <<c>>) /\ faulted' \in BOOLEAN /\ step \in DOMAIN Job
        /\ UNCHANGED <<txBuf, txIdx, link, pc, req>>
    BY <1>0, <1>3, <1>5 DEF HostPolls, pump, SpiType
  <2>2. CASE ScanDone(scanner, stake) /\ Matches(scanner.buf)
    <3>1. Proceed /\ UNCHANGED attempts
      BY <1>5, <2>2 DEF HostPolls
    <3>2. step + 1 \in Nat /\ (step # Len(Job) => step + 1 \in DOMAIN Job)
      BY <2>1, JobAssumption
    <3>3. step' \in DOMAIN Job => Len(Wire') > 0
      BY JobAssumption, SyncAssumption DEF Wire, FrameParse, Overhead
    <3> QED BY <2>1, <3>1, <3>2, <3>3 DEF Proceed, SpiType
  <2>3. CASE ~(ScanDone(scanner, stake) /\ Matches(scanner.buf))
    <3>1. Retry \/ UNCHANGED <<step, hpc, sent, tries>>
      BY <1>5, <2>3 DEF HostPolls
    <3>2. attempts' \in Nat
      BY <1>5, <2>3 DEF HostPolls, Counted, SpiType
    <3> QED BY <1>1, <1>2, <2>1, <3>1, <3>2 DEF SpiType
  <2> QED BY <2>2, <2>3
<1>6. CASE HostBusError
  BY <1>1, <1>2, <1>6 DEF HostBusError, device, pump, SpiType
<1>7. CASE DevPumps
  <2>1. PICK b \in Byte : rx = <<b>>
    BY <1>7 DEF DevPumps, SpiType
  <2>2. rx[1] = b
    BY <2>1
  <2>3. /\ link' \in [inFrame : BOOLEAN, buf : Seq(Byte)]
        /\ LinkDelivers(link, rx[1]) => FrameParse(link'.buf)
    BY <1>7, <2>2, LinkByteType DEF DevPumps, SpiType
  <2>4. <<>> \in Seq(Byte) /\ txIdx' \in Nat /\ link'.buf \in Seq(Byte) /\ Wire' = Wire
    BY <1>7, <2>3 DEF DevPumps, SpiType, host, Wire
  <2> QED BY <1>7, <2>3, <2>4 DEF DevPumps, SpiType, host
<1>8. CASE DevServes
  <2>1. Reply(req) \in Seq(Byte) /\ Len(Reply(req)) < TxCap /\ txBuf = <<>>
    BY <1>8 DEF DevServes, RepliesFit, SpiType, QueueInv
  <2>2. txBuf' \in Seq(Byte) /\ Wire' = Wire
    BY <1>8, <2>1, PutWhole DEF DevServes, host, Wire
  <2> QED BY <1>8, <2>2 DEF DevServes, host, SpiType
<1>9. CASE DevJumps \/ Rests \/ UNCHANGED vars
  BY <1>9 DEF DevJumps, Rests, vars, device, pump, host, history, SpiType, Wire
<1> QED BY <1>4, <1>5, <1>6, <1>7, <1>8, <1>9 DEF Next, Host, Device

(* Every byte staked from the queue is counted until it is clocked out.    *)
LEMMA QueueStep ==
    ASSUME RepliesFit, SpiType, QueueInv, [Next]_vars
    PROVE  QueueInv'
<1> USE DEF QueueInv, BootAfterReply
<1>0. Len(txBuf) \in Nat /\ txIdx \in Nat /\ Len(<<>>) = 0
  BY DEF SpiType
<1>10. ASSUME fresh' = FALSE, txIdx' <= Len(txBuf'), unsent' = Len(txBuf') - txIdx',
              pc' = "serve" => txBuf' = <<>>, pc' = "app" => unsent' = 0
       PROVE  QueueInv'
  BY <1>10
<1>1. ASSUME NEW b, Exchange(b), UNCHANGED <<pump, pc>> PROVE QueueInv'
  <2>1. \A c : <<c>> # <<>>
    OBVIOUS
  <2>2. rx' # <<>>
    BY <1>1, <2>1 DEF Exchange
  <2>3. UNCHANGED <<txBuf, txIdx, pc>> /\ ~fresh'
    BY <1>1 DEF Exchange, pump
  <2>4. unsent' = Len(txBuf) - txIdx
    BY <1>0, <1>1 DEF Exchange
  <2>5. pc = "app" => unsent' = 0
    BY <1>0, <1>1, <2>4 DEF Exchange
  <2> QED BY <1>0, <1>1, <2>3, <2>4, <2>5 DEF Exchange
<1>2. CASE HostSends
  BY <1>1, <1>2 DEF HostSends, device
<1>3. CASE HostPolls
  BY <1>1, <1>3 DEF HostPolls
<1>4. CASE HostBusError
  BY <1>4 DEF HostBusError, device, pump
<1>5. CASE DevPumps /\ LinkDelivers(link, rx[1])
  <2>1. /\ txBuf' = <<>> /\ txIdx' = 0 /\ fresh' = FALSE /\ unsent' = 0 /\ pc' = "serve"
    BY <1>5 DEF DevPumps
  <2>2. Len(txBuf') = 0 /\ txIdx' <= Len(txBuf') /\ unsent' = Len(txBuf') - txIdx'
    BY <1>0, <2>1
  <2> QED BY <1>10, <2>1, <2>2
<1>6. CASE DevPumps /\ ~LinkDelivers(link, rx[1])
  <2>1. /\ UNCHANGED <<txBuf, unsent, pc>> /\ pc = "poll" /\ rx' = <<>> /\ ~fresh
        /\ fresh' = Queued /\ stakedFromQueue' = Queued
        /\ txIdx' = IF Queued THEN txIdx + 1 ELSE txIdx
    BY <1>6 DEF DevPumps
  <2>2. unsent = Len(txBuf) - txIdx
    BY <1>0, <2>1
  <2>3. CASE Queued
    <3>1. fresh' = TRUE /\ stakedFromQueue' = TRUE /\ txIdx' = txIdx + 1
      BY <2>1, <2>3
    <3>2. txIdx' <= Len(txBuf') /\ unsent' = (Len(txBuf') - txIdx') + 1
      BY <1>0, <2>1, <2>2, <2>3, <3>1 DEF Queued
    <3> QED BY <2>1, <3>1, <3>2
  <2>4. CASE ~Queued
    <3>1. fresh' = FALSE /\ txIdx' = txIdx
      BY <2>1, <2>4 DEF Queued
    <3> QED BY <1>0, <1>10, <2>1, <2>2, <3>1
  <2> QED BY <2>3, <2>4
<1>7. CASE DevServes
  <2>1. Reply(req) \in Seq(Byte) /\ Len(Reply(req)) < TxCap /\ txBuf = <<>>
    BY <1>7 DEF DevServes, RepliesFit, SpiType
  <2>2. Len(txBuf') = 1 + Len(Reply(req)) /\ txIdx = 0 /\ txIdx' = 0 /\ Len(Reply(req)) \in Nat
    BY <1>0, <1>7, <2>1, PutWhole DEF DevServes
  <2>3. fresh' = FALSE /\ unsent' = 1 + Len(Reply(req)) /\ pc' = "poll"
    BY <1>7 DEF DevServes
  <2>4. txIdx' <= Len(txBuf') /\ unsent' = Len(txBuf') - txIdx'
    BY <2>2, <2>3
  <2> QED BY <1>10, <2>3, <2>4
<1>8. CASE DevJumps
  BY <1>0, <1>8 DEF DevJumps, TxIdle, pump, history
<1>9. CASE Rests \/ UNCHANGED vars
  BY <1>9 DEF Rests, vars, device, pump, history
<1> QED BY <1>2, <1>3, <1>4, <1>5, <1>6, <1>7, <1>8, <1>9 DEF Next, Host, Device

(* Nothing is queued at the start.                                         *)
LEMMA QueueInit == Init => SpiType /\ QueueInv
<1> SUFFICES ASSUME Init PROVE SpiType /\ QueueInv
  OBVIOUS
<1>1. <<>> \in Seq(Byte) /\ 1 \in DOMAIN Job /\ Len(<<>>) = 0 /\ step = 1
  BY JobAssumption DEF Init
<1>2. Len(Wire) > 0
  BY <1>1, WireIs
<1>3. SpiType
  <2>1. link \in [inFrame : BOOLEAN, buf : Seq(Byte)]
    BY <1>1 DEF Init, Hunting
  <2>2. sent < Len(Wire)
    BY <1>2 DEF Init
  <2>3. /\ sent = 0 /\ attempts = 0 /\ tries = 0 /\ hpc = "send" /\ pc = "poll"
        /\ rx = <<>> /\ req = <<>> /\ txBuf = <<>> /\ txIdx = 0 /\ faulted = FALSE
    BY DEF Init
  <2> QED BY <1>1, <2>1, <2>2, <2>3 DEF SpiType
<1>4. fresh = FALSE /\ pc = "poll" /\ txBuf = <<>> /\ txIdx = 0 /\ unsent = 0
  BY DEF Init
<1>5. txIdx <= Len(txBuf) /\ unsent = Len(txBuf) - txIdx
  BY <1>1, <1>4
<1> QED BY <1>3, <1>4, <1>5 DEF QueueInv, BootAfterReply

(* spi_pump_tx_idle gates the jump on the reply: whatever the host clocks, *)
(* bytes lost and requests repeated included, the application starts only  *)
(* when the whole reply to BOOT has been on the wire.                      *)
THEOREM JumpWaitsForReply ==
    ASSUME RepliesFit PROVE FairSpec => []BootAfterReply
<1>1. SpiType /\ QueueInv /\ [Next]_vars => (SpiType /\ QueueInv)'
  BY SpiTypeStep, QueueStep
<1>2. QueueInv => BootAfterReply
  BY DEF QueueInv
<1> QED BY <1>1, <1>2, QueueInit, PTL DEF FairSpec

-----------------------------------------------------------------------------
(* The device's receiver after k bytes of the request's wire form, and the *)
(* host's after k bytes of the reply's.                                    *)
Rq == Job[step]
Heard(k) == IF k = 0 THEN ~link.inFrame
            ELSE link = [inFrame |-> TRUE, buf |-> SubSeq(Rq, 1, k - 1)]
Seen(k) == IF k <= 0 THEN Hunting
           ELSE [inFrame |-> TRUE, buf |-> SubSeq(Reply(Rq), 1, k - 1)]

Waiting == rx = <<>> \/ rx = <<IdleByte>>

(* While nothing is lost, host and device move in step: the request byte   *)
(* by byte, then one idle byte, then the reply byte by byte, one behind    *)
(* the queue.  A device that has left for the application never takes the  *)
(* byte in its register, so the next one is lost.                          *)
Sending ==
    /\ txIdx = Len(txBuf)
    /\ \/ pc = "app"
       \/ pc = "poll" /\ sent = 0 /\ Waiting /\ Heard(0)
       \/ pc = "poll" /\ sent > 0 /\ rx = <<>> /\ Heard(sent)
       \/ pc = "poll" /\ sent > 0 /\ rx = <<Wire[sent]>> /\ Heard(sent - 1)

Deserted == pc = "app" /\ rx # <<>>
LastByte ==
    /\ pc = "poll" /\ txIdx = Len(txBuf) /\ attempts = 0 /\ scanner = Hunting
    /\ rx = <<Wire[Len(Wire)]>> /\ Heard(Len(Wire) - 1)
Serving ==
    /\ pc = "serve" /\ req = Rq /\ txIdx = 0 /\ stake = IdleByte
    /\ Waiting /\ scanner = Hunting /\ Heard(0) /\ attempts = Len(rx)
Replying ==
    /\ pc = "poll" /\ txBuf = <<Sync>> \o Reply(Rq) /\ Waiting /\ Heard(0)
    /\ stake = IF txIdx = 0 THEN IdleByte ELSE txBuf[txIdx]
    /\ txIdx > 0 => stakedFromQueue
    /\ scanner = Seen(IF rx = <<>> THEN txIdx - 1 ELSE txIdx)
    /\ attempts = IF txIdx = 0 THEN Len(rx) ELSE 1
    /\ rx # <<>> => txIdx < Len(txBuf)

PacedInv ==
    ~faulted =>
    /\ hpc # "failed" /\ tries = 0
    /\ hpc = "send" => Sending
    /\ hpc = "poll" => Deserted \/ LastByte \/ Serving \/ Replying

(* Prefixes of a frame.                                                    *)
LEMMA Prefixes ==
    ASSUME NEW f \in Seq(Byte), NEW k \in 1 .. Len(f)
    PROVE  /\ Append(SubSeq(f, 1, k - 1), f[k]) = SubSeq(f, 1, k)
           /\ SubSeq(f, 1, k) \in Seq(Byte) /\ Len(SubSeq(f, 1, k)) = k
           /\ k >= 2 => SubSeq(f, 1, k)[2] = f[2]
           /\ SubSeq(f, 1, 0) = <<>> /\ SubSeq(f, 1, Len(f)) = f
OBVIOUS

(* The receiver of the device over one byte of a request that fits.        *)
LEMMA LinkHears ==
    ASSUME step \in DOMAIN Job, NEW k \in 0 .. Len(Rq), Heard(k), link' = LinkByte(link, Wire[k + 1]),
           step' = step
    PROVE  /\ k < Len(Rq) => Heard(k + 1)' /\ ~LinkDelivers(link, Wire[k + 1])
           /\ k = Len(Rq) => /\ LinkDelivers(link, Wire[k + 1])
                             /\ link' = [inFrame |-> FALSE, buf |-> Rq]
<1>1. /\ Rq \in Seq(Byte) /\ Len(Rq) \in Nat /\ Len(Rq) >= 3 /\ Wire[1] = Sync
      /\ k >= 1 => Wire[k + 1] = Rq[k]
  BY WireIs DEF Rq
<1>2. FrameParse(Rq) /\ Rq[2] + 3 = Len(Rq) /\ Len(Rq) <= BufLen /\ BufLen \in Nat
  <2>1. FrameParse(Rq) /\ Len(Rq) <= BufLen
    BY JobAssumption, BuffersAssumption DEF Rq
  <2>2. Rq[2] + 3 = Len(Rq)
    BY <2>1 DEF FrameParse, Overhead
  <2> QED BY <2>1, <2>2, BufferAssumption
<1>3. CASE k = 0
  <2>1. ~link.inFrame /\ BufLen >= 3
    BY <1>1, <1>2, <1>3 DEF Heard
  <2>2. link' = [inFrame |-> TRUE, buf |-> <<>>]
    BY <1>1, <1>3, <2>1 DEF LinkByte, LinkHunt, Overhead
  <2>3. SubSeq(Rq, 1, (k + 1) - 1) = <<>> /\ k + 1 # 0 /\ Rq' = Rq
    BY <1>1, <1>3, Prefixes DEF Rq
  <2>4. ~LinkDelivers(link, Wire[k + 1])
    BY <2>1 DEF LinkDelivers
  <2>5. Heard(k + 1)'
    BY <2>2, <2>3 DEF Heard
  <2>6. k # Len(Rq)
    BY <1>1, <1>3
  <2> QED BY <2>4, <2>5, <2>6
<1>4. CASE k > 0
  <2> DEFINE g == SubSeq(Rq, 1, k)
  <2>1. /\ Append(link.buf, Wire[k + 1]) = g /\ Len(g) = k /\ link.inFrame
        /\ k >= 2 => g[2] = Rq[2]
        /\ k = Len(Rq) => g = Rq
    BY <1>1, <1>4, Prefixes DEF Heard
  <2> HIDE DEF g
  <2>2. LinkStays(g) <=> k < Len(Rq)
    BY <1>1, <1>2, <1>4, <2>1 DEF LinkStays, Overhead
  <2>3. link' = [inFrame |-> LinkStays(g), buf |-> g]
    BY <2>1 DEF LinkByte
  <2>6. LinkStays(g) \in BOOLEAN
    BY DEF LinkStays
  <2>4. CASE k < Len(Rq)
    <3>1. link' = [inFrame |-> TRUE, buf |-> g]
      BY <2>2, <2>3, <2>4, <2>6
    <3>2. g = SubSeq(Rq, 1, (k + 1) - 1) /\ k + 1 # 0 /\ Rq' = Rq
      BY <1>4 DEF g, Rq
    <3>3. Heard(k + 1)'
      BY <3>1, <3>2 DEF Heard
    <3> QED BY <2>1, <2>2, <2>4, <3>3 DEF LinkDelivers
  <2>5. CASE k = Len(Rq)
    <3>0. ~(k < Len(Rq)) /\ ~LinkStays(g)
      BY <1>1, <2>2, <2>5
    <3>1. link' = [inFrame |-> FALSE, buf |-> Rq]
      BY <2>1, <2>3, <2>5, <2>6, <3>0
    <3>2. Append(link.buf, Wire[k + 1]) = Rq /\ ~LinkStays(Rq)
      BY <2>1, <2>5, <3>0
    <3>3. LinkDelivers(link, Wire[k + 1])
      BY <1>1, <1>2, <2>1, <3>2 DEF LinkDelivers, Overhead
    <3> QED BY <3>0, <3>1, <3>3
  <2> QED BY <1>1, <2>4, <2>5
<1> QED BY <1>3, <1>4

(* The bytes the host clocks out to read mean nothing to the device.       *)
LEMMA IdleIgnored ==
    ASSUME Heard(0), link' = LinkByte(link, IdleByte)
    PROVE  link' = link /\ Heard(0)' /\ ~LinkDelivers(link, IdleByte)
BY IdleAssumption DEF Heard, LinkByte, LinkHunt, LinkDelivers

(* The receiver of the host over one byte of a reply that fits.            *)
LEMMA ScannerSees ==
    ASSUME step \in DOMAIN Job, NEW k \in 0 .. Len(Reply(Rq)), scanner = Seen(k),
           NEW b, b = (<<Sync>> \o Reply(Rq))[k + 1]
    PROVE  /\ k < Len(Reply(Rq)) => ScanByte(scanner, b) = Seen(k + 1) /\ ~ScanDone(scanner, b)
           /\ k = Len(Reply(Rq)) => ScanDone(scanner, b) /\ Matches(scanner.buf)
<1> DEFINE r == Reply(Rq)
<1>1. /\ r \in Seq(Byte) /\ FrameParse(r) /\ r[1] = Rq[1] /\ Len(r) \in Nat
      /\ Len(r) <= HostBufLen /\ Len(r) <= FrameMax /\ HostBufLen \in Nat /\ FrameMax \in Nat
  BY JobAssumption, BuffersAssumption, BufferAssumption DEF Rq
<1> HIDE DEF r
<1>2. Len(r) >= 3 /\ r[2] + 3 = Len(r) /\ r[2] \in Byte
  BY <1>1 DEF FrameParse, Overhead
<1>3. (k = 0 => b = Sync) /\ (k >= 1 => b = r[k])
  <2>1. <<Sync>> \in Seq(Byte) /\ Len(<<Sync>>) = 1
    BY SyncAssumption
  <2> QED BY <1>1, <2>1 DEF r
<1>4. ScanFits(r[2])
  <2>1. \A x \in Byte : x \in Int
    BY ONLY DEF Byte
  <2> QED BY <1>1, <1>2, <2>1 DEF ScanFits, PayloadMax, Overhead
<1>5. CASE k = 0
  <2>1. ScanByte(scanner, b) = [inFrame |-> TRUE, buf |-> <<>>] /\ ~ScanDone(scanner, b)
    BY <1>1, <1>2, <1>3, <1>5 DEF Seen, Hunting, ScanByte, ScanDone, Overhead
  <2>2. SubSeq(r, 1, (k + 1) - 1) = <<>> /\ ~(k + 1 <= 0)
    BY <1>1, <1>2, <1>5, Prefixes
  <2>3. ScanByte(scanner, b) = Seen(k + 1)
    BY <2>1, <2>2 DEF Seen, r
  <2> QED BY <1>1, <1>2, <1>5, <2>1, <2>3 DEF r
<1>6. CASE k > 0
  <2> DEFINE g == SubSeq(r, 1, k)
  <2>1. /\ scanner.inFrame /\ scanner.buf = SubSeq(r, 1, k - 1)
        /\ Append(scanner.buf, b) = g /\ Len(g) = k /\ (k >= 2 => g[2] = r[2])
        /\ k = Len(r) => g = r
    BY <1>1, <1>3, <1>6, Prefixes DEF Seen, r
  <2>2. Len(scanner.buf) = k - 1
    <3>1. CASE k = 1
      BY <1>1, <1>2, <2>1, <3>1, Prefixes
    <3>2. CASE k - 1 \in 1 .. Len(r)
      BY <1>1, <2>1, <3>2, Prefixes
    <3> QED BY <1>1, <1>6, <3>1, <3>2 DEF r
  <2> HIDE DEF g
  <2>3. k <= Len(r) /\ Len(scanner.buf) < HostBufLen
    BY <1>1, <1>6, <2>2 DEF r
  <2>4. ScanStays(g) <=> k < Len(r)
    BY <1>1, <1>2, <1>4, <1>6, <2>1, <2>3 DEF ScanStays, Overhead
  <2>5. CASE k < Len(r)
    <3>1. ScanByte(scanner, b) = [inFrame |-> TRUE, buf |-> g]
      BY <2>1, <2>3, <2>4, <2>5 DEF ScanByte
    <3>2. ~ScanDone(scanner, b)
      BY <2>1, <2>4, <2>5 DEF ScanDone
    <3>3. g = SubSeq(r, 1, (k + 1) - 1) /\ ~(k + 1 <= 0)
      BY <1>6 DEF g
    <3>4. ScanByte(scanner, b) = Seen(k + 1)
      BY <3>1, <3>3 DEF Seen, r
    <3> QED BY <1>1, <2>5, <3>2, <3>4 DEF r
  <2>6. CASE k = Len(r)
    <3>0. Append(scanner.buf, b) = r /\ ~ScanStays(r)
      BY <1>1, <2>1, <2>4, <2>6
    <3>1. ScanDone(scanner, b)
      BY <1>1, <1>4, <2>1, <2>3, <3>0 DEF ScanDone
    <3>2. scanner.buf[1] = r[1]
      BY <1>1, <1>2, <2>1, <2>6
    <3> QED BY <1>1, <2>6, <3>1, <3>2 DEF Matches, Rq, r
  <2> QED BY <1>1, <2>3, <2>5, <2>6 DEF r
<1> QED BY <1>5, <1>6

(* A host that sends finds the register empty, or a byte is lost.          *)
LEMMA SendPaced ==
    ASSUME SpiType, PacedInv, HostSends, ~faulted'
    PROVE  PacedInv'
<1>1. /\ ~faulted /\ rx = <<>> /\ hpc = "send" /\ rx' = <<Wire[sent + 1]>> /\ sent' = sent + 1
      /\ scanner' = Hunting /\ attempts' = 0
      /\ UNCHANGED <<txBuf, txIdx, stake, stakedFromQueue, link, pc, req, step, tries>>
      /\ hpc' = IF sent + 1 = Len(Wire) THEN "poll" ELSE "send"
  BY DEF HostSends, Exchange, SpiType, device, pump
<1>2. step \in DOMAIN Job /\ Len(Wire) \in Nat /\ sent \in Nat /\ Wire' = Wire /\ Rq' = Rq
  BY <1>1, WireIs DEF SpiType, Wire, Rq
<1>3. \A c : <<c>> # <<>>
  OBVIOUS
<1>4. tries' = 0 /\ Sending
  BY <1>1 DEF PacedInv
<1>5. CASE pc = "app"
  <2>1. hpc' = "send" => Sending'
    BY <1>1, <1>4, <1>5 DEF Sending
  <2>2. Deserted'
    BY <1>1, <1>3, <1>5 DEF Deserted
  <2> QED BY <1>1, <1>4, <2>1, <2>2 DEF PacedInv
<1>6. CASE pc = "poll"
  <2>1. Heard(sent) /\ txIdx = Len(txBuf)
    BY <1>1, <1>3, <1>4, <1>6 DEF Sending
  <2>2. sent' - 1 = sent /\ sent' > 0
    BY <1>1, <1>2
  <2>3. rx' = <<Wire'[sent']>> /\ Heard(sent - 1)'
    BY <1>1, <1>2, <2>1, <2>2 DEF Heard
  <2>4. hpc' = "send" => Sending'
    BY <1>1, <1>6, <2>1, <2>3, <2>2 DEF Sending
  <2>5. hpc' = "poll" => LastByte'
    <3>1. hpc' = "poll" => sent' = Len(Wire')
      BY <1>1, <1>2
    <3> QED BY <1>1, <1>6, <2>1, <2>3, <3>1 DEF LastByte
  <2> QED BY <1>1, <1>4, <2>4, <2>5 DEF PacedInv
<1> QED BY <1>4, <1>5, <1>6 DEF Sending

(* A host that polls sees one idle byte, then the reply.                   *)
LEMMA PollPaced ==
    ASSUME PollAttempts >= 2, SpiType, QueueInv, PacedInv, HostPolls, ~faulted'
    PROVE  PacedInv'
<1> DEFINE Q == <<Sync>> \o Reply(Rq)
<1>1. /\ ~faulted /\ rx = <<>> /\ hpc = "poll" /\ rx' = <<IdleByte>>
      /\ scanner' = ScanByte(scanner, stake)
      /\ UNCHANGED <<txBuf, txIdx, stake, stakedFromQueue, link, pc, req>>
  BY DEF HostPolls, Exchange, SpiType, pump
<1>2. /\ step \in DOMAIN Job /\ Len(rx) = 0 /\ Len(<<IdleByte>>) = 1 /\ <<IdleByte>> # <<>>
      /\ \A c : <<c>> # <<>>
  BY <1>1 DEF SpiType
<1>3. tries = 0 /\ (Serving \/ Replying)
  BY <1>1, <1>2 DEF PacedInv, Deserted, LastByte
<1>4. /\ Q \in Seq(Byte) /\ Len(Q) = 1 + Len(Reply(Rq)) /\ Len(Reply(Rq)) \in Nat
      /\ PollAttempts \in Nat
  BY <1>2, JobAssumption, BuffersAssumption, PutWhole, LimitsAssumption DEF Rq
<1> HIDE DEF Q
<1>5. ASSUME attempts' = 1, ~ScanDone(scanner, stake) PROVE UNCHANGED <<step, hpc, sent, tries>>
  BY <1>4, <1>5 DEF HostPolls, Spent
<1>6. ASSUME scanner = Hunting, stake = IdleByte, attempts = 0
      PROVE  scanner' = Hunting /\ attempts' = 1 /\ UNCHANGED <<step, hpc, sent, tries>>
  <2>1. scanner' = Hunting /\ ~ScanDone(scanner, stake)
    BY <1>1, <1>6, IdleAssumption DEF ScanByte, ScanDone, Hunting
  <2>2. attempts' = 1
    BY <1>6, <2>1 DEF HostPolls, Counted, Hunting
  <2> QED BY <1>5, <2>1, <2>2
<1>7. CASE Serving
  <2>1. scanner' = Hunting /\ attempts' = 1 /\ UNCHANGED <<step, hpc, sent, tries>>
    BY <1>2, <1>6, <1>7 DEF Serving
  <2>2. Serving'
    BY <1>1, <1>2, <1>7, <2>1 DEF Serving, Waiting, Heard, Rq
  <2> QED BY <1>1, <1>3, <2>1, <2>2 DEF PacedInv
<1>8. CASE Replying /\ txIdx = 0
  <2>1. scanner = Hunting /\ stake = IdleByte /\ attempts = 0
    BY <1>1, <1>2, <1>8 DEF Replying, Seen
  <2>2. scanner' = Hunting /\ attempts' = 1 /\ UNCHANGED <<step, hpc, sent, tries>>
    BY <1>6, <2>1
  <2>3. Rq' = Rq /\ Seen(0)' = Hunting /\ 0 < Len(txBuf)
    BY <1>4, <1>8, <2>2 DEF Rq, Seen, Replying, Q
  <2>4. Replying'
    BY <1>1, <1>2, <1>8, <2>1, <2>2, <2>3 DEF Replying, Waiting, Heard
  <2> QED BY <1>1, <1>3, <2>2, <2>4 DEF PacedInv
<1>9. CASE Replying /\ txIdx # 0
  <2> DEFINE k == txIdx - 1
  <2>1. /\ k \in 0 .. Len(Reply(Rq)) /\ k + 1 = txIdx /\ txBuf = Q /\ scanner = Seen(k)
        /\ stake = Q[k + 1] /\ attempts = 1 /\ pc = "poll" /\ Heard(0)
    BY <1>1, <1>4, <1>9 DEF Replying, SpiType, QueueInv, Q
  <2> HIDE DEF k
  <2>2. /\ k < Len(Reply(Rq)) => ScanByte(scanner, stake) = Seen(k + 1) /\ ~ScanDone(scanner, stake)
        /\ k = Len(Reply(Rq)) => ScanDone(scanner, stake) /\ Matches(scanner.buf)
    BY <1>2, <2>1, ScannerSees DEF Q
  <2>3. CASE k < Len(Reply(Rq))
    <3>1. scanner' = Seen(txIdx) /\ ~ScanDone(scanner, stake) /\ scanner'.inFrame
      <4>1. scanner' = Seen(txIdx) /\ ~ScanDone(scanner, stake)
        BY <1>1, <2>1, <2>2, <2>3
      <4>2. ~(txIdx <= 0)
        BY <2>1
      <4> QED BY <4>1, <4>2 DEF Seen
    <3>2. attempts' = 1 /\ UNCHANGED <<step, hpc, sent, tries>>
      BY <1>5, <2>1, <3>1 DEF HostPolls, Counted
    <3>3. Rq' = Rq /\ scanner' = Seen(txIdx)' /\ txIdx < Len(txBuf)
      <4>1. Rq' = Rq /\ Seen(txIdx)' = Seen(txIdx)
        BY <1>1, <3>2 DEF Rq, Seen
      <4>2. txIdx < Len(txBuf)
        BY <1>4, <2>1, <2>3
      <4> QED BY <3>1, <4>1, <4>2
    <3>4. Replying'
      BY <1>1, <1>2, <1>9, <3>2, <3>3 DEF Replying, Waiting, Heard
    <3> QED BY <1>1, <1>3, <3>2, <3>4 DEF PacedInv
  <2>4. CASE k = Len(Reply(Rq))
    <3>1. Proceed
      BY <2>2, <2>4 DEF HostPolls
    <3>2. tries' = 0 /\ hpc' \in {"done", "send"} /\ sent' = 0
      BY <3>1 DEF Proceed
    <3>3. txIdx = Len(txBuf)
      BY <1>4, <2>1, <2>4
    <3>4. Sending'
      BY <1>1, <2>1, <3>2, <3>3 DEF Sending, Waiting, Heard
    <3> QED BY <3>2, <3>4 DEF PacedInv
  <2> QED BY <1>4, <2>1, <2>3, <2>4
<1> QED BY <1>3, <1>7, <1>8, <1>9

(* A pump that runs takes the byte of the request or the idle byte, and    *)
(* stakes the next byte of the reply.                                      *)
LEMMA PumpPaced ==
    ASSUME SpiType, QueueInv, PacedInv, DevPumps, ~faulted
    PROVE  PacedInv'
<1>1. /\ pc = "poll" /\ rx # <<>> /\ rx' = <<>> /\ link' = LinkByte(link, rx[1])
      /\ UNCHANGED <<step, hpc, sent, scanner, attempts, tries, faulted>>
      /\ stake' = IF Queued THEN txBuf[txIdx + 1] ELSE IdleByte
      /\ stakedFromQueue' = Queued
  BY DEF DevPumps, host
<1>2. /\ tries' = 0 /\ hpc' # "failed" /\ Rq' = Rq /\ Wire' = Wire
      /\ Len(<<>>) = 0 /\ Len(<<IdleByte>>) = 1 /\ <<IdleByte>>[1] = IdleByte
  BY <1>1 DEF PacedInv, Rq, Wire
<1>3. ASSUME ~LinkDelivers(link, rx[1])
      PROVE  /\ UNCHANGED <<pc, req, txBuf>>
             /\ txIdx' = IF Queued THEN txIdx + 1 ELSE txIdx
  BY <1>3 DEF DevPumps
<1>4. txIdx \in Nat /\ Len(txBuf) \in Nat
  BY DEF SpiType
<1>5. CASE hpc = "send"
  <2>1. Sending /\ txIdx = Len(txBuf) /\ ~Queued
    BY <1>4, <1>5 DEF PacedInv, Sending, Queued
  <2>2. /\ step \in DOMAIN Job /\ sent \in Nat /\ sent < Len(Wire)
        /\ Len(Wire) = Len(Rq) + 1 /\ Len(Rq) \in Nat
    BY <1>5, WireIs DEF SpiType, Rq
  <2>3. CASE sent = 0
    <3>1. Heard(0) /\ rx = <<IdleByte>>
      BY <1>1, <2>1, <2>3 DEF Sending, Waiting
    <3>2. ~LinkDelivers(link, rx[1]) /\ Heard(0)'
      BY <1>1, <1>2, <3>1, IdleIgnored
    <3>3. Sending'
      BY <1>1, <1>3, <2>1, <2>3, <3>2 DEF Sending, Waiting
    <3> QED BY <1>1, <1>2, <1>5, <3>3 DEF PacedInv
  <2>4. CASE sent > 0
    <3>1. rx = <<Wire[sent]>> /\ Heard(sent - 1) /\ rx[1] = Wire[(sent - 1) + 1]
      BY <1>1, <2>1, <2>2, <2>4 DEF Sending
    <3>2. sent - 1 \in 0 .. Len(Rq) /\ sent - 1 < Len(Rq)
      BY <2>2, <2>4
    <3>3. ~LinkDelivers(link, rx[1]) /\ Heard((sent - 1) + 1)'
      BY <1>1, <2>2, <3>1, <3>2, LinkHears
    <3>4. Heard(sent)' /\ sent' > 0
      BY <1>1, <2>2, <2>4, <3>3
    <3>5. Sending'
      BY <1>1, <1>3, <2>1, <3>3, <3>4 DEF Sending
    <3> QED BY <1>1, <1>2, <1>5, <3>5 DEF PacedInv
  <2> QED BY <2>2, <2>3, <2>4
<1>6. CASE hpc = "poll"
  <2>0. step \in DOMAIN Job
    BY <1>6 DEF SpiType
  <2>1. LastByte \/ Replying
    BY <1>1, <1>6 DEF PacedInv, Deserted, Serving
  <2>2. CASE LastByte
    <3> DEFINE n == Len(Rq)
    <3>1. Len(Wire) = n + 1 /\ n \in Nat
      BY <2>0, WireIs DEF Rq
    <3>2. rx[1] = Wire[n + 1] /\ Heard(n) /\ n \in 0 .. Len(Rq)
      BY <2>2, <3>1 DEF LastByte
    <3>3. LinkDelivers(link, rx[1]) /\ link' = [inFrame |-> FALSE, buf |-> Rq]
      BY <1>1, <2>0, <3>2, LinkHears
    <3>4. /\ pc' = "serve" /\ req' = Rq /\ txIdx' = 0
      BY <3>3 DEF DevPumps
    <3>5. stake' = IdleByte
      BY <1>1, <1>4, <2>2 DEF LastByte, Queued
    <3>6. Heard(0)'
      BY <3>3 DEF Heard
    <3>7. Serving'
      BY <1>1, <1>2, <2>2, <3>4, <3>5, <3>6 DEF Serving, LastByte, Waiting
    <3> QED BY <1>1, <1>2, <1>6, <3>7 DEF PacedInv
  <2>3. CASE Replying
    <3>1. rx = <<IdleByte>> /\ Heard(0) /\ txIdx < Len(txBuf) /\ Queued /\ rx[1] = IdleByte
      BY <1>1, <1>2, <2>3 DEF Replying, Waiting, Queued
    <3>2. ~LinkDelivers(link, rx[1]) /\ Heard(0)'
      BY <1>1, <3>1, IdleIgnored
    <3>3. UNCHANGED <<pc, txBuf>> /\ txIdx' = txIdx + 1 /\ stakedFromQueue'
      BY <1>1, <1>3, <3>1, <3>2
    <3>4. attempts = 1
      BY <1>2, <2>3, <3>1 DEF Replying
    <3>5. scanner' = Seen(txIdx - 1)'
      <4>1. scanner = Seen(txIdx) /\ txIdx' - 1 = txIdx
        BY <1>1, <1>4, <2>3, <3>3 DEF Replying
      <4> QED BY <1>1, <1>2, <4>1 DEF Seen
    <3>6. txIdx' # 0 /\ txIdx' > 0 /\ stake' = txBuf'[txIdx']
      BY <1>1, <1>4, <3>1, <3>3
    <3>7. Replying'
      BY <1>1, <1>2, <2>3, <3>2, <3>3, <3>4, <3>5, <3>6 DEF Replying, Waiting
    <3> QED BY <1>1, <1>2, <1>6, <3>7 DEF PacedInv
  <2> QED BY <2>1, <2>2, <2>3
<1> QED BY <1>1, <1>2, <1>5, <1>6 DEF PacedInv

(* The lockstep over every action; a bus error or a lost byte ends it.     *)
LEMMA PacedStep ==
    ASSUME PollAttempts >= 2, SpiType, QueueInv, PacedInv, [Next]_vars
    PROVE  PacedInv'
<1> SUFFICES ASSUME ~faulted' PROVE PacedInv'
  BY DEF PacedInv
<1>1. CASE HostSends
  BY <1>1, SendPaced
<1>2. CASE HostPolls
  BY <1>2, PollPaced
<1>3. CASE HostBusError
  BY <1>3 DEF HostBusError
<1>4. CASE DevPumps
  BY <1>4, PumpPaced DEF DevPumps
<1>5. CASE DevServes
  <2>1. /\ ~faulted /\ pc = "serve" /\ pc' = "poll"
        /\ txBuf' = Put(txBuf, <<Sync>> \o Reply(req))
        /\ UNCHANGED <<rx, stake, txIdx, link, step, hpc, scanner, attempts, tries>>
    BY <1>5 DEF DevServes, host
  <2>2. tries' = 0 /\ hpc' # "failed" /\ hpc' # "send" /\ Rq' = Rq
    BY <2>1 DEF PacedInv, Sending, Rq
  <2>3. CASE hpc = "poll"
    <3>1. Serving /\ txBuf = <<>> /\ step \in DOMAIN Job
      BY <2>1, <2>3 DEF PacedInv, Deserted, LastByte, Replying, QueueInv, SpiType
    <3>2. /\ txBuf' = <<Sync>> \o Reply(Rq) /\ Len(txBuf') = 1 + Len(Reply(Rq))
          /\ Len(Reply(Rq)) \in Nat
      <4>1. Reply(Rq) \in Seq(Byte) /\ Len(Reply(Rq)) < TxCap
        BY <3>1, JobAssumption, BuffersAssumption DEF Rq
      <4>2. txBuf' = Put(<<>>, <<Sync>> \o Reply(Rq))
        BY <2>1, <3>1 DEF Serving
      <4> QED BY <4>1, <4>2, PutWhole
    <3>3. 0 < Len(txBuf') /\ Seen(0)' = Hunting /\ Seen(0 - 1)' = Hunting
      BY <3>2 DEF Seen
    <3>4. Waiting' /\ Heard(0)'
      BY <2>1, <2>2, <3>1 DEF Serving, Waiting, Heard
    <3>5. /\ txIdx' = 0 /\ stake' = IdleByte /\ attempts' = Len(rx')
          /\ scanner' = Hunting
      BY <2>1, <3>1 DEF Serving
    <3>6. scanner' = Seen(IF rx = <<>> THEN txIdx - 1 ELSE txIdx)'
      BY <3>3, <3>5
    <3>7. Replying'
      BY <2>1, <2>2, <3>2, <3>3, <3>4, <3>5, <3>6 DEF Replying
    <3> QED BY <2>1, <2>2, <2>3, <3>7 DEF PacedInv
  <2>4. CASE hpc # "poll"
    BY <2>1, <2>2, <2>4 DEF PacedInv
  <2> QED BY <2>3, <2>4
<1>6. CASE DevJumps
  <2>1. /\ ~faulted /\ pc = "poll" /\ pc' = "app" /\ txIdx = Len(txBuf) /\ ~stakedFromQueue
        /\ UNCHANGED <<rx, txBuf, txIdx, hpc, tries>>
    BY <1>6 DEF DevJumps, TxIdle, pump, host, history
  <2>2. hpc = "poll" => rx # <<>>
    <3> SUFFICES ASSUME hpc = "poll" PROVE rx # <<>>
      OBVIOUS
    <3>1. Reply(Rq) \in Seq(Byte) /\ Len(Reply(Rq)) < TxCap
      BY JobAssumption, BuffersAssumption DEF SpiType, Rq
    <3>2. Replying => txIdx > 0
      BY <2>1, <3>1, PutWhole DEF Replying
    <3>3. LastByte
      BY <2>1, <3>2 DEF PacedInv, Deserted, Serving, Replying
    <3> QED BY <3>3 DEF LastByte
  <2> QED BY <2>1, <2>2 DEF PacedInv, Sending, Deserted
<1>7. CASE Rests \/ UNCHANGED vars
  BY <1>7 DEF Rests, vars, device, pump, host, history, PacedInv, Sending, Deserted,
              LastByte, Serving, Replying, Waiting, Heard, Seen, Wire, Rq
<1> QED BY <1>1, <1>2, <1>3, <1>4, <1>5, <1>6, <1>7 DEF Next, Host, Device

(* A pump that takes every byte before the next one comes is enough: each  *)
(* request of the job is answered at its first attempt, the idle byte the  *)
(* reply lags behind included, for every length of request and reply.      *)
THEOREM PacedIsServed ==
    ASSUME RepliesFit, PollAttempts >= 2 PROVE FairSpec => []PacedSucceeds
<1>1. Init => PacedInv
  <2> SUFFICES ASSUME Init PROVE PacedInv
    OBVIOUS
  <2>1. Len(<<>>) = 0 /\ Hunting.inFrame = FALSE
    BY DEF Hunting
  <2> QED BY <2>1 DEF Init, PacedInv, Sending, Waiting, Heard
<1>2. SpiType /\ QueueInv /\ PacedInv /\ [Next]_vars => (SpiType /\ QueueInv /\ PacedInv)'
  BY SpiTypeStep, QueueStep, PacedStep
<1>3. SpiType /\ PacedInv => PacedSucceeds
  BY DEF SpiType, PacedInv, PacedSucceeds
<1> QED BY <1>1, <1>2, <1>3, QueueInit, PTL DEF FairSpec
=============================================================================
