------------------------------ MODULE SoftUart ------------------------------
(***************************************************************************)
(* One request over two GPIO lines: host/updater-eh/src/softuart.rs and    *)
(* the device's ports/skeletons/softuart_pump.c, bit-banged 8N1 without a  *)
(* common clock.  Time is in ticks, HostBit of them to a bit of the host   *)
(* and devBit to a bit of the device; a line's level at any tick is a      *)
(* function of what was sent on it and of a break (a stretch held low).    *)
(* A step is one received character: the start edge hunted for, eight data *)
(* bits and the stop bit sampled.                                          *)
(***************************************************************************)
EXTENDS Framing

CONSTANTS
    HostBit,       \* SOFTUART_BIT_NS
    DevBits,       \* SOFTUART_BIT_US by the device's clock: the tolerance
    Poll,          \* the interval between samples of an idle line
    PollAttempts,  \* poll_attempts
    ScanLimit,     \* scan_limit
    Turnarounds,   \* how long the device takes from request to reply
    Request, Reply,  \* the frames
    Breaks,        \* the breaks to explore: dir, from, upto
    Horizon        \* bounds time: nothing happens on a line from here on

ASSUME TimesAssumption ==
    /\ HostBit \in Nat \ {0} /\ DevBits \subseteq Nat \ {0} /\ Poll \in Nat \ {0}
    /\ Turnarounds \subseteq Nat /\ Horizon \in Nat
ASSUME CountsAssumption == PollAttempts \in Nat \ {0} /\ ScanLimit \in Nat \ {0}
ASSUME MessagesAssumption == Request \in Seq(Byte) /\ Reply \in Seq(Byte)
ASSUME BreaksAssumption ==
    \A b \in Breaks : b.dir \in {"request", "reply"} /\ b.from \in Nat /\ b.upto \in Nat

VARIABLES
    devBit, turnaround, noise,  \* chosen once: the environment
    phase,     \* "request": the device receives; "reply": the host does
    now,       \* the receiver's time
    answerAt,  \* when the device's reply starts; Horizon: it does not
    link,      \* the device's receiver
    scanner,   \* the host's receiver
    attempts, junk,  \* idle samples and bytes without a frame, of the host
    outcome    \* of the request: "none", "frame", "exhausted", "desync"

vars == <<devBit, turnaround, noise, phase, now, answerAt, link, scanner,
          attempts, junk, outcome>>

(* send_byte, pump_put: a start bit, the data bits from the lowest on and  *)
(* a stop bit; the line is at mark (1) before and after.                   *)
Bits(b) ==
    <<0, b % 2, (b \div 2) % 2, (b \div 4) % 2, (b \div 8) % 2, (b \div 16) % 2,
      (b \div 32) % 2, (b \div 64) % 2, (b \div 128) % 2, 1>>

Wave(msg, bit) ==
    [t \in 0 .. 10 * bit * Len(msg) - 1 |->
        Bits(msg[t \div (10 * bit) + 1])[(t % (10 * bit)) \div bit + 1]]

RequestWave == Wave(<<Sync>> \o Request, HostBit)
ReplyWave   == [bit \in DevBits |-> Wave(<<Sync>> \o Reply, bit)]

Driven(wave, t) == IF t \in DOMAIN wave THEN wave[t] ELSE 1

(* The host holds mark for one bit before its request.                     *)
RequestAt  == HostBit
RequestEnd == RequestAt + 10 * HostBit * (Len(Request) + 1)

(* A break that reaches Horizon never ends.                                *)
Broken(t) ==
    noise.dir = phase /\ t >= noise.from /\ (t < noise.upto \/ noise.upto > Horizon)

(* The level the receiver of this phase samples.                           *)
Level(t) ==
    IF Broken(t) THEN 0
    ELSE IF phase = "request" THEN Driven(RequestWave, t - RequestAt)
    ELSE Driven(ReplyWave[devBit], t - answerAt)

(* The receiver's own bit time.                                            *)
Bit == IF phase = "request" THEN devBit ELSE HostBit
Half == Bit \div 2

(* Faulty variant: the first sample at the edge of data bit 0.             *)
FirstSampleEarly == Bit

(* 1.5 bit times from the start edge to the centre of data bit 0.          *)
FirstSample == Bit + Half

(* What the receiver reads after an edge seen at tick e: sample n of it is *)
(* n.5 bit times behind the edge.                                          *)
Sample(e, n) == Level(e + FirstSample + (n - 1) * Bit)
Char(e) ==
    Sample(e, 1) + 2 * Sample(e, 2) + 4 * Sample(e, 3) + 8 * Sample(e, 4)
    + 16 * Sample(e, 5) + 32 * Sample(e, 6) + 64 * Sample(e, 7) + 128 * Sample(e, 8)
StopAt(e) == e + FirstSample + 8 * Bit
FramingError(e) == Level(StopAt(e)) = 0

(* Faulty variant: a new start bit is hunted for at once.                  *)
MarkAtOnce(t) == t

(* After a framing error: the line is given 20 half bits to return to mark *)
(* before a start bit is hunted for again.                                 *)
MarkAfter(t) ==
    LET high == {k \in 0 .. 19 : Level(t + k * Half) = 1}
    IN t + Half * (IF high = {} THEN 20 ELSE CHOOSE k \in high : \A j \in high : k <= j)

(* Where the next character leaves the receiver.                           *)
After(e) ==
    LET t == IF FramingError(e) THEN MarkAfter(StopAt(e)) ELSE StopAt(e)
    IN IF t < Horizon THEN t ELSE Horizon

(* The sample that sees the next start edge, counted from now; n if none   *)
(* of the next n does.                                                     *)
Idle(n) ==
    CHOOSE k \in 0 .. n :
        /\ k = n \/ Level(now + k * Poll) = 0
        /\ \A j \in 0 .. k - 1 : Level(now + j * Poll) = 1
-----------------------------------------------------------------------------
Init ==
    /\ devBit \in DevBits /\ turnaround \in Turnarounds /\ noise \in Breaks
    /\ phase = "request" /\ now = 0 /\ answerAt = Horizon
    /\ link = Hunting /\ scanner = Hunting
    /\ attempts = 0 /\ junk = 0
    /\ outcome = "none"

(* Enough to see the last edge of the request or of a break.               *)
Samples == Horizon \div Poll + 1

(* pump_get behind link_poll.  A framing error yields no byte.             *)
DevHears ==
    /\ phase = "request" /\ now < Horizon
    /\ \E k \in {Idle(Samples)} : \E e \in {now + k * Poll} : \E c \in {Char(e)} :
          LET takes == ~FramingError(e) /\ LinkDelivers(link, c)
          IN /\ k < Samples
             /\ link' = IF FramingError(e) THEN link ELSE LinkByte(link, c)
             /\ phase' = IF takes THEN "reply" ELSE "request"
             /\ answerAt' = IF takes THEN After(e) + turnaround ELSE answerAt
             /\ now' = IF takes THEN RequestEnd ELSE After(e)
    /\ UNCHANGED <<devBit, turnaround, noise, scanner, attempts, junk, outcome>>

(* No more characters, and no request: the host waits in vain.             *)
DevHearsNothing ==
    /\ phase = "request"
    /\ now >= Horizon \/ Idle(Samples) = Samples
    /\ phase' = "reply" /\ now' = RequestEnd
    /\ UNCHANGED <<devBit, turnaround, noise, answerAt, link, scanner, attempts,
                   junk, outcome>>

(* Faulty variant: only scanned bytes count as junk.                       *)
JunkAfterScanned(e, c) ==
    IF ~FramingError(e) /\ ~ScanByte(scanner, c).inFrame /\ ~ScanDone(scanner, c)
    THEN junk + 1 ELSE junk

(* A framing error, a byte between frames and a dropped frame count.       *)
JunkAfter(e, c) ==
    IF FramingError(e) \/ (~ScanByte(scanner, c).inFrame /\ ~ScanDone(scanner, c))
    THEN junk + 1 ELSE junk

HostHears ==
    /\ phase = "reply" /\ outcome = "none"
    /\ \E k \in {Idle(PollAttempts - attempts)} :
       \E e \in {now + k * Poll} : \E c \in {Char(e)} :
          LET done == ~FramingError(e) /\ ScanDone(scanner, c)
          IN /\ attempts + k < PollAttempts
             /\ attempts' = attempts + k
             /\ junk' = JunkAfter(e, c)
             /\ scanner' = IF FramingError(e) THEN scanner
                           ELSE IF done THEN [scanner EXCEPT !.buf = Append(@, c)]
                           ELSE ScanByte(scanner, c)
             /\ now' = After(e)
             /\ outcome' = IF done THEN "frame"
                           ELSE IF junk' > junk /\ junk' >= ScanLimit THEN "desync"
                           ELSE "none"
    /\ UNCHANGED <<devBit, turnaround, noise, phase, answerAt, link>>

HostGivesUp ==
    /\ phase = "reply" /\ outcome = "none"
    /\ attempts + Idle(PollAttempts - attempts) >= PollAttempts
    /\ attempts' = PollAttempts
    /\ outcome' = "exhausted"
    /\ UNCHANGED <<devBit, turnaround, noise, phase, now, answerAt, link, scanner, junk>>

Done == outcome # "none" /\ UNCHANGED vars

Receive == DevHears \/ DevHearsNothing \/ HostHears \/ HostGivesUp
Next == Receive \/ Done

(* Both ends busy-wait: characters keep being sampled.                     *)
Spec == Init /\ [][Next]_vars /\ WF_vars(Receive)
-----------------------------------------------------------------------------
(* The budget that softuart_pump.h derives: sample n of a character falls  *)
(* into bit n of the sender, the edge seen at once or Poll ticks late.     *)
InBudget(sender, receiver) ==
    \A n \in 1 .. 9 :
        /\ n * sender <= n * receiver + receiver \div 2
        /\ n * receiver + receiver \div 2 + Poll <= (n + 1) * sender

(* Either end can read the other, and takes the frames there are.          *)
Matched ==
    /\ \A d \in DevBits : InBudget(HostBit, d) /\ InBudget(d, HostBit)
    /\ FrameParse(Request) /\ Len(Request) <= BufLen
    /\ Decode(Reply) /\ Len(Reply) <= HostBufLen

(* The device turns around no sooner than the host listens, and the poll   *)
(* budget outlasts the line's idle time: the turnaround and, for each      *)
(* character, what is left of its ten bits after the stop bit's sample.    *)
Patient ==
    \A d \in DevBits, u \in Turnarounds :
        /\ u >= HostBit
        /\ RequestEnd + u + 10 * d * (Len(Reply) + 1) <= Horizon
        /\ \A i \in 0 .. Len(Reply) :
              u + 10 * d * i + Poll
                <= PollAttempts * Poll + i * (9 * HostBit + HostBit \div 2)

(* Ticks fine enough for the 20 half bits after a framing error to cover   *)
(* 19 whole bits, and a scan limit that outlasts one byte of junk.         *)
Tolerant == HostBit >= 20 /\ ScanLimit > 1

Quiet == noise.from = noise.upto

(* On a quiet line the reply arrives, for every clock in the tolerance,    *)
(* every phase between edge and sample and every turnaround of at least    *)
(* one bit: the sampling error stays under the half bit the derivation in  *)
(* softuart_pump.h allows.                                                 *)
QuietLineSucceeds == Quiet /\ outcome # "none" => outcome = "frame"

(* A break longer than a character, up to the 19 bits that the wait for    *)
(* mark covers, that is over one bit before the reply costs nothing: the   *)
(* host sees it as one framing error and no phantom start bit eats into    *)
(* the reply.                                                              *)
BreakRecovered ==
    /\ noise.upto - noise.from \in 10 * HostBit .. 19 * HostBit
    /\ noise.dir = "reply" /\ noise.from >= RequestEnd
    /\ phase = "reply" /\ noise.upto + HostBit <= answerAt
    /\ outcome # "none"
    => outcome = "frame" /\ junk = 1

(* Whatever a break does to a message, no other frame comes of it: the     *)
(* device answers the request that was sent, the host accepts the reply.   *)
NothingForged ==
    /\ answerAt # Horizon => link.buf = Request
    /\ outcome = "frame" => scanner.buf = Reply

(* Every request ends, also on a line that is held low for good.           *)
RequestEnds == <>(outcome # "none")
=============================================================================
