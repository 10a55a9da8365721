----------------------------- MODULE LinkStream -----------------------------
(***************************************************************************)
(* A host that sends a request over a byte stream and sends it again until *)
(* the device has taken it, a wire that loses and damages bytes (a UART    *)
(* overrun while the device was busy), and the device's receive machine,   *)
(* which no port resets once it runs.  Answers always arrive here: what    *)
(* becomes of a lost one is the subject of Update.  A host receiver that   *)
(* hears the same bytes runs beside the device's (StreamMirror).           *)
(***************************************************************************)
EXTENDS StreamMirror

CONSTANTS
    Start,        \* the request every job starts with: INFO
    Frames,       \* the requests that may follow
    LaterNoise,   \* what a damaged byte may become after the first,
                  \* which may become any byte of Alphabet
    RetryBudget,  \* RETRY_BUDGET of session.rs
    MaxFaults     \* bound on lost and damaged bytes

ASSUME FramesAssumption ==
    /\ \A f \in Frames \cup {Start} :
          f \in Seq(Byte) /\ FrameParse(f) /\ Len(f) <= BufLen
    /\ LaterNoise \subseteq Byte
ASSUME BudgetAssumption == RetryBudget \in Nat /\ MaxFaults \in Nat

VARIABLES
    frame,    \* the request of the current exchange
    tries,    \* how often the exchange has sent it
    failed,   \* an exchange has spent its budget
    wire,     \* bytes on their way
    got,      \* the frame the device took last, << >> at first
    faults,   \* counts faults, for MaxFaults
    fate      \* history: of an attempt that found the receiver between
              \* frames, "intact" or "damaged"; of any other, "unknown"

vars == <<frame, tries, failed, wire, got, faults, fate, mirrorVars>>

Init ==
    /\ frame = Start
    /\ tries = 0 /\ failed = FALSE
    /\ wire = <<>>
    /\ MirrorInit
    /\ got = <<>>
    /\ faults = 0 /\ fate = "unknown"

Pending == got # frame

(* One attempt of the exchange.  The timeout of the previous one is longer *)
(* than its bytes take.                                                    *)
HostSends ==
    /\ Pending /\ wire = <<>>
    /\ tries <= RetryBudget
    /\ tries' = tries + 1
    /\ wire' = <<Sync>> \o frame
    /\ fate' = IF link.inFrame THEN "unknown" ELSE "intact"
    /\ UNCHANGED <<frame, failed, got, faults, mirrorVars>>

(* The budget is spent and the job fails; the operator starts it over.     *)
HostGivesUp ==
    /\ Pending /\ wire = <<>>
    /\ tries = RetryBudget + 1
    /\ tries' = 0 /\ failed' = TRUE
    /\ frame' = Start /\ got' = <<>> /\ fate' = "unknown"
    /\ UNCHANGED <<wire, faults, mirrorVars>>

HostProceeds ==
    /\ ~Pending /\ wire = <<>>
    /\ frame' \in Frames
    /\ tries' = 0 /\ failed' = FALSE
    /\ got' = <<>> /\ fate' = "unknown"
    /\ UNCHANGED <<wire, faults, mirrorVars>>

Fault == wire # <<>> /\ faults < MaxFaults /\ faults' = faults + 1

LoseByte ==
    /\ Fault
    /\ wire' = Tail(wire)
    /\ fate' = "unknown"
    /\ UNCHANGED <<frame, tries, failed, got, mirrorVars>>

Damage == IF faults = 0 THEN Alphabet ELSE LaterNoise

(* The byte at the head of the wire opens or measures the frame.           *)
SyncOrLen == Len(wire) \in {Len(frame) + 1, Len(frame) - 1}

DamageByte(b) ==
    /\ Fault /\ b # Head(wire)
    /\ wire' = <<b>> \o Tail(wire)
    /\ fate' = IF fate = "intact" /\ ~SyncOrLen THEN "damaged" ELSE "unknown"
    /\ UNCHANGED <<frame, tries, failed, got, mirrorVars>>

(* link_poll takes the next byte.                                          *)
DevTakesByte ==
    /\ wire # <<>>
    /\ wire' = Tail(wire)
    /\ Arrives(Head(wire))
    /\ got' = IF delivered' THEN link'.buf ELSE got
    /\ UNCHANGED <<frame, tries, failed, faults, fate>>

Host == HostSends \/ HostGivesUp \/ HostProceeds
Next == Host \/ LoseByte \/ (\E b \in Damage : DamageByte(b)) \/ DevTakesByte

(* The host retries and starts over; the device polls.                     *)
FairSpec == Init /\ [][Next]_vars /\ WF_vars(Host) /\ WF_vars(DevTakesByte)
-----------------------------------------------------------------------------
(* An attempt that finds the receiver between frames keeps it in step,     *)
(* whatever was lost and damaged before it.  Intact, it is taken, and as   *)
(* it was sent: a sync byte in page data, even a whole framed request,     *)
(* does no harm.  With one byte damaged, not the sync and not LEN, nothing *)
(* is taken and the receiver is between frames again for the retry.        *)
(* Nothing of the kind holds of a receiver that has lost step: see Limits  *)
(* in the README.                                                          *)
InStep ==
    wire = <<>> => /\ fate = "intact" => got = frame
                   /\ fate = "damaged" => ~delivered /\ ~link.inFrame

(* What the second half asks of the CRC: every request differs from its    *)
(* neighbours, those with one other byte in the place of CMD, of a payload *)
(* byte or of the CRC.                                                     *)
Garbled(f) == {[f EXCEPT ![i] = b] : i \in (1 .. Len(f)) \ {2}, b \in Byte} \ {f}
DamageDetected == \A f \in Frames \cup {Start} : \A g \in Garbled(f) : ~FrameParse(g)

(* Losses and damage do not wedge the receiver (link_stream.c: "No wedge   *)
(* is possible"): a host that keeps starting over gets requests beyond the *)
(* first of a job through again and again, also when a request holds a     *)
(* sync byte that a receiver out of step takes for the start of a frame.   *)
Heard == []<>(~Pending /\ frame # Start)

(* One lost or damaged byte is repaired within the retry budget            *)
(* (uart_pump.h: "the host's timeout+retry recovers").                     *)
OneFaultRepaired == failed => faults > 1
=============================================================================
