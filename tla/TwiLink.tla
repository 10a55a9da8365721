------------------------------ MODULE TwiLink ------------------------------
(***************************************************************************)
(* I2C byte by byte: the host's session over LinuxI2c or I2cTransport      *)
(* (write a frame, read a window of fixed length) against the polled TWI   *)
(* client of device/ports/avr_ea_twi/twi.c and the main loop behind it.    *)
(*                                                                         *)
(* The bus offers the client one event at a time and is stretched while it *)
(* is pending, except that a Stop releases the bus: the next start may     *)
(* come before the client has seen it.  (An error flag does not stretch    *)
(* either, but it is always serviced before the start that follows it.)    *)
(* awaiting and rx_done of the code are one variable here, frame: twi_poll *)
(* parks a frame and port_recv takes it in the same call, and no poll      *)
(* happens until it is answered.                                           *)
(***************************************************************************)
EXTENDS Framing

CONSTANTS
    Requests,      \* the frames of a job, in order
    Window(_),     \* the length of the receive window of a request
    Answer(_),     \* the reply to a frame that parses
    BadFrame(_),   \* the reply to a frame that does not
    RetryBudget,   \* RETRY_BUDGET
    PollAttempts,  \* poll_attempts: reads per request
    MaxFaults      \* bound on disturbances of the bus

ASSUME TwiAssumption ==
    /\ Requests \in Seq(Seq(Byte)) /\ Requests # <<>>
    /\ RetryBudget \in Nat /\ PollAttempts \in Nat /\ MaxFaults \in Nat

(* A request is a frame, and its reply one of status OK that fits the      *)
(* window.                                                                 *)
ASSUME AnswerAssumption ==
    \A i \in DOMAIN Requests :
        LET r == Requests[i]
        IN /\ FrameParse(r) /\ FrameParse(Answer(r)) /\ Answer(r) \in Seq(Byte)
           /\ Answer(r)[1] = r[1] + 128 /\ Answer(r)[2] >= 1 /\ Answer(r)[3] = 0
           /\ Len(Answer(r)) <= FrameMax
           /\ Window(r) \in Nat /\ Len(Answer(r)) <= Window(r)

VARIABLES
    nr, tries, polls,          \* host: the request, re-sends, failed reads
    hpc,                       \* host: "write", "read", "ok", "failed"
    out, in,                   \* bytes left to write, bytes read
    event,                     \* what the client is to service, or "none"
    sdata,                     \* a byte put on the bus by either side
    rx, rxOver, inWrite,       \* client, write transaction
    tx, txIdx, txFirst, txActive, txConsumed,
    frame,                     \* the frame main is working on, or << >>
    served,                    \* what main handled last
    faults                     \* counts disturbances, for MaxFaults

host   == <<nr, tries, polls, hpc, out, in>>
client == <<rx, rxOver, inWrite, tx, txIdx, txFirst, txActive, txConsumed, frame, served>>
vars   == <<host, event, sdata, client, faults>>

NoByte == -1

Init ==
    /\ nr = 1 /\ tries = 0 /\ polls = 0
    /\ hpc = "write" /\ out = Requests[1] /\ in = <<>>
    /\ event = "none" /\ sdata = NoByte
    /\ rx = <<>> /\ rxOver = FALSE /\ inWrite = FALSE
    /\ tx = <<>> /\ txIdx = 0
    /\ txFirst = FALSE /\ txActive = FALSE /\ txConsumed = FALSE
    /\ frame = <<>> /\ served = <<>>
    /\ faults = 0

Fault == faults < MaxFaults /\ faults' = faults + 1
-----------------------------------------------------------------------------
(* exchange: the attempt failed; the identical request goes out again.     *)
Retry ==
    /\ polls' = 0 /\ in' = <<>> /\ out' = Requests[nr]
    /\ IF tries = RetryBudget
       THEN hpc' = "failed" /\ UNCHANGED tries
       ELSE hpc' = "write" /\ tries' = tries + 1
    /\ UNCHANGED nr

Proceed ==
    /\ polls' = 0 /\ in' = <<>> /\ tries' = 0
    /\ IF nr = Len(Requests)
       THEN hpc' = "ok" /\ UNCHANGED <<nr, out>>
       ELSE hpc' = "write" /\ nr' = nr + 1 /\ out' = Requests[nr + 1]

(* validate: a decodable frame, this command's, with status OK.  No reply  *)
(* here is a final refusal.                                                *)
Valid(raw) ==
    /\ DecodePadded(raw)
    /\ raw[1] = Requests[nr][1] + 128
    /\ raw[2] >= 1 /\ raw[3] = 0

(* A transaction begins; a Stop not serviced yet is overtaken.             *)
HostStarts ==
    /\ event \in {"none", "stop"} /\ in = <<>>
    /\ \/ hpc = "write" /\ out = Requests[nr] /\ event' = "write" /\ hpc' = "writing"
       \/ hpc = "read" /\ event' = "read" /\ hpc' = "reading"
    /\ UNCHANGED <<nr, tries, polls, out, in, sdata, client, faults>>

(* The next byte of the request, intact or damaged.                        *)
HostWritesByte ==
    /\ hpc = "writing" /\ event = "none" /\ out # <<>>
    /\ event' = "data"
    /\ \/ sdata' = Head(out) /\ UNCHANGED faults
       \/ sdata' = (Head(out) + 1) % 256 /\ Fault
    /\ out' = Tail(out)
    /\ UNCHANGED <<nr, tries, polls, hpc, in, client>>

HostStopsWrite ==
    /\ hpc = "writing" /\ event = "none" /\ out = <<>>
    /\ event' = "stop" /\ hpc' = "read"
    /\ UNCHANGED <<nr, tries, polls, out, in, sdata, client, faults>>

(* The host clocks a byte in and acknowledges all but the last.            *)
HostReadsByte ==
    /\ hpc = "reading" /\ event = "none" /\ sdata # NoByte
    /\ \/ in' = Append(in, sdata) /\ UNCHANGED faults
       \/ in' = Append(in, (sdata + 1) % 256) /\ Fault
    /\ sdata' = NoByte
    /\ event' = IF Len(in') = Window(Requests[nr]) THEN "nack" ELSE "ack"
    /\ UNCHANGED <<nr, tries, polls, hpc, out, client>>

Judge(raw) == IF Valid(raw) THEN Proceed ELSE Retry

HostStopsRead ==
    /\ hpc = "reading" /\ event = "none" /\ Len(in) = Window(Requests[nr])
    /\ event' = "stop"
    /\ Judge(in)
    /\ UNCHANGED <<sdata, client, faults>>

(* A bus error: the client drops out of the transaction.  A write or a     *)
(* read fails on the host's side too, and a read may also go on to its end *)
(* on an idle bus.                                                         *)
BusError ==
    /\ Fault
    /\ event' = "error" /\ sdata' = NoByte
    /\ \/ hpc = "writing" /\ Retry
       \/ /\ hpc = "reading"
          /\ IF polls + 1 >= PollAttempts THEN Retry
             ELSE /\ polls' = polls + 1 /\ in' = <<>> /\ hpc' = "read"
                  /\ UNCHANGED <<nr, tries, out>>
       \/ /\ hpc = "reading"
          /\ Judge(in \o [i \in 1 .. Window(Requests[nr]) - Len(in) |-> Filler])
    /\ UNCHANGED client
-----------------------------------------------------------------------------
(* twi_poll, one pending condition per call.                               *)
OnError ==
    /\ event = "error" /\ event' = "none"
    /\ rx' = <<>> /\ rxOver' = FALSE /\ inWrite' = FALSE
    /\ txActive' = FALSE /\ txFirst' = FALSE
    /\ UNCHANGED <<sdata, tx, txIdx, txConsumed, frame>>

(* Faulty variant: the end of any read counts.                             *)
EndOfAnyRead ==
    /\ txActive' = FALSE /\ txFirst' = FALSE
    /\ txConsumed' = TRUE

(* end_read_txn: the reply is consumed once it has been streamed whole.    *)
EndRead ==
    /\ txActive' = FALSE /\ txFirst' = FALSE
    /\ txConsumed' = (txConsumed \/ (tx # <<>> /\ txIdx >= Len(tx)))

(* The end of a write: a whole frame or nothing, which port_recv takes.    *)
Park ==
    /\ inWrite' = FALSE /\ rx' = <<>> /\ rxOver' = FALSE
    /\ frame' = IF rxOver THEN <<>> ELSE rx
    /\ IF frame' = <<>> THEN UNCHANGED <<tx, txConsumed>>
       ELSE tx' = <<>> /\ txConsumed' = FALSE

(* Acknowledging a read raises the first data condition, whose RXACK is    *)
(* stale and may be anything.                                              *)
ReadBegins ==
    /\ txFirst' = TRUE /\ txIdx' = 0 /\ txActive' = TRUE
    /\ event' \in {"ack", "nack"}
    /\ UNCHANGED <<rx, rxOver, inWrite, tx>>

(* Faulty variant: the last reply stays armed.                             *)
WriteBeginsOnly ==
    /\ inWrite' = TRUE /\ rx' = <<>> /\ rxOver' = FALSE
    /\ event' = "none"
    /\ UNCHANGED <<tx, txFirst, txIdx, txActive>>

(* A new request invalidates the last reply.                               *)
WriteBegins ==
    /\ inWrite' = TRUE /\ rx' = <<>> /\ rxOver' = FALSE /\ tx' = <<>>
    /\ event' = "none"
    /\ UNCHANGED <<txFirst, txIdx, txActive>>

(* Faulty variant: only a Stop ends a write.                               *)
OnAddressNoPark ==
    /\ \/ event = "read" /\ ReadBegins
       \/ event = "write" /\ WriteBegins
    /\ UNCHANGED <<sdata, txConsumed, frame>>

(* Address match.  A write whose Stop was overtaken ends here; the event   *)
(* then stays pending and the bus stretched until the frame is answered.   *)
OnAddress ==
    /\ event \in {"write", "read"}
    /\ IF inWrite
       THEN Park /\ UNCHANGED <<event, txIdx, txFirst, txActive>>
       ELSE /\ IF event = "read" THEN ReadBegins ELSE WriteBegins
            /\ UNCHANGED <<txConsumed, frame>>
    /\ UNCHANGED sdata

OnStop ==
    /\ event = "stop" /\ event' = "none"
    /\ IF inWrite
       THEN Park /\ UNCHANGED <<txFirst, txActive>>
       ELSE /\ IF txActive THEN EndRead ELSE UNCHANGED <<txFirst, txActive, txConsumed>>
            /\ UNCHANGED <<rx, rxOver, inWrite, tx, frame>>
    /\ UNCHANGED <<sdata, txIdx>>

(* Client transmit: on the first byte RXACK is not looked at; past the     *)
(* reply there is filler.                                                  *)
OnTransmit ==
    /\ event \in {"ack", "nack"} /\ event' = "none"
    /\ IF event = "nack" /\ ~txFirst
       THEN EndRead /\ UNCHANGED <<sdata, txIdx>>
       ELSE /\ txFirst' = FALSE
            /\ sdata' = IF txIdx < Len(tx) THEN tx[txIdx + 1] ELSE Filler
            /\ txIdx' = IF txIdx < Len(tx) THEN txIdx + 1 ELSE txIdx
            /\ UNCHANGED <<txActive, txConsumed>>
    /\ UNCHANGED <<rx, rxOver, inWrite, tx, frame>>

(* A frame beyond the buffer is swallowed, and dropped when it ends.       *)
OnReceive ==
    /\ event = "data" /\ event' = "none"
    /\ rx' = IF inWrite /\ Len(rx) < BufLen THEN Append(rx, sdata) ELSE rx
    /\ rxOver' = (rxOver \/ (inWrite /\ Len(rx) >= BufLen))
    /\ sdata' = NoByte
    /\ UNCHANGED <<inWrite, tx, txIdx, txFirst, txActive, txConsumed, frame>>

DevPolls ==
    /\ frame = <<>>
    /\ OnError \/ OnAddress \/ OnStop \/ OnTransmit \/ OnReceive
    /\ UNCHANGED <<host, served, faults>>

(* Faulty variant: the stretch is not released.                            *)
DevAnswersStretched ==
    /\ frame # <<>>
    /\ tx' = IF FrameParse(frame) THEN Answer(frame) ELSE BadFrame(frame)
    /\ txIdx' = 0 /\ txConsumed' = FALSE /\ served' = frame
    /\ UNCHANGED <<host, event, sdata, rx, rxOver, inWrite, txFirst, txActive, frame, faults>>

(* main handles the frame, port_send arms the reply and ends the stretch.  *)
DevAnswers ==
    /\ frame # <<>>
    /\ tx' = IF FrameParse(frame) THEN Answer(frame) ELSE BadFrame(frame)
    /\ txIdx' = 0 /\ txConsumed' = FALSE
    /\ served' = frame /\ frame' = <<>>
    /\ UNCHANGED <<host, event, sdata, rx, rxOver, inWrite, txFirst, txActive, faults>>

Over == hpc \in {"ok", "failed"} /\ event = "none" /\ frame = <<>> /\ UNCHANGED vars

Host == HostStarts \/ HostWritesByte \/ HostStopsWrite \/ HostReadsByte \/ HostStopsRead
Next == Host \/ BusError \/ DevPolls \/ DevAnswers \/ Over

(* The host goes on when the bus lets it, the device runs its loop.        *)
FairSpec == Init /\ [][Next]_vars /\ WF_vars(Host) /\ WF_vars(DevPolls) /\ WF_vars(DevAnswers)
-----------------------------------------------------------------------------
(* A request the session accepts as done was handled by the device, and is *)
(* the last one it handled: no reply of an earlier request, none cut short *)
(* and padded, passes for it.                                              *)
AckMeansDone ==
    [][hpc = "reading" /\ (nr' # nr \/ hpc' = "ok") => served = Requests[nr]]_vars

(* twi_response_consumed, on which BOOT jumps: the host has then clocked   *)
(* in the whole reply that is armed, byte for byte but for damage.         *)
ConsumedMeansRead ==
    [][txConsumed' /\ ~txConsumed
       => /\ hpc = "reading" /\ tx # <<>> /\ Len(in) >= Len(tx)
          /\ faults = 0 => SubSeq(in, 1, Len(tx)) = tx]_vars

(* An undisturbed bus needs no second attempt, wherever the polls fall:    *)
(* only a frame that exceeds the client's buffer is not answered.          *)
QuietBusSucceeds == faults = 0 /\ tries > 0 => Len(Requests[nr]) > BufLen

(* The client stretches, but not for ever: every job ends.                 *)
JobEnds == <>(hpc \in {"ok", "failed"})
=============================================================================
