-------------------------- MODULE TwiLink_proofs --------------------------
(***************************************************************************)
(* The polled TWI client streams a reply as the host clocks it, and an     *)
(* undisturbed bus needs no second attempt: for every series of requests,  *)
(* window, buffer size and retry budget, wherever the polls fall.          *)
(***************************************************************************)
EXTENDS TwiLink, TLAPS

(* Replies are bytes, whatever frame is answered.                          *)
RepliesAreBytes ==
    \A f \in Seq(Byte) \ {<<>>} :
        BadFrame(f) \in Seq(Byte) /\ (FrameParse(f) => Answer(f) \in Seq(Byte))

TwiType ==
    /\ nr \in DOMAIN Requests /\ tries \in Nat /\ faults \in Nat
    /\ hpc \in {"write", "writing", "read", "reading", "ok", "failed"}
    /\ event \in {"none", "write", "read", "data", "ack", "nack", "stop", "error"}
    /\ out \in Seq(Byte) /\ in \in Seq(Byte) /\ rx \in Seq(Byte)
    /\ tx \in Seq(Byte) /\ frame \in Seq(Byte)
    /\ sdata \in Byte \cup {NoByte} /\ (event = "data" => sdata \in Byte)
    /\ txIdx \in Nat
    /\ rxOver \in BOOLEAN /\ inWrite \in BOOLEAN
    /\ txFirst \in BOOLEAN /\ txActive \in BOOLEAN /\ txConsumed \in BOOLEAN

(* The host clocks bytes of a read the client has acknowledged.            *)
Streaming == hpc = "reading" /\ event \in {"none", "ack", "nack"}

(* Which events the bus offers while the host is where it is.              *)
Phases ==
    /\ hpc \in {"write", "read", "ok", "failed"} => event \in {"none", "stop", "error"}
    /\ hpc = "writing" => event \in {"write", "data", "none"}
    /\ hpc = "reading" => event \in {"read", "ack", "nack", "none"}
    /\ hpc # "reading" \/ event = "read" => in = <<>>
    /\ sdata # NoByte => event = "data" \/ (Streaming /\ event = "none")
    /\ txActive => Streaming \/ event = "error"
    /\ Streaming => frame = <<>> /\ ~inWrite

(* Bytes the client has put on the bus in this read, and what byte i of a  *)
(* reply s reads as.                                                       *)
Clocked == Len(in) + (IF sdata = NoByte THEN 0 ELSE 1)
Padded(s, i) == IF i <= Len(s) THEN s[i] ELSE Filler

(* The index into the reply follows the host's clock up to the end of the  *)
(* reply, and what the host has is the reply so far.                       *)
Stream ==
    Streaming =>
    /\ txActive <=> event # "none" \/ sdata # NoByte
    /\ txActive => /\ txIdx = IF Clocked <= Len(tx) THEN Clocked ELSE Len(tx)
                   /\ txFirst <=> event # "none" /\ in = <<>>
    /\ sdata # NoByte \/ event = "ack" => Len(in) < Window(Requests[nr])
    /\ faults = 0 => /\ \A i \in DOMAIN in : in[i] = Padded(tx, i)
                     /\ sdata # NoByte => sdata = Padded(tx, Clocked)

ReadInv == TwiType /\ Phases /\ Stream

-----------------------------------------------------------------------------
(* Every request has a window for at least one byte.                       *)
LEMMA RequestFacts ==
    ASSUME NEW i \in DOMAIN Requests
    PROVE  /\ Requests[i] \in Seq(Byte) /\ Requests[i] # <<>>
           /\ Window(Requests[i]) \in Nat /\ Window(Requests[i]) >= 1
<1>1. Requests[i] \in Seq(Byte)
  BY TwiAssumption
<1>2. Len(Requests[i]) >= 3 /\ Len(Answer(Requests[i])) >= 3
  BY AnswerAssumption DEF FrameParse, Overhead
<1>3. Window(Requests[i]) \in Nat /\ Len(Answer(Requests[i])) <= Window(Requests[i])
      /\ Len(Answer(Requests[i])) \in Nat
  BY AnswerAssumption
<1> QED BY <1>1, <1>2, <1>3

(* A damaged byte is a byte.                                               *)
LEMMA DamagedByte ==
    ASSUME NEW b \in Byte
    PROVE  (b + 1) % 256 \in Byte
<1>1. b + 1 \in Int
  BY DEF Byte
<1>2. (b + 1) % 256 \in 0 .. 255
  BY <1>1
<1> QED BY <1>2 DEF Byte

(* However an attempt ends, the host is ready to write or is done.         *)
LEMMA AttemptEnds ==
    ASSUME TwiType, Retry \/ Proceed
    PROVE  /\ nr' \in DOMAIN Requests /\ tries' \in Nat
           /\ out' \in Seq(Byte) /\ in' = <<>>
           /\ hpc' \in {"write", "ok", "failed"}
           /\ hpc' = "write" => out' = Requests[nr']
<1>1. Requests[nr] \in Seq(Byte)
  BY RequestFacts DEF TwiType
<1>2. CASE Retry
  BY <1>1, <1>2 DEF Retry, TwiType
<1>3. CASE Proceed /\ nr = Len(Requests)
  BY <1>3 DEF Proceed, TwiType
<1>4. CASE Proceed /\ nr # Len(Requests)
  <2>1. nr + 1 \in DOMAIN Requests
    BY <1>4, TwiAssumption DEF TwiType
  <2> QED BY <1>4, <2>1, RequestFacts DEF Proceed
<1> QED BY <1>2, <1>3, <1>4

(* Bus, client and host stay well typed, whatever is damaged.              *)
LEMMA TwiTypeStep ==
    ASSUME RepliesAreBytes, TwiType, [Next]_vars
    PROVE  TwiType'
<1>0. <<>> \in Seq(Byte) /\ NoByte \notin Byte /\ Filler \in Byte
  BY DEF Byte, NoByte, Filler
<1>1. CASE HostStarts
  BY <1>1 DEF HostStarts, client, TwiType
<1>2. CASE HostWritesByte
  <2>1. Head(out) \in Byte /\ Tail(out) \in Seq(Byte)
    BY <1>2 DEF HostWritesByte, TwiType
  <2>2. sdata' \in Byte
    BY <1>2, <2>1, DamagedByte DEF HostWritesByte
  <2> QED BY <1>2, <2>1, <2>2 DEF HostWritesByte, Fault, client, TwiType
<1>3. CASE HostStopsWrite
  BY <1>3 DEF HostStopsWrite, client, TwiType
<1>4. CASE HostReadsByte
  <2>1. sdata \in Byte /\ (sdata + 1) % 256 \in Byte
    BY <1>4, DamagedByte DEF HostReadsByte, TwiType
  <2>2. in' \in Seq(Byte)
    <3>1. \A b \in Byte : Append(in, b) \in Seq(Byte)
      BY DEF TwiType
    <3> QED BY <1>4, <2>1, <3>1 DEF HostReadsByte
  <2> QED BY <1>4, <2>2 DEF HostReadsByte, Fault, client, TwiType
<1>5. CASE HostStopsRead
  <2>1. Retry \/ Proceed
    BY <1>5 DEF HostStopsRead, Judge
  <2> QED BY <1>0, <1>5, <2>1, AttemptEnds DEF HostStopsRead, client, TwiType
<1>6. CASE BusError
  <2>1. \/ Retry \/ Proceed
        \/ in' = <<>> /\ hpc' = "read" /\ UNCHANGED <<nr, tries, out>>
    BY <1>6 DEF BusError, Judge
  <2>2. /\ nr' \in DOMAIN Requests /\ tries' \in Nat /\ out' \in Seq(Byte)
        /\ in' = <<>> /\ hpc' \in {"write", "read", "ok", "failed"}
    BY <2>1, AttemptEnds DEF TwiType
  <2> QED BY <1>0, <1>6, <2>2 DEF BusError, Fault, client, TwiType
<1>7. CASE DevPolls
  <2>1. UNCHANGED <<nr, tries, hpc, out, in, faults>>
    BY <1>7 DEF DevPolls, host
  <2>2. CASE OnError
    BY <1>0, <2>1, <2>2 DEF OnError, TwiType
  <2>3. CASE OnAddress
    <3>1. CASE inWrite
      BY <1>0, <2>1, <2>3, <3>1 DEF OnAddress, Park, TwiType
    <3>2. CASE ~inWrite /\ event = "read"
      BY <1>0, <2>1, <2>3, <3>2 DEF OnAddress, ReadBegins, TwiType
    <3>3. CASE ~inWrite /\ event # "read"
      BY <1>0, <2>1, <2>3, <3>3 DEF OnAddress, WriteBegins, TwiType
    <3> QED BY <3>1, <3>2, <3>3 DEF TwiType
  <2>4. CASE OnStop
    BY <1>0, <2>1, <2>4 DEF OnStop, Park, EndRead, TwiType
  <2>5. CASE OnTransmit
    <3>1. txIdx < Len(tx) => tx[txIdx + 1] \in Byte
      BY DEF TwiType
    <3>2. CASE event = "nack" /\ ~txFirst
      BY <2>1, <2>5, <3>2 DEF OnTransmit, EndRead, TwiType
    <3>3. CASE ~(event = "nack" /\ ~txFirst)
      <4>1. sdata' \in Byte /\ txIdx' \in Nat /\ txFirst' = FALSE /\ event' = "none"
        BY <1>0, <2>5, <3>1, <3>3 DEF OnTransmit, TwiType
      <4>2. UNCHANGED <<txActive, txConsumed, rx, rxOver, inWrite, tx, frame>>
        BY <2>5, <3>3 DEF OnTransmit
      <4> QED BY <2>1, <4>1, <4>2 DEF TwiType
    <3> QED BY <3>2, <3>3
  <2>6. CASE OnReceive
    <3>1. Append(rx, sdata) \in Seq(Byte)
      BY <2>6 DEF OnReceive, TwiType
    <3> QED BY <2>1, <2>6, <3>1 DEF OnReceive, TwiType
  <2> QED BY <1>7, <2>2, <2>3, <2>4, <2>5, <2>6 DEF DevPolls
<1>8. CASE DevAnswers
  <2>1. frame \in Seq(Byte) \ {<<>>}
    BY <1>8 DEF DevAnswers, TwiType
  <2>2. tx' \in Seq(Byte)
    BY <1>8, <2>1 DEF DevAnswers, RepliesAreBytes
  <2>3. /\ frame' = <<>> /\ txIdx' = 0 /\ txConsumed' = FALSE
        /\ UNCHANGED <<nr, tries, faults, hpc, event, out, in, rx, sdata, rxOver,
                       inWrite, txFirst, txActive>>
    BY <1>8 DEF DevAnswers, host
  <2>4. <<>> \in Seq(Byte) /\ 0 \in Nat
    OBVIOUS
  <2>5. /\ sdata' \in Byte \cup {NoByte} /\ (event' = "data" => sdata' \in Byte)
        /\ rxOver' \in BOOLEAN /\ inWrite' \in BOOLEAN
        /\ txFirst' \in BOOLEAN /\ txActive' \in BOOLEAN /\ txConsumed' \in BOOLEAN
    BY <2>3 DEF TwiType
  <2> QED BY <2>2, <2>3, <2>4, <2>5 DEF TwiType
<1>9. CASE Over \/ UNCHANGED vars
  BY <1>9 DEF Over, vars, host, client, TwiType
<1> QED BY <1>1, <1>2, <1>3, <1>4, <1>5, <1>6, <1>7, <1>8, <1>9 DEF Next, Host

(* The stretched bus keeps the host's phase and the client's event         *)
(* together; a start may only overtake a stop.                             *)
LEMMA PhasesStep ==
    ASSUME TwiType, Phases, Stream, [Next]_vars
    PROVE  Phases'
<1>1. CASE HostStarts
  BY <1>1 DEF HostStarts, client, TwiType, Phases, Streaming
<1>2. CASE HostWritesByte
  BY <1>2 DEF HostWritesByte, client, Phases, Streaming
<1>3. CASE HostStopsWrite
  BY <1>3 DEF HostStopsWrite, client, Phases, Streaming
<1>4. CASE HostReadsByte
  BY <1>4 DEF HostReadsByte, client, Phases, Stream, Streaming
<1>5. CASE HostStopsRead
  <2>1. in' = <<>> /\ hpc' \in {"write", "ok", "failed"}
    BY <1>5, AttemptEnds DEF HostStopsRead, Judge
  <2>2. Streaming /\ sdata = NoByte /\ ~txActive
    BY <1>5 DEF HostStopsRead, Phases, Stream, Streaming, TwiType
  <2> QED BY <1>5, <2>1, <2>2 DEF HostStopsRead, client, Phases, Streaming
<1>6. CASE BusError
  <2>1. in' = <<>> /\ hpc' \in {"write", "read", "ok", "failed"}
    BY <1>6, AttemptEnds DEF BusError, Judge
  <2> QED BY <1>6, <2>1 DEF BusError, client, Phases, Streaming
<1>7. CASE DevPolls
  <2>1. UNCHANGED <<hpc, in>> /\ frame = <<>>
    BY <1>7 DEF DevPolls, host
  <2>2. CASE OnError
    BY <2>1, <2>2 DEF OnError, Phases, Streaming
  <2>3. CASE OnAddress
    <3>1. CASE inWrite
      BY <2>1, <2>3, <3>1 DEF OnAddress, Park, Phases, Streaming
    <3>2. CASE ~inWrite
      BY <2>1, <2>3, <3>2 DEF OnAddress, ReadBegins, WriteBegins, Phases, Streaming, TwiType
    <3> QED BY <3>1, <3>2 DEF TwiType
  <2>4. CASE OnStop
    BY <2>1, <2>4 DEF OnStop, Park, EndRead, Phases, Streaming
  <2>5. CASE OnTransmit
    <3>1. Streaming /\ txActive /\ UNCHANGED <<frame, inWrite>> /\ event' = "none"
      BY <2>5 DEF OnTransmit, Phases, Stream, Streaming, TwiType
    <3> QED BY <2>1, <3>1 DEF Phases, Streaming
  <2>6. CASE OnReceive
    BY <2>1, <2>6 DEF OnReceive, Phases, Streaming
  <2> QED BY <1>7, <2>2, <2>3, <2>4, <2>5, <2>6 DEF DevPolls
<1>8. CASE DevAnswers
  BY <1>8 DEF DevAnswers, host, Phases, Streaming
<1>9. CASE Over \/ UNCHANGED vars
  BY <1>9 DEF Over, vars, host, client, Phases, Streaming
<1> QED BY <1>1, <1>2, <1>3, <1>4, <1>5, <1>6, <1>7, <1>8, <1>9 DEF Next, Host

(* Each byte clocked moves the client's index by one until the reply is    *)
(* out, then filler follows.                                               *)
LEMMA StreamStep ==
    ASSUME RepliesAreBytes, TwiType, Phases, Stream, [Next]_vars
    PROVE  Stream'
<1> SUFFICES ASSUME Streaming' PROVE Stream'
  BY DEF Stream
<1>0. TwiType' /\ Phases'
  BY TwiTypeStep, PhasesStep
<1>1. CASE HostReadsByte
  <2>1. /\ Streaming /\ event = "none" /\ txActive /\ sdata \in Byte /\ sdata # NoByte
        /\ Clocked = Len(in) + 1 /\ Len(in) < Window(Requests[nr])
    BY <1>1 DEF HostReadsByte, Phases, Stream, Streaming, TwiType, Clocked
  <2>2. /\ UNCHANGED <<nr, tx, txIdx, txFirst, txActive>> /\ sdata' = NoByte
        /\ event' = IF Len(in') = Window(Requests[nr]) THEN "nack" ELSE "ack"
        /\ \E b \in {sdata, (sdata + 1) % 256} : in' = Append(in, b)
        /\ faults' = 0 => faults = 0 /\ in' = Append(in, sdata)
    BY <1>1 DEF HostReadsByte, client, Fault, TwiType
  <2>3. Len(in') = Len(in) + 1 /\ Clocked' = Clocked
    BY <2>1, <2>2 DEF Clocked, TwiType
  <2>4. Len(in) \in Nat /\ Window(Requests[nr]) \in Nat
    BY RequestFacts DEF TwiType
  <2>5. /\ sdata' # NoByte \/ event' = "ack" => Len(in') < Window(Requests[nr'])
        /\ event' # "none" /\ in' # <<>>
    BY <2>1, <2>2, <2>3, <2>4
  <2>6. ASSUME faults' = 0, NEW i \in DOMAIN in'
        PROVE  in'[i] = Padded(tx', i)
    <3>1. in' = Append(in, sdata) /\ faults = 0
      BY <2>2, <2>6
    <3>2. CASE i \in DOMAIN in
      BY <2>1, <2>2, <3>1, <3>2 DEF Stream, TwiType, Padded
    <3>3. CASE i = Len(in) + 1
      BY <2>1, <2>2, <3>1, <3>3 DEF Stream, TwiType, Padded
    <3> QED BY <2>3, <2>6, <3>2, <3>3 DEF TwiType
  <2>7. /\ txIdx' = IF Clocked' <= Len(tx') THEN Clocked' ELSE Len(tx')
        /\ txFirst' = FALSE
    BY <2>1, <2>2, <2>3 DEF Stream, TwiType
  <2> QED BY <2>1, <2>2, <2>5, <2>6, <2>7 DEF Stream
<1>2. CASE DevPolls /\ OnAddress
  <2>1. /\ ~inWrite /\ event = "read" /\ hpc = "reading" /\ in = <<>> /\ sdata = NoByte
        /\ UNCHANGED <<in, sdata, nr, faults, tx>>
        /\ txActive' = TRUE /\ txIdx' = 0 /\ txFirst' = TRUE /\ event' \in {"ack", "nack"}
    BY <1>2 DEF DevPolls, host, OnAddress, Park, ReadBegins, WriteBegins, Phases, Streaming
  <2>2. Len(in') = 0 /\ DOMAIN in' = {}
    <3>1. in' = <<>>
      BY <2>1
    <3> QED BY <3>1
  <2>3. Clocked' = 0
    <3>1. sdata' = NoByte
      BY <2>1
    <3> QED BY <2>2, <3>1 DEF Clocked
  <2>4. Len(in') < Window(Requests[nr'])
    <3>1. nr' \in DOMAIN Requests
      BY <1>0 DEF TwiType
    <3>2. Window(Requests[nr']) \in Nat /\ Window(Requests[nr']) >= 1
      BY <3>1, RequestFacts
    <3> QED BY <2>2, <3>2
  <2>5. Len(tx') \in Nat
    BY <1>0 DEF TwiType
  <2> QED BY <2>1, <2>2, <2>3, <2>4, <2>5 DEF Stream
<1>3. CASE DevPolls /\ OnTransmit
  <2>1. /\ Streaming /\ sdata = NoByte /\ txActive /\ Clocked = Len(in)
        /\ UNCHANGED <<in, nr, faults, tx>> /\ event' = "none"
    BY <1>3 DEF DevPolls, host, OnTransmit, Phases, Stream, Streaming, Clocked, TwiType
  <2>2. /\ txIdx = IF Len(in) <= Len(tx) THEN Len(in) ELSE Len(tx)
        /\ txFirst <=> in = <<>>
        /\ event = "ack" => Len(in) < Window(Requests[nr])
        /\ faults = 0 => \A i \in DOMAIN in : in[i] = Padded(tx, i)
    BY <1>3, <2>1 DEF OnTransmit, Stream
  <2>3. Len(in) \in Nat /\ Len(tx) \in Nat /\ txIdx \in Nat
        /\ Window(Requests[nr]) \in Nat /\ Window(Requests[nr]) >= 1
    BY RequestFacts DEF TwiType
  <2>4. CASE event = "nack" /\ ~txFirst
    BY <1>3, <2>1, <2>2, <2>4 DEF OnTransmit, EndRead, Stream
  <2>5. CASE event = "ack" \/ txFirst
    <3>1. /\ txFirst' = FALSE /\ txActive'
          /\ sdata' = IF txIdx < Len(tx) THEN tx[txIdx + 1] ELSE Filler
          /\ txIdx' = IF txIdx < Len(tx) THEN txIdx + 1 ELSE txIdx
      BY <1>3, <2>1, <2>5 DEF OnTransmit
    <3>2. sdata' = Padded(tx, Len(in) + 1) /\ sdata' # NoByte
      <4>1. sdata' = Padded(tx, Len(in) + 1)
        BY <2>2, <2>3, <3>1 DEF Padded
      <4>2. sdata' \in Byte
        <5>1. txIdx < Len(tx) => tx[txIdx + 1] \in Byte
          BY <2>3 DEF TwiType
        <5> QED BY <3>1, <5>1 DEF Byte, Filler
      <4>3. NoByte \notin Byte
        BY DEF Byte, NoByte
      <4> QED BY <4>1, <4>2, <4>3
    <3>3. Clocked' = Len(in) + 1
      BY <2>1, <3>2 DEF Clocked
    <3>4. txIdx' = IF Clocked' <= Len(tx) THEN Clocked' ELSE Len(tx)
      BY <2>2, <2>3, <3>1, <3>3
    <3>5. Len(in) < Window(Requests[nr])
      <4>1. in = <<>> => Len(in) = 0
        OBVIOUS
      <4> QED BY <2>2, <2>3, <2>5, <4>1
    <3> QED BY <2>1, <2>2, <3>1, <3>2, <3>3, <3>4, <3>5 DEF Stream
  <2> QED BY <1>3, <2>4, <2>5 DEF OnTransmit, TwiType
<1>4. CASE Over \/ UNCHANGED vars
  BY <1>4 DEF Over, vars, host, client, Stream, Streaming, Clocked
<1>5. CASE HostStarts \/ HostWritesByte \/ HostStopsWrite \/ HostStopsRead \/ BusError
  <2>1. CASE HostStarts \/ HostWritesByte \/ HostStopsWrite
    BY <2>1 DEF HostStarts, HostWritesByte, HostStopsWrite, Streaming
  <2>2. CASE HostStopsRead \/ BusError
    BY <2>2 DEF HostStopsRead, BusError, Streaming
  <2> QED BY <1>5, <2>1, <2>2
<1>6. CASE DevPolls /\ (OnError \/ OnStop \/ OnReceive)
  <2>1. hpc' = hpc
    BY <1>6 DEF DevPolls, host
  <2> QED BY <1>6, <2>1 DEF OnError, OnStop, OnReceive, Phases, Streaming
<1>7. CASE DevAnswers
  BY <1>7 DEF DevAnswers, host, Phases, Streaming
<1> QED BY <1>1, <1>2, <1>3, <1>4, <1>5, <1>6, <1>7 DEF Next, Host, DevPolls

(* The invariant of a read, in every reachable state.                      *)
LEMMA ReadInvHolds == ASSUME RepliesAreBytes PROVE FairSpec => []ReadInv
<1>1. Init => ReadInv
  <2> SUFFICES ASSUME Init PROVE ReadInv
    OBVIOUS
  <2>1. <<>> \in Seq(Byte) /\ 1 \in DOMAIN Requests
    BY TwiAssumption
  <2>2. Requests[1] \in Seq(Byte)
    BY <2>1, RequestFacts
  <2> QED BY <2>1, <2>2 DEF Init, ReadInv, TwiType, Phases, Stream, Streaming
<1>2. ReadInv /\ [Next]_vars => ReadInv'
  BY TwiTypeStep, PhasesStep, StreamStep DEF ReadInv
<1> QED BY <1>1, <1>2, PTL DEF FairSpec

(* twi_response_consumed is only ever raised at the end of a read in which *)
(* the host has clocked in the whole reply that is armed, and, without     *)
(* damage, has it byte for byte: BOOT cannot jump on a reply cut short,    *)
(* whatever stale RXACK the first data condition carries.                  *)
THEOREM ConsumedIsRead ==
    ASSUME RepliesAreBytes PROVE FairSpec => ConsumedMeansRead
<1>1. ASSUME ReadInv, [Next]_vars
      PROVE  [txConsumed' /\ ~txConsumed
              => /\ hpc = "reading" /\ tx # <<>> /\ Len(in) >= Len(tx)
                 /\ faults = 0 => SubSeq(in, 1, Len(tx)) = tx]_vars
  <2> SUFFICES ASSUME Next, txConsumed', ~txConsumed
               PROVE  /\ hpc = "reading" /\ tx # <<>> /\ Len(in) >= Len(tx)
                      /\ faults = 0 => SubSeq(in, 1, Len(tx)) = tx
    BY <1>1
  <2> USE <1>1
  <2>1. ~(OnStop /\ txActive)
    BY DEF OnStop, ReadInv, Phases, Streaming
  <2>2. OnTransmit /\ event = "nack" /\ ~txFirst /\ EndRead
    <3>1. DevPolls
      BY DEF Next, Host, HostStarts, HostWritesByte, HostStopsWrite, HostReadsByte,
             HostStopsRead, BusError, DevAnswers, Over, vars, client
    <3>2. CASE OnError \/ OnReceive
      BY <3>2 DEF OnError, OnReceive
    <3>3. CASE OnAddress
      BY <3>3 DEF OnAddress, Park
    <3>4. CASE OnStop
      BY <2>1, <3>4 DEF OnStop, Park
    <3>5. CASE OnTransmit
      BY <3>5 DEF OnTransmit
    <3> QED BY <3>1, <3>2, <3>3, <3>4, <3>5 DEF DevPolls
  <2>3. Streaming /\ txActive /\ sdata = NoByte /\ Clocked = Len(in)
    BY <2>2 DEF OnTransmit, ReadInv, TwiType, Phases, Stream, Streaming, Clocked
  <2>4. tx # <<>> /\ txIdx >= Len(tx)
    BY <2>2 DEF EndRead
  <2>5. Len(in) \in Nat /\ Len(tx) \in Nat /\ in \in Seq(Byte) /\ tx \in Seq(Byte)
    BY DEF ReadInv, TwiType
  <2>6. Len(in) >= Len(tx)
    BY <2>3, <2>4, <2>5 DEF ReadInv, Stream
  <2>7. ASSUME faults = 0 PROVE SubSeq(in, 1, Len(tx)) = tx
    <3>1. \A i \in 1 .. Len(tx) : in[i] = tx[i]
      BY <2>3, <2>5, <2>6, <2>7 DEF ReadInv, Stream, Padded
    <3>2. SubSeq(in, 1, Len(tx)) = [i \in 1 .. Len(tx) |-> in[i]]
      BY <2>5, <2>6
    <3>3. tx = [i \in 1 .. Len(tx) |-> tx[i]]
      BY <2>5
    <3> QED BY <3>1, <3>2, <3>3
  <2> QED BY <2>3, <2>4, <2>6, <2>7 DEF Streaming
<1> QED BY <1>1, ReadInvHolds, PTL DEF FairSpec, ConsumedMeansRead

-----------------------------------------------------------------------------
(* What the client has of the request, in flight included, and what the    *)
(* host still has to say.                                                  *)
Rq == Requests[nr]
Short == Len(Rq) <= BufLen
Told == rx \o (IF event = "data" THEN <<sdata>> ELSE <<>>) \o out

(* An undisturbed bus: the write reaches the client whole, the stop or the *)
(* address match that overtakes it parks the frame, and what the host then *)
(* reads is the answer to it.                                              *)
QuietInv ==
    faults = 0 =>
    /\ event # "error"
    /\ inWrite => hpc = "writing" \/ event \in {"stop", "read"}
    /\ hpc = "write" \/ event = "write" => out = Rq /\ ~inWrite
    /\ hpc \in {"write", "writing"} => frame = <<>>
    /\ hpc = "writing" /\ event # "write" => inWrite
    /\ hpc = "read" => (event = "stop" <=> inWrite)
    /\ Short =>
        /\ tries = 0
        /\ hpc = "writing" /\ inWrite => ~rxOver /\ Told = Rq
        /\ hpc # "writing" /\ inWrite => ~rxOver /\ rx = Rq /\ frame = <<>>
        /\ hpc \in {"read", "reading"} /\ ~inWrite =>
              frame = Rq \/ (frame = <<>> /\ tx = Answer(Rq))

(* decode_padded takes a reply that filler pads to the window for what it  *)
(* is: the session accepts it.                                             *)
LEMMA AnswerIsValid ==
    ASSUME NEW raw \in Seq(Byte), nr \in DOMAIN Requests, Len(raw) = Window(Rq),
           \A i \in DOMAIN raw : raw[i] = Padded(Answer(Rq), i)
    PROVE  Valid(raw)
<1> DEFINE a == Answer(Rq)
<1>1. /\ a \in Seq(Byte) /\ FrameParse(a) /\ Len(a) <= FrameMax
      /\ a[1] = Rq[1] + 128 /\ a[2] >= 1 /\ a[3] = 0 /\ Len(a) <= Len(raw)
  BY AnswerAssumption DEF Rq
<1> HIDE DEF a
<1>2. Len(a) \in Nat /\ Len(a) >= 3 /\ a[2] + 3 = Len(a) /\ a[2] \in Byte
  BY <1>1 DEF FrameParse, Overhead
<1>3. \A i \in 1 .. Len(a) : raw[i] = a[i]
  BY <1>1, <1>2 DEF Padded, a
<1>4. raw[1] = a[1] /\ raw[2] = a[2] /\ raw[3] = a[3]
  BY <1>2, <1>3
<1>5. SubSeq(raw, 1, raw[2] + Overhead) = a
  <2>1. raw[2] + Overhead = Len(a)
    BY <1>2, <1>4 DEF Overhead
  <2>2. SubSeq(raw, 1, Len(a)) = [i \in 1 .. Len(a) |-> raw[i]]
    BY <1>1, <1>2
  <2>3. a = [i \in 1 .. Len(a) |-> a[i]]
    BY <1>1
  <2> QED BY <1>3, <2>1, <2>2, <2>3
<1>6. \A i \in raw[2] + Overhead + 1 .. Len(raw) : raw[i] = Filler
  <2>1. raw[2] + Overhead + 1 = Len(a) + 1
    BY <1>2, <1>4 DEF Overhead
  <2> TAKE i \in raw[2] + Overhead + 1 .. Len(raw)
  <2>2. i \in DOMAIN raw /\ ~(i <= Len(a))
    BY <1>2, <2>1
  <2> QED BY <2>2 DEF Padded, a
<1>7. a[2] <= PayloadMax
  <2>0. \A b \in Byte : b \in Int
    BY ONLY DEF Byte
  <2>1. a[2] \in Int
    BY <1>2, <2>0
  <2>2. FrameMax \in Int
    BY BufferAssumption
  <2>3. a[2] + 3 <= FrameMax
    BY <1>1, <1>2
  <2> QED BY <2>1, <2>2, <2>3 DEF PayloadMax, Overhead
<1>8. Decode(SubSeq(raw, 1, raw[2] + Overhead))
  BY <1>1, <1>5, <1>7 DEF Decode
<1>9. Len(raw) >= 2 /\ raw[2] + Overhead <= Len(raw)
  BY <1>1, <1>2, <1>4 DEF Overhead
<1> QED BY <1>1, <1>4, <1>6, <1>8, <1>9 DEF Valid, DecodePadded, Rq

(* The bytes of a write: one leaves the host, one arrives at the client.   *)
LEMMA ToldKept ==
    ASSUME TwiType, hpc = "writing"
    PROVE  /\ HostWritesByte /\ faults' = faults => Told' = Told
           /\ OnReceive /\ UNCHANGED out /\ inWrite /\ Len(rx) < BufLen => Told' = Told
           /\ event = "data" => Len(Told) >= Len(rx) + 1
<1>1. rx \in Seq(Byte) /\ out \in Seq(Byte)
  BY DEF TwiType
<1>2. HostWritesByte /\ faults' = faults => Told' = Told
  <2> SUFFICES ASSUME HostWritesByte, faults' = faults PROVE Told' = Told
    OBVIOUS
  <2>1. /\ event = "none" /\ event' = "data" /\ out # <<>> /\ out' = Tail(out)
        /\ sdata' = Head(out) /\ rx' = rx
    BY DEF HostWritesByte, Fault, client, TwiType
  <2>2. rx \o <<>> \o out = rx \o <<Head(out)>> \o Tail(out)
    BY <1>1, <2>1
  <2> QED BY <2>1, <2>2 DEF Told
<1>3. OnReceive /\ UNCHANGED out /\ inWrite /\ Len(rx) < BufLen => Told' = Told
  <2> SUFFICES ASSUME OnReceive, UNCHANGED out, inWrite, Len(rx) < BufLen
               PROVE  Told' = Told
    OBVIOUS
  <2>1. event = "data" /\ event' = "none" /\ rx' = Append(rx, sdata) /\ sdata \in Byte
    BY DEF OnReceive, TwiType
  <2>2. Append(rx, sdata) \o <<>> \o out = rx \o <<sdata>> \o out
    BY <1>1, <2>1
  <2> QED BY <2>1, <2>2 DEF Told
<1>4. event = "data" => Len(Told) >= Len(rx) + 1
  <2>1. event = "data" => Len(rx \o <<sdata>> \o out) = Len(rx) + 1 + Len(out)
    BY <1>1 DEF TwiType
  <2> QED BY <1>1, <2>1 DEF Told
<1> QED BY <1>2, <1>3, <1>4

(* Without damage each step hands the request or the answer on unchanged.  *)
LEMMA QuietStep ==
    ASSUME TwiType, Phases, Stream, QuietInv, [Next]_vars
    PROVE  QuietInv'
<1> SUFFICES ASSUME faults' = 0 PROVE QuietInv'
  BY DEF QuietInv
<1>1. faults = 0 /\ ~BusError
  BY DEF Next, Host, HostStarts, HostWritesByte, HostStopsWrite, HostReadsByte,
         HostStopsRead, BusError, Fault, DevPolls, DevAnswers, Over, vars, TwiType
<1>2. Rq \in Seq(Byte) /\ Rq # <<>> /\ BufLen \in Nat /\ Len(Rq) \in Nat
  BY RequestFacts, BufferAssumption DEF Rq, TwiType
<1>3. CASE HostStarts
  BY <1>1, <1>3 DEF HostStarts, client, QuietInv, Phases, Rq, Short
<1>4. CASE HostWritesByte
  <2>1. Told' = Told /\ Rq' = Rq /\ Short' = Short
    BY <1>1, <1>4, ToldKept DEF HostWritesByte, Rq, Short
  <2> QED BY <1>1, <1>4, <2>1 DEF HostWritesByte, client, QuietInv
<1>5. CASE HostStopsWrite
  <2>1. rx \o <<>> \o <<>> = rx
    BY DEF TwiType
  <2> QED BY <1>1, <1>5, <2>1 DEF HostStopsWrite, client, QuietInv, Rq, Short, Told
<1>6. CASE HostReadsByte
  BY <1>1, <1>6 DEF HostReadsByte, client, QuietInv, Rq, Short
<1>7. CASE HostStopsRead
  <2>1. Streaming /\ frame = <<>> /\ ~inWrite
    BY <1>7 DEF HostStopsRead, Phases, Streaming
  <2>2. in' = <<>> /\ hpc' \in {"write", "ok", "failed"} /\ (hpc' = "write" => out' = Rq')
    BY <1>7, AttemptEnds DEF HostStopsRead, Judge, Rq
  <2>3. UNCHANGED <<frame, inWrite>> /\ event' = "stop"
    BY <1>7 DEF HostStopsRead, client
  <2>4. ASSUME Short' PROVE tries' = 0
    <3>1. CASE Valid(in)
      BY <1>7, <3>1 DEF HostStopsRead, Judge, Proceed
    <3>2. CASE ~Valid(in)
      <4>1. Retry /\ nr' = nr
        BY <1>7, <3>2 DEF HostStopsRead, Judge, Retry
      <4>2. Short
        BY <2>4, <4>1 DEF Short, Rq
      <4>3. tx = Answer(Rq)
        BY <1>1, <1>2, <2>1, <4>2 DEF QuietInv, Streaming
      <4>4. \A i \in DOMAIN in : in[i] = Padded(Answer(Rq), i)
        BY <1>1, <2>1, <4>3 DEF Stream
      <4>5. Valid(in)
        BY <1>7, <4>4, AnswerIsValid DEF HostStopsRead, TwiType, Rq
      <4> QED BY <3>2, <4>5
    <3> QED BY <3>1, <3>2
  <2> QED BY <2>1, <2>2, <2>3, <2>4 DEF QuietInv
<1>8. CASE DevPolls
  <2>1. UNCHANGED <<nr, tries, hpc, out, in>> /\ Rq' = Rq /\ Short' = Short /\ frame = <<>>
    BY <1>8 DEF DevPolls, host, Rq, Short
  <2>2. CASE OnError
    BY <1>1, <2>2 DEF OnError, QuietInv
  <2>3. CASE OnAddress /\ inWrite
    BY <1>1, <2>1, <2>3 DEF OnAddress, Park, QuietInv, Phases
  <2>4. CASE OnAddress /\ ~inWrite /\ event = "read"
    BY <1>1, <2>1, <2>4 DEF OnAddress, ReadBegins, QuietInv, Phases
  <2>5. CASE OnAddress /\ ~inWrite /\ event = "write"
    <3>1. <<>> \o <<>> \o Rq = Rq
      BY <1>2
    <3>2. out = Rq /\ hpc = "writing"
      BY <1>1, <2>5 DEF QuietInv, Phases, TwiType
    <3>3. Told' = Rq
      BY <2>1, <2>5, <3>1, <3>2 DEF OnAddress, WriteBegins, Told
    <3> QED BY <1>1, <2>1, <2>5, <3>2, <3>3 DEF OnAddress, WriteBegins, QuietInv
  <2>6. CASE OnStop /\ inWrite
    BY <1>1, <2>1, <2>6 DEF OnStop, Park, QuietInv, Phases
  <2>7. CASE OnStop /\ ~inWrite
    BY <1>1, <2>1, <2>7 DEF OnStop, EndRead, QuietInv, Phases
  <2>8. CASE OnTransmit
    BY <1>1, <2>1, <2>8 DEF OnTransmit, EndRead, QuietInv, Phases
  <2>9. CASE OnReceive
    <3>1. hpc = "writing" /\ inWrite
      BY <1>1, <2>9 DEF OnReceive, Phases, QuietInv, TwiType
    <3>2. ASSUME Short PROVE Told' = Rq /\ ~rxOver'
      <4>1. Told = Rq /\ ~rxOver /\ Len(rx) \in Nat
        BY <1>1, <3>1, <3>2 DEF QuietInv, TwiType
      <4>2. Len(rx) < BufLen
        BY <1>2, <2>9, <3>1, <3>2, <4>1, ToldKept DEF OnReceive, Short
      <4>3. Told' = Told
        BY <2>1, <2>9, <3>1, <4>2, ToldKept
      <4>4. ~(Len(rx) >= BufLen)
        BY <1>2, <4>1, <4>2
      <4>5. rxOver' = FALSE
        BY <2>9, <4>1, <4>4 DEF OnReceive
      <4> QED BY <4>1, <4>3, <4>5
    <3> QED BY <1>1, <2>1, <2>9, <3>1, <3>2 DEF OnReceive, QuietInv
  <2> QED BY <1>8, <2>2, <2>3, <2>4, <2>5, <2>6, <2>7, <2>8, <2>9 DEF DevPolls, OnAddress, TwiType
<1>9. CASE DevAnswers
  <2>1. ASSUME Short PROVE FrameParse(Rq)
    BY AnswerAssumption DEF Rq, TwiType
  <2> QED BY <1>1, <1>2, <1>9, <2>1 DEF DevAnswers, host, QuietInv, Rq, Short, Told
<1>10. CASE Over \/ UNCHANGED vars
  BY <1>1, <1>10 DEF Over, vars, host, client, QuietInv, Rq, Short, Told
<1> QED BY <1>1, <1>3, <1>4, <1>5, <1>6, <1>7, <1>8, <1>9, <1>10 DEF Next, Host

(* Wherever the client's polls fall, and whether or not a start overtakes  *)
(* the stop before it, an undisturbed bus delivers every request that fits *)
(* the client's buffer and its reply at the first attempt.                 *)
THEOREM QuietBus == ASSUME RepliesAreBytes PROVE FairSpec => []QuietBusSucceeds
<1>1. Init => QuietInv
  BY DEF Init, QuietInv, Rq
<1>2. ReadInv /\ QuietInv /\ [Next]_vars => QuietInv'
  BY QuietStep DEF ReadInv
<1>3. ReadInv /\ QuietInv => QuietBusSucceeds
  <2> SUFFICES ASSUME ReadInv, QuietInv, faults = 0, tries > 0
               PROVE  Len(Requests[nr]) > BufLen
    BY DEF QuietBusSucceeds
  <2>1. ~Short
    BY DEF QuietInv
  <2>2. Len(Rq) \in Nat /\ BufLen \in Nat
    BY RequestFacts, BufferAssumption DEF Rq, ReadInv, TwiType
  <2> QED BY <2>1, <2>2 DEF Short, Rq
<1> QED BY <1>1, <1>2, <1>3, ReadInvHolds, PTL DEF FairSpec
=============================================================================
