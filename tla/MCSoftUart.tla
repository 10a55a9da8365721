----------------------------- MODULE MCSoftUart -----------------------------
(* INFO, and a short reply with a real CRC.  A bit of 26 ticks is 4 us to  *)
(* a tick; the device's clock is 4% off either way, and samples 12 us      *)
(* apart use up the margin that softuart_pump.h leaves.  Breaks start      *)
(* every few ticks of either message and last from a glitch to for good.   *)
EXTENDS SoftUart, Checksum

CONSTANTS Spacing, Lengths

MCRequest == FrameBuild(1, <<>>)
MCReply   == FrameBuild(129, <<0, 6>>)
MCBreaks ==
    {[dir |-> "request", from |-> 0, upto |-> 0]}
    \cup {[dir |-> d, from |-> Spacing * i, upto |-> Spacing * i + n] :
             d \in {"request", "reply"}, i \in 0 .. 3200 \div Spacing, n \in Lengths}
    \cup {[dir |-> d, from |-> f, upto |-> Horizon + 1] :
             d \in {"request", "reply"}, f \in {300, 1100, 1300}}

(* The hypotheses of the theorems about a quiet line and a single break.   *)
ASSUME MCInBudget == Matched /\ Patient /\ Tolerant
=============================================================================
