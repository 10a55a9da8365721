----------------------------- MODULE PollBudget -----------------------------
(***************************************************************************)
(* How long a transport of the command line tool waits for an answer       *)
(* (host/updater-cli/src/transport.rs, set_poll of updater-eh): a budget   *)
(* of attempts and a delay in milliseconds becomes attempts and an         *)
(* interval in nanoseconds, in 32-bit arithmetic that saturates.           *)
(***************************************************************************)
EXTENDS Integers

CONSTANTS
    U32Max,     \* u32::MAX
    NsPerMs,    \* 1 000 000
    SampleNs,   \* DEFAULT_SOFTUART_POLL_INTERVAL_NS
    ReadNs,     \* VTIME=1: how long a serial read blocks, 100 ms
    PerPageMs   \* PER_PAGE_ERASE_WORST_MS

ASSUME UnitsAssumption ==
    /\ {U32Max, NsPerMs, SampleNs, ReadNs, PerPageMs} \subseteq Nat \ {0}
    /\ NsPerMs >= 2 * SampleNs
    /\ ReadNs \in NsPerMs .. U32Max

Kinds == {"i2c", "uart", "spi", "gpio"}

AtLeast1(n) == IF n = 0 THEN 1 ELSE n
Sat32(n)    == IF n > U32Max THEN U32Max ELSE n
Larger(m, n) == IF m < n THEN n ELSE m
DivCeil(n, d) == (n + d - 1) \div d

(* set_poll_budget of the four backends.  The software UART samples at its *)
(* own interval, so it converts the total wait.                            *)
SetPoll(kind, poll) ==
    LET attempts == AtLeast1(poll.attempts)
        ns       == poll.delay * NsPerMs
    IN CASE kind = "i2c"  -> [attempts |-> attempts, interval |-> ns]
         [] kind = "gpio" -> [attempts |-> AtLeast1(Sat32((attempts * ns) \div SampleNs)),
                              interval |-> SampleNs]
         [] OTHER         -> [attempts |-> attempts, interval |-> Sat32(ns)]

(* How long a request waits on a silent wire.  No delay follows the last   *)
(* attempt; on UART each attempt is itself a read that blocks.             *)
ReadBlock(kind) == IF kind = "uart" THEN ReadNs ELSE 0
Window(kind, budget) ==
    budget.attempts * ReadBlock(kind) + (budget.attempts - 1) * budget.interval

(* Faulty variant: the division rounds down.                               *)
ErasePollAttemptsFloor(pages, poll) ==
    Larger(poll.attempts, (pages * PerPageMs) \div AtLeast1(poll.delay))

(* erase_poll_attempts of main.rs.                                         *)
ErasePollAttempts(pages, poll) ==
    Larger(poll.attempts, DivCeil(Sat32(pages * PerPageMs), AtLeast1(poll.delay)))
=============================================================================
