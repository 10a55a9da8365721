-------------------------------- MODULE Tool --------------------------------
(***************************************************************************)
(* One run of updater-cli (host/updater-cli/src/main.rs), from its parsed  *)
(* command line to its exit: local inputs, the wire, the exchanges of the  *)
(* command, each under the poll budget DynTransport gives it.  The device  *)
(* answers, refuses, or does not answer; a request without an answer was   *)
(* not carried out here (Update has lost answers).                         *)
(*                                                                         *)
(* A command line is a record:                                             *)
(*   cmd        "info", "echo", "flash", "boot" or "install"               *)
(*   kind       --transport: "i2c", "uart", "spi" or "gpio"                *)
(*   wired      its flags name a wire (a supported baud rate, two pins)    *)
(*   wireFlags  some transport flag was given                              *)
(*   poll       --poll-attempts and --poll-delay-ms                        *)
(*   file       flash: readable, whether it is .hex, and a .bin's content  *)
(*   data       echo: whether it is hex digits, and how many bytes         *)
(***************************************************************************)
EXTENDS Image, IntelHex, Install, PollBudget

CONSTANTS
    Clis,         \* the command lines to explore
    EchoMax,      \* ECHO_MAX
    RetryBudget,  \* RETRY_BUDGET
    OldRegion     \* what the device's region holds before

ASSUME ClisAssumption ==
    \A c \in Clis : /\ c.kind \in Kinds
                    /\ c.poll \in [attempts : Nat, delay : Nat]
                    /\ c.file.code \in Seq(Word)

(* The region did not boot before; valid old images are Update's.          *)
ASSUME OldRegionAssumption == OldRegion \in [Pages -> Page] /\ ~AppValid(OldRegion)

(* app_pages has 16 bits: the worst erase time fits 32 bits of             *)
(* milliseconds, and the software UART can wait that long.                 *)
ASSUME EraseTimeAssumption ==
    /\ AppPages * PerPageMs <= U32Max
    /\ AppPages * PerPageMs * NsPerMs <= (U32Max - 1) * SampleNs

VARIABLES
    cli,            \* the command line
    pc,             \* "start", "load", "open", "talk", "install", "exit"
    code,           \* the binary to flash
    opened,         \* the wire was opened
    ask,            \* the exchange in progress
    tries,          \* failed attempts of the exchange
    inner,          \* the poll budget set in the backend
    eraseAttempts,  \* DynTransport.erase_attempts
    gaveUp,         \* the last attempt that met silence: its exchange and wait
    cursor, region, \* the pages sent, and the device's flash
    exit            \* "none", "OK" or "failed"

toolVars == <<cli, pc, code, opened, ask, tries, inner, eraseAttempts, gaveUp,
              cursor, region, exit>>
vars == <<toolVars, hexVars, installVars>>

NoWait == [ask |-> "none", ns |-> 0]

Init ==
    /\ cli \in Clis
    /\ IF cli.cmd = "install" THEN InstallInit
       ELSE /\ order = [name |-> "none"] /\ installed = {} /\ present = {}
            /\ ipc = "done" /\ planned = <<>> /\ resolved = 0 /\ ran = <<>>
            /\ verdict = "none"
    /\ HexInit
    /\ pc = "start" /\ code = <<>> /\ opened = FALSE
    /\ ask = "none" /\ tries = 0
    /\ inner = [attempts |-> 1, interval |-> 0] /\ eraseAttempts = 0
    /\ gaveUp = NoWait
    /\ cursor = 0 /\ region = OldRegion
    /\ exit = "none"

Exit(e) == pc' = "exit" /\ exit' = e
Untouched == UNCHANGED <<cli, hexVars, installVars>>
OffWire ==
    UNCHANGED <<opened, ask, tries, inner, eraseAttempts, gaveUp, cursor, region>>

(* reject_transport_flags: install and a flag of the wire do not mix.      *)
FlagsMuddled == cli.cmd = "install" /\ cli.wireFlags

(* Dispatch: install leaves the wire alone; flash and echo look at their   *)
(* inputs first.                                                           *)
EchoSound == cli.data.digits /\ cli.data.len \in 1 .. EchoMax

Start ==
    /\ pc = "start"
    /\ \/ FlagsMuddled /\ Exit("failed")
       \/ cli.cmd = "install" /\ ~FlagsMuddled /\ pc' = "install" /\ UNCHANGED exit
       \/ cli.cmd = "flash" /\ pc' = "load" /\ UNCHANGED exit
       \/ cli.cmd = "echo" /\ ~EchoSound /\ Exit("failed")
       \/ /\ cli.cmd \in {"info", "boot"} \/ (cli.cmd = "echo" /\ EchoSound)
          /\ pc' = "open" /\ UNCHANGED exit
    /\ Untouched /\ OffWire /\ UNCHANGED code

(* The install subcommand runs, and its result is the tool's.              *)
Installs ==
    /\ pc = "install" /\ RunCli
    /\ IF verdict' = "none" THEN UNCHANGED <<pc, exit>>
       ELSE Exit(IF verdict' = "OK" THEN "OK" ELSE "failed")
    /\ OffWire /\ UNCHANGED <<cli, code, hexVars>>

Vanishes == /\ pc = "install"
            /\ \E t \in Tools : ToolVanishes(t)
            /\ UNCHANGED <<toolVars, hexVars>>

(* Faulty variant: what was read of a file that does not parse is used.    *)
HexAcceptedAnyway(h) == h # "reading"

HexAccepted(h) == h = "parsed"

(* load_image: Intel HEX by extension, anything else as it is.             *)
LoadImage ==
    /\ pc = "load"
    /\ \/ /\ ~cli.file.readable
          /\ Exit("failed") /\ UNCHANGED <<code, hexVars>>
       \/ /\ cli.file.readable /\ ~cli.file.hex
          /\ code' = cli.file.code /\ pc' = "open"
          /\ UNCHANGED <<exit, hexVars>>
       \/ /\ cli.file.readable /\ cli.file.hex
          /\ HexEnd \/ \E l \in Lines : HexLine(l)
          /\ \/ hex' = "reading" /\ UNCHANGED <<pc, exit, code>>
             \/ /\ hex' # "reading" /\ ~HexAccepted(hex')
                /\ Exit("failed") /\ UNCHANGED code
             \/ HexAccepted(hex') /\ code' = out /\ pc' = "open" /\ UNCHANGED exit
    /\ OffWire /\ UNCHANGED <<cli, installVars>>
-----------------------------------------------------------------------------
(* build_spec: the flags name no wire.                                     *)
SpecFails ==
    /\ pc = "open" /\ ~cli.wired
    /\ Exit("failed")
    /\ Untouched /\ OffWire /\ UNCHANGED code

FirstAsk == CASE cli.cmd = "info" -> "INFO" [] cli.cmd = "echo" -> "ECHO"
              [] cli.cmd = "boot" -> "BOOT" [] cli.cmd = "flash" -> "SIZE"

(* The device node is missing, busy or not of its kind.                    *)
OpenFails ==
    /\ pc = "open" /\ cli.wired
    /\ Exit("failed")
    /\ Untouched /\ OffWire /\ UNCHANGED code

(* open: the base budget is set, also for ERASE_APP until INFO has told    *)
(* the geometry.                                                           *)
Open ==
    /\ pc = "open" /\ cli.wired
    /\ opened' = TRUE
    /\ inner' = SetPoll(cli.kind, cli.poll)
    /\ eraseAttempts' = cli.poll.attempts
    /\ ask' = FirstAsk
    /\ pc' = "talk"
    /\ Untouched /\ UNCHANGED <<code, tries, gaveUp, cursor, region, exit>>

(* DynTransport::request: ERASE_APP alone runs on the raised budget, and   *)
(* whatever comes of it the base budget is set again.                      *)
Raised == ask = "ERASE" /\ eraseAttempts > cli.poll.attempts
Budget ==
    IF Raised THEN SetPoll(cli.kind, [cli.poll EXCEPT !.attempts = eraseAttempts])
    ELSE inner

(* Faulty variant: the raised budget stays.                                *)
AfterRequestRaised == Budget

AfterRequest == IF Raised THEN SetPoll(cli.kind, cli.poll) ELSE inner

(* What the device does when it carries out a request.                     *)
Carried ==
    CASE ask = "ERASE" -> BlankFlash
      [] ask = "WRITE" -> LET p == NextPage(code, cursor)
                          IN [region EXCEPT ![p] = Programmed(@, PageInto(code, p))]
      [] OTHER -> region

(* Set once the geometry is known, never below the base budget.            *)
RaisedAttempts ==
    Larger(ErasePollAttempts(AppPages, cli.poll), cli.poll.attempts)

(* The order of the exchanges of a command, after one that succeeded.      *)
Follows ==
    CASE ask = "SIZE"  -> "INFO"
      [] ask = "INFO"  -> "ERASE"
      [] ask = "ERASE" -> "WRITE"
      [] ask = "WRITE" -> IF NextPage(code, cursor') = AppPages THEN "VERIFY" ELSE "WRITE"

LastAsk == cli.cmd # "flash" \/ ask = "VERIFY"

(* An OK answer.  SIZE is the INFO the image is built for (from_bin).      *)
Answered ==
    /\ pc = "talk"
    /\ ask = "VERIFY" => FlashCrc(region, Len(code)) = Crc(code)
    /\ region' = Carried
    /\ inner' = AfterRequest
    /\ tries' = 0 /\ gaveUp' = NoWait
    /\ cursor' = IF ask = "WRITE" THEN NextPage(code, cursor) + 1 ELSE cursor
    /\ \/ LastAsk /\ Exit("OK") /\ UNCHANGED <<ask, eraseAttempts>>
       \/ /\ ask = "SIZE" /\ ~Fits(code)
          /\ Exit("failed") /\ UNCHANGED <<ask, eraseAttempts>>
       \/ /\ ~LastAsk /\ (ask = "SIZE" => Fits(code))
          /\ ask' = Follows
          /\ eraseAttempts' = IF ask = "SIZE" THEN RaisedAttempts ELSE eraseAttempts
          /\ UNCHANGED <<pc, exit>>
    /\ Untouched /\ UNCHANGED <<code, opened>>

(* A final status, an INFO that is malformed or of another protocol or     *)
(* geometry, an echo of other bytes.                                       *)
Refused ==
    /\ pc = "talk"
    /\ Exit("failed")
    /\ inner' = AfterRequest
    /\ Untouched
    /\ UNCHANGED <<code, opened, ask, tries, eraseAttempts, gaveUp, cursor, region>>

(* Faulty variant: failed attempts are not counted.                        *)
RetryUncounted == UNCHANGED <<tries, pc, exit>>

(* Session's exchange tries again, RETRY_BUDGET times.                     *)
Retry ==
    \/ tries < RetryBudget /\ tries' = tries + 1 /\ UNCHANGED <<pc, exit>>
    \/ tries = RetryBudget /\ Exit("failed") /\ UNCHANGED tries

(* The attempt fails: the wire errs or mangles or stays silent for as      *)
(* long as the budget lasts.                                               *)
AttemptFails(silent) ==
    /\ pc = "talk"
    /\ inner' = AfterRequest
    /\ gaveUp' = IF silent THEN [ask |-> ask, ns |-> Window(cli.kind, Budget)] ELSE NoWait
    /\ Retry
    /\ Untouched
    /\ UNCHANGED <<code, opened, ask, eraseAttempts, cursor, region>>

Talk == Answered \/ Refused \/ \E s \in BOOLEAN : AttemptFails(s)

Done == pc = "exit" /\ UNCHANGED vars

Run == Start \/ Installs \/ LoadImage \/ SpecFails \/ OpenFails \/ Open \/ Talk
Next == Run \/ Vanishes \/ Done

(* The tool is a sequential program; its children and reads come back.     *)
Spec == Init /\ [][Next]_vars /\ WF_vars(Run)
-----------------------------------------------------------------------------
(* main.rs: "a typo in an image path or hex string must never touch the    *)
(* wire".  The wire is opened only for a command of the wire, with sound   *)
(* flags, a file that was read and parsed to the end and a legal echo.     *)
LocalErrorsStayLocal ==
    opened =>
        /\ cli.cmd # "install" /\ cli.wired
        /\ cli.cmd = "echo" => EchoSound
        /\ cli.cmd = "flash" =>
              /\ cli.file.readable
              /\ IF cli.file.hex THEN hex = "parsed" /\ code = out
                 ELSE code = cli.file.code

(* Once every page of pages() is written, and so whenever the tool says    *)
(* "flash OK", the region boots and reads back as the binary that was      *)
(* loaded, blank cells up to the footer behind it: skipping all-blank      *)
(* pages loses nothing.  Until pages() has yielded its last page a region  *)
(* that did not boot before (OldRegion) still does not: an interrupted     *)
(* upload never boots.  Valid old images are Bootloader's and Update's.    *)
BootsOnceComplete ==
    cli.cmd = "flash" =>
        IF ask = "VERIFY"
        THEN /\ AppValid(region)
             /\ Prefix(region, FooterBase)
                  = code \o [i \in 1 .. FooterBase - Len(code) |-> Blank]
        ELSE ~AppValid(region)

(* The wait for an ERASE_APP that meets silence, against the worst erase   *)
(* time, for every backend and setting.  main.rs promises "enough attempts *)
(* to cover app_pages x 10 ms": that is so on UART for delays of up to one *)
(* read.  Elsewhere the attempts add up but the wait does not: it ends up  *)
(* to one delay early; there is none at all with a delay of 0; and a delay *)
(* that saturates shortens it in proportion.                               *)
EraseWaits(kind, delay, ns) ==
    LET worst     == AppPages * PerPageMs * NsPerMs
        saturates == kind \in {"uart", "spi"} /\ delay > U32Max
    IN /\ kind = "uart" /\ delay <= ReadNs => ns >= worst
       /\ delay > 0 /\ ~saturates => ns + delay >= worst
       /\ delay = 0 /\ kind # "uart" => ns = 0
       /\ saturates => (ns + U32Max) * delay >= worst * U32Max

(* How long a request that meets silence waits.  "Every other exchange     *)
(* keeps the base budget": whatever became of an ERASE_APP before it, the  *)
(* wait is the one the operator's settings give.  ERASE_APP waits as       *)
(* EraseWaits says.                                                        *)
SilenceBudget ==
    /\ gaveUp.ask \notin {"none", "ERASE"} =>
          gaveUp.ns = Window(cli.kind, SetPoll(cli.kind, cli.poll))
    /\ gaveUp.ask = "ERASE" =>
          EraseWaits(cli.kind, cli.poll.delay * NsPerMs, gaveUp.ns)

(* Every run of the tool ends, whatever the device, the files and the      *)
(* programmers do.                                                         *)
RunEnds == <>(pc = "exit")
=============================================================================
