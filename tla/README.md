# A TLA+ model of the OTA updater SDK

The SDK updates the application of a small device over a wire: a bootloader on
the device (C, `device/`), a session engine and transports on the host (Rust,
`host/`). A host erases the application region, writes it page by page,
verifies it and asks the device to boot it. Frames get lost, damaged and late,
power fails at any moment, and the promise is that the device is never bricked:
it runs a whole image or waits for one.

This directory models that system in TLA+, checks the models with TLC on small
instances, and proves most of the safety properties with TLAPS for every value
of the constants: of the bootloader, of the image, of host, link and device
together, of the command line tool, of the stream receivers, of the I2C, SPI and
soft-UART links and of the RP2350's flash driver.

## 1. Inventory of the system

| Part | State it keeps | Operations | What makes it correct |
|---|---|---|---|
| Update session FSM, `device/core/update.c` | `erased`, `boot_pending`, the flash region | INFO, ERASE_APP, WRITE_PAGE, VERIFY, BOOT, ECHO; the boot gate `upd_app_valid`; the jump `upd_boot_if_valid` | writes stay in the region and follow a full erase; the application is entered only over a valid image |
| Port main loop, `device/ports/*/main.c` | `resident`, the entry window | receive and serve, boot after the reply, autoboot | a host that got a frame through keeps the device; a reply precedes the jump; an idle device boots |
| Entry request, `entry.c`, `app_stub.h` | the magic pair in memory that survives a reset | written by the application, captured and cleared at reset | it works exactly once |
| TWI client, `avr_ea_twi/twi.c` | receive buffer, armed reply, `tx_consumed` | poll one bus event, park a frame, stream a reply | never loses or mixes frames; `tx_consumed` means *this* reply |
| Stream receiver, `device/core/link_stream.c` | `in_frame`, `n`, the buffer | `link_poll`, `link_send`, `link_init` | stays in its buffer; in step, takes what was sent as it was sent; finds back into step |
| Frame codec, `proto.c`, `crc8.c`, `frame.rs` | none | build, parse, CRC-8, padded decode | both sides accept the same frames |
| Flash drivers, `avr_ea_common/flash.c`, `rp2350_uart/flash.c` | the flash; on the RP2350 a held page | erase, program, read a page | the region reads as if pages were written one by one |
| Pumps, `ports/skeletons/*` | SPI: a transmit queue; soft UART: the pins | bytes in, bytes out | no byte is invented; a character survives clock drift and late sampling |
| Host session, `session.rs` | the exchange in progress, attempts | `info`, `echo`, `flash`, `boot`, retries | success means the image is there; every call ends |
| Image, `image.rs` | payload, geometry | footer, `page_into`, `pages()` | the pages sent make an image the gate accepts |
| Host stream receiver, `stream.rs` | `in_frame`, `n` | `push`, `reset` | mirrors the device's receiver |
| Transports, `updater-eh`, `updater-cli/transport.rs` | poll budgets | `request`: write, poll, give up | deliver the reply to *this* request |
| Poll budgets, `DynTransport` | base budget, attempts for ERASE_APP | raise for one exchange, restore | an erase is waited for, nothing else is |
| Tool, `updater-cli/main.rs` | none | `info`, `echo`, `flash`, `boot`, `install` | local errors never reach the wire; reports what happened |
| Intel HEX loader, `ihex.rs` | the binary so far | one line at a time | the binary is what the whole file says |
| Tool runner, `install.rs` | plan, resolved tools | read, plan, resolve, run | a target is not left half programmed by what could be known before |

How the parts interact: the tool calls the session, the session calls one
`Transport::request` per attempt, the wire carries the frame to the port's main
loop, which calls `upd_handle`, which calls the port's flash functions. Nothing
is shared between host and device but the wire; the device is one polled loop
without interrupts; the host is one thread. The concurrency is between host,
wire, device and power supply.

What is hard: a timeout racing a late answer; commands executed twice by a
retry; BOOT, whose reply and whose effect race; a power cut inside an erase or
a page program; the entry window racing the first frame; receivers out of step
after a lost byte; lengths at the limits of `u8`. `PROJECT.json` lists these
hazards with the lines where they bite and the properties that cover them.

## 2. Modules

```
Flash ---- Bootloader ----------------+---- Update
  |                                   |
  +------ Image ---- Session ---------+
  |         |
  |         +-----------------+
  +------ IntelHex -----------+
  |       Install ------------+---- Tool
  |       PollBudget ---------+
  |
  +------ PagedFlash
  |           : implemented by
  +------ HoldFlash

Framing ---- StreamMirror ---- LinkStream
   |
   +-------- TwiLink
   +-------- SpiLink           Checksum (the real CRC-8, for the runs)
   +-------- SoftUart

Update   : implements, on a transactional link
   ImageSlot

Image_proofs --+-- Update_proofs       LinkStream_proofs, HoldFlash_proofs
               +-- Tool_proofs         TwiLink_proofs, SpiLink_proofs
                                       SoftUart_proofs
```

`MCBootloader`, `MCUpdate`, `MCHoldFlash`, `MCLinkStream`, `MCTwiLink`,
`MCSpiLink`, `MCSoftUart` and `MCTool` give the constants their values for TLC.
Definitions called "faulty variant" in a comment are not part of the model:
each is a plausible bug of the definition that follows it, and shows that a
property would notice.

**Flash** - the application region: `AppPages` pages of `PageSize` cells. A
cell is a 32-bit word, so the footer is four cells. Programming is a bitwise
AND (no implicit erase), `Torn` is a page that lost power after some of its
cells. `AppValid` is the boot gate. `Crc` is a parameter.

**Bootloader** - the device. `HandleInfo` ... `HandleUnknown` are the handlers
of `upd_handle`, status by status in the order the code tests. The main loop is
three stages, `pc`: `RecvFrame`, `RecvUnparseable`, `RecvDropped`, `ReplyRead`
and `RecvNothing` are what one poll of the link can do, `CheckBoot` and
`CheckWindow` the two ifs behind it. `Transactional` selects the TWI port (the
host reads replies) or the UART ports (the device pushes them). `Restart` is a
reset: RAM is lost, the entry pair survives a soft reset only. `CutErase` and
`CutWrite` are power cuts in the middle of a handler's flash operations; every
other handler is atomic because nothing can be observed in between. `expired`
stands for the millisecond counter: it may become true at any moment.

**Image** - `from_bin`, `footer`, `page_into`, `must_write` and the iterator.

**Session** - `flash` and `boot` as series of exchanges: `ask` and `page` are
the exchange in progress, `Request` the frame each of its attempts sends,
`Follows` the exchange after it, with `Yields` for the page iterator; `Got` is
`validate` and the retry loop of `exchange`. The tool's own INFO before `flash`, which
sizes the image, is left out here; Tool has it.

**Update** - host, link and device. On I2C the host writes, the device holds
the bus until it has answered, the host reads the armed reply; a failed poll of
a read that the next poll repeats is not a step of its own. On a stream,
requests and replies queue; the host takes the first reply whose length fits
the exchange, and what came in the same chunk is thrown away. Faults (lost,
damaged, late) are counted, so that properties can speak about them. A damaged
frame on a stream may leave the receiver inside it (`midFrame`), where it
swallows what follows for as long as it pleases; that over-approximates what
`LinkStream` models byte by byte.

**PagedFlash** - what `port.h` promises the core of a flash driver: erased as a
whole, then written page by page, each read returning what was written. While
an erase is under way nothing is promised; a power cut may spoil one unit of
two pages.

**ImageSlot** - what an update promises, with no pages, frames or links: a slot
that holds one whole binary or none. `Lose` empties it, `Gain` fills an empty
one, `Run` and `Reset` start and stop the application out of a full one,
`Report` is a flash job's Ok. The mapping (`Accepted`, `Reported` in Update):
the slot holds the binaries that the boot gate accepts and that are in the
region in full, so that two at once, or a mix of two, would show as a step no
action of ImageSlot allows.

**HoldFlash** - the RP2350's driver. `raw` is the flash, `hold`, `holdPage`,
`holdValid` the page held back. `ErasePage` is one call of
`port_flash_erase_page` in `handle_erase`'s loop, `WritePage` one call of
`port_flash_write_page` with its four cases, `ReadRegion` a walk over the
region, whose first read flushes. `CutIdle`, `CutWrite` and `CutErase` are
power cuts in each flash operation, after any number of cells. The refinement
mapping is `Flushed`: what the region would be after a flush.

**Framing**, **StreamMirror** - the codec, and the two receivers as functions
of one byte, fed with the same bytes.

**LinkStream**, **Checksum** - a host repeating a request over a wire that
loses and damages bytes, against the device's receiver, with real frames and
the real CRC-8. A host receiver runs beside the device's on the same bytes.
Answers always arrive here; lost ones are Update's subject.

**TwiLink** - a job over I2C, one bus event at a time. `OnError`, `OnAddress`,
`OnStop`, `OnTransmit` and `OnReceive` are the branches of `twi_poll`; the bus
holds one event for the client and is stretched until it is serviced, except
that a Stop can be overtaken by the next start, which is the case the code
treats as a repeated start. `DevAnswers` is main's handler with `port_send`,
which ends the stretch. The host writes a frame and reads a window of fixed
length, checked by `DecodePadded`. Bytes are damaged in either direction and
bus errors end a transaction anywhere.

**SoftUart** - one request over two GPIO lines. Time is in ticks; the level of
a line is a function of the tick (`Level`), computed from what was sent with
the sender's bit time and from one break. A step is one received character:
`Idle` counts the samples until the start edge, `Char` samples the data bits,
`FramingError` the stop bit, `MarkAfter` is the wait for mark. `DevHears` is
`pump_get` under `link_poll`, `HostHears` the loop of
`SoftUartTransport::request` with its two budgets.

**IntelHex** - `ihex::parse`, one line per step. A line is the record its text
decodes to, with flags for what can be wrong with it.

**Install** - `run_cli` of `install.rs`: `ReadConfig`, `MakePlan`, `Resolve`
tool by tool, `RunTool` tool by tool, against programmers that exit with any
status and tools that disappear at any moment.

**PollBudget** - the arithmetic from `--poll-attempts` and `--poll-delay-ms` to
what a backend waits: clamping, saturation at 32 bits, the division that rounds
up, the conversion to samples of the software UART. `Window` is the time a
request spends on a silent wire: no delay follows the last attempt, and on UART
every attempt is a read that blocks for 100 ms by itself (`VTIME=1`).

**Tool** - a run of `updater-cli`: `Start` dispatches, `LoadImage` reads the
file, `SpecFails`, `OpenFails` and `Open` resolve and open the wire, and
`Answered`, `Refused` and `AttemptFails` are what becomes of one request of the
command, under the budget `DynTransport` sets for it. The device is reduced to
its region: it erases, programs and compares a CRC.

**SpiLink** - a job over SPI, one byte exchange at a time. `HostSends` and
`HostPolls` are the two halves of `SpiTransport::request`, `DevPumps` a
`link_poll` that takes one byte, `DevServes` the handler and `link_send`,
`DevJumps` the jump that `spi_pump_tx_idle` allows. Host and device run at any
relative speed: an exchange that comes before the pump has run loses a byte and
repeats the staked one. No port of the repository uses the pump, so the loop
around it is the one `spi_pump.h` prescribes.

## 3. Runs

| Run | Instance | Shows |
|---|---|---|
| `bootloader_twi` | 2 pages of 4 cells, an old image or nothing, 16 requests that reach every status, 2 resets | types; `JumpGated`; `NoStalePages`; `EntryHonouredOnce`; `HeldByHost`; `RepliesBeforeJump`; `Autoboots`, `BootActedUpon` (liveness) |
| `update_i2c` | 3 pages of 4 cells, 2 binaries of one and two pages, 2 jobs, 1 re-send, 2 faults, 2 resets | `FlashedImageBoots`, `BudgetCoversFaults`, `IncompatibleUntouched`; `OneImageSlot` (refinement of ImageSlot) |
| `update_uart` | the same on a stream, over an old image, 1 reset | `VerifiedCodeInPlace`, `OnlyWholeImagesRun`; `JobsEnd` (liveness) |
| `link_stream` | INFO, ERASE, VERIFY, a page with a sync byte inside and one with a whole framed INFO; two lost or damaged bytes, the first to any value | `InStep`, `LinkInBounds`, `Mirrored`; `Heard` (liveness) |
| `hold_flash` | two sectors of two pages, two images, two power cuts | `ReadIsDurable`, `Contract` (refinement of PagedFlash) |
| `spi_link` | INFO, two WRITEs of different pages, BOOT; any relative speed, bus errors at any point | `AckMeansDone`, `BootAfterReply`, `PacedSucceeds`, `JobEnds` |
| `twi_link` | INFO, two WRITEs of different pages, a WRITE longer than the client's buffer; 3 disturbances | `QuietBusSucceeds`, `AckMeansDone`, `ConsumedMeansRead`; `JobEnds` |
| `softuart` | INFO and a reply of 5 bytes; device clock 4% slow, exact, 4% fast; breaks of 4 lengths every 67 ticks of either message, and for good | `QuietLineSucceeds`, `BreakRecovered`, `NothingForged`; `RequestEnds` |
| `tool` | 3 pages of 4 cells; every binary over a blank and a non-blank word up to 9 cells (8 fit); HEX files of up to 4 lines out of 12; 60 poll budgets; 79 install orders | `HexFaithful`, `NothingHalfProgrammed`, `LocalErrorsStayLocal`, `BootsOnceComplete`, `SilenceBudget`; `RunEnds` (liveness) |

`HeldByHost` and `RepliesBeforeJump` are model-checked on the transactional
link, where a reply waits to be read; on a stream they rest on the proofs, which
cover both kinds of link. That every job ends is checked where it is hardest:
in `update_uart` against a receiver that swallows frames, and event by event in
`twi_link` and `spi_link`.

Three runs end in a violation, each a disagreement between the code and what
the repository says of it:

* `update_uart_late_reply`: a flash over a UART can report success for an image
  that does not boot. A reply is matched to a request by command and status
  only, and the receive buffer is not emptied before a request: the late reply
  to a first WRITE_PAGE acknowledges the next page. When that is the footer
  page and its request is lost, VERIFY does not notice, because it covers the
  code and not the footer. `VerifiedCodeInPlace` is what remains true.
* `update_i2c_boot_report`: `updater-cli boot` says "BOOT refused" for a BOOT
  that was obeyed, when the last attempt's reply was damaged.
* `link_lost_byte`: one lost byte can spend the whole retry budget, because
  the receiver then waits for a longer frame and swallows the retries. `Heard`
  is what remains true: a job started over is heard.

### Bounds, and why they are enough

Two pages are the smallest region in which code and footer can disagree; a
power cut can hit either, at every cell. Update needs a third: with two pages
of code a misattributed acknowledgement can hide the loss of code, not only
of the footer. Two resets allow a cut, a boot and
another reset. Two jobs allow a flash and a boot, or two flashes of different
binaries. `RetryBudget = 1` with two faults is one more fault than the budget
repairs, as 3 and 4 would be. `Requests = {}` in the Update runs: there the
frames come from the session. `RetryBudget = 3` is the code's in the `link_*`
runs. In `link_stream` a limit of 24 bytes stands for 255 and the host's buffer
is larger; a damaged LEN takes every value below, at and above the limit. In
`link_lost_byte` the buffer is that of a 128-byte page.
In `hold_flash` two sectors of two pages have first pages and
inner pages, partners and strangers; a second power cut can follow a recovery
from the first. In `spi_link` two writes of the same command show whether a
reply can answer the wrong one, the reply to INFO holds a sync byte, `TxCap = 7`
is the largest reply with its sync (a smaller queue is what `spi_pump.h` rules
out). Two poll attempts are what a device that keeps up needs (with one, the
lag's busy byte is already too many, and `PacedSucceeds` fails); four leave
room for a late reply and for stale bytes in front of it. In `twi_link` the
buffer of 5 bytes holds the longest legal request exactly; the reply to INFO
contains 0xFF, so filler and data can be confused; a third disturbance can hit
the last attempt of an exchange whose first two were hit. In `softuart` a bit
is 26 ticks and the line is sampled every 3, twelve microseconds: with the
drift this uses up most of the half bit that `softuart_pump.h` derives, where
the code's two microseconds leave slack. Breaks of 264 and 490 ticks are
longer than a character and just below the 19.5 bits of low that the wait for
mark covers. In `tool` a nanosecond is scaled (`NsPerMs = 8`, `U32Max = 40`) so
that a delay of 5 ms is the last that fits and 6 ms saturates; delays that
divide the erase time (12 ms) and one that does not are both there, and delays
below, at and above a blocking read (`ReadNs = 16`, 2 ms). The toy checksum of
the MC modules does not collide on the contents the instances reach; with a
colliding one, OnlyWholeImagesRun would speak about the checksum and not about
the code.

### Fairness

* Bootloader: weak fairness of `Loop` (the processor runs) and of `Tick` (the
  timer counts). None of resets, of the application or of the host.
* Update: strong fairness of the host's steps (each wait is bounded by a poll
  budget), weak fairness of the device's loop, strong fairness of serving a
  frame that stays on the link: the loop polls again and again, and a poll
  sees what is there. `JobsEnd` is not owed to the device: a timeout is always
  possible for the host.
* SpiLink: weak fairness of the host's steps only. `JobEnds` is not owed to the
  device, which may be off.
* TwiLink: weak fairness of the host's steps, which the bus may hold up, and of
  the client's poll and main's answer: `JobEnds` needs the device, since a
  stretched bus blocks the host for good.
* SoftUart: weak fairness of receiving, which both ends do in a busy loop.
* Tool: weak fairness of the tool's own steps; it is a sequential program whose
  reads return and whose children exit.
* LinkStream: weak fairness of the host, which repeats and starts over, and of
  the device's poll. None of the faults; they are finitely many.

Deadlock is checked everywhere; where a system may rest, a stuttering action
says so (`AppRuns`, `Done`, `Idle`, `Rests`, `Over`).

## 4. Proofs

Every theorem is about all values of the constants that meet the named ASSUMEs
of the modules. Each inductive invariant named below was checked by TLC on the
instance of its module's run before it was proved.

### The device: first part of `Update_proofs`

For every geometry (a degenerate one included), every `Crc`, every set of
requests, every initial flash, both kinds of link and any number of resets:

* `TypeCorrect`: `Spec => []TypeOK`. `TypeOK` is inductive. The interesting
  part is that `flash` stays a region of pages: a WRITE goes through only for a
  page in range, and programming, erasing and tearing keep a page a page
  (`PageOperations`, which needs that `NorAnd` yields words).
* `JumpGating`: `Spec => []JumpGated`. Inductive by itself: both jump sites go
  through `BootIfValid`, handlers run only in the bootloader, and a reset
  leaves the application.
* `NoStale`: `Spec => []NoStalePages`, relative to `TypeOK`.
* `HostHolds`: `Spec => HeldByHost`, by `JumpSites`, which says that there are
  two ways into the application and what each presupposes.
* `ReplyFirst`: `Spec => RepliesBeforeJump`. Needs the invariant `ReplyInv`:
  a consumed reply is no longer with the link, and a pending BOOT implies
  `resident`. Without the first half, a reply read before BOOT could stand for
  its own; without the second, the entry window could fire under a pending
  BOOT.
* `EntryOnce`: `Spec => EntryHonouredOnce`. A reset that leaves the device with
  the updater for the entry request comes out of the application. Needs the
  invariant `PairCleared`: the request is spent while the bootloader runs, so
  that only the application can have made the one a reset finds.

The step lemmas are stated over `DeviceStep`, a step of the device on any
well-formed frame, wherever the frame comes from. The composition reuses them.

### The image: `Image_proofs`

`ImageBoots`: for every binary that fits, the region made of the pages of its
image passes the boot gate and reads back as the binary, blank up to the
footer. This is where `image.rs` and `update.c` have to agree: the builder cuts
a flat image into pages, the gate reads cells across pages. The lemmas say in
which page and at which offset a cell lies, and which pages are skipped as
blank; the footer page never is.

### Host, link and device: the rest of `Update_proofs`

For every binary, checksum, retry budget, bound on faults, resets and jobs:

* `UpdateTypeCorrect`: on either link the session sends only well-formed
  requests for pages of the region; to an incompatible device, only INFO and
  BOOT (`HarmlessFrames`).
* `DeviceSafeUnderUpdate`: the five guarantees of the device hold in the
  composed system. Every step of the composition is a `DeviceStep` or leaves
  the device alone.
* `IncompatibleSafe`: `UpdateSpec => IncompatibleUntouched`, on both links.
* `FlashMeansBootable`: on a transactional link, `[]FlashedImageBoots`. The run
  `update_uart_late_reply` shows that this is false on a stream, so the
  hypothesis `Transactional` is needed. The argument has two invariants.
  `BusInv`: the link holds at most one frame, and while the host waits, or once
  a flash job is past its INFO, that frame is the request of the current
  exchange; a reply read therefore answers it. `FlashInv`: the pages the
  iterator has passed hold the image, those before it are blank, the current
  one is either, and a confirmation the host has not read yet is already true.
  The second half is what a lost reply needs: the retry programs the same page
  again, which changes nothing.
* `BudgetSuffices`: on a transactional link, `[]BudgetCoversFaults`.
  `BudgetInv` adds that each attempt has been paid for by a fault, and so has
  an answer that waits to be rejected.
* `WholeImagesRun`: on a transactional link, `[]OnlyWholeImagesRun`: whatever
  was cut short, a running application is one of the binaries in full. The gate
  compares a checksum, so something has to be asked of it, and that is as little
  as the code makes it depend on: `HeadErasedShows`, a binary with its first
  cells erased has neither its own CRC nor a blank one. Nothing is asked for
  mixes of two binaries, because the proof shows that the region never holds
  one: `WindowInv` says that what is in the region is a window of one image,
  from some cell up to another, and blank elsewhere. An erase, which runs from
  the first page up and may be cut inside one, moves the window's lower end, the
  upload, which skips blank pages and ends with the footer, its upper end, and
  a reset in between leaves a window that is erased before anything is written
  (`FrameInv`: a WRITE that an erased device is about to serve belongs to an
  image whose lower pages are there and whose upper pages are blank, also when
  a failed job has left it on the bus). The region starts blank or with a whole binary (`FactoryFlash`).
* `UpdateImplementsSlot`: under the same hypotheses `UpdateSpec =>
  OneImageSlot`. `WindowHolds` draws from the window that at most one binary is
  accepted, `FlashInv` which one it is when a job has reported it, and
  `SlotStep` goes through the actions: a program step moves the accepted set
  from none to one at most, an erase from one to none, and no step from one
  binary to another.
* `VerifyMeansInPlace`: `VerifiedCodeInPlace` in every state in which the CRC
  tells the region from the binary (`CrcTells`), on a transactional link, and
  on a stream while the first job runs. `VerifyInv`: behind a VERIFY on
  the link there are only VERIFYs, so an Ok that is on its way was computed over
  the flash as it still is. From the second job on this is not inductive: Update
  lets a reply stay on the stream for any length of time, and an Ok to the
  VERIFY of an earlier job could pass for this one's. The run `update_uart`
  explores two jobs.

### The tool: `Tool_proofs`

* `LocalErrors`: `[]LocalErrorsStayLocal`. `LocalInv`: behind the stage that
  judges them, the inputs are sound.
* `NeverHalfProgrammed`: `[]NothingHalfProgrammed`, for every install file,
  order and set of tools. `InstallInv` follows plan, resolve and run.
* `UploadBoots`: `[]BootsOnceComplete`, under the hypothesis that `Crc` yields
  words. `UploadInv` says of every page whether it holds the image or is blank;
  the footer page comes last, and pages that are skipped are blank in the
  image as well.
* `HexParsedFaithfully`: `[]HexFaithful`. `HexInv` says of each cell that it
  holds what the last record covering it says (`Holds`); a record read next
  becomes the last one for its cells and for no others.
* `SilenceBounded`: `[]SilenceBudget`, for every poll setting the tool accepts.
  `PollInv` says which budget is in force at which request; the lemmas are about
  divisions that round up, clamping and saturation, backend by backend
  (`EraseWindow`), and about which of them end up in the wait (`SilentWait`).

### The links

`LinkStream_proofs`, for every buffer size from 0 to the frame limit, every
host buffer that agrees with it, every byte sequence and every CRC:

* `LinkMemorySafe`: `MirrorSpec => []LinkInBounds`,
* `ScannerMirrorsLink`: `MirrorSpec => []Mirrored`, and
* `ReceiversSafeOnWire`: `FairSpec => [](LinkInBounds /\ Mirrored)` of
  LinkStream, with any number of lost and damaged bytes,

from one inductive invariant, the state invariant written in the header of
`link_stream.c` together with equality of the two receivers while inside a
frame. `MirrorSpec` feeds the receivers any bytes in any order; `WireStep` says
that LinkStream's wire feeds them bytes as well. `SameFit` is the arithmetic
core: with buffers that agree, the two length checks accept the same lengths.

* `TakenAsSent`: `FairSpec => []InStep`, for every set of requests that fit the
  buffer, whatever their payloads hold, and any number of faults. The hypothesis
  `DamageDetected` asks the CRC to tell each request from its neighbours, those
  with one other byte in the place of CMD, payload or CRC; `MCLinkStream` has
  TLC evaluate it for the real CRC-8. The invariant `StepInv` follows an attempt
  through the wire: still all of it ahead of a receiver that hunts (`Ahead`), its
  beginning in the receiver and the rest on the wire (`Within`), or over.

`TwiLink_proofs`, for every series of requests, window and retry budget, under
the hypothesis that replies are sequences of bytes (`RepliesAreBytes`):

* `ConsumedIsRead`: `FairSpec => ConsumedMeansRead`, with any number of
  disturbances. `Phases` says which bus events are possible while the host is
  where it is, `Stream` that the client's index follows the host's clock: the
  client counts bytes it has put on the bus, the host bytes it has taken off.
* `QuietBus`: `FairSpec => []QuietBusSucceeds`. `QuietInv` is the same frame
  seen at each place it passes: what the client has, what is on the bus and what
  the host still has to send add up to the request, whether the stop or the
  start that overtakes it parks the frame.

`SpiLink_proofs`, for every job and every pace of host and device, under the
hypothesis that the reply to whatever parses fits the queue (`RepliesFit`), the
sizing rule of `spi_pump.h`:

* `JumpWaitsForReply`: `FairSpec => []BootAfterReply`. `QueueInv` counts what of
  the latest reply is still to come, in the queue and in the staked byte.
* `PacedIsServed`: `FairSpec => []PacedSucceeds`, for two poll attempts or more.
  `PacedInv` is the lockstep of host and pump, byte by byte through `Sending`,
  `LastByte`, `Serving` and `Replying`, or `Deserted` once the device has left.

`SoftUart_proofs`, for every bit time of either end, sampling period, pair of
frames, turnaround and break, under hypotheses about the constants that
`MCSoftUart` has TLC evaluate on the instance of the run: `Matched` (the budget
of `softuart_pump.h`: sample n of a character falls into bit n, for an edge seen
at once and for one seen a sampling period late; the frames are frames and fit
the buffers) and `Patient` (one bit of turnaround at least, and a poll budget
that outlasts the line's idle time):

* `QuietLine`: `Spec => []QuietLineSucceeds`.
* `QuietLineIsExact`: on a quiet line `NothingForged` holds of any frames and
  any CRC.
* `BreakCostsOneByte`: `Spec => []BreakRecovered`, for ticks of a twentieth of a
  bit or finer and a scan limit above one (`Tolerant`). With coarser ticks half a
  bit, rounded down, is too short for twenty of them to cover nineteen bits.

`WaveAt` is the arithmetic: the level at a tick is bit j of character i, by the
uniqueness of quotient and remainder. `CharHeard` hears one character: the edge
is less than a sampling period late, every sample lands in its bit, the receiver
is done inside the stop bit, at mark. The invariant is then about whole
characters: `DevInv` and `HostInv` say how many have been taken, that the line
is at mark until the next one, and that idle samples and characters fit into
the time that has passed, so the poll budget cannot run out. `MarkFound` is the
wait for mark: it ends within half a bit after the break.

### The RP2350's flash: `HoldFlash_proofs`

For every sector size and number of sectors, every page size, all images and
any number of power cuts:

* `HoldTypes`: `Spec => []TypeOK`; its interesting part is that a held page is
  an even page of the region with the host's data.
* `ReadsSurvive`: `Spec => []ReadIsDurable`, from the stronger fact that while
  nothing has been touched since the last read, no page is held either.
* `HoldImplementsPaged`: `Spec => Contract`, the refinement of PagedFlash. Its
  invariant adds `SectorsBehind` to `TypeOK`: during an erase, every page of a
  sector the loop has entered is blank. Without it the last page erased would
  not make the whole region blank. `SectorOf` is the arithmetic: sectors are
  aligned, so a page and the first page of its sector lie on the same side of
  the cursor.

### Assumptions

The named ASSUMEs of the modules, which TLC evaluates on every run:

* Flash: natural geometry; `Blank` and `Magic` are words; programming yields
  words, clears bits only (an erased word is neutral) and may be repeated.
* Image: the magic is not a blank word, and the region's length is a word.
* Bootloader, Session: requests are well formed, binaries and their checksums
  consist of words, bounds are natural numbers.
* HoldFlash: the static assertions of `flash.c`.
* SoftUart: bit times, sampling period and budgets are positive, frames and
  breaks of their types; LinkStream: requests are frames of bytes that fit the
  buffer.
* Framing, TwiLink, SpiLink: buffers of at most the frame limit; the requests
  of a job are frames whose replies are frames that fit the window or, as
  `spi_pump.h` demands, the queue; the idle byte is not the sync byte.
* Install, IntelHex, Tool: inputs are of their types; the region the tool finds
  does not boot (old images that do are Update's); the worst erase time fits 32
  bits of milliseconds and of samples, as `u16` pages of 10 ms do; PollBudget:
  units are positive, a sample is at most half a millisecond, a blocking read
  at least one and less than the interval at which 32 bits saturate.

### Only model-checked

* Liveness (`Autoboots`, `BootActedUpon`, `JobsEnd`, `Heard`, `JobEnds`,
  `RequestEnds`, `RunEnds`): fairness is out of the prover's reach.
* `OnlyWholeImagesRun` on a stream, and `VerifiedCodeInPlace` there from the
  second job on: late frames of one job can reach the device in another, so the
  region can hold mixes of binaries, and the property says that the CRC tells
  them apart. A hypothesis that `Crc` never collides is met by no checksum; the
  instances choose one without collisions among what they reach.
* `AckMeansDone` of TwiLink and SpiLink, `NothingForged` on a line with breaks:
  the same, for CRC-8 and damage without bound.
* That the real CRC-8 meets `DamageDetected`: what a CRC computes is a fold over
  data, whose properties need induction. TLC evaluates it on the instance.

## 5. Limits

* A cell is a word: lengths that are no multiple of four bytes are not told
  apart, and a tear inside a word is not modelled.
* CRC-32 collisions are outside the model; CRC-8 is real in `LinkStream` and
  absent from `Update`, where a damaged frame is always noticed.
* In `Update` a receiver out of step never finds a frame inside other data.
* The entry pair is one Boolean: memory that looks like a pair after power-on
  is not modelled.
* In Bootloader, Update and LinkStream clocks are timeouts that may happen at
  any time. Poll budgets are counted in PollBudget, Tool, SpiLink, TwiLink and
  SoftUart, the scan limit in SoftUart only.
* `SilenceBudget` states how long a silent ERASE_APP is waited for, for every
  setting. `main.rs` promises "enough attempts to cover app_pages x 10 ms"
  (136-140). The attempts times the delay do cover it; the wait does so only on
  UART with delays of up to 100 ms, where the reads block as well. On I2C, SPI
  and the software UART, and on UART with longer delays, it is up to one delay
  short, because no delay follows the last attempt; with a delay of 0 only UART
  waits at all; and a delay of more than 4294 ms saturates on UART and SPI after
  the attempts were computed for it, which shortens the wait in proportion. The
  time requests and reads spend on the wire comes on top and is not counted.
* `InStep` is about a receiver that an attempt finds between frames, and its
  second half about damage to other bytes than sync and LEN. A receiver that
  has lost step may take what nobody sent: when the leading sync byte of a
  WRITE_PAGE is lost and its data holds a framed request, such as `7E 01 00 15`,
  `link_poll` hunts into the data and delivers INFO. `PROTOCOL.md` (250-251) and
  the headers of `link.h` and `stream.rs` call a sync byte inside a frame
  harmless; that holds in step only, which is what `InStep` says. A lost byte
  inside a frame, or a damaged LEN, can also glue remains of two frames together
  that fit the 8-bit CRC by chance.
* `Bootloader` drops an armed reply once the host has read all of it; `twi.c`
  lets the host read it again until the next frame. TwiLink models the latter,
  and no property of Bootloader or Update depends on the difference.
* `QuietLineSucceeds` assumes that the device takes at least one bit time from
  the last sample of a request to its reply. A device that answers at once
  starts while the host still holds its own stop bit; the header's "the
  protocol never talks both directions at once" does not bound this.
* `BreakRecovered` is about breaks up to 19 bit times. A longer one outlasts the
  wait for mark and is read as another start bit, several times over, although
  `softuart.rs` says that a break never cascades into phantom start bits;
  `RequestEnds` and `NothingForged` hold for those too.
* `NothingHalfProgrammed` is about what can be known before the first tool
  runs. A tool that disappears between resolution and its turn still stops the
  run in the middle; what is left is that nothing runs after it and that the run
  does not report success.
* In `Tool` a request that is not answered was not carried out; lost answers
  are the subject of Update.
* The flash of Bootloader is the AVR's, page by page. HoldFlash shows that the
  RP2350's keeps the same contract, with one difference: a power cut may cost
  an acknowledged even page that is still in RAM, not only the page being
  written. A session does not survive a power cut, so no host relies on it.
* HoldFlash writes a page with the same data each time between two erases, as
  `port.h` describes a retry.
* An 8-bit CRC cannot notice every loss of many bytes. `spi_link`, where any
  number may be lost, uses the real CRC-8 for whole frames and one that never
  fits for what is glued together from remains; `link_stream` uses the real one
  throughout, and its `InStep` says nothing of remains.

Not modelled: registers, clocks and the tear-down before a jump; the frame
buffer of `Session` and its split into windows; failing GPIO pins; the Linux
device nodes behind the transports; clap's parsing, TOML's and the hex
decoding of text, whose results are inputs; output; the conformance simulator,
which was read as an oracle for power cuts; the repository's own proofs of the
C code and of the Rust codec.

## 6. Plan

Done, in the order in which it was planned: Flash and Bootloader with their
proofs, Image, Session and Update, the receivers with their proofs, HoldFlash
with its proofs, SpiLink, TwiLink, the tool with its loader, budgets and
runner, SoftUart; then the proofs about the image, the composition, the tool
and the two clocked links; then ImageSlot and the proof that Update implements
it, the arithmetic of SoftUart, and the receivers on LinkStream's wire with
what an attempt in step is worth there. Left: `ImageSlot` on a stream needs a
bound on how late a frame can be, which no part of the code states; with one,
`WindowInv` could be carried over.
