# A formal model of the Nova Voyager USB DFU bootloader

The bootloader sits in the first 12 KB of flash. At reset it starts the
application or, on request or when there is none, enters USB DFU mode and
lets a host erase and program the application region. A mistake here either
bricks a board or puts a broken image on it. This directory holds TLA+ models
of its code, TLC configurations that check them on small instances, and TLAPS
proofs for every instance.

## The system

| Component | Code | State it keeps | Operations |
|---|---|---|---|
| DFU protocol engine | `src/usb_dfu.c` | `dfu` (state, status, address, block_num, xfer_len), `dfu_buffer`, pending DfuSe command, `dfuse_address_ptr` | DNLOAD, GETSTATUS (which runs what is owed), UPLOAD, CLRSTATUS, ABORT, OUT data, bus reset, init |
| EP0 packets and dispatch | `src/usb_dfu.c` | `ep0_tx_*`, `ep0_req_len`, `pending_address` | `usb_poll`, `handle_setup`, `handle_ep0_out`, `handle_ep0_in`, `ep0_send`, `ep0_tx_chunk`, `ep0_send_zlp`, `ep0_stall`, `usb_reset` |
| Endpoint register, packet memory | `src/usb_dfu.c`, `include/usb_regs.h` | EP0R, buffer table | `ep_set_tx_status`, `ep_set_rx_status`, `pma_read`, `pma_write`, `usb_init` |
| Flash driver | `src/flash_if.c`, `include/flash_if.h` | main flash | address check, page erase, half-word programming |
| Option bytes | `src/flash_if.c` | option block, and the copy loaded at reset | `flash_disable_write_protection` |
| Boot decision, main loop | `src/main.c` | magic word in RAM, `reset_countdown` | `main`, `run_dfu_mode`, `app_valid`, `system_reset` |
| Clock setup | `src/main.c` | RCC registers, wait states | `clock_init`, `clock_fallback_hsi` |
| Update session | `tools/test_ep0.c` and the device | what the host knows | the DfuSe download sequence |
| Descriptors; reset code, linker script; build tooling | | none that changes | |

How they interact. The main loop polls the USB peripheral; `usb_poll` reads
the latched events and calls one handler to completion, so handlers never
interleave with one another. They do interleave with the host, which may send
any request at any moment and abandon any transfer, and with the supply, which
may fail at any instruction; and below the handlers, the USB controller sets
and clears fields of EP0R between any two accesses the firmware makes to it. The
engine calls the flash driver from inside GETSTATUS. `main` and the engine share only `dfu.state`, and the main loop
resets the board some polls after manifestation has begun. The application and
the bootloader share the magic word and the option bytes.

What is hard, and what would make each part correct:

- **Engine.** A download step is spread over a SETUP, its OUT packets and two
  GETSTATUS. Whatever comes in between must not misplace a block, leave a
  command behind, or lose the completion. Sizes sit at limits (a full buffer,
  wrapping addresses, the inclusive end of the region).
- **Flash driver.** Whatever it is asked, the bootloader and the settings page
  never change; a failure in the middle of a block is never reported as done.
- **Session.** Replies are lost, hosts time out and retry, power fails; yet
  the device manifests a whole image only, and the update ends.
- **Option bytes.** Erased, then written back one by one; what protects flash
  is the copy loaded at the last reset. Lifting read protection wipes flash.
- **Boot.** A request for DFU must outlive the reset that unprotecting costs
  and must be consumed by it; every boot has to settle.
- **EP0.** Three writers (firmware, controller, host) of one register whose
  bits toggle when written as 1 and clear when written as 0. A host gets its
  own reply, whole, with an end it can recognise; every transfer ends; the
  device is at the address it was given; nothing leaves it deaf.
- **Clocks.** Three waits for hardware that may answer late or never. Whatever
  happens, flash wait states and bus prescalers fit the clock that really runs,
  and the result that is returned is true.

`PROJECT.json` lists the hazards one by one, with the line where each bites.

## Modules

| Module | What it is |
|---|---|
| `FlashIf` | `flash_if.c`: `flash` as a function from address to byte, `flash_erase_page(a, ret)` and `flash_write(a, data, ret)` as actions that also fix the return value |
| `FlashContract` | what the rest of the board may assume of main flash: outside the application region nothing changes, inside it pages are erased or erased bytes are programmed |
| `UsbDfu` | the protocol engine, extends `FlashIf`; one action per exit of each handler; the host is arbitrary |
| `DfuSession` | extends `UsbDfu` with the host of `tools/test_ep0.c` and with what can go wrong on the way |
| `OptionBytes` | `flash_disable_write_protection`, one option byte per step |
| `Boot` | `main.c` around it: entry decision, clock outcome, DFU loop with the countdown, every kind of reset |
| `ControlRead` | what EP0 promises the reader of a control transfer: its own reply, whole, cut to what it asked for, ended where it can tell |
| `Ep0` | `usb_poll` and everything under it, one access to EP0R per step, with the USB controller and a host in between; implements `ControlRead` |
| `Clock` | `clock_init` and `clock_fallback_hsi`, one register access per step, with the oscillators, the PLL and the clock switch in between |
| `MCUsbDfu`, `MCDfuSession`, `MCBoot`, `MCEp0` | instances for TLC (`Clock` has one constant and needs none) |
| `FlashIfProofs`, `UsbDfuProofs`, `BootProofs`, `DfuSessionProofs`, `ControlReadProofs`, `Ep0Proofs`, `Ep0TimelyProofs`, `ClockProofs` | theorems |

`UsbDfu` and `DfuSession` compose: every action of a conforming host is one of
the engine's actions with its arguments fixed, and every session is proved to be
a behaviour of `UsbDfu`. `UsbDfu` implements
`FlashContract` with the same `flash`, so `FlashContractKept == Contract!Spec`
is both checked and proved. `Ep0` stands below `UsbDfu`: it has the packets,
the register and the timing, and of the DFU engine keeps only which requests
read, write, are refused or run a flash operation; `UsbDfu` has the engine, and
a reply there is one unit. `ReplyWhole`, the refinement of `ControlRead` by
`Ep0`, is what justifies that unit; it is checked and, for every packet size and
set of requests, proved.

### How state and actions correspond to the code

* `dfu_state`, `dfu_status`, `dfu_address`, `block_num`, `xfer_len` are the
  fields of `dfu`. `dfu_buffer` is the filled part of the array, so its length
  is `dfu_buffer_len`. `dfuse_cmd` joins `dfuse_cmd_pending` (0: none),
  `dfuse_cmd_has_arg` and `dfuse_cmd_arg`.
* `ep0_tx` is what the device answers the next IN with. `ctl` is the transfer
  on the bus: how many OUT bytes the host still has to send and whether the
  device took them on as a download. `ctl` is not code; it records the rule of
  control transfers that a host sends the bytes it announced, in full packets.
* A control transfer is a SETUP action and one `OutPacket` per data packet. A
  SETUP may come at any time and ends the transfer before it. Zero-length OUT
  packets (the status stage of an IN transfer) change nothing: `handle_ep0_out`
  tests `count > 0`.
* Each of GETSTATUS's branches is an action; the erase or program it runs is a
  conjunct of that action. `flash_write` may stop after any number of
  half-words that could be programmed, so an error leaves a prefix.
* `hung` is `Default_Handler`'s endless loop, reached only through a
  half-word store to an odd address.
* `usb_reset` and `dfu_init` differ in what survives: a bus reset leaves
  `block_num` and `xfer_len`, a start of the core zeroes `.bss`.
* In `Boot`, `stage` is the place in the program, `ob_step` the place in
  `flash_disable_write_protection`, `loaded` the option bytes in effect.
  `requested` and `ctl.accepted` are history: no guard reads them.
* In `Ep0` everything between two accesses to EP0R is one step, since a handler
  shares nothing else with the controller. `todo` is what the poll in progress
  still has to execute, a list of operations that stands for the stack. A
  read-modify-write is two of them, `read` and a write, with the value read in
  `val`; a write toggles the STAT bits written as 1 and clears the CTR flags
  written as 0 (`Written`). `Handlers` is `usb_poll`'s one reading of the
  flags: CTR_RX before CTR_TX.
* The controller and the host of `Ep0` are the actions `SendSetup`,
  `SendData`, `SendStatus`, `TakePacket`, `TakeStall`, `BusReset`. `tag`
  alternates from one request to the next, and a byte is a tag and a position,
  so a byte of the wrong reply, or a right one in the wrong place, shows.
* In `Clock` `pc` is the place in `clock_init`; `cfgr.sw` is what the code asked
  for and `sws` the source that runs. `late` is history: the switch to the PLL
  came after `rcc_wait` had made its last reading.
* `state` of `Ep0` is `dfu.state` as far as EP0 depends on it: DNLOAD_SYNC,
  where OUT data counts, DNBUSY, where a GETSTATUS does flash work, and the rest.

### What is abstracted

* In `UsbDfu` a reply is one unit: how it is cut into packets does not feed
  back into any DFU state, and `Ep0` checks that it arrives. GETSTATUS's poll
  timeout is left out.
* `Ep0` abstracts a request to its kind, wLength and length of reply; of the
  DFU engine it keeps whether a download is under way, how many packets it
  still lacks and when flash work is done. Data toggles are the controller's own and are left out.
* `Ep0` with `Timely` true assumes of time that a transaction on the bus (5 us
  at the least, for a token, a packet and a handshake at 12 Mbit/s)
  takes longer than a round of the main loop without a flash operation. So a
  transaction ends between two rounds with the one before it handled, or during
  a flash operation, which takes milliseconds. This leaves out three things: an
  event that falls within the handful of instructions between reading EP0R and
  writing it back; a token that arrives between two register writes of one
  handler, or after the last of them and before the next round; and two
  transactions that end between two rounds, so that CTR_RX and CTR_TX stand
  together when `usb_poll` reads them (`usb_dfu.c:707`: `Handlers` has the case
  and no `Timely` run reaches it). `ReplyWhole` holds under this assumption only,
  while `NeverDeaf` is proved without it. `ResetAnywhere` says whether a bus reset may
  fall inside a handler (it is the host's to time) or, as a transaction,
  between two rounds.
* The flash controller: an erase sets a page to ones, a half-word is
  programmed only over erased flash. Its exception (0x0000 over anything) is
  left out, which only makes the model fail where the board would succeed. A
  power failure in mid-erase or mid-program is a failure of that operation
  followed by `Restart`; a half-erased page is not represented. An erase of
  the option block is atomic for the same reason.
* Time. `DfuSession` and `Boot` know order, not durations: that 50 polls are
  long enough for a host to collect a reply is not something a model can show.
* In `Boot`, `clock_init` has two outcomes; `Clock` is the code behind them, for
  the 72 and 120 MHz builds and the HSE_FAIL_TEST build. `Boot` leaves out the
  120 MHz build, which has no DFU mode.

## Runs

Passing runs:

| Run | Distinct states | Shows |
|---|---|---|
| `UsbDfu` | 527,415 | Against an arbitrary host: types, `NothingOwedAtManifest`, `DataStageAnswered`, `UploadInRegion`, `BlockInItsSlot`, and that the engine implements `FlashContract` |
| `UsbDfuFaults` | 385,622 | With erases and programs that fail, odd lengths and odd addresses: `StatusIffError`, `CompleteOrError`, the contract again |
| `DfuSession` | 7,109 | `AckedIsProgrammed`, `ManifestMeansWhole`, `ConformingHostServed`, and the liveness property `UpdateCompletes` |
| `Boot` | 39,568 | `NoMassErase`, `OptionsKept`, `DfuCanWrite`, `RequestHonoured`, `RequestConsumed`, and the liveness property `BootSettles` |
| `Ep0` | 28,768 | `NeverDeaf`, `AddressAgreed`, the refinement `ReplyWhole` and the liveness property `TransferEnds`, against a host that gives up any transfer but a SET_ADDRESS, between rounds or during a flash operation, and resets the bus between rounds; no deadlock |
| `Clock` | 126 | `ClocksInLimits`, `SuccessIsPll`, `FailureIsUniform` at every step of `clock_init`, and the liveness property `ClockReturns` |

Runs that refute something the repository says of itself:

| Run | Statement | What the code does |
|---|---|---|
| `UsbDfuStaleCommand` | `usb_dfu.c:368`, block n lands at the pointer plus its offset | A command taken in but not yet run survives an oversize DNLOAD and CLRSTATUS. The next data block's GETSTATUS runs it instead of the block, and reports success |
| `UsbDfuRefusedData` | `usb_dfu.c:217`, "stall both directions" | Reception stays enabled, so data for a refused DNLOAD is appended to the accepted one's buffer |
| `BootReadProtection` | README, read protection "is left exactly as it was found" | Power failing after the option-byte erase turns it on, and the next boot sees nothing to repair since erased WRP bytes read as clear |
| `Ep0DeafAfterReset` | `usb_dfu.c:649`, the toggle bits written are "desired XOR current" | `usb_reset` takes STAT_RX to be 0. When the bus is reset during a handler, the rest of the handler has set it to VALID, and the write toggles it to DISABLED: EP0 hears nothing until the next bus reset |
| `Ep0StaleAddress` | `usb_dfu.c:563`, "a SET_ADDRESS only takes effect now" | The address of a SET_ADDRESS given up before its status stage is assigned at the end of a later transfer, even one after a bus reset |
| `ClockLateSwitch` | `main.c:139`, "SYSCLK is still HSI on every path that reaches here"; the application "always inherits" HSI without wait states, HSE and PLL off | `rcc_wait` gives up after its last reading of SWS, and SW still asks for the PLL. A switch that comes before `RCC_CFGR = 0` leaves the core on the PLL; PLLON cannot be cleared under it, and the wait states are |

`ClockLateSwitch` is the instance of the passing run `Clock`, which shows what
does hold: the same comment's "same whichever failure path got here" of all that
the code writes (`FailureIsUniform`), and the limits up to the write that clears
the prescalers. The two `Ep0` findings are the passing run with one restriction lifted:
`ResetAnywhere`, and `MayAbandon` with SET_ADDRESS in it. The first needs a bus
reset within a handler; a GETSTATUS that erases a page is tens of milliseconds
long, so a host that resets a device it takes for dead may well hit it.

### Noticed on the way

Small things the models show and no run is spent on, since the code says them
plainly:

* `app_valid` accepts a reset vector of 0x08040000 (`main.c:273` compares with
  `>`), one past the region README names (0x08003000-0x0803FFFF).
* The manifestation countdown (`main.c:363`) keeps its value through ABORT and
  a bus reset. A manifestation that is broken off within the 50 polls and begun
  again inherits what is left, and the board may reset before its reply is out.
  `Boot` keeps the counter for this, and has no property of it beyond its type:
  whether 50 polls are enough is a matter of time.
* Command code 0 is also the value of `dfuse_cmd_pending` for "none"
  (`usb_dfu.c:274`), so a block-0 transfer of code 0 is reported done;
  `tools/test_ep0.c:470` expects unknown commands to be refused, and tries 0x99.
* `clock_fallback_hsi` clears RCC_CFGR while the PLL is still on, and PLLMUL
  takes no write then: after a PLL or switch timeout the application finds the
  multiplier as `clock_init` set it.
* SET_ADDRESS takes an odd operand (`usb_dfu.c:286`), and nothing checks it
  before the next data block's half-word stores at it fault into
  `Default_Handler` (`ExecuteFaults`, `hung`), while `flash_if.c:161` asks for
  "half-word aligned". A core reset ends it, and no flash has changed.
* A block-0 data stage of more than one packet that is abandoned after the first
  leaves the part in the buffer, and the next two GETSTATUS program it at
  `dfu.address`, where `usb_dfu.c:531` says "Don't write command to flash". Only
  a host that announces more than one packet for a command can do this; the
  host of `DfuSession` announces 5 bytes.
* A host that gives up GETSTATUS during its flash operation and asks for
  something else may, if its token falls between the old handler's write of
  STAT_TX and the next round of the main loop, which handles the new SETUP, be
  given the old reply. `Timely` leaves this out.
* `pending_address` 0 means "none" (`usb_dfu.c:564`), so a SET_ADDRESS to 0, by
  which a host may return an addressed device to the default state, is
  acknowledged and not applied. Hosts reset the bus instead.

### Bounds, and why they are enough

* `MCUsbDfu` scales the sizes and keeps their relations. A page of 8 bytes is
  one transfer; a transfer is two packets of 4; a command with its operand (5
  bytes) spans two packets and a command without one fits in one; a length of
  12 exceeds the buffer; 7 is odd and ends in a short packet. The region is one
  page with a bootloader page below and the settings page above, so every page
  that must not change is adjacent to one that may. Addresses wrap at 128.
  The operands of ERASE_PAGE name an address in the region and one outside it;
  those of SET_ADDRESS are even in `UsbDfu` and odd in `UsbDfuFaults`. In
  `UsbDfu` blocks are 0 (a command), 2 and 11: block 11 lies 72 bytes past the
  pointer, which is inside the region for a pointer of 26 and wraps past the end
  of the address space for 90 and 96, while block 2 is refused at 90, a block
  short of the region, and accepted at 96; lengths are 0, 8 and 12. In `UsbDfuFaults` blocks are 0, 1 and 2, and
  lengths 0, 4 (one packet: a command without operand) and 7; its commands are
  SET_ADDRESS and ERASE_PAGE, so erases fail as well as programs. One run with
  both sets of inputs has too many states; what each leaves out is proved for
  every input.
* `MCDfuSession` has two pages of two blocks and an image of a page and a half
  with an odd tail: an erase comes between data blocks, a page is shared by two
  blocks, and the pad byte lies inside the region. Three faults allow one fault
  inside the recovery from another.
* `MCBoot` uses the board's addresses. `ManifestPolls` is 4 instead of 50: the
  countdown's three regions (start, middle, end) are there. Two interruptions
  allow one during the boot that follows another.
* `MCEp0` has packets of two bytes. Its nine requests are replies that are
  shorter and longer than asked for, that end in a full packet and in a short
  one, that are empty, and one with flash work before it; a refusal, a request
  without data, a download of two packets, a SET_ADDRESS. Every pair of them
  occurs with the first one given up at any point. Two tags are enough: only
  one request can be under way below the one the host waits for.
* `Clock` has a timeout of 4 readings, so that a flag can come at the first,
  in the middle, at the last and after it. `ClockProofs` proves its invariants
  for every timeout.
* `MaxFaults` and `MaxInterruptions` bound what goes wrong so that liveness can
  be asked at all: an unbounded number of power failures excuses any update
  from finishing.

### Fairness

`SessionSpec` assumes weak fairness of the host's next step (a host goes on
with its download; `HostNext` is a disjunction with one enabled branch per
phase) and of `ManifestReset` (the main loop of the device goes round for ever,
`while (1)` in `run_dfu_mode`). The device's own handlers are part of the
host's steps: an answer is computed when the request arrives. `BootSpec`
assumes weak fairness of `BootStep`: the processor executes its program. No
fairness is assumed of faults, of the DFU loop or of the application.
`Ep0Spec` assumes weak fairness of `Firmware` (the main loop goes round, and a
handler runs to its end) and of `HostGoesOn` (a host that has begun a transfer
keeps asking for its next packet). It assumes none of new requests, of giving
up, or of bus resets, so `TransferEnds` says that what is begun ends, or is given
up for something else. `ClockSpec` assumes weak fairness of `clock_init` and
nothing of the oscillators: a dead crystal is one of its behaviours.

Deadlock is checked in the `UsbDfu*` and `Ep0*` runs. `DfuSession` ends in phase
`done`, a board without application or crystal stops in `boot_app_or_stop`, and
`clock_init` returns, so their runs do not check it.

### Mutants

Each property of a passing run comes with a change to the model that it
notices (`PROJECT.json`, `mutants`): a dropped bound, a strict comparison, a
forgotten reset or re-arm. The changed definitions stand beside the originals
in the modules, and no specification uses them.

## Proofs

All theorems hold for every value of the constants under the named
assumptions: `GeometryAssumption` (the regions are ordered and the application
region is a whole number of even-sized pages), `ByteAssumption`,
`FlashMayFailAssumption`, `SizeAssumption` (a transfer past the end of flash
does not wrap a 32-bit address), `CommandAssumption` (the two command codes are
distinct and not 0), `InputAssumption`, and for `BlocksStayInSlots` alone `SlotAssumption` (transfers
have an even size, and no block offset reaches further than the region is from
address 0, which block numbers of 16 bits guarantee on the board); for the boot
models
`OptionByteAssumption` and `BootAssumption`; for the session `ImageAssumption`
and `LayoutAssumption` (a page is a whole number of transfers, a transfer is
even and holds a command with its operand, the image fits the region, an
address is four bytes); `Ep0Assumption`, `ClockAssumption`. TLC evaluates each of
them in the runs.

* `FlashIfProofs` proves what the driver does: page arithmetic
  (`PageBetweenBoundaries`: a page whose base is aligned does not straddle an
  aligned boundary; `PageOfValidAddress`: so the page of a valid address lies
  in the region; `HalfWordsInRegion`: padding an odd tail stays in the region
  because its end is aligned), and from these that each operation is a step of
  the contract (`EraseKeepsContract`, `WriteKeepsContract`).
* `UsbDfuProofs`: `TypeCorrect`, `ContractRefined`, `StatusAlwaysIffError`,
  `NothingEverOwed`, `BlocksStayInSlots`, `NoDataStageWedges`,
  `UploadsStayInRegion`, `DoneIsComplete`. The types are not inductive on their
  own: a block-0 transfer of length 0 would complete with an empty buffer, and
  decoding its command would read a byte that is not there. `TypeInv` adds that
  in DNLOAD_SYNC the accepted length is at least 1. The other invariants are
  proved on top of it, one case per action. `DoneIsComplete` is an action
  property: only the two operations that run inside GETSTATUS change flash, and
  each either finishes or fails. `BlocksStayInSlots` needs that the pointer does
  not move between the SETUP that fixes `dfu.address` and the program
  (`Numbered`, for DNLOAD_SYNC and DNBUSY); that a valid address is one that did
  not wrap (`ValidDidNotWrap`); and that at most a transfer is programmed, with its
  padding (`ProgramStaysInSlot`).
* `DfuSessionProofs`: `SessionTypeCorrect`, `AckedAlwaysProgrammed`,
  `ManifestsOnlyWhole`, `ConformingHostAlwaysServed`. That acknowledged blocks
  are in flash says nothing of what the device is about to do, so `SessionInv`
  follows the session. The address pointer stays at the start of the region;
  the step under way is one the host may choose; every acknowledged block lies
  in a page the host had erased, and flash holds it; and in each phase of the
  host the device is in step (`InStep`): while data is on its way the buffer is
  the prefix that was sent (`Receiving`), from then until the work is done the
  device has the whole step and nothing else (`Pending`), and when it reports the
  step done flash holds the block. An erase then cannot hit an acknowledged
  block, since the host erases only pages not yet erased, and programming one
  block cannot disturb another, since blocks do not overlap; both are arithmetic
  on `LayoutAssumption`. A fault of any kind returns host and device to the
  beginning together.
  `SessionIsEngine` composes the two models: `Engine` is `UsbDfuProofs` with a
  host that may make any request and send any bytes, its assumptions are proved
  for that instance (`EngineAssumptions`), and every step of a session is a step
  of it or none of the device's (`EngineStep`; only that the host's packets are
  bytes needs `SessionInv`). So the theorems about the arbitrary host hold of
  every update, faults included: `SessionKeepsContract`,
  `SessionKeepsInvariants`, `SessionDoneIsComplete`.
* `BootProofs`: `BootTypeCorrect`, `NeverMassErases`, `DfuNeverBlocked`,
  `RequestsHonoured`, `RequestsConsumed`, `OptionsAlwaysKept`. Three
  strengthenings carry them. `NeverUnlocks`: neither the option bytes nor the
  snapshot say "unlocked" unless the last reset loaded "unlocked".
  `ProtectionInv`: before the function starts the option bytes are those in
  effect, and after its erase the WRP bytes read clear. `RequestInMagic`: across
  a reset a request lives in the magic word, and nowhere else does the magic
  word stay set.
* `ClockProofs`: `ClockTypeCorrect`, `ClocksStayInLimits`, `SuccessIsAlwaysPll`,
  `FailureIsAlwaysUniform`, for every timeout and wherever a late switch falls.
  `ClockInv` says, place by place, what the registers are: the wait states of the
  build from the first write to the last (`LatencyInv`), the PLL configured before
  it is enabled and locked before it is selected (`PllInv`), the source the PLL
  only while it was asked for, or `late` (`SwitchInv`), and what the fallback has put back, with both sources
  off or both still running (`FallbackInv`).
* `Ep0Proofs`: `Ep0TypeCorrect`, and `NeverDeafUnlessResetInHandler` under
  `~ResetAnywhere`, for every packet size and set of requests, and with `Timely`
  true or false: it needs no assumption on time. The types need to know what
  the rest of a handler can be (`TodoOK`: operations with arguments in range,
  and every write of STAT_RX right after a read of EP0R). `RxInv` is the
  argument proper: STAT_RX is NAK or VALID; a packet can only move it to NAK;
  so between the read and the write it is NAK or what was read, and toggling
  the difference to VALID gives NAK or VALID again.
* `ControlReadProofs`: `ReaderHasItAll`, of the abstract reader that `Ep0`
  implements: one whose data stage ended with anything in hand has the whole
  reply.
* `Ep0TimelyProofs`: what needs the bus to wait for the main loop (`Timely`),
  and the only module whose theorems assume it.
  * `ReaderServed`: `Ep0` implements `ControlRead` (`ReplyWhole`), whatever the
    host may abandon and wherever the bus may be reset. The invariant,
    `ReplyInv`, has four parts. `Underway` lists what the rest of a handler may
    still do to what EP0 sends (`Shape`: at most one thing, and after it only
    what concerns reception), and adds that the two flags of EP0R never stand
    together and that after an unseen bus reset the host waits for nothing.
    `Caught` says that a handler acts on a flag that still stands, and writes
    EP0R from the value it has. `Waits` says that a SETUP not yet handled is
    the host's last one, and that when it interrupts a GETSTATUS in its flash
    operation EP0 is quiet and owes nothing. `Served` says, for each stage of
    the host, how the reply is made up: while EP0 is `Replying`, what the host
    has taken, the packet in memory and `ep0_tx_left` are the reply in that
    order, with a zero-length packet owed exactly when the end would not show;
    a refusal is on its way to STALL (`Refusing`); in and before the status
    stage nothing is sent but empty packets (`Finishing`), a download lacking
    as much as the host has left to send (`Lacks`). One lemma per operation of
    `todo` and per action of the bus shows that the invariant is kept, and that
    the step is one of the reader's or none (`ReaderStep`).
  * `AddressAlwaysAgreed`: `AddressAgreed` under `Timely`, `~ResetAnywhere` and
    `Addresses` (no SET_ADDRESS may be given up, none is to address 0). On top
    of `ReplyInv`, `AddressInv` follows `pending_address` from the request
    (`Assigning`) to the IN flag of its status stage (`Assigned`), and shows it
    0 at any other time. `~ResetAnywhere` is there because a reset may fall
    between the status stage and the handler that sees it: CTR_TX and
    `pending_address` both survive `usb_reset`, and the address is then set on
    a device that was just reset. Of `Addresses`, the first half is what the run `Ep0StaleAddress`
    lifts, to a counterexample; the second half is in "Noticed on the way".
  * `NoPartForWhole` puts `ReaderServed` and `ReaderHasItAll` together: a host
    past its data stage holds nothing or the whole reply to its own request.

  `ReplyInv` was checked by TLC before it was proved, in the `Ep0` instance
  with resets between rounds and with resets anywhere, with every request in
  `MayAbandon` and with all but SET_ADDRESS; `AddressInv`
  in the instance of the run.

Only model-checked: the four liveness properties, `UpdateCompletes`,
`BootSettles`, `TransferEnds` and `ClockReturns`. Liveness under fairness and
ENABLED are outside what the proof system does; so is induction over data, and
so are RECURSIVE operators, of which the modules have none. Every other property
of a passing run is the conclusion of a theorem.

## Plan

Done: `FlashIf` with its contract, `UsbDfu`, `DfuSession`, `OptionBytes` and
`Boot`, `Ep0` with `ControlRead`, `Clock`, and their theorems.

Left:

* For the findings on stale commands, refused data, the late clock switch and
  read protection, theorems of what does hold: the property under the weakest
  restriction of the host, or of the boards, that excludes the finding, as
  `NeverDeafUnlessResetInHandler` and `AddressAlwaysAgreed` do for the two of
  `Ep0`.
* `Boot` and `DfuSession` composed, for what an interrupted update leaves
  `app_valid` to judge. The code promises only that the first two words are
  plausible, so the composition would describe and not verify.

## Not modelled

* What a descriptor contains. GET_DESCRIPTOR is in `Ep0` and `UsbDfu` as a
  request that reads or is refused; the tables are constants that the host tests
  and static assertions check.
* Buffer table addresses and the layout of packet memory (`pma_read`,
  `pma_write`), and the register writes of `usb_init`: straight-line code that
  runs the same way every time.
* `Reset_Handler`'s section copy, the vector table and the linker script, which
  its own assertions check.
* Durations: that 50 polls are long enough for a host to collect a reply, or
  100 ms for a page, is not something these models can show.
* The build, release and size tooling, which has no run-time behaviour.
