# LPC84x bootloader: models, checks and proofs

TLA+ models of the serial bootloader in `src/bootloader/source` and of the code
around it (start-up, clock, image maker), model-checked with TLC on small
instances, with the main safety properties proved by TLAPS for every value of the
constants. `PROJECT.json` lists components, runs, mutants, the source lines behind
each definition, hazards, findings and theorems.

## The system

The bootloader occupies the first 36 of 64 flash sectors. A host talks to it
over a 9600 baud serial line: it sends command lines (`P 36 36`), reads answer
lines, and sends the bytes of a sector as raw data after a `W` command.

```
 host ==UART==> holding register ==IRQ==> rx ring ==> SerialController::Run ==> shell
                                             \                                    |
                                              \==> Isp::Bootloader::ReadUart <-W-- cmd_* handlers
                                                             |                       |
                                                         WriteToRam            Isp:: functions
                                                             v                       v
 image_maker.py -> host                       flash.buffer_ (RAM) <--C,M--> boot ROM (IAP) --> flash

 reset -> ResetISR -> main (generated) -> the loop above, or ExecuteImage -> application
```

`main.cpp` is generated and not in the repository. Its loop is one thread, which
asks `get_state()` which reader of the queue is to run: the shell, or the
receiver of a `W`. Only the UART receive interrupt runs beside it.

| component | state | operations | must be right |
|---|---|---|---|
| legality predicates (`Bootloader.cpp` 58-86) | none | sector, page, address, range, `GetRamPtr` | exactly the image and the window pass, in spite of wrap-around |
| command handlers (`shell_commands.cpp`, `Bootloader.cpp`) | command in progress | U B A W R P C G E X I J K M N S Z CV isp err | bootloader sectors never change; each command is answered, truthfully |
| flash controller (`Bootloader.h` 54-74) | `lock_`, `buffer_`, PRIMASK | open, close, unlock | masking is balanced; flash changes only masked |
| boot ROM (external) | flash, prepared sectors | prepare, erase, copy, compare, ... | (environment: any call may fail) |
| receiver (`Bootloader.h` 106-158) | `state_`, `loops_`, `data_count_`, `index_`, `ram_start_`, `buffer_` | `SetupWriteToRam`, `ReadUart`, `Reset` | only whole accepted requests reach RAM; it ends without the host |
| serial controller (`SerialController.h`) | `state` | `Setup`, `Run` | data bytes do not reach the shell |
| UART, rings (`HardwareLibrarian.h`, external driver) | holding register, rx ring | receive interrupt, read | no byte lost |
| image validation and boot jump (`Bootloader.cpp` 16-107) | flash, VTOR, MSP, PRIMASK | `ImageIsValid`, `ExecuteImage` | a torn update is not started; interrupts never see half a hand-over |
| image maker (`image_maker.py`) | `imageout.bin` | pads, appends CRC | its output passes `ImageIsValid` |
| reset handler (`startup_lpc845.cpp`) | RAM | copy and clear loops | variables have their initial values; nothing else is written |
| system clock (`system_LPC845.c`) | `SystemCoreClock` | `SystemInit`, `SystemCoreClockUpdate` | the ROM is told the true frequency |
| checksum helper (`tools.h`) | none | `CalculateCheckSum` | bytes and checksum add up to 0 |

What is hard: interrupts are masked during ROM calls, while the USART holds one
byte; both answers to a `W` go out before the work they announce; the power may go in the middle of an erase or a copy, or of the start-up; the two
readers share one queue; the receiver times out by itself and then says "OK"; a
range is validated long before it is used; addresses wrap; the update is made of
separate commands, each of which may fail.

## Modules

The command loop and what hangs on it:

* `MemoryMap`: layout constants with `LayoutAssumption`, the predicates, and
  `GetRamPtr`. Sums wrap at `kModulus` (2^32 on the device).
* `LegalityCheck`: asks the predicates about one request and compares the answer
  with the set of bytes the request touches.
* `IapRom`: the flash array and the calls of the boot ROM. External: a call may
  always fail without effect; success needs ordered, prepared sectors; programming
  a byte that is not erased gives an unspecified value.
* `IspCommands`: one action per handler. A handler is cut where something else
  can happen: masked section open (`Enter`), the ROM's own step (`Rom...`), section
  closed (`Leave`), "OK" after a W and the store of its data (`FinishTransfer`,
  `StoreTransfer`), return to the shell (`Return`). `R` on flash loops through
  `NextByte`, `ReadByte`, `Leave`. `PowerCycle` may strike at every step and leaves
  arbitrary values in the bytes that were being erased or copied. Refused requests
  are answered in one step and are not remembered, which keeps the state small.
* `ShellLoop`: the abstract specification of that loop, for those who only care
  when it masks interrupts: a handler masks as it likes, and answers unmasked.
  `IspCommands` implements it (`KeepsLoop`).
* `UartLine`: the receiving half of the line. It takes its command loop from
  `ShellLoop` by `INSTANCE` and adds the holding register, the receive interrupt, the ring
  and a host that waits for its answers. Bytes are counted, not told apart.
* `RamTransfer`: receive queue, `Run`, the `W` handler, `ReadUart`, and a host. The
  queue holds bytes; a command line is two of them (`head`, `tail`), so that a
  transfer that is still open can swallow a line or half of it. Data that holds a
  line end by chance makes the shell complain about an unknown command. Both answers are
  steps of their own, before the work they announce: `ShellLine` answers and
  `AcceptTransfer` calls `SetupWriteToRam`; `LeaveReadUart` says "OK" and `StoreData`
  stores. `Prompt` says whether the host may be fast enough to act between the first
  two; between the last two it always may. `kept` is a history variable: the transfer
  the host was last told "OK" for.
* `RamWrite`: the abstract specification of `W`: a legal range is accepted; later it is
  stored as a whole, dropped, or replaced by the next acceptance.
* `ImageUpdate`: `IspCommands` driven by the host the commands are made for, which writes an
  image sector by sector (W and data, P, E, P, C), asks CV at the end, and starts over
  after a bad answer. The host is external. At most `MaxFaults` times the ROM refuses
  a call, the data of a W is lost, or the power goes.

The code around it, one module per part:

* `Startup`: reset, `ResetISR` with its loops (one action per word), the running
  program, `BootJump` step by step, and interrupts, which go to the program whose vector
  table VTOR points to. A reset may come at every step. Which sources `main` enables is
  open, and so is which weak handlers are replaced (`Overridden`): in the repository all
  are aliased to `IntDefaultHandler`, the UART driver of the Chip library is not in it. That the
  table for the data sections ends where that for the cleared ones begins is taken from
  the linker scripts, as `startup_lpc845.cpp:317` does.
* `SystemClock`: `SystemCoreClock` beside the clock tree it stands for. Registers are
  written in any order; a selection takes effect with its update enable only, and
  there are four of them (main clock, PLL input, PLL output, FRO direct).
* `ImageMaker`: `image_maker.py` statement by statement, used again and again, and the
  device's opinion of its output.
* `AnswerLines`: for every handler that prints a number, the characters `sprintf` stores
  and the size of the array they go to.
* `Checksum`: `CalculateCheckSum` with its 32-bit wrap-around.

`MCIspCommands`, `MCRamTransfer`, `MCImageUpdate`, `MCStartup` and `MCImageMaker` hold the
constants of the small instances. `MCCalculations` puts the five parts that only
calculate into one run: a behaviour picks one of them, its topic, and the others
rest. Modules ending in `Proofs` hold theorems: one for the command loop's invariant, one for its
answers, one each for `ImageUpdate`, `RamTransfer`, `UartLine` and `Startup`, `CalculationsProofs` for the
five that calculate, and `MemoryMapProofs` for the arithmetic they share.

A definition named `Mutant_...` is a faulty form of the definition after it. It is
never used by the specification; the checker is run with it in place of the
definition to see that the property would fail.

## Runs

| run | question | result |
|---|---|---|
| `IspCommands` | all command sequences, ROM errors and power cuts | holds |
| `RamTransfer` | a host that waits for answers, slow or not, with restarts | holds |
| `AnyHost` | a host that streams, acts between answer and set-up, gives up and repeats | holds |
| `ImageUpdate` | does "done" mean the image is there, and can an update always be finished? | holds |
| `UartLine` | can a byte be lost, or a message go unanswered, while handlers mask? | holds |
| `Startup` | resets during the start-up, interrupts at every moment, the jump | holds |
| `Calculations` | predicates, clock, image maker, answer lines and checksum | holds |
| `PageRule` | are the pages of legal sectors legal? (`Bootloader.cpp:200`) | violated |
| `UnlockGate` | does U gate flash write and erase? (`shell_commands.cpp:97`) | violated |
| `SignatureAssert` | does the assertion of `Bootloader.cpp:104` hold? | violated |
| `OkOnTimeout` | is OK sent when a transfer is complete? (`shell_commands.cpp:145`) | violated |
| `MadeImage` | does the device accept what `image_maker.py` makes? (`Bootloader.cpp:100`) | violated |

The violated runs are findings; each checks what a comment, help text or
assertion of the source says, and the trace shows what the code does.

What the runs that hold show, beyond the types:

* No sequence of commands, ROM errors and power cuts changes the bootloader
  (`BootloaderIntact`), and flash changes only while interrupts are off.
* `OkMeansStored`: "OK" is sent before the store, and a host that waits and is not timed
  out can believe it all the same: its next command is looked at after the store. After a
  time-out it cannot (`OkOnTimeout`). `DataReachesReceiver`: its data is not taken for
  commands. Both are about a line slower than the loop (`LineIsOut`, under Fairness); with
  `Prompt` TRUE TLC finds them violated, since data then meets the shell before
  `SetupWriteToRam`. What holds of such a host too is `KeepsPromise` and `TransferEnds`
  (`AnyHost`). `DoneMeansWritten` shows what saves
  an update all the same: the stale sector that C then writes is caught by CV.
* `UpdateCompletes`: no torn sector, leftover preparation or open transfer ever makes
  the device refuse the next attempt.
* `NothingLost`: one holding register is enough, since every answer leaves after the
  last masked section (`KeepsLoop`), and the host waits for it.
* `ClockKnown`: `SystemCoreClock` is right after every `SystemCoreClockUpdate`, except that the
  code does not know of slow boot.

### Read off the models, without a run

* `isp` compares its own name with the unlock code (`argv[0]`, `shell_commands.cpp:359`), so it
  needs no code; the help of line 405 asks for one.
* `B` reports more than two stop bits and then answers as if nothing had happened
  (`shell_commands.cpp:122`), and accepts 0; the comment of line 114 names 1 and 2.
* `S` prints a CRC of ten digits into an array with room for nine and the terminator
  (`shell_commands.cpp:321`). `LinesFit` states that this is the only line that overruns,
  and exactly for which numbers.
* With slow boot set in the FAIM, the FRO is divided by 16 (`LPC845.h:7966`);
  `system_LPC845.c:102` halves it. `ClockKnown` is restricted accordingly.
* `image_maker.py:9` takes one byte, not a slice, of a 64 KiB dump, so that the CRC
  of line 17 fails with a TypeError. `ImageMade` is about applications accordingly.
* `image_signature` is a constant at 0x2F00 with the linker script of cmake
  (`LPC845Bootloader_GCC_ARM.ld:41`), and the last word of flash in the MCUXpresso project
  (`.cproject:331`), where the assertion of `Bootloader.cpp:104` compares a word with
  itself. The models have the first.

### Bounds and why they are enough

* `IspCommands`: four sectors of two bytes (two of the bootloader, two of the image),
  a two-byte window, bytes 0 and 255, addresses with a margin on both sides of both
  windows and 63, the largest number. Sector ranges of one and two sectors, copies
  inside one sector and across two, and torn writes occur. One ROM error code
  stands for all. The device starts erased, or with a signed and valid image.
* `RamTransfer`: three command lines (`MaxLines`), at most four bytes under way
  (`MaxQueue`), `kLoopsMax = 2`, a two-byte window with an empty, a partial, a full and
  an illegal request. Three lines are needed for one transfer to disturb the answer
  of the next but one. `AnyHost` uses two lines: there a second line overlaps the
  first in every way.
* `ImageUpdate`: the layout of `IspCommands`, so two sectors of two bytes, the last word being
  one byte. Three byte values: those of the new image, and 255, which is the erased byte and the
  old image. `MaxFaults = 4`, so that a second update, begun after one fault, can
  itself fail in the sector the first had written, and again. Release build (`Asserts`
  FALSE): in the debug build CV stops on an unsigned image, which is the finding
  `SignatureAssert`. The CRC is the set `GoodImages` of bodies it accepts. `CrcAssumption` says that of the
  bodies that lost data can put together, of sectors of the image in any order and of cleared ones,
  it accepts the image alone; without it nobody could believe CV. The last word is not under the CRC, so
  `DoneMeansWritten` speaks of the rest. The numbers a host may send are those of its commands (`MCNumbers`).
* `UartLine`: a ring of 8 for 2048 and messages of at most 7 bytes for lines and
  sectors of 1024: the longest message the assumption of the module allows, so
  a full ring occurs. `NoByteLost` proves it for every size.
* `Startup`: seven words, two sections with initial values, an empty one between them, two
  cleared ones, and a word that belongs to nobody; two interrupt sources, one with a
  handler of its own and one without, and any set of them enabled. The theorems hold for every section table.
* `Calculations`: requests are numbers below 32, with sectors of four bytes and words and pages of two:
  all pairs of start and length, so every wrap-around and every edge of both windows
  occurs (the theorems lift this to all layouts). Clock: four register writes
  (`MaxWrites`), the number of selections that can be out of step, with the smallest and largest divider,
  multiplier and oscillator. Binaries of up to seven bytes for an image of four and a dump of six. Numbers
  of four hexadecimal digits for eight, with both neighbours of the powers of ten that matter.
  Frames of up to five bytes, with sums modulo 8.

Excluded inputs: `MAINCLKPLLSEL` 2 and 3 (reserved), `SYSAHBCLKDIV` 0 (stops the core) and `FREQSEL` 0
(invalid while the oscillator runs).

### Fairness

* `IspCommands`: weak fairness of `Progress`, the steps a handler takes by itself; the
  processor runs and the ROM returns. Nothing is assumed of the host or the power.
* `RamTransfer`: weak fairness of `Device` (the main loop runs for ever) and of
  `HostReceives` (sent lines arrive at a host that waits for them). The host need never
  send a byte: transfers end by the time-out, as in the code. `HostReceives` carries
  a timing assumption, `LineIsOut`: the answer to an accepted `W` does not reach the host before
  `Run` has returned to the main loop. At 9600 baud a character takes a millisecond, the rest
  of the loop microseconds. The assumption does not extend to "OK": the host may have it, and
  have sent its next command, before the store. `Prompt` lifts it altogether, in
  `AnyHost`, where the host does not wait for answers either.
* `UartLine`: weak fairness of the two steps of the start-up, of the arrival of what was
  sent, of the receive interrupt, and of the main loop. `Finish` is among them: that
  a busy handler ends is `IspCommands!Answered`. `Send`, `GiveUp` and `PowerCycle`
  are not fair. The guard of `ByteArrives` is the timing assumption that an unmasked
  interrupt, and the rest of the start-up, come before the next character.
* `Startup`: weak fairness of `ResetISR`, because the processor executes. Resets may cut it
  short for ever; `StartUpEnds` allows for that.
* `ImageUpdate`: weak fairness of `GoesWell`, the host and the device going on. Faults are
  bounded by `MaxFaults` and not fair. A host that stays away would leave the update
  unfinished, which is not a property of the device.

`CHECK_DEADLOCK FALSE` is used in `Calculations` and `PageRule` only, where a question that has been
answered is the end of a behaviour.

## Proofs

`IspCommandsProofs` proves the inductive invariant `IInv`. `TypeOK` and the safety
properties are not inductive by themselves: the ROM is called in a later step than the one
that checked the operands. `IInv` therefore carries `CallLegal` (what was checked about the
request in progress), `TransferLegal` (what was checked about the W whose data is awaited or
about to be stored), `IdleBuffEmpty`, and that the ROM is only entered
masked. One lemma per group of actions shows that it is preserved; from it follow
`TypesHold`, `OnlyImagePrepared`, `InterruptsComeBack`, `PointerAssertNeverFires`,
`BootloaderUntouched` and `FlashOnlyMasked`. The assertions of `GetRamPtr` in C and M
(`Bootloader.cpp:112` and 238) have no halting branch in the model: their operands have
passed `RamRangeLegal`, and the lemma `PointersAreLegal` says what follows. Assumptions: `LayoutAssumption` (the image
follows at least one bootloader sector, RAM lies above flash, nothing exceeds the address
space), `RomAssumption`, `CommandAssumption`; and the behaviour of the ROM as `IapRom`
states it.

`IspAnswersProofs` builds on it. `ImplementsShellLoop` maps each action of the loop to one
of `ShellLoop` or to a stutter; the place in the loop (`PhaseOf`) is the refinement mapping.
`AnswerInv` adds what an answer is about: the bytes a read has collected so far are those of
the memory map (`TrueBytes`), an equality reported by the ROM is one (`SameBytes`), and the
code to be sent is nameable. `TrueBytes` is preserved between two bytes, with interrupts on,
because nothing but the loop itself changes flash and the window.

`ImageUpdateProofs` puts the host on top of both. `UpdateIsCommandLoop` shows that an
update, faults included, is a behaviour of `IspCommands`, so all of the above holds of it
(`UpdateSparesBootloader`). `UpdateInv` then says what each answer is worth to the host:
after E the sector is blank, after C it holds what is in `buffer_`, and `buffer_` holds a
piece of the image, which fits the sector if nothing was lost. From it follow
`NeverProgrammedTwice`, `UndisturbedUpdate` (without faults every byte is right, with no
need of a CRC), `AssertedLastWord`, and `DoneIsWritten`. Only the last uses `CrcAssumption`:
lost data that was called OK may put a wrong piece into a sector, and the CRC is what is
left to notice it.

`UpdateIsAccepted` is the safety half of `UpdateCompletes`, for every layout: begin in any
state an earlier attempt may have left behind (`Restartable`: sectors prepared, half erased,
torn, anything in `buffer_`), and as long as no further fault occurs no request is refused,
the data of each W is awaited and no assert fires. `AlwaysRestartable` shows that each state
in which the device waits for a command is one to begin in. What the layout and the image
have to be like is `Compatible`: a sector is whole words, whole pages and a byte count the
ROM copies; CV accepts the image; and in the debug build its last word is the signature. The
small instance is `Compatible` (`MCImageUpdate` assumes it, so TLC evaluates it); the layout
of the device and its release build are, and the image is when its CRC is the one
`ImageIsValid` calculates (the run `MadeImage` is about that of `image_maker.py`). The
strengthening, `SmoothInv`, says in which steps the sector is prepared.

`CalculationsProofs` is about five specifications that have nothing in common:

* The predicates are exact for every layout (`FlashRangeIsExact`, `RamRangeIsExact`,
  `WindowsAreDisjoint`). The arithmetic is in `MemoryMapProofs`: a legal range does not
  wrap, so its bytes lie between its two ends; and no page is ever legal (`NoPageIsLegal`),
  which is why `ErasePages` has no accepting branch.
* `ClockNeverZero` and `ClockIsKnown`: for every value of every field (not only the extremes
  TLC tries) and any number of register writes, what the ROM is told is a `uint32_t`, not 0,
  and the frequency of the core, slow boot apart. The bound `FastestClock` is 30 MHz times
  the largest multiplier.
* `BinaryBecomesImage`: whatever the sizes of image, word and dump, in any sequence of uses.
  The CRC is only assumed to be a word.
* `OnlyTheCrcOverruns`: for the four-byte `uint32_t` and all numbers it holds, which TLC
  cannot count to.
* `ChecksumCancels`: for frames of any length and any width of the sum. A fold over a
  sequence would need induction over data, which the provers do not do; but the program
  itself adds byte by byte, and so the induction is that of `SumInv` over its steps: partial
  sums exist for the bytes added so far, and `csum` is the last one, wrapped.

`RamTransferProofs` proves `TransferInv` and from it `TransferTypes`, `ValidatedRangeKept`
and `TransferImplementsRamWrite`. The range that is stored was checked when the command was
answered; `TransferInv` carries it through `ArgLegal` (between the answer and
`SetupWriteToRam`) and `WindowKept` (received plus missing bytes). The call of `ReadUart`
that gives a transfer up runs on to its end with the counters at zero, sends "OK" and calls
`WriteToRam` for address 0; `IdleCounters` and `ZeroIsNoStart` show that this store is
refused. `Committed` is the refinement mapping: a byte received, the shell and the host are
stuttering steps of `RamWrite`, the end of a transfer is `Store`, giving up is `Drop`.
Assumptions: `LayoutAssumption` and `TransferAssumption` (the receiver's buffer holds a
sector).

`RamTransferProofs` then relates the receiver to the host, for every layout and set of
requests. `DataReachesReceiver` and `OkMeansStored` depend on what is under way in both
directions at each stage of the exchange, so `DeliveryInv` lists the stages (`Resting`,
`Commanded`, `HalfRead`, `Refused`, `Granted`, `Armed`, `Receiving`, `Confirmed`), and each
action leads from one to itself or to the next. Beside the stage it carries what was stored for
the last "OK" (`kept`): while the store is outstanding the data is in the receiver's buffer, and
`StoreData` moves it, whatever the host has sent meanwhile. It is claimed only while the host waits,
nothing has timed out and nothing was reset (`Calm`); what happens after that is the
business of `KeepsPromise`, which needs none of it.

`UartLineProofs` proves `LineInv`: while a byte of a message is outstanding the loop is idle
and unmasked (`Quiet`), so that the interrupt comes in time, and the ring holds no more than
what the host has sent. Assumption: the ring is larger than the longest message. 2048 is,
for sectors of 1024 and the lines of the shell.

`StartupProofs` proves two invariants. `LoopInv` says how far the copy and clear loops have
come: the sections before `entry`, and `loop` words of that one, have their values; sections
do not overlap, so later words do not disturb earlier ones. `CoreInv` ties PRIMASK, VTOR,
MSP and the running program together along the jump. `LoopsStayInTables` shows that neither
loop leaves its table or a section, empty ones included. Assumption: the section tables lie
in RAM and do not overlap.

Every safety property of the runs that hold is stated by one of these theorems. Only
model-checked is all liveness, which is out of the prover's reach because it needs ENABLED:
`Answered` (a command is answered), `TransferEnds`, `AnswerArrives`, `HostServed`,
`StartUpEnds` and `UpdateCompletes`. What `UpdateCompletes` says beyond `UpdateIsAccepted`
is that the host and the device go on. The five findings are counterexamples, and stay with
TLC.

## Not modelled

* The ISP mode of the boot ROM: entering it is a final state of the model (until the
  power is cycled). What that loader does to flash is not this program.
* The shell library (line editing, echo, `help`), the driver of the UART and its ring: not in
  the repository; the latter two are modelled from their use. Transmission is not modelled: answers always leave.
* `main` and the decision to boot: generated, not in the repository. `Startup` lets `main`
  jump whenever it likes; CV shows what `ImageIsValid` tells it. That a bad image is not
  started is therefore not checked.
* The order of the vector table: a constant, and what serves its entries is the driver of the Chip library.
* A host that streams more than the receive ring holds: `UartLine` has a half-duplex one. And what
  the bytes of a transfer are: a command line swallowed by an open transfer is data to the
  receiver, and to `RamWrite`.
* Board, pins and constants (`Board.h`, `SystemConstants.h`): calls into the Chip library without state.
* The C++ run-time hooks: one-line wrappers, and the program allocates nothing.
* Build and code generation scripts: they render templates that are not in the repository.
* The register headers: of the 12,640 lines counted as implementation, 10,534 are `LPC845.h` and
  `LPC845_features.h`, constants and types without behaviour. The models translate
  the clock registers, which `SystemCoreClockUpdate` uses. The share of lines the models
  stand for is therefore small, although every handler, loop and predicate of the program
  itself is there.
