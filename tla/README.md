# A TLA+ model of nanoaltair8800

nanoaltair8800 is an emulator of the Altair 8800 with an 88-2SIO serial board,
an 88-DCDD floppy controller and an 88-VI/RTC interrupt board. It runs on one
STM32L4 core without an operating system: a main loop executes 8080
instructions, and interrupt handlers (millisecond tick, TIM1, USB, switch
edges, DMA) set state that the main loop reads, without locks. This directory
models that state machine in TLA+, model-checks it with TLC and proves with
TLAPS every invariant and action property that the runs check.

Paths below are relative to the repository; `intel8080.c`, `memory.h`,
`88dcdd.c`, `serial.c` and `irq_controller.h` are in `libs/altair8800`,
`switches.c`, `buffer.c`, `usb.c`, `spi.c`, `timer.h` and `profiler.c` in
`libs/common/sys`, `config.c` in `libs/common/config`, `altair_main.c` and
`callbacks.c` in `firmware`, `ff.c` (FatFs) and `sd_diskio.c` under
`libs/stm32cube`.

## 1. The system

### Who runs when

All peripheral interrupts have priority 0 (`stm32l4xx_hal_msp.c`, `main.c`), so
handlers never interrupt each other: a handler runs to its end between two
machine instructions of the main loop. Every concurrent model here has this
shape: a handler is one action, the main loop is cut at each access to a
variable that a handler also uses.

| component | state | operations | shared with |
|---|---|---|---|
| CPU interrupt path (`intel8080.c`) | `interrupt_request`, `interrupt_instruction`, `status.interrupt`, pc, stack | `i8080_cycle`, EI, DI, HLT, RST, ... `i8080_interrupt` | TIM1 and USB handlers |
| interrupt controller, RTC (`irq_controller.h/.c`) | control byte, line numbers | `irq_controller_out`, `irq_controller_irq`, `irq_rtc_fire` | handlers, configuration |
| receive buffer (`buffer.c`) | head, tail, data | push (USB handler), pop (IN instruction) | handler and main loop |
| serial ports (`serial.c`) | control register, tape file | status, control, in, out, `serial1_add_data` | receive buffer, interrupt path, USB, files |
| floppy controller (`88dcdd.c`) | selected drive, head, flip-flop; track, sector, write counter, status per drive | select, status, function, sector, read, write | files, configuration |
| memory (`memory.c/.h`) | 64K, write protection by page | `read8/16`, `write8/16`, `memory_load_rom`, `memory_disable_rom` | CPU, front panel, configuration |
| arithmetic and logic (`intel8080.c`) | A and the flags | all arithmetic, logic, rotate and decimal instructions | CPU |
| front panel switches (`switches.c`) | state, timestamp and flag per switch | EXTI handler, `switch_was_pressed`, `switch_clear_all` | handler and main loop |
| run and stop modes (`altair_main.c`) | `run_state`, TIM1 on or off, the LED timer | `run_sim`, `handle_stopped`, RESET | switches, tick, CPU, LEDs |
| LEDs (`callbacks.c`, `spi.c`) | three accumulators, DMA buffer, latch | SysTick, `SPI_write_leds`, DMA complete and error | handler, main loop, DMA |
| configuration (`config.c`) | scratch file, default path | `config_read`, from power-on and RESET | everything |
| files (`filesystem.c`, `ff.c`) | volume and its id; of a file: mount, position, sector buffer, dirty flag, error | mount, open, close, read, write, seek, eof | floppy, tape, configuration, the card |
| USB transmission (`usb.c`, `syscalls.c`) | transmit buffer, driver state | `printf`, `serial1_out` | USB handler |
| profiler (`profiler.c`) | call tree, lock | enter, exit, print, reset | every function, handlers |

### What is hard, and what makes each part correct

* **Interrupt latch.** `i8080_cycle` tests, clears, reads and masks in separate
  statements, and zeroes and restores the byte that holds the interrupt flag; one
  latch serves all lines. Correct means: a critical section between DI and EI is
  (nearly) respected, the latest request is injected, and once, none survives a RESET
  or the disabling of the controller for long, a latched request is eventually
  served.
* **Receive ring.** Unlocked single producer and consumer; `data[tail++]`
  stores an index outside the ring before it is reduced. Correct means: a
  bounded queue.
* **Floppy.** One flip-flop and one head flag for four drives, a sector counter
  that wraps late, seeks whose result is ignored, failing transfers, images reopened
  by RESET, a selection that is null at first. Correct means: the sector that is
  announced is where the file is positioned if the file took the seek, a write
  stays in its sector until ENWD goes off.
* **Arithmetic.** Carries through masks and one-bit fields. Correct means:
  the loops a guest builds from the instructions compute the right numbers.
* **Memory.** Word accesses across a page boundary and at the end of memory.
  Correct means: a ROM cannot be changed, a stack is a stack.
* **Switches and modes.** Bouncing contacts, a wrapping tick, flags read and
  cleared in steps, a timer that compares absolute ticks. Correct means: a stroke
  acts once, in the mode it was made in, and STOP stops.
* **Serial port 1.** One interrupt for each packet, raised before its bytes are
  queued and kept in a latch that the clock overwrites; a transmit buffer that is filled before the driver is asked whether it is
  busy. Correct means: the status tells the truth, no byte waits unnoticed, the
  terminal gets the echo in order.
* **LEDs.** Accumulators filled by SysTick while they are sent and cleared, a
  buffer rewritten while the DMA reads it, a driver that may refuse. Correct
  means: a sample is shown once, a call that meets no other is shown whole, the
  latch comes back.
* **Files.** One dirty sector in a buffer, a card that is pulled or exchanged,
  transfers that fail halfway, a card mounted again under open files. Correct
  means: an image is an array of bytes of which one sector at most is at risk; a
  guest that polls comes to the end of its tape.

`PROJECT.json` lists the hazards at their lines with the properties that watch
over them.

## 2. Modules

The order is that of importance: what the handlers can break first, then the
devices, then the pure computation.

| module | models | proofs |
|---|---|---|
| `Interrupts` (`MCInterrupts`) | CPU interrupt path, controller, RESET | `InterruptsProofs` |
| `RxBuffer`, `ByteFifo` | receive ring, and the queue it implements | `SerialPortProofs` |
| `SerialPort` (`MCSerialPort`), extends `RxBuffer` | serial port 1: handler, guest, echo | `SerialPortProofs` |
| `Floppy` (`MCFloppy`) | 88-DCDD | `FloppyProofs` |
| `Files` (`MCFiles`), `ImageFile` | image and tape on the SD card, serial port 2; the array of bytes an image implements | `FilesProofs` |
| `Memory` (`MCMemory`) | memory, ROMs, word accesses, stack | `MemoryProofs` |
| `FrontPanel` (`MCFrontPanel`) | the two main loops, the switch flags, the LED timer | `FrontPanelProofs` |
| `Switches` (`MCSwitches`) | one switch: contact, debounce, test | `PanelProofs` |
| `Leds` (`MCLeds`) | LED accumulators, SPI, DMA, latch | `PanelProofs` |
| `Alu`, `MultiByte` (`MCMultiByte`) | arithmetic and logic, and loops over bytes | `MultiByteProofs` |

The modules meet at narrow interfaces. `SerialPort` extends `RxBuffer`: its
handler and its guest push and pop the ring, and every behaviour of the port is
one of the ring. Of `Interrupts` it repeats, for the two sources that share the
latch, the steps of an acceptance; a request raised with interrupts on is latched or,
in the window of `interrupts_lost`, dropped. `Switches` shows
that the handler makes one press of each stroke; `FrontPanel!Press` is that press.
`Floppy` has the position of a drive's file as its own arithmetic makes it, and
lets the file refuse any seek or transfer as `Files!Refuse` may; `Files` has what
the file does with positions. RESET (`config_read`)
has its part in `Interrupts` (controller, CPU), `Floppy` (drives), `Memory`
(memory and ROMs), `FrontPanel` (`run_state`), `Leds` (patterns) and `Files`
(mounting the card and opening files). Where one module needs no more of another than
a set of possible values, it takes these as an input. Definitions marked as
mutants are not used by any module: each is what a plausible slip would have
made of the definition after it, and shows that a property can fail.

### Interrupts

`at` names the next access of `i8080_cycle` to shared state: `test` the
request, `clear` it, `take` the instruction, `mask` interrupts, `execute`,
`zero` the status byte, `restore` its interrupt bit. The guest is a memory image;
only instructions that matter to interrupts and flow of control are kept
apart. The stack is a sequence of return addresses above one word
(`StackBottom`). `Raise(line)` is `irq_controller_irq` with `i8080_interrupt`.
`ResetController` and `ResetCpu` are separate since handlers run between them.
`served` counts how often the RST of the latest request was injected; `windowed`
says that this request came between `ClearRequest` and `TakeInstruction`.
Breakpoints and traces are compiled out of the firmware and left out. The model
lets the real time clock tick also while the machine is stopped, which the
firmware does not.

### RxBuffer, ByteFifo and SerialPort

`buffer_pop` is cut at its accesses, and both orders that C allows for
`data[tail++]` are modelled. A byte is its number in the order of arrival.
`serial1_clear_buffer` has no caller in the firmware. `ByteFifo` is the
promise: `Put`, `Get` and, as the one deviation, `Lap`: a push between the two
stores of `tail` when the ring is full empties the queue.

In `SerialPort` the handler (`Receive`, then `PushByte` or `PushFails` for each
byte of the packet) runs to its end before the guest goes on (`At`). The guest is
one of two programs: one polls the status, one is interrupted and reads until
nothing is left. The tick of the RTC (`RtcFire`) writes the same latch
(`intel8080.c:887-888`): whichever of the two handlers came last before `Take`
decides which routine is called, and a request that comes between `Clear` and
`Mask` calls another one inside it (`routine`, `outer`). The clock's routine does
nothing here. `missed` says that the request for the latest packet was not
latched, or that the clock's has replaced it before the CPU took it; then its
bytes wait for the next packet. The guest's convention is that a routine called inside
another returns with interrupts off and the outer one executes EI at its end; deeper
nesting, by routines that execute EI before that, is in `Interrupts`. Both echo: `CopyByte` fills the transmit
buffer, `Send` hands it to the driver if it is ready, `GiveUp` is the 20 ms of
`usb_transmit`, after which the byte is gone and nobody is told (`lost`).

### Floppy

One action for each port handler; any order of calls. The status byte is
the set of its active bits. `pos` is the position of each drive's file, the
product of the module's arithmetic; the bytes are left out. The file may refuse a
transfer or a seek, by a step or by a poll, and then stays where it is; the code
ignores the result of both seeks (`88dcdd.c:87`, 96, 161) and announces the sector
all the same. A seek that breaks off half-way leaves the file elsewhere, but
refusing everything until it is opened anew.

`answer` is what the last poll said. `mark` says whether the file took the seek of
the last first half of a poll (`sought`, `refused`), or that something has happened
since (`disturbed`). `burst` counts the bytes sent to a drive since a write was
enabled at the place a poll announced, up to the second byte too many: the byte after the
last of the sector is dropped and turns ENWD off, the next one is written into the
following sector, since `88dcdd.c:186` does not look at ENWD. That it may do so is the
code's behaviour and the guest's responsibility; the property says that ENWD is off
by then, and that no byte leaves the sector earlier.

Before the first select the selection is the null pointer, which passes for a valid
drive (`floppy_valid`): `file_is_valid` reads the word at address 0, on the
target the initial stack pointer. Handlers run through it: the head can be loaded
and a poll answers anything (`Garbage`). What they store at small addresses is
flash and does not change; file operations through it are refused.

### Alu and MultiByte

`Alu` has an operator for each instruction on A and the flags, with the masks
and bit fields of the code. `MultiByte` runs the loops a guest writes with
them: ADC, SBB, RAL, ADC with DAA from the low byte up, RAR from the high
byte down. `X` and `Y` are the numbers the operands make, `stored` the number
the results make, `scale` the weight of the next byte.

### Memory

Bytes are model values. `write16` tests the protection of the page of its first
byte and writes the second to the next array element. At the last address
that is outside the array: depending on the linker it changes the
protection of page 0 (`PastTheEnd`) or something not modelled. `image` remembers
what ROMs were loaded where, `whole` whether all began and ended with a page.
`RomIntact` speaks of `Guarded` bytes: the first byte of a protected page
is not guarded when the page before is open, since a word stored at the last
byte of that page changes it (`memory.h:41`).

### Files and ImageFile

A file object is the state of FatFs's FIL that decides what happens: the mount
it belongs to, position, sector in the buffer, the buffer, dirty flag and error.
`Seek`, `Read` and `Write` are `file_seek`, `file_read` and `file_write` with the
f_ functions below them, for one drive's image; `TapeStatus` and `TapeIn` are
the port handlers of serial port 2 with the tape's file. Every transfer may fail:
`Breaks` lists what is left behind, from the buffer not written to the buffer half
filled. `Reset` is the mount and altair.cfg up to the first file name,
`OpenDrive` and `OpenTape` the closing and opening that each name causes. `Pull`
and `Insert` are the hand of the user and come at any time; what they make of
bytes not yet saved is that they are lost, which `wrote` records. Floppy
images have their full size, so positions stay inside the file. A card that has
just been put in is not in its transfer state until a mount initialises it
(`sd_diskio.c:88`), so every operation is refused until then.

`ImageFile` is the promise: an array of bytes with a position, of which what
was written since the last save lies in one sector; it stops being usable when a
transfer fails or the card goes, and only then may anything be forgotten.

### FrontPanel and Switches

`FrontPanel` cuts the loops at each access to a flag: `read`, `clear`, `act`,
and `clear_all` one switch at a time. `old` holds the flags that stood when
a loop was left. `run_sim` looks at STOP only when its LED timer fires, which
compares absolute 32-bit ticks: `tick` wraps at `TickValues`, 1000
instructions last up to `LoopTicks`, and `NearWrap` names the deadlines that may
be missed for good. `Switches` adds the physics: after the finger has moved the
contact bounces for at most `Bounce` ms, the handler comes at most a tick late,
and the tick wraps. These three are assumptions about the hardware and the
operator, not facts about the code. The switches do not influence each other,
so one is enough. A switch held at power on makes its press when it is
let go; the code knows no better and the model shows it.

### Leds

An accumulator is the set of samples that have bits in it: one sample whose way
is followed and `other` for any number of others. The main loop is cut at each
access to the accumulators, the buffer, the latch and the driver; C leaves the order
open in which the three arguments are read. The bytes of a call are named by their
field, those of any earlier call are `old`. The DMA fetches byte by byte; its
end raises the latch, and a failing transfer calls the error callback, which
does the same. `read_cfg` and RESET send their patterns in a script; the pattern
that flashes is followed by a delay of 100 ms, which outlasts a transfer. `window`
holds the samples that fall between the first test and the last clearing,
which may be shown in part or not at all, or that RESET throws away.

## 3. Runs

| run | what it shows |
|---|---|
| `interrupts` | two guest programs, up to four handler activations at any step, resets: at most one interrupt after DI (`AtMostOneStray`), one per EI beside it (`OneAcceptancePerEi`), one after the controller goes off (`AtMostOneLate`), the latest request is injected, once, or twice if it came in the window of an acceptance (`RequestServedOnce`), none between RESET and EI (`QuietUntilEi`), a latched one is taken (`RequestIsTaken`) |
| `serial` | a terminal and both guests over the ring: the status tells the truth (`RdrfMeansByte`), no byte waits unless the packet's request was dropped or replaced by the clock's (`NoByteWaitsUnsignalled`), order (`DeliveredInOrder`), delivery (`Served`), the window in which the ring is lapped (`LapsOnlyInWindow`), `ImplementsFifo`, and the echo, in order and once (`EchoInOrder`) and arriving unless given up (`Echoed`) |
| `floppy` | an announced sector is where the image is unless that poll's seek was refused (`TrueSectorAtPosition`); a write stays in its sector up to the byte that turns ENWD off, and ENWD is off for the next (`EnabledWriteStaysInSector`); from the first select on the head is on a drive (`HeadOnDrive`); a polling guest sees every sector (`EverySectorComesRound`) |
| `files` | at most the sector in the buffer is at risk (`OneSectorAtRisk`), the drive's file is the array of bytes of `ImageFile` (`ImplementsImage`), a polling guest reaches the end of the tape (`TapeLoads`) |
| `memory` | `RomIntact`, `ProtectionIsRoms`, `StackIsLifo` |
| `front_panel` | nothing pressed in one mode acts in the other (`FreshStart`), STOP stops unless the deadline is near the wrap (`StopStops`), a press acts (`PressActs`) |
| `switches` | `OncePerStroke`, `EveryStrokeCounts`, `NoReportTwice` |
| `leds` | a sample is shown once (`SamplesOnce`), a call that begins in peace is shown whole (`CalmCallShows`), the latch comes back (`LatchComesBack`) |
| `multi_byte` | the loops are exact; DAD, INR, DCR, the logic, the conditions and the rotates agree with the arithmetic |

Three runs show where the program is not what a comment says. Each checks
one property and ends with a counterexample:

| run | the code | the text |
|---|---|---|
| `interrupts_lost` | drops a request that arrives between `intel8080.c:1343` and 1344 although interrupts are on | `intel8080.h:138`, "Safe to call from interrupts" |
| `interrupts_skip` | pushes pc + 1 when the byte under sp is 76H, as with a return address that ends in 76H | `intel8080.c:1300-1302` |
| `front_panel_timer` | a LED timer whose deadline is the last tick before the wrap (fired at tick 2^32 - 11) never fires again: STOP and the LEDs are dead until a power cycle, after 49.7 days of uptime | `altair_main.c:57-58` |

Three more oddities are modelled and bounded by properties of the passing
runs. A request that arrives while DI executes is accepted with interrupts
off: `AtMostOneStray` says once at most. `switch_was_pressed` drops a press
between its two statements (`switches.c:94`): `StopStops` and `PressActs` speak of
presses that are there before it begins. A RESET with run_state set leaves the
stopped loop stopped until RUN, where `README.md:117` can be read otherwise.

### Bounds

* `interrupts`: images of 128 bytes (handlers at 30H and 38H, a return address
  that ends in 76H), four activations (`MaxRaises`). A stray needs two, a second
  acceptance in the window of the first needs three; the fourth falls anywhere
  after them. `AddressSpace` is a constant, so pc wraps at 128 in place of 65536.
* `serial`: three slots and eight bytes in packets of up to three: every pair
  of head and tail occurs, full and empty, a packet that fits, one that
  does not and one that laps the ring, and the ring goes round more than twice. The
  clock may tick at any step, any number of times.
* `floppy`: two drives suffice to interleave; two tracks and two sectors for both ends of
  both counters; two bytes for the first, last and the two too many. `MaxMoves`
  (5) bounds selects, functions and resets: as many as enabled writes on both drives
  take. `MaxPosition` (3) bounds transfers, not seeks: on track 0 they come one byte
  into the sector after the first. The function bytes are the single bits and the
  byte of all of them, for the order of the tests.
* `multi_byte`: ten bytes at the boundaries of nibbles, digits and
  signs, numbers of two bytes (`MaxScale`): every carry in and out in both
  positions. The theorems remove both bounds.
* `memory`: pages of two bytes are enough for a word inside a page and one across a
  boundary; three pages for a ROM with RAM on both sides; stack depth three.
* `front_panel`: the four switches with a meaning and one more, four presses,
  as many as are needed to change mode twice with another press in each; a tick
  of 8 values with a period of 3 and loops of up to 2 ticks, so that the period
  fits, spans the wrap, and has its deadline at each of the last ticks before it.
  `front_panel_timer` needs less.
* `switches`: debounce 3, bounce 2, which with the late handler is the least
  debounce that can work; a tick of 16 values comes round between strokes,
  and does not in others; three strokes.
* `leds`: one sample suffices, since nothing compares samples and the others are
  in `other`; it has bits in one, two or three accumulators (`Marks`), which
  includes the bytes first and last tested and cleared. One flash in place of five.
* `files`: two sectors of two bytes: first and last byte of a sector, another
  sector and the end of the file; a tape of two bytes: a byte that is not
  the last and one that is. Two mounts (`MaxMounts`) give every object a mount
  of before, and the card may be pulled and put in any number of times. The
  theorems remove these bounds.

### Fairness

The processor always goes on executing the main loop, handlers end, the tick
ticks and the DMA moves: `WF(Cycle \/ ResetCpu)`, `WF(Main)`, `WF(Tick)`, `WF(Dma)`,
`WF(PushByte \/ PushFails)`. `EverySectorComesRound` assumes a guest that goes
on polling, as CP/M's disk driver does. Nothing obliges a handler to be called or
an operator to act.

Strong fairness is used where something is interrupted again and again but not
for ever. In `SerialPort` packets leave time between them, so each step of the
guest's routines, of an acceptance and of the terminal is taken some time (`Serve`,
`HostTakes`), with clock ticks in between; the guest need not look at the port from its main program
otherwise. In `Files` altair.cfg has an end, and a guest that loads a tape
polls and reads it, may be stopped for RESETs and may be refused now and then.
`Files` also takes every transfer to end, in success or failure: the
loops in `sd_diskio.c` (157, 188) wait without a timeout.

### Where the system may stop

`CHECK_DEADLOCK FALSE` is set for `floppy` (the guest may use the head-less drive
only, its bounded moves spent), `multi_byte` (a loop ends) and the two
`front_panel` runs (the boot loader does not return). No other run stops.

## 4. Proofs

All theorems hold for every value of the constants allowed by the module's
named assumption. The argument is always an inductive invariant (`IInv`,
`SwitchInv`, `AccInv`, ...) that the initial states satisfy and every step keeps,
shown with one lemma or case per action.

* **Interrupts.** Types; `StrayBound`, `EiBound`, `LateBound`,
  `ServedOnce`, `ResetIsQuiet`. The bounds count events over time and
  are not inductive; the invariant ties each counter to the place in the cycle and
  to whether a request stands: for instance, a stray beyond the first would need a
  latch made with interrupts off. Assumed: more than 64 bytes of memory, so
  that the RST vectors exist.
* **RxBuffer.** Types (no index leaves the array, not even while tail is
  BUFFER_SIZE), `RingContents` (`RingInOrder` and `NothingLostBeforeLap`),
  `LapWindow`, `InOrder`. The invariant says what the slots from tail to head
  hold at every step of pop. With it `RingIsFifo` shows that the ring implements
  `ByteFifo`: a push is a `Put` or a `Lap`, the store of `tail + 1` is a
  `Get`, every other step of pop a stutter; the queue of the refinement mapping
  is the run of bytes that the invariant describes (`QueueIsRun`). Assumed: more
  than one slot.
* **SerialPort.** Types; `UsesRing`: each step of the port is a step of the ring or
  leaves it alone, so that `SerialLapWindow`, `SerialInOrder` and `SerialIsFifo`
  follow from the ring's theorems. `StatusIsTrue` rests on `~IsEmpty` being stable
  under pushes, lapped or not, once the guest is about to read;
  `NothingUnsignalled` on `Signalled`, which also speaks of the middle of a packet,
  and on `Nesting`: no routine is called with one already interrupted, so that `Take`
  never forgets a serial routine that has still to look;
  `EchoOrdered` on `EchoInv`: what the driver has is newer than what the terminal
  has, and what the guest is about to send newer than either.
* **Files.** Types, `AtRisk` (`OneSectorAtRisk`) and `FileIsImage`: the
  initial states map to those of `ImageFile` and every step to one of its actions
  or a stutter. `Held` says what the buffer of a usable drive holds, `Ids`
  that no object is of a mount to come, and `Fresh` that the drive
  `config_read` has just opened has nothing to save, so that opening it twice
  writes nothing. Assumed: sectors and files are not empty.
* **Floppy.** Types, `PollOnDrive`, `AnnouncedIsPositioned`,
  `WriteStaysInSector`. `Aligned` links the sector counter to the file's position
  while nothing disturbs the drive and its seek was taken; `Written` says that in an
  enabled write the file is no further than the bytes sent and that `write_status` has
  counted the same bytes, which is why ENWD goes off in time, on each drive, whatever
  is refused. `Untouched` carries it over steps on the other drive.
* **MultiByte.** Types, `BinaryExact` (the four binary loops), `DecimalChainExact`,
  `DadAgrees`, for numbers of any length. Each instruction is first proved exact for
  one byte; the invariant moves the carry from weight to weight.
  `CountingKeeps`, `LogicIsArithmetic`, `RotatesReturn` hold in every state of the
  right type: a byte is taken apart into its bits (`OctetOf`, `EightExist`), AND, OR,
  XOR and complement are shown to act on each (`LogicOnBits`), and a rotate to
  move them round (`RalTurns` and its like). `FlagsTell` adds `FlagInv`, that the
  flags describe the accumulator, and `ParityIs`: folding a byte and looking the
  nibble up in 0x6996 counts its ones for every byte.
* **Memory.** Types, `GuardedRomIntact`. `RomIntact` alone is not inductive:
  while the configuration is read, a page may become guarded only
  later, so until the guest starts every ROM byte must be as loaded.
  `ProtectionExact` needs that an image begins and ends with a page
  (`WholePagesProtected`); `LastInFirstOut` is an action property, shown step by
  step: a store below the pointer touches no word of the stack (`PushedDown`). Assumed:
  pages of two bytes or more and ROMs that fit.
* **Switches** (in `PanelProofs`). Types, `OneAtMost`, `OneAtLeast`, `NoneTwice`.
  The properties speak of counters only; the invariant adds where the contact may be
  after the finger has moved (`ContactInv`), what the wrapped timestamp means
  (`ClockInv`), and why the debounce rejects the bounces of one stroke
  (`StrokeInv`) and lets the next through (`TimedInv`). Assumed: the debounce
  outlasts the bounce by the tick a handler may be late, and the tick wraps later
  than the debounce.
* **Leds** (in `PanelProofs`). Types, `CalmCallIsShown`, `ShownOnce`. `CalmInv` says
  that a call that began in peace owns the driver until its transfer starts, and what the
  registers hold in the middle of it; `SampleInv` and `WholeInv` where the bits of a
  sample are at each step of the tests, reads and clearings. Assumed: a sample has bits in
  at least one accumulator.
* **FrontPanel.** Types, `NothingActsLate` (`FreshStart`). `ClearedUpTo` says
  that the walk of `switch_clear_all` leaves no old flag behind it, `Loops` that
  the switch being asked for tells which loop asks.

The type invariants are proved, which covers all instances, and are therefore in
no run. Every invariant and action property of the runs is proved as well, and
so are both refinements.

Left to TLC: liveness under fairness (`RequestIsTaken`, `Served`, `Echoed`,
`EverySectorComesRound`, `StopStops`, `PressActs`, `LatchComesBack`,
`TapeLoads`), about which the prover does not reason. No module uses RECURSIVE
operators.

## 5. What is not modelled, and the plan

* **CPU instruction decoding**: conditional jumps, calls and returns, register
  moves and the table of handlers. What an instruction does to flags, memory,
  stack and interrupts is in the module of that concern.
* **Configuration**: how a line is split, order and duplicates of settings, an
  unknown port name whose structure is never initialised (`config.c:301-306`),
  numbers parsed with `atoi`. `rtc_divider` is stored and never used.
* **Files**: FatFs's allocation table (images and tapes are not extended), its
  lock table, the files of several drives at once (each has an object of its own;
  they share the volume), the buffer-wise reads that load ROMs, and the file layer
  of the PC build.
* **Floppy**: where the bytes go that are sent after ENWD has gone off, beyond the
  two that are counted; what polls answer before the first select, other than that it
  is unspecified.
* **Interrupts**: that the device of a replaced request is served in the end. It is
  not, as in `SerialPort`; a guest has to ask all devices, or wait for the next.
* **USB**: `printf` sends texts longer than a byte through the same buffer,
  `usb_transmit` before the device is enumerated.
* **Profiler**: compiled out by default; it changes no state that another part
  reads.
* **Proofs** (next): for the liveness properties the part that is safety, that
  the step each one waits for is possible or that another must come first, and that
  every step brings it no further away; that `FrontPanel!Press` is what `Switches`
  makes of a stroke.

Not planned: the HAL, the USB device library, the rest of FatFs and what
STM32CubeMX generates around them, which make up most of the lines of the
repository; ROM images, logging and the hardware files. They are external
to the program's logic; where the models need them (interrupt
priorities, a transfer that fails, an edge that pends an interrupt) the module
says what it assumes. `tests/` was read as documentation.
