# A specification of the rpi3B drivers

The repository is a small C++ driver library for the BCM2837 (Raspberry Pi 3B):
GPIO, clock manager, interrupt controller, I2C and SPI register drivers, two I2C
transports built on the register driver, a third one on Linux `i2c-dev`, and a
freestanding AArch64 image that boots four cores. This directory holds TLA+
modules for the parts whose behaviour depends on an order of events, the TLC
configurations that check them, and TLAPS proofs about them.

Paths are relative to the repository (`src/i2c/i2c_irq.cpp` and so on).

## 1. The system

| Part | State | Operations | Works with | What is hard | What makes it correct |
| --- | --- | --- | --- | --- | --- |
| I2C register driver `inc/i2c.hpp`, `src/i2c/i2c.cpp` | the BSC1 registers | `set_control` (two read-modify-writes), `clr_status`, `data_length`, FIFO access | both BCM2837 transports | the controller moves between two accesses; C is written by the thread and by the handler | a store keeps the fields it does not name |
| Interrupt-driven transport `inc/i2c_irq.hpp`, `src/i2c/i2c_irq.cpp` | one transfer record `m_xfer` | `write`, `read`, `write_read`, `write_async`, `read_async`, `handle_irq` | the driver, the IRQ vector, caller callbacks | thread against handler, watchdog against completion, callbacks that start the next transfer, a shared line | each caller is told its own result, once; `Ok` means moved; blocking calls return |
| Polling transport `inc/i2c_bus.hpp`, `src/i2c/i2c_bus.cpp` | only locals | `write`, `read`, `write_read` | the driver | a status word that is stale when it is acted on, a budget that also pays for bytes | the same, within the budget |
| Transport seam `inc/i2c_bus.hpp` (`I2cTransport`) | none | `write`, `read`, `write_read` and the results | the sensor drivers above | all transports must mean the same by a result | open, move, finish; `Ok` only when all moved |
| Interrupt controller `inc/interrupt.hpp`, `src/interrupt/interrupt.cpp` | dispatch table, enable registers | `enable`, `disable`, `isEnabled`, `register_handler`, `install_IRQHandler`, `dispatch` | the vector of every core, the transport | read-modify-writes of registers that other cores and handlers use; level-triggered lines | what runs is pending and has a handler; no update lost; no line starves for ever |
| Boot, SMP and console `freestanding/` | spin table, page tables, timers, `g_lock` | `kmain`, `ksecondary`, `timer_isr`, `uart_lock`, `uart_unlock` | all cores | order of boot steps between cores, WFE and SEV, a handler that takes the lock of its thread | whole lines, nothing used before it is set up, nobody sleeps for ever |
| GPIO `inc/gpio.hpp`, `src/gpio/gpio.cpp` | GPFSEL, event detect, pull control and clock registers | `write`, `write32`, `output`, `input`, `GPxxENn`, `GPEDSn`, `GPSETn`, `GPCLRn`, `GPPUD`, `GPPUDCLKn` | pins that change at any time | ten pins in one word; write-1-to-clear bits; a pull sequence over several calls | a call for a pin concerns that pin |
| Clock manager `inc/clock.hpp`, `src/clock/clock.cpp` | control and divisor registers | two interfaces to the same fields | nothing else | two layouts, `\|=` without a clear | a field reads as it was written |
| SPI `inc/spi.hpp`, `src/spi/spi.cpp` | the CS, CLK and FIFO registers | `mode`, `chip_select`, `clock_divider`, `clear_fifo`, `begin_transfer`, `end_transfer`, `write_byte`, `read_byte` | nothing else | two updates of CS per field while the controller shifts; bytes left by a transfer that was cut off | a reply belongs to the byte it answers, and was shifted as asked |
| `i2c-dev` transport `inc/i2c_dev.hpp` | a file descriptor | `open`, `close`, one `ioctl` per call | Linux, whoever else opens files | a failed re-open; a descriptor that means another file by now; 16-bit lengths | a call reaches the device asked for, or none |
| MMIO mapping `inc/mmio.hpp`, `src/main.cpp` | descriptor and mapping; the cached base | `periph_base`, `MMIO`, its moves and destructor, `map_...` | Linux | a constructor that fails half way; moves by swap; blocks across a page; a base found once | every descriptor and mapping is given back once; a block is where the board has it |
| C runtime, build, tests | none | | | | |

## 2. Modules

| Module | Models | State and actions against the code |
| --- | --- | --- |
| `Bsc` | the registers and the BSC1 controller | `StoreC`, `ClrStatus`, `DataLength`, `WriteByte`, `ReadByte` are the driver's stores; `WireByte`, `WireEnd`, `WireWedge` are the controller and the slave, which are external and modelled from the bit descriptions in `inc/memory_map.hpp` and from what the transports rely on |
| `I2cTransport` | what the seam promises | abstract specification: `Begin`, `Move`, `Finish` |
| `I2cIrq` | the interrupt-driven transport | `xfer` is `m_xfer`. `StartProg`, `FinalizeProg`, `AbortProg` are the register accesses of `start`, `finalize` and `abort_transfer`, which `Access` executes one at a time, the read and the write of a read-modify-write apart. The thread's actions are those of `wait_complete` and the public calls, the handler's (`Isr...`) those of `handle_irq` and `finalize` |
| `I2cPoll` | the polling transport | `Prime` is `prime` and `start_write`/`start_read`; `PollStatus` takes a snapshot of S, and `Feed`, `Drain`, `Done`, `Fail`, `Nothing` act on it |
| `SmpConsole` | boot of all cores, console lock, timer interrupts | `Kmain`, `Ksecondary`, `TimerIsr` are the three programs, an action per kind of step |
| `IrqDispatch` | the interrupt controller driver | `EnableRead`/`EnableWrite`, `DisableRead`/`DisableWrite` per core; `ReadSource`, `ReadPending1`, `ReadPending2`, `CallHandler` are `dispatch(core)`; devices raise their lines at any time, and the thread of a line's own core takes it back whenever that core is in no handler |
| `I2cBoard` | the transport under the dispatcher | `I2cIrq` extended by the dispatcher's state; `InitBus` is `bus_init` with `install_IRQHandler` and `enable`, `Dispatch`, `TimerIsr`, `HandleIrq`, `Handler` are the vector, the timer's handler and `handle_irq` under `dispatch` |
| `Process` | the descriptors of a Linux process | external: `open` takes the lowest free one; the rest of the process opens and closes, too |
| `Mmio` | `mmio.hpp` | `DetectBase`, `ForceBase` are `periph_base`; `MapBlock`, `map_gpiomem`, `Map`, `MapFails` the factories and the constructor; `Move` the moves; `Unmap`, `CloseDevice` the destructor |
| `I2cDev` | the `i2c-dev` transport | `open`, `Opened`, `close`; `Ioctl`, `Transfer`, `Return` are one call |
| `Linux` | both in one process | properties of descriptors and mappings |
| `Gpio` | function select and event detection | `Select`/`Selected` are the two updates of `write` and `output`, `AckRead`/`AckWrite` the two accesses of `GPEDSn`; `Edge` and `LevelEvent` are the pins |
| `GpioPads` | outputs and pulls | `GPSETn`, `GPCLRn`, each a `\|=`; `Pull` is the sequence that `inc/gpio.hpp` asks of callers, `ControlStep` and `ClockStep` its updates |
| `Clock` | the clock manager driver | an action per kind of call; `Shift` holds both layouts |
| `Spi` | the SPI0 driver | an action per call, `Access` its next update of CS; `Exchange` is the controller, which is external |
| `I2cIrqProofs`, `I2cPollProofs`, `SmpConsoleProofs`, `IrqDispatchProofs`, `BoardProofs`, `LinuxProofs`, `GpioProofs` (with `GpioPads`), `RegisterProofs` (`Clock` and `Spi`) | proofs | section 6 |
| `MCIrqDispatch`, `MCLinux`, `MCRegisters` | constants of the TLC runs | |

`I2cIrq` and `I2cPoll` each extend `Bsc` and conjoin its register operations with
their own state; both are shown to implement `I2cTransport`. `I2cBoard` composes
`I2cIrq` (extended) with `IrqDispatch` (instantiated), sharing the interrupt line:
what either takes for granted of the other is a refinement that the board is checked
and, in `BoardProofs`, proved to satisfy. `Linux` composes `Mmio` and `I2cDev`, which share the descriptors of
`Process`. `MCRegisters` puts the register drivers, and the parts of the GPIO driver,
which share no register, side by side: a behaviour is one of one of them, so that one
run serves all.

A byte is abstracted to the number of the transfer it belongs to; in `Spi` a reply
names its byte and the settings it was shifted with. This is what lets a byte that
was left behind and shows up in another transfer be told from one that belongs
there. Registers of fields (`C`, `S`, GPFSEL, clock control, `CS`) are sets of the
bits that are 1.

Simplifications a reader should know:

* The assignments to the fields of `m_xfer` at the top of `start()` are one step,
  and so is one turn of the loop in `handle_irq()`. On one core nothing can come
  between the latter; the former is checked to be harmless by the fact that no
  interrupt of the controller is enabled at that point (`InterruptsQuiet`).
* What ST does to a busy controller is not documented: it is ignored, or the new
  transfer takes over.
* `wait_for_irq()` may return at any time: at once in a hosted build, with the
  next interrupt, at the latest that of the timer, on bare metal.
* `BadArg` returns change nothing and are the guards of the calls. Asynchronous
  calls are made with a callback.
* `set_control()` is one step in `I2cPoll`, where nothing else writes C.
* RAM holds anything until `.bss` is cleared (`SmpConsole!Init`).
* In `IrqDispatch` a handler that `dispatch()` calls is one step, after which the
  line is down, still up or up again; `I2cBoard` has the steps of `handle_irq()` in
  its place. Every line has the core whose thread enables and disables it (`Owner`),
  and cores may share a bank. Two calls on one bank that overlap can undo each other,
  because `|=` on an enable register writes back what it read; `overlap` records the
  banks where that could have happened, of which nothing more is promised.
* A thread takes its device's request back when its own core is in no handler. The
  handler of another core does not stop it, and may be called for a line that is down
  by then.
* `Disable_IRQs` reads as any set of lines that are not enabled.
* What GPSET and GPCLR read back is not documented either: nothing, or the bits that
  were written to them, as `GPGETn()` and the tests suppose.
* The clock registers are plain memory, as in the tests.
* What a pad makes of a clock bit in GPPUDCLK that is written a second time is not
  documented: it takes the control signal again, or not.
* `Spi` is used as `README.md` shows: settings between transfers, `clear_fifo()`
  before each, bytes when the status bits allow. CLEAR reads back as 0.
* The adapter behind `/dev/i2c-N` serves one `ioctl` at a time and answers how many
  of its messages it did, at least one, or an error. Addresses of `Mmio` are scaled to pages of
  `Page` addresses.

## 3. Runs

| Run | Module | Question | States |
| --- | --- | --- | --- |
| `irq` | `I2cIrq` | does the interrupt-driven transport keep all of its properties when it is used by its rules? | 260 000 |
| `irq_zombie` | `I2cIrq` | what does a watchdog leave behind that is too short for the slave? | violation |
| `irq_last_wait` | `I2cIrq` | is `Timeout` only for transfers that did not complete? | violation |
| `poll` | `I2cPoll` | the same as `irq` for the polling transport | 100 000 |
| `smp` | `SmpConsole` | boot order, whole lines, wake-ups and ticks on three cores, the first tick after the online line | 17 000 |
| `smp_early_tick` | `SmpConsole` | is the lock always given back? | violation |
| `dispatch` | `MCIrqDispatch` | two cores that share a bank, two devices that come and go, timers on both cores; is a line that stays up served? | 140 000 |
| `board` | `I2cBoard` | do the transport and the dispatcher keep what each takes for granted of the other, and is anybody starved? | 360 000 |
| `gpio_ack` | `MCRegisters` | does an acknowledgement concern one pin only? | violation |
| `registers` | `MCRegisters` | three pins, two in one GPFSEL and one in the other bank; one clock control register per interface, a divisor register through both; SPI transfers that are cut off | 170 000 |
| `linux` | `MCLinux` | two mappings, two transports and the rest of a process, with failing system calls | 330 000 |
| `linux_long` | `MCLinux` | does `Ok` mean that all bytes were moved? | violation |

### What the passing runs show

* `NoneForgotten`, `CallbackOnce`: through all interleavings of
  callers, watchdog, handler and chained callbacks every caller is told one result,
  that of its own transfer.
* `ImplementsSeam`, `BufferOwned`: what a transfer that ended in `Nack`,
  `ClockTimeout` or `Timeout` left in the FIFO and in S never reaches the next one;
  `Ok` is told only to who had every byte of its own moved.
  `TimeoutMeansWedged`, `BusReleased` say of the polling loop that it gives up only
  on a wedged bus, and never leaves a busy controller behind otherwise.
* `InterruptsQuiet`: the handler and the thread rewrite C without losing each
  other's bits, and the interrupts are off when nothing is in flight.
* `NoLostInterrupt`: the controller and the handler do not wait for each other. After
  `start()` and between two runs of the handler either the line is up or the
  controller can go on by itself: the interrupt that moves the FIFO is the one of the
  transfer's direction, and DONE stays latched until somebody looks.
* `SyncReturns`, `CallReturns`, `AsyncCompletes`: calls return on a wedged bus
  too; a callback comes unless the bus is wedged.
* `LinesWhole`, `InterruptReady`, `LockNeedsMmu`, `NoLostWakeup`, `WaiterWakes`,
  `TicksGoOn`: the boot order publishes everything before it is used, and the
  unlocker's store and SEV wake every waiter in WFE.
* `NoStorm`, `CalledIsPending`, `AsRequested`, `LineServed`: the dispatcher, with two
  cores on one bank. `AsRequested` says that a bank holds the lines asked for as long as
  no two calls on it overlapped, `CalledIsPending` that a handler on its driver's own
  core is called only for a request that stands.
  `LineServed` says what its fixed priority gives: a line is served once the timer
  and the lower-numbered lines stay quiet, and nothing stronger holds.
* `ImplementsTransport`: under `dispatch()` the handler runs only as `I2cIrq` says,
  never on top of itself and never beside the thread. So the properties of `irq`
  hold of the board as well. `ImplementsDispatch`: the transport is a driver as
  `IrqDispatch` says. `Heard`: whatever `enable()`, `dispatch()` and the handlers do to
  the interrupt controller, the line of a transfer in flight is enabled there and
  its handler in the table. `AsyncServed`, `ThreadNotStarved`: once the timer, which goes
  first, stays quiet, a callback comes through the vector, and the level-triggered
  line does not hold the core.
* `FunctionKept`, `PadsApart`, `FieldKept`: pins and fields that share a word.
  `PadsApart` says how far the `|=` of the setters carries: a pin drives what it was
  told until it was both set and cleared, and has its pull until the clock that the
  driver leaves asserted is written again.
* `ReplyOwn`: an SPI transfer that follows one that was cut off reads no byte of it.
* `Owned`, `RightBlock`, `RightDevice`: a descriptor given
  up by a failed constructor, a destructor or a re-open is used and closed by
  nobody who held it before, although it soon means another file; a mapping covers
  its block; a call reaches the device that `open()` was last given.

### Disagreements between the code and its comments

The violation runs each refute one sentence of the repository; `PROJECT.json`
quotes them.

* `irq_last_wait`: `wait_complete()` does not look at `done` after its last wait.
* `irq_zombie`: `abort_transfer()` does not stop the controller, whose late DONE
  then completes the next transfer as `Ok`.
* `smp_early_tick`: `timer_isr()` takes the console lock that its own core's thread
  may hold.
* `gpio_ack`: `GPEDSn()` is `|=` on a register whose bits are cleared by ones, so the
  events of all pins of the bank go with the one that is acknowledged.
* `linux_long`: `i2c_msg.len` has 16 bits, the length a `size_t`. A longer one is
  cut, and `Ok` is told for what is left of it.

Other disagreements can be reproduced by changing a constant, or by dropping the
condition of a property, and are not runs of their own:

* `OneCore = FALSE` in `irq`: `finalize()` clears `active` before it reads `cb`. A thread
  on another core that starts a transfer in between gives its callback to the handler
  of the old one (`NoneForgotten`).
* `Disciplined = FALSE` in `irq`: `write()` and `read()` have no busy guard, and a
  blocking call overwrites an asynchronous transfer (`NoneForgotten`), although
  `docs/i2c-irq-transport-spec.md:116-118` asks for one.
* `Lens = {1}` in `linux_long`: `xfer()` does not compare the count that `ioctl()`
  answers with the number of messages. When the adapter carried out the first of two,
  `write_read()` returns `Ok` (`OkMeansMoved`).
* `PadsApart` without `~SetAndCleared(n)`: `GPSETn()` and `GPCLRn()` are `|=`, too. If
  GPSET reads back what was written, setting pin 9 sets pin 8 again, which was cleared
  meanwhile, and `inc/gpio.hpp:68-70` does not hold. On a chip where it reads as 0 the
  sequence is harmless.
* `PadsApart` without `n \notin again`: no function removes a clock from GPPUDCLK, as
  `inc/gpio.hpp:198` asks. The pull-up of pin 9 may reach pin 8, whose clock is still
  asserted and written again.
* `SharedLine = TRUE` in `irq`: `handle_irq()` does not test
  `active`, and on an interrupt of another source drains what a failed read left in
  the FIFO into the buffer of a call that has returned (`BufferOwned`);
  `inc/i2c_irq.hpp:34` says the line is "shared across BSC0/1/2".
* `DlenMod = 2` in `irq`: a length that DLEN cannot hold is truncated and reported
  `Ok` (`ImplementsSeam`). The chip's modulus is 2^16.
* `Patient = FALSE` in `poll`: the late DONE of a call that timed out completes the
  next one (`ImplementsSeam`).
* `Typed` and `Generic` overlapping in `registers`: the two interfaces have different
  layouts (`FieldKept`), as `docs/DRIVER_REVIEW.md:185-189` says. `FieldKept` also
  states the limit of `get_CM_GPnDIV(DIVF)`, which masks one bit only.
* INTT and INTR are enabled for transfers that fit the FIFO as well, where
  `docs/i2c-irq-transport-spec.md:129-131` asks for INTD only.

## 4. Constants, bounds and why they are enough

* `MaxXfers` numbers the transfers of a behaviour; it bounds the model only. Two
  transfers are enough for one to meet what another left behind, and three are used
  where the state space allows (`poll`).
* `Depth = 2`, `TxLow = 1`, `RxHigh = 2`, `Lens = {1, 3}`: a transfer that fits the
  FIFO and one that does not, so that TXW and RXR interrupts and clock stretching
  are needed, and both thresholds are crossed.
* `DlenMod = 8`: every length fits.
* `MaxWaits`, `MaxSpins` = 2: the budget is spent and not spent, at every point.
* `Patient`: the budget outlasts every transfer the slave will finish, and callers
  leave a wedged bus alone. It is the rule under which a watchdog makes sense;
  `irq_zombie` shows what happens without it.
* `Disciplined`, `OneCore`, `SharedLine`, `MayWedge`: usage rules and faults.
* `LastCore = 2`: core 0 and two that compete with each other; two cores suffice
  for the violation. `EarlyTick`: a timer may fire before its core's online line is
  out. Then the console may block for ever, so `smp` goes without; that the safety
  properties hold with it as well is proved (section 6), and on three cores TLC finds
  the same on 430 000 states.
* `Width = 2`, two devices, two cores: the lines share the first bank, their drivers
  run on different cores, and the second core does not take the peripheral line. With
  a third line, alone in the second bank, the safety properties hold on 1 620 000
  states; the liveness check of that instance takes too long, and the second bank is
  that of the BSC in `board`.
  In `board` the line of the BSC is in the second bank, and two transfers of three
  bytes, blocking, asynchronous or chained, go through the vector, with the timer
  beside.
* Pins 8 and 9 share GPFSEL0, 41 is in bank 1; an edge and a level detector; a word
  written to a whole GPFSEL; pull-down and pull-up, so that pads differ. Functions,
  events, outputs and pulls share no register, and a behaviour is one of one of them.
* `LenMod = 4` with length 1 and, in `linux_long`, 5, which does not fit.
* Clock values touch both ends of every field, and bits past it. SPI FIFOs of two
  bytes are full, empty and in between; two slaves, two modes.
* Two descriptors for two mappings, two transports and the rest of the process, so
  that a closed one is reused at once and open() fails for want of one; one block at
  the start of a page, one across the end of one; all three boards.
  The mappings, objects and transports are interchangeable (symmetry; the properties
  of that run are invariants).

Deadlock is checked where the system runs for ever (`dispatch`, `registers`, `linux`,
`smp`). In the transports and on the board it may stop once the `MaxXfers` transfers are done,
and in `smp_early_tick` the early tick stops it, which is what that run is about.

## 5. Fairness

* `I2cIrq`: weak fairness of the thread's own steps, of the handler, of the
  controller and of the second half of `write_read`: cores execute, a pending
  interrupt is taken, the controller clocks. Callers owe nothing, and no fault has
  to happen or to stay away.
* `I2cPoll`: the thread, and the controller including its slave, which ends or
  wedges a transfer.
* `SmpConsole`: each core, and each timer. The spin lock is not fair: one core can
  lose every exchange, so `TicksGoOn` speaks of some core, and `WaiterWakes` of one
  WFE.
* `IrqDispatch`: weak fairness of the handler of the core that the legacy controller
  interrupts, and strong fairness of a handler serving its device: one that is
  called again and again does so at last. `AsyncServed` and `ThreadNotStarved` show
  of the I2C transport that its handler does.
* `I2cBoard`: weak fairness of the thread (when no handler is under way), of the
  vector with what it calls, and of the controller, as in `I2cIrq`.
* The register drivers and `Linux` have no liveness property and no fairness.

## 6. Proofs

`I2cIrqProofs!TypeCorrect` proves `TypeOK` of `I2cIrq` for all constants, among it
that the handler never moves past the end of the caller's buffer. One lemma per
part of the state (controller, programs, record, contexts, history), and one step
per action.

On top of it the module proves two safety properties under `OneCore` and
`Disciplined`, for every number of transfers, FIFO size, set of lengths, budget, slave
and interrupt source: `NoTransferForgotten` (`NoneForgotten`) and `CalledBackOnce`
(`CallbackOnce`). Without either rule the first is false (section 3). Neither is inductive. That the record may be overwritten depends
on who holds it, so the invariant `OwnInv` follows the ownership of the current
transfer through the code: `CurrentIsLast` (the record holds the last transfer
begun), `SyncOpen` (in a blocking call it is that call's and unreported),
`SyncReported` (outside one, a transfer without a callback was reported),
`AsyncOpen` (a callback not yet made is active, or in the handler's hands) and
`Reports` (all earlier transfers were reported, none later, and no callback twice).
`OneCore` is needed in `AsyncOpen`: between `active = false` and the read of `cb`
only the fact that the thread does not run keeps the record.

It also proves that the interrupt-driven transport implements the seam
(`Implements`), that it keeps its interrupts off between transfers (`QuietBetween`),
stores into no buffer of a call that returned (`BufferSafe`) and reports `Ok` only for
transfers whose bytes all moved (`AllMoved`), for any number of transfers, FIFO size
and slave, under `Careful`: `OneCore`, `Disciplined`, no other source on the line, the
budget outlasts the slave (`Patient`) and DLEN holds the lengths. The violation run
`irq_zombie` shows what becomes of it without `Patient`. The invariant `SeamInv` has to
follow a register program through its halves:

* `Programs`, `Words`: which program a context executes, and that the word it holds
  between load and store is still in the register: only the handler comes between,
  and only while the thread aborts;
* `Programmed`: the steps of `start()` made so far are in the registers, so that the
  last one starts the transfer on an idle controller, without old Status bits or bytes;
* `Clock`, `Conserved`: the controller clocks the last transfer begun, and the bytes
  moved, in the FIFO and left to clock make up its length;
* `Active`, `Quiet`: who waits for the transfer, and when the interrupts are off;
* `Truth`: an `Ok` on its way from the handler to the caller is true.

Two contexts never run `start()` at once (lemma `Alone`), and the line is down while one
does (`LineDown`); from these two every step has one context to look at.

`HandlerComesBack` proves `NoLostInterrupt` under `Careful`. It needs to know of the
two registers what `SeamInv` does not say, which interrupts `start()` has enabled by
now: `Armed` follows INTT or INTR and INTD through the steps of `start()` (`ArmSteps`,
`KickArms`), and says that they stay enabled, and DONE latched, while the controller
has the transfer, although the handler reads and clears status bits on its way. With
`Conserved` the lemma `NeverStuck` then goes through the levels of the FIFO: what
keeps the controller from going on is what raises the line.

`IrqDispatchProofs` proves of the dispatcher, for any number of cores, any width of
the registers, any wiring and any owners of the lines: `TypeOK`, `NoStorm`,
`CalledIsPending` and `AsRequested`. `WordInv` relates the word that a
read-modify-write holds to the register it will be written to, and what makes it
stale is a call of another core in between, which is what `overlap` records
(`EnableInv` is about the other banks). `HandlerInv` says what a handler on the way
to being called may count on: it needs that a thread does not run below a handler of
its own core, and nothing of other cores.

`BoardProofs` puts `I2cIrqProofs` and `IrqDispatchProofs` together, under `Careful`, as
the code does in `bus_init()` and `dispatch()`. `TransportOnBoard` proves
`ImplementsTransport` (the dispatcher calls `handle_irq()` as `I2cIrq` lets its
environment) and `DispatchOnBoard` proves `ImplementsDispatch` (the transport and the
controller move the line and the table as `IrqDispatch` lets its drivers), a step of
one at a time (`TransportStep`, `DispatcherStep`). Each needs the invariant of the
other: that the line goes down only by the handler or the thread is `SeamInv` with
`Armed`, that the handler is called only for a line that is up is the dispatcher's.
So the invariant, `BoardInv`, is that of the transport, that of the dispatcher and
`Link`: `handle_irq()` runs inside a call of the vector only, and `bus_init()` is past
the handler when the line is enabled, and past both when a transfer begins. From the
two refinements every safety theorem of either module carries over (`BoardIsSafe`),
and `AllHeard` proves `Heard`, which neither could state alone.

`SmpConsoleProofs` proves all safety properties of `smp` for any number of
cores and timers that fire at any time. None but `NoLostWakeup` says anything of
where the programs are, so the invariant ties the state to positions: `CoreInv` and
`BootInv` say what a core, and core 0 for all, has set up once its thread is past a
step; `LockInv` says that, once the lock is enabled, at most one context is between
the exchange and the store, and that `g_lock` is then set; `SleepInv` that only a
context at the lock sleeps. Before the lock is enabled the lemma `Early` takes over:
the other cores are parked and no handler runs.

`I2cPollProofs` proves the safety properties of the polling transport, the refinement
of `I2cTransport` among them (`Implements`), for any number of transfers, FIFO size,
set of lengths and slave, under two rules (`Careful`): the budget outlasts the slave
(`Patient`) and DLEN holds the lengths. `Ok` is told on the word of a snapshot of S
and of a FIFO that the controller shares, so the invariant `PollInv` has to say what
both are worth:

* order: transfers are told of one at a time, and only the current one is open;
* between two calls the controller is idle, or wedged for good;
* while `prime` runs, the steps made so far are in the registers: the FIFO empty, the
  old DONE, ERR and CLKT gone, DLEN set, before ST is written;
* conservation: of a write, the bytes fed are those that moved and those in the FIFO;
  of a read, the bytes clocked in are those drained and those in the FIFO; and what
  is left to clock makes up the length;
* freshness: a bit in the snapshot that is not in S any more, or the reverse, is one
  that nothing but the controller's progress can explain: DONE in the snapshot means
  that the controller has ended and will put nothing more into the FIFO.

`LinuxProofs` proves all invariants of `linux` for any descriptors, objects, mappings,
transports, page size and board layout. The invariant adds to `Owned` who is half way
where (an object between `open` and `mmap`, a transport between `close` and `open`),
and ties a transport's descriptor to the file behind it: this holds because no one
else closes it, which is `Owned` again, so that the two must be proved together.

`GpioProofs` and the clock part of `RegisterProofs` rest on one lemma each, that no two
fields of a register overlap (`FieldsApart`): from it `FunctionKept` and `FieldKept`
follow for all pins and all values. `FieldKept` needs that a control register is used
through one interface only (`OneInterface`), the rule that the `registers` run follows
too.

`GpioProofs!PadsStayApart` proves `PadsApart` for any pins and pulls. What a clock
brings to a pad is the word that is in GPPUD by then, several calls after the pull was
asked for, so `PullInv` says that what is left of the sequence is an end of it and what
GPPUD holds at each place: off before it is set, the pull asked for before it is
clocked. What `|=` writes again is a subset of what was ever written, so `DriveSides`
says of a pin in one of the two output registers only that it was last told just that.

`RegisterProofs!RepliesOwn` proves `ReplyOwn` for any slaves, modes, bytes and room of the
FIFOs. `SpiInv` has two parts. `Stage` lists the places between two updates of CS and
what the fields are there: the settings are as asked whenever a transfer may be
under way, and the FIFOs empty from the second update of `clear_fifo()` until TA is
set, whatever settings are made in between. `Owed` says during a transfer which answer
each byte in the transmit FIFO will have; `ReplyOwn` alone speaks of their number only,
and would not survive the controller's next step.

Each driver's type invariant is one of the theorems (`TypeCorrect`), and no run
spends a property on it.

The assumptions are those named in the modules (`BscAssumption`, `IrqAssumption`,
`PollAssumption`, `CoresAssumption`, `DispatchAssumption`, `ProcessAssumption`,
`BoardAssumption`, `MmioAssumption`, `I2cDevAssumption`, `GpioAssumption`,
`PadAssumption`, `ClockAssumption`, `SpiAssumption`) and, where a theorem says so, the
usage rules above.

Model-checked only: the liveness properties (`SyncReturns`, `AsyncCompletes`, `CallReturns`,
`WaiterWakes`, `TicksGoOn`, `LineServed`, `AsyncServed`, `ThreadNotStarved`), which are out
of the prover's reach. `NoLostInterrupt` and `Heard` are what is proved towards them: a
transfer that stops has somebody to wake it. Every safety property that a passing run
checks is proved, too.

## 7. Not modelled

* The FIQ slot and the vector table's address arithmetic.
* The slave address, the clock divider and the getters of the I2C driver, and
  `GPLEVn()` as a setter, which writes a read-only register.
* Addresses that `slave_address()` and the messages carry: one slave at a time.
* Page-table contents and the register save area of `vectors.S`; the C runtime, the
  build and the tests.
* The I2C transports on `Mapped<I2C>`: the polling one can be, but shares no state
  with `Linux` beyond the mapping.
* Sensor drivers above the seam: they are in another repository.

## 8. Plan

1. Proofs towards `WaiterWakes` and `TicksGoOn`: that no state of the console lock
   leaves every core waiting, as `NoLostInterrupt` says of the transport.
2. `i2c-dev` as a third implementation of `I2cTransport`: the kernel's adapter may
   serve several transports at once, which the seam, as stated, does not allow.
