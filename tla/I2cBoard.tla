------------------------------ MODULE I2cBoard ------------------------------
(***************************************************************************)
(* The interrupt-driven I2C transport on a board: module I2cIrq and module *)
(* IrqDispatch on the one core that the legacy controller interrupts.      *)
(* bus_init() installs handle_irq() and enables line IRQ 53; the BSC       *)
(* raises it; the vector runs dispatch(), which finds the line in its bank *)
(* and calls handle_irq(); what that leaves up enters the vector again.    *)
(* The timer of the core uses the same vector and goes before the line.    *)
(*                                                                         *)
(* For dispatch() the line of the BSC is up from the moment it rises until *)
(* handle_irq() returns with the line down: its handler is one step there. *)
(***************************************************************************)
EXTENDS I2cIrq

CONSTANTS
  Width,    \* bits of a register of the interrupt controller (32 in the chip)
  kBsc1Irq  \* the line of the BSC controllers (53 in the chip)

VARIABLES
  handlers, enable, timers, asked,  \* IrqDispatch: its table, registers, want
  setup,                            \* IrqDispatch: the thread in enable()
  vector                            \* IrqDispatch: the handler in dispatch()

board     == <<handlers, enable, timers, asked, setup, vector>>
boardVars == <<vars, board>>

Core == 0

Irq == INSTANCE IrqDispatch WITH
  Cores   <- {Core},
  GpuCore <- Core,
  Devices <- {kBsc1Irq},
  Owner   <- [n \in {kBsc1Irq} |-> Core],
  raised  <- IF Line \/ isr.pc # "idle" THEN {kBsc1Irq} ELSE {},
  thread  <- setup,
  isr     <- vector,
  want    <- asked,
  overlap <- {}

ASSUME BoardAssumption ==
  /\ Width \in Nat \ {0}
  /\ kBsc1Irq \in 0 .. 2 * Width - 1
  /\ OneCore /\ ~SharedLine

AtRest  == vector[Core].pc = "idle"
Calling == vector[Core].pc = "call" /\ vector[Core].slot = kBsc1Irq

\* Mutant: the vector does not keep the thread from running.
ThreadAnyTime == setup[Core].pc = "idle"

\* The thread runs its calls: no handler is under way, bus_init() is done.
ThreadFree == AtRest /\ setup[Core].pc = "idle"

-----------------------------------------------------------------------------
(* bus_init(): the controller is enabled and the handler installed, then   *)
(* the line is enabled, a read and a write of Enable_IRQs.                 *)

\* Mutant: the line is enabled, and no handler installed.
InitBusUninstalled ==
  /\ BusInit
  /\ setup' = [setup EXCEPT ![Core].pc = "enable", ![Core].line = kBsc1Irq]
  /\ UNCHANGED <<handlers, enable, timers, asked, vector>>

\* Mutant: the handler is installed, and the line not enabled.
InitBusNotEnabled ==
  /\ BusInit
  /\ handlers' = handlers \cup {kBsc1Irq}
  /\ UNCHANGED <<enable, timers, asked, setup, vector>>

InitBus == BusInit /\ Irq!SetUp(Core, kBsc1Irq)

EnableLine ==
  /\ UNCHANGED vars
  /\ Irq!EnableRead(Core) \/ Irq!EnableWrite(Core)

\* A call of the transport, and what follows from it.
ThreadGoesOn == ThreadFree /\ ThreadStep /\ UNCHANGED board
ThreadCalls  == ThreadFree /\ thread.pc # "off" /\ Call /\ UNCHANGED board

-----------------------------------------------------------------------------
(* The vector *)

\* Mutant: dispatch() does not look at the second bank.
DispatchOneBank ==
  /\ UNCHANGED vars
  /\ \/ Irq!IsrEnter(Core) \/ Irq!ReadSource(Core)
     \/ Irq!ReadPending1Returns(Core)

Dispatch ==
  /\ UNCHANGED vars
  /\ \/ Irq!IsrEnter(Core) \/ Irq!ReadSource(Core)
     \/ Irq!ReadPending1(Core) \/ Irq!ReadPending2(Core)

\* timer_isr() re-arms the timer.
TimerIsr ==
  /\ vector[Core].pc = "call" /\ vector[Core].slot # kBsc1Irq
  /\ UNCHANGED vars
  /\ Irq!CallHandler(Core) /\ Irq!Serves(Core)

\* handle_irq() is called, whatever the line is like by now.
HandleIrq ==
  /\ Calling /\ isr.pc = "idle"
  /\ isr' = [isr EXCEPT !.pc = "loop"]
  /\ UNCHANGED <<bscVars, xfer, thread, prog, at, word, history, board>>

\* A step of handle_irq(); with its last one the handler returns to dispatch().
Handler ==
  /\ Calling /\ isr.pc # "idle"
  /\ IsrStep \/ IsrCall
  /\ IF isr'.pc = "idle" THEN Irq!Return(Core) ELSE UNCHANGED vector
  /\ UNCHANGED <<handlers, enable, timers, asked, setup>>

-----------------------------------------------------------------------------
Controller == (WireStep \/ WireFault) /\ UNCHANGED board
TimerFires == UNCHANGED vars /\ Irq!TimerFires(Core)

BoardInit == Init /\ Irq!Init

BoardNext ==
  \/ InitBus \/ EnableLine \/ ThreadGoesOn \/ ThreadCalls
  \/ Dispatch \/ TimerIsr \/ HandleIrq \/ Handler
  \/ Controller \/ TimerFires

BoardSpec == BoardInit /\ [][BoardNext]_boardVars

\* The core executes: its thread, when no handler does, and its vector.
FairBoard ==
  /\ BoardSpec
  /\ WF_boardVars(EnableLine)
  /\ WF_boardVars(ThreadGoesOn)
  /\ WF_boardVars(ThreadFree /\ ThreadRuns /\ SecondHalf /\ UNCHANGED board)
  /\ WF_boardVars(Dispatch \/ TimerIsr \/ HandleIrq \/ Handler)
  /\ WF_boardVars(WireStep /\ UNCHANGED board)

-----------------------------------------------------------------------------
(* Properties *)

\* The dispatcher calls handle_irq() as I2cIrq takes for granted: only while the
\* line is up, never on top of itself, never while the thread runs.
ImplementsTransport == Spec

\* The transport is a driver as IrqDispatch takes for granted: its line has a
\* handler before it is enabled, and goes down only by its handler or, with no
\* handler under way, by its thread.
ImplementsDispatch == Irq!Spec

\* A transfer in flight is heard: its handler is in the table, the controller of the
\* interrupts lets its line through, so that it reaches the core when it is up; and
\* unless somebody starts, handles or aborts the transfer the line is up, or the BSC
\* goes on by itself.
Heard ==
  xfer.active => /\ kBsc1Irq \in handlers \cap Irq!On
                 /\ Line => Irq!GPU \in Irq!Source(Core)
                 /\ NoLostInterrupt

Quiet == <>[](timers[Core] = {})

\* Once the timer stays quiet, an asynchronous transfer that the thread started
\* is carried to its callback through the vector, unless a slave wedges the bus.
AsyncServed == Quiet => AsyncCompletes

\* Once the timer stays quiet the line of the BSC does not hold the core: the
\* thread gets to run again and again.
ThreadNotStarved == Quiet => []<>(AtRest /\ ~Line)
=============================================================================
