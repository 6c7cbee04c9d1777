---------------------------- MODULE IrqDispatch ----------------------------
(***************************************************************************)
(* The interrupt controller driver (inc/interrupt.hpp,                     *)
(* src/interrupt/interrupt.cpp): the table of handlers, the two banks of   *)
(* the legacy controller that enable() and disable() program, and          *)
(* dispatch(core), which the one IRQ vector of every core runs.            *)
(*                                                                         *)
(* Every access to a register is a step of its own: enable() and disable() *)
(* are a read and a write, and dispatch() reads the source of the core,    *)
(* then IRQ_Pending1, then IRQ_Pending2.  A line of the legacy controller  *)
(* is level triggered: it stays up until the device was served.  A handler *)
(* is one step, and what comes up in the meantime is up when it returns.   *)
(*                                                                         *)
(* The controller is external: a write of ones to Enable_IRQs enables, a   *)
(* write of ones to Disable_IRQs disables, Enable_IRQs reads back what is  *)
(* enabled, and Disable_IRQs reads as some of the wired lines that are not.*)
(***************************************************************************)
EXTENDS Integers

CONSTANTS
  Cores,    \* the cores
  GpuCore,  \* the core that the legacy controller interrupts
  Width,    \* bits of a register (32 in the chip)
  Devices,  \* the lines of the legacy controller that devices are wired to
  Owner     \* per device: the core whose thread runs its driver

ASSUME DispatchAssumption ==
  /\ GpuCore \in Cores
  /\ Width \in Nat \ {0}
  /\ Devices \subseteq 0 .. 2 * Width - 1
  /\ Owner \in [Devices -> Cores]

VARIABLES
  handlers, \* m_handlers: the slots of the table that hold a function
  enable,   \* per bank: the bits of Enable_IRQs that are 1
  raised,   \* the devices whose line is up
  timers,   \* per core: its local timer lines that are up
  thread,   \* per core: where its thread is in enable() or disable()
  isr,      \* per core: where its handler is in dispatch()
  want,     \* the lines enabled and not disabled again (history)
  overlap   \* the banks in which calls of two cores overlapped (history)

hardware == <<raised, timers>>
history  == <<want, overlap>>
vars     == <<handlers, enable, hardware, thread, isr, history>>

Banks      == 1 .. 2
Bits       == 0 .. Width - 1
Lines      == 0 .. 2 * Width - 1
LocalLines == 0 .. 3               \* CNTPSIRQ .. CNTVIRQ
CNTPNSIRQ  == 1
GPU        == 8
kLocalBase == 2 * Width
Slots      == 0 .. kLocalBase + 7  \* kMaxHandlers

BankOf(n) == IF n < Width THEN 1 ELSE 2
BitOf(n)  == IF n < Width THEN n ELSE n - Width
LineOf(b, bit) == IF b = 1 THEN bit ELSE bit + Width
Wired(b) == {bit \in Bits : LineOf(b, bit) \in Devices}

\* A thread outside enable() and disable(); a core outside dispatch().
NotCalled == [pc |-> "idle", line |-> 0, word |-> {}]
AtRest    == [pc |-> "idle", slot |-> 0]

\* Mutant: the leading zeros are counted, not the trailing ones.
highest_set_bit(v) == {n \in v : \A m \in v : m <= n}

\* The lowest bit of a word; no bit (-1) of the word 0.
lowest_set_bit(v) == {n \in v : \A m \in v : n <= m}

-----------------------------------------------------------------------------
(* Threads set up the lines.  A thread does not run under the handler of   *)
(* its core.                                                               *)

ThreadAt(c, pc) == thread[c].pc = pc /\ isr[c].pc = "idle"
Own(c, n) == Owner[n] = c

\* Core c is between the read and the write of a |= on a register of bank b.
Between(c, b) == thread[c].pc \in {"store", "clear"} /\ BankOf(thread[c].line) = b

\* Nothing keeps another core out of the bank in the meantime.
Overlaps(c, b) ==
  overlap' = overlap \cup {x \in {b} : \E d \in Cores \ {c} : Between(d, b)}

\* Mutant: the line is enabled first, the handler comes with the next call.
SetUpEnablesFirst(c, n) ==
  /\ ThreadAt(c, "idle") /\ Own(c, n)
  /\ handlers' = IF n \in want THEN handlers \cup {n} ELSE handlers
  /\ thread' = [thread EXCEPT ![c] = [pc |-> "enable", line |-> n, word |-> {}]]
  /\ UNCHANGED <<enable, hardware, isr, history>>

\* A driver's bus_init(): install_IRQHandler(n), then enable(n).
SetUp(c, n) ==
  /\ ThreadAt(c, "idle") /\ Own(c, n)
  /\ handlers' = handlers \cup {n}
  /\ thread' = [thread EXCEPT ![c] = [pc |-> "enable", line |-> n, word |-> {}]]
  /\ UNCHANGED <<enable, hardware, isr, history>>

\* enable(): |= on Enable_IRQs of the bank.
EnableRead(c) ==
  LET n == thread[c].line IN
  /\ ThreadAt(c, "enable")
  /\ thread' = [thread EXCEPT ![c] = [pc |-> "store", line |-> n,
                                      word |-> enable[BankOf(n)]]]
  /\ Overlaps(c, BankOf(n))
  /\ UNCHANGED <<handlers, enable, hardware, isr, want>>

EnableWrite(c) ==
  /\ ThreadAt(c, "store")
  /\ LET n == thread[c].line IN
     /\ enable' = [enable EXCEPT ![BankOf(n)] =
                     @ \cup thread[c].word \cup {BitOf(n)}]
     /\ want' = want \cup {n}
  /\ thread' = [thread EXCEPT ![c] = NotCalled]
  /\ UNCHANGED <<handlers, hardware, isr, overlap>>

\* Mutant: the word that is written to Disable_IRQs was read from Enable_IRQs.
DisableReadsEnable(c, n) ==
  /\ ThreadAt(c, "idle") /\ Own(c, n)
  /\ thread' = [thread EXCEPT ![c] = [pc |-> "clear", line |-> n,
                                      word |-> enable[BankOf(n)]]]
  /\ Overlaps(c, BankOf(n))
  /\ UNCHANGED <<handlers, enable, hardware, isr, want>>

\* disable(): |= on Disable_IRQs of the bank.
DisableRead(c, n) ==
  /\ ThreadAt(c, "idle") /\ Own(c, n)
  /\ \E w \in SUBSET (Wired(BankOf(n)) \ enable[BankOf(n)]) :
       thread' = [thread EXCEPT ![c] = [pc |-> "clear", line |-> n, word |-> w]]
  /\ Overlaps(c, BankOf(n))
  /\ UNCHANGED <<handlers, enable, hardware, isr, want>>

DisableWrite(c) ==
  /\ ThreadAt(c, "clear")
  /\ LET n == thread[c].line IN
     /\ enable' = [enable EXCEPT ![BankOf(n)] =
                     @ \ (thread[c].word \cup {BitOf(n)})]
     /\ want' = want \ {n}
  /\ thread' = [thread EXCEPT ![c] = NotCalled]
  /\ UNCHANGED <<handlers, hardware, isr, overlap>>

\* isEnabled() reads Enable_IRQs back.
isEnabled(n) == BitOf(n) \in enable[BankOf(n)]

ThreadStep(c) ==
  \/ \E n \in Devices : SetUp(c, n) \/ DisableRead(c, n)
  \/ EnableRead(c) \/ EnableWrite(c) \/ DisableWrite(c)

-----------------------------------------------------------------------------
(* dispatch(core) *)

Pending(b) == {bit \in enable[b] : LineOf(b, bit) \in raised}

\* The lines that the controller lets through.
On == {n \in Lines : \E b \in Banks : \E bit \in enable[b] : LineOf(b, bit) = n}

\* CORE_IRQ_SOURCE of core c.
Source(c) == timers[c] \cup
  (IF c = GpuCore /\ \E b \in Banks : Pending(b) # {} THEN {GPU} ELSE {})

\* The core that irq_handler_c() dispatches for.
CoreZero(c) == GpuCore   \* mutant: dispatch_trampoline() on every core
CoreId(c) == c

IsrEnter(c) ==
  /\ isr[c].pc = "idle" /\ Source(c) # {}
  /\ isr' = [isr EXCEPT ![c].pc = "source"]
  /\ UNCHANGED <<handlers, enable, hardware, thread, history>>

Return(c) == isr' = [isr EXCEPT ![c] = AtRest]
Decide(c, slot) == isr' = [isr EXCEPT ![c] = [pc |-> "call", slot |-> slot]]

\* A timer line goes before the line of the legacy controller.
ReadSource(c) ==
  /\ isr[c].pc = "source"
  /\ LET source == Source(CoreId(c))
         local  == source \cap LocalLines
     IN \/ \E line \in lowest_set_bit(local) : Decide(c, kLocalBase + line)
        \/ local = {} /\ GPU \in source
           /\ isr' = [isr EXCEPT ![c].pc = "pending1"]
        \/ source = {} /\ Return(c)
  /\ UNCHANGED <<handlers, enable, hardware, thread, history>>

\* Mutant: dispatch() returns when the first bank is empty.
ReadPending1Returns(c) ==
  /\ isr[c].pc = "pending1"
  /\ \/ \E bit \in lowest_set_bit(Pending(1)) : Decide(c, bit)
     \/ Pending(1) = {} /\ Return(c)
  /\ UNCHANGED <<handlers, enable, hardware, thread, history>>

ReadPending1(c) ==
  /\ isr[c].pc = "pending1"
  /\ \/ \E bit \in lowest_set_bit(Pending(1)) : Decide(c, bit)
     \/ Pending(1) = {} /\ isr' = [isr EXCEPT ![c].pc = "pending2"]
  /\ UNCHANGED <<handlers, enable, hardware, thread, history>>

ReadPending2(c) ==
  /\ isr[c].pc = "pending2"
  /\ \/ \E bit \in lowest_set_bit(Pending(2)) : Decide(c, Width + bit)
     \/ Pending(2) = {} /\ Return(c)
  /\ UNCHANGED <<handlers, enable, hardware, thread, history>>

\* The handler serves its device, or re-arms its timer, and the line goes down.
Serves(c) ==
  /\ isr[c].slot \in handlers
  /\ raised' = raised \ {isr[c].slot}
  /\ timers' = [timers EXCEPT ![c] = @ \ {isr[c].slot - kLocalBase}]

\* The handler of the slot, if there is one, from its call to its return; its
\* line is then down, or up again, or still up.
CallHandler(c) ==
  /\ isr[c].pc = "call"
  /\ Serves(c) \/ UNCHANGED hardware
  /\ Return(c)
  /\ UNCHANGED <<handlers, enable, thread, history>>

IsrStep(c) == IsrEnter(c) \/ ReadSource(c) \/ ReadPending1(c)
              \/ ReadPending2(c) \/ CallHandler(c)

-----------------------------------------------------------------------------
(* The devices and the timers (external) *)

Raise(n) ==
  /\ n \notin raised
  /\ raised' = raised \cup {n}
  /\ UNCHANGED <<handlers, enable, timers, thread, isr, history>>

\* The thread of a driver takes the request of its device back.  A handler of its
\* own core keeps it from running; the handler of another core does not, wherever
\* that is in dispatch().
Withdraw(n) ==
  /\ isr[Owner[n]].pc = "idle"
  /\ raised' = raised \ {n}
  /\ UNCHANGED <<handlers, enable, timers, thread, isr, history>>

TimerFires(c) ==
  /\ CNTPNSIRQ \notin timers[c]
  /\ timers' = [timers EXCEPT ![c] = @ \cup {CNTPNSIRQ}]
  /\ UNCHANGED <<handlers, enable, raised, thread, isr, history>>

-----------------------------------------------------------------------------
\* kmain() has registered the handler of the timer line; the legacy controller
\* comes out of reset with everything disabled.
Init ==
  /\ handlers = {kLocalBase + CNTPNSIRQ}
  /\ enable = [b \in Banks |-> {}]
  /\ raised = {}
  /\ timers = [c \in Cores |-> {}]
  /\ thread = [c \in Cores |-> NotCalled]
  /\ isr = [c \in Cores |-> AtRest]
  /\ want = {}
  /\ overlap = {}

Next ==
  \/ \E c \in Cores : ThreadStep(c) \/ IsrStep(c) \/ TimerFires(c)
  \/ \E n \in Devices : Raise(n) \/ Withdraw(n)

Spec == Init /\ [][Next]_vars

\* The core of the legacy controller takes a pending interrupt and its dispatch
\* goes on; a handler that is called again and again serves its source at last.
FairSpec == Spec /\ WF_vars(IsrStep(GpuCore))
                 /\ SF_vars(CallHandler(GpuCore) /\ Serves(GpuCore))

-----------------------------------------------------------------------------
(* Properties *)

TypeOK ==
  /\ handlers \subseteq Slots
  /\ enable \in [Banks -> SUBSET Bits]
  /\ raised \subseteq Devices
  /\ timers \in [Cores -> SUBSET LocalLines]
  /\ thread \in [Cores -> [pc : {"idle", "enable", "store", "clear"},
                           line : Lines, word : SUBSET Bits]]
  /\ isr \in [Cores -> [pc : {"idle", "source", "pending1", "pending2", "call"},
                        slot : Slots]]
  /\ want \subseteq Lines
  /\ overlap \subseteq Banks

\* Every source that dispatch() decides on has a handler.  Without one it would
\* be left pending, and the level-triggered line would re-enter for ever.
NoStorm == \A c \in Cores : isr[c].pc = "call" => isr[c].slot \in handlers

\* A timer's handler that dispatch() is about to call is for a timer of this very
\* core, still up.  The handler of a device whose driver's thread is on this core
\* is for a device that still asks for it; and for a line that this thread has
\* not disabled, unless a call of another core on its bank overlapped with one.
\* (The thread of another core may have taken the request back by now.)
CalledIsPending == \A c \in Cores : isr[c].pc = "call" =>
  LET slot == isr[c].slot IN
  IF slot >= kLocalBase
  THEN slot - kLocalBase \in timers[c]
  ELSE Own(c, slot) => /\ slot \in raised
                       /\ BankOf(slot) \notin overlap => slot \in want

\* Cores that share a bank, and the interrupts between the read and the write of
\* their |=, leave every line as its driver asked for, in the controller and for
\* isEnabled(), as long as no two calls on that bank overlap.
AsRequested == \A n \in Devices :
  thread[Owner[n]].pc = "idle" /\ BankOf(n) \notin overlap =>
    /\ n \in want <=> n \in On
    /\ n \in want <=> isEnabled(n)

\* A line is served once the sources that go before it stay quiet.
LineServed == \A n \in Devices :
  <>[](timers[GpuCore] = {} /\ \A m \in Devices : m < n => m \notin raised \cap On)
    => (n \in raised \cap On ~> n \notin raised \cap On)
=============================================================================
