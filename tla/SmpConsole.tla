----------------------------- MODULE SmpConsole -----------------------------
(***************************************************************************)
(* The freestanding image (freestanding/): core 0 boots, releases the      *)
(* other cores from the spin table, every core enables its MMU, vectors    *)
(* and timer, and then prints a line on the console at every timer tick.   *)
(* The console is shared under the spin lock of uart.cpp, whose waiters    *)
(* sleep in WFE until an event.                                            *)
(*                                                                         *)
(* Each core runs a thread (kmain or ksecondary) and, on top of it with    *)
(* interrupts masked, the timer handler.  Both are straight programs: the  *)
(* state of a context is the position in its program.                      *)
(***************************************************************************)
EXTENDS Integers, Sequences

CONSTANTS
  LastCore,  \* the cores are 0 .. LastCore
  EarlyTick  \* a timer may fire before its core has printed that it is online

ASSUME CoresAssumption ==
  /\ LastCore \in Nat
  /\ EarlyTick \in BOOLEAN

VARIABLES
  pos,      \* per core and context: the position in the program
  asleep,   \* per core and context: waiting in the WFE of uart_lock()
  event,    \* per core: the event register that WFE waits for
  released, \* the cores whose spin-table slot holds the entry address
  mmu,      \* the cores whose MMU is on
  vbar,     \* the cores whose VBAR_EL1 is set
  unmasked, \* the cores whose thread takes interrupts
  timer,    \* per core: the generic timer
  ready,    \* .bss: what core 0 has set up of tables, g_active and handler
  g_lock,   \* .bss: the console lock is taken
  g_locking \* .bss: uart_lock() locks

perCore == <<mmu, vbar, unmasked, timer>>
bss     == <<ready, g_lock, g_locking>>
vars    == <<pos, asleep, event, released, perCore, bss>>

Cores    == 0 .. LastCore
Ctx      == {"thread", "isr"}
AllReady == {"tables", "active", "handler"}

\* Mutants: the secondaries are released before the handler is registered; a
\* secondary clears .bss, or prints before its MMU is on.
KmainReleasesEarly ==
  <<"bss", "print", "tables", "mmu", "active", "vector", "print",
    "locking", "release", "handler", "timer", "unmask",
    "lock", "print", "unlock", "sev", "online">>
KsecondaryClearsBss ==
  <<"parked", "bss", "mmu", "vector", "timer", "unmask",
    "lock", "print", "unlock", "sev", "online">>
KsecondaryPrintsFirst ==
  <<"parked", "lock", "print", "unlock", "sev",
    "mmu", "vector", "timer", "unmask", "online">>

\* boot.S and kmain() on core 0; armstub, boot.S and ksecondary() on the others.
\* core_timer_start() is "timer" and "unmask".
Kmain ==
  <<"bss", "print", "tables", "mmu", "active", "vector", "handler", "print",
    "locking", "release", "timer", "unmask",
    "lock", "print", "unlock", "sev", "online">>
Ksecondary ==
  <<"parked", "mmu", "vector", "timer", "unmask",
    "lock", "print", "unlock", "sev", "online">>

\* timer_isr(), between kernel_entry and kernel_exit.
TimerIsr == <<"lock", "print", "unlock", "sev", "rearm", "return">>

Program(c, x) ==
  IF x = "isr" THEN TimerIsr ELSE IF c = 0 THEN Kmain ELSE Ksecondary

\* The handler runs on top of the thread.
Running(c) == IF pos[c]["isr"] > 0 THEN "isr" ELSE "thread"
InAt(c, x, step) == pos[c][x] > 0 /\ Program(c, x)[pos[c][x]] = step
At(c, step) == InAt(c, Running(c), step)

GoOn(c) == pos' = [pos EXCEPT ![c][Running(c)] = @ + 1]

-----------------------------------------------------------------------------
(* Boot *)

ClearBss(c) ==
  /\ At(c, "bss") /\ GoOn(c)
  /\ ready' = {} /\ g_lock' = FALSE /\ g_locking' = FALSE
  /\ UNCHANGED <<asleep, event, released, perCore>>

\* mmu_build_tables(), set_active_irq(), register_handler(CNTPNSIRQ).
Prepare(c, step) ==
  /\ At(c, step) /\ GoOn(c)
  /\ ready' = ready \cup {step}
  /\ UNCHANGED <<asleep, event, released, perCore, g_lock, g_locking>>

MmuEnable(c) ==
  /\ At(c, "mmu") /\ GoOn(c)
  /\ mmu' = mmu \cup {c}
  /\ UNCHANGED <<asleep, event, released, vbar, unmasked, timer, bss>>

InstallVectors(c) ==
  /\ At(c, "vector") /\ GoOn(c)
  /\ vbar' = vbar \cup {c}
  /\ UNCHANGED <<asleep, event, released, mmu, unmasked, timer, bss>>

EnableLock(c) ==
  /\ At(c, "locking") /\ GoOn(c)
  /\ g_locking' = TRUE
  /\ UNCHANGED <<asleep, event, released, perCore, ready, g_lock>>

\* One slot of the spin table after the other, then DSB and SEV.
ReleaseSlot(c, d) ==
  /\ At(c, "release")
  /\ d \notin released
  /\ \A e \in Cores : e < d => e \in released
  /\ released' = released \cup {d}
  /\ UNCHANGED <<pos, asleep, event, perCore, bss>>

ReleaseDone(c) ==
  /\ At(c, "release") /\ released = Cores
  /\ GoOn(c)
  /\ event' = [d \in Cores |-> TRUE]
  /\ UNCHANGED <<asleep, released, perCore, bss>>

\* The armstub polls the slot of core c.
Leave(c) ==
  /\ At(c, "parked") /\ c \in released
  /\ GoOn(c)
  /\ UNCHANGED <<asleep, event, released, perCore, bss>>

\* core_timer_start(): route, arm and enable the timer, then unmask.
StartTimer(c) ==
  /\ At(c, "timer") /\ GoOn(c)
  /\ timer' = [timer EXCEPT ![c] = "armed"]
  /\ UNCHANGED <<asleep, event, released, mmu, vbar, unmasked, bss>>

Unmask(c) ==
  /\ At(c, "unmask") /\ GoOn(c)
  /\ unmasked' = unmasked \cup {c}
  /\ UNCHANGED <<asleep, event, released, mmu, vbar, timer, bss>>

-----------------------------------------------------------------------------
(* The console lock *)

\* uart_lock(): the exchange wins, or no locking yet ...
Lock(c) ==
  /\ At(c, "lock") /\ ~asleep[c][Running(c)]
  /\ g_locking => ~g_lock
  /\ GoOn(c)
  /\ g_lock' = (g_lock \/ g_locking)
  /\ UNCHANGED <<asleep, event, released, perCore, ready, g_locking>>

\* ... or it finds the lock taken, and the core waits for an event.
Wfe(c) ==
  /\ At(c, "lock") /\ ~asleep[c][Running(c)]
  /\ g_locking /\ g_lock
  /\ asleep' = [asleep EXCEPT ![c][Running(c)] = TRUE]
  /\ UNCHANGED <<pos, event, released, perCore, bss>>

Wake(c) ==
  /\ asleep[c][Running(c)] /\ event[c]
  /\ asleep' = [asleep EXCEPT ![c][Running(c)] = FALSE]
  /\ event' = [event EXCEPT ![c] = FALSE]
  /\ UNCHANGED <<pos, released, perCore, bss>>

\* A line is on its way out as long as its context is at "print".
Printed(c) ==
  /\ At(c, "print") /\ GoOn(c)
  /\ UNCHANGED <<asleep, event, released, perCore, bss>>

\* uart_unlock(): the store, then SEV.
Unlock(c) ==
  /\ At(c, "unlock") /\ GoOn(c)
  /\ g_lock' = (g_lock /\ ~g_locking)
  /\ UNCHANGED <<asleep, event, released, perCore, ready, g_locking>>

\* Mutant: no SEV.
SevNothing(c) ==
  /\ At(c, "sev") /\ GoOn(c)
  /\ UNCHANGED <<asleep, event, released, perCore, bss>>

Sev(c) ==
  /\ At(c, "sev") /\ GoOn(c)
  /\ event' = IF g_locking THEN [d \in Cores |-> TRUE] ELSE event
  /\ UNCHANGED <<asleep, released, perCore, bss>>

-----------------------------------------------------------------------------
(* The timer and its interrupt *)

TimerFires(c) ==
  /\ timer[c] = "armed"
  /\ EarlyTick \/ InAt(c, "thread", "online")
  /\ timer' = [timer EXCEPT ![c] = "fired"]
  /\ UNCHANGED <<pos, asleep, event, released, mmu, vbar, unmasked, bss>>

\* The vector, irq_handler_c() and dispatch(c), which finds CNTPNSIRQ.
IsrEnter(c) ==
  /\ timer[c] = "fired" /\ c \in unmasked /\ pos[c]["isr"] = 0
  /\ pos' = [pos EXCEPT ![c]["isr"] = 1]
  /\ UNCHANGED <<asleep, event, released, perCore, bss>>

\* Mutant: TVAL is not written.
RearmForgets(c) ==
  /\ At(c, "rearm") /\ GoOn(c)
  /\ UNCHANGED <<asleep, event, released, perCore, bss>>

\* timer_set_tval() takes the line back.
Rearm(c) ==
  /\ At(c, "rearm") /\ GoOn(c)
  /\ timer' = [timer EXCEPT ![c] = "armed"]
  /\ UNCHANGED <<asleep, event, released, mmu, vbar, unmasked, bss>>

\* ERET sets the event register.
IsrReturn(c) ==
  /\ At(c, "return")
  /\ pos' = [pos EXCEPT ![c]["isr"] = 0]
  /\ event' = [event EXCEPT ![c] = TRUE]
  /\ UNCHANGED <<asleep, released, perCore, bss>>

-----------------------------------------------------------------------------
\* RAM holds anything until .bss is cleared.
Init ==
  /\ pos = [c \in Cores |-> [x \in Ctx |-> IF x = "thread" THEN 1 ELSE 0]]
  /\ asleep = [c \in Cores |-> [x \in Ctx |-> FALSE]]
  /\ event = [c \in Cores |-> FALSE]
  /\ released = {0}
  /\ mmu = {} /\ vbar = {} /\ unmasked = {}
  /\ timer = [c \in Cores |-> "off"]
  /\ ready \in SUBSET AllReady
  /\ g_lock \in BOOLEAN /\ g_locking \in BOOLEAN

Boot(c) ==
  \/ ClearBss(c)
  \/ \E step \in AllReady : Prepare(c, step)
  \/ MmuEnable(c) \/ InstallVectors(c) \/ EnableLock(c)
  \/ \E d \in Cores : ReleaseSlot(c, d)
  \/ ReleaseDone(c) \/ Leave(c) \/ StartTimer(c) \/ Unmask(c)

Console(c) == Lock(c) \/ Wfe(c) \/ Wake(c) \/ Printed(c) \/ Unlock(c) \/ Sev(c)

Step(c) == Boot(c) \/ Console(c) \/ IsrEnter(c) \/ Rearm(c) \/ IsrReturn(c)

Next == \E c \in Cores : Step(c) \/ TimerFires(c)

Spec == Init /\ [][Next]_vars

\* Every core goes on executing, and its timer goes on counting.
FairSpec == Spec /\ \A c \in Cores : WF_vars(Step(c)) /\ WF_vars(TimerFires(c))

-----------------------------------------------------------------------------
(* Properties *)

TypeOK ==
  /\ pos \in [Cores -> [Ctx -> Nat]]
  /\ \A c \in Cores, x \in Ctx : pos[c][x] <= Len(Program(c, x))
  /\ asleep \in [Cores -> [Ctx -> BOOLEAN]]
  /\ event \in [Cores -> BOOLEAN]
  /\ released \in SUBSET Cores
  /\ mmu \in SUBSET Cores /\ vbar \in SUBSET Cores /\ unmasked \in SUBSET Cores
  /\ timer \in [Cores -> {"off", "armed", "fired"}]
  /\ ready \in SUBSET AllReady
  /\ g_lock \in BOOLEAN /\ g_locking \in BOOLEAN

\* One line at a time is on its way out, of all cores, threads and handlers,
\* the lines that kmain() prints without the lock included.
LinesWhole ==
  \A c, d \in Cores, x, y \in Ctx :
    InAt(c, x, "print") /\ InAt(d, y, "print") => c = d /\ x = y

\* A core takes interrupts only when all that its handler needs is there: its
\* own MMU and vectors, and what core 0 prepares for everyone.
InterruptReady ==
  \A c \in unmasked : c \in mmu /\ c \in vbar /\ ready = AllReady /\ g_locking

\* The exchange on g_lock is exclusive only with the core's MMU on.
LockNeedsMmu ==
  [][\A c \in Cores : Lock(c) /\ g_locking => c \in mmu]_vars

\* No wake-up is lost: when the lock is free, a core that waits for it has an
\* event pending, or one is about to be sent.
NoLostWakeup ==
  ~g_lock => \A c \in Cores : asleep[c][Running(c)] =>
    event[c] \/ \E d \in Cores, x \in Ctx : InAt(d, x, "sev")

\* Whoever takes the console lock gives it back.
LockReleased == g_lock /\ g_locking ~> ~g_lock

\* No core waits for ever in one WFE.
WaiterWakes ==
  \A c \in Cores : asleep[c][Running(c)] ~> ~asleep[c][Running(c)]

\* Ticks go on, and one by one: again and again some core has served its timer
\* and armed it anew, so neither do all handlers wait for each other nor does
\* every core drown in an interrupt that it does not take back.
TicksGoOn == []<>(\E c \in Cores : timer[c] = "armed")
=============================================================================
