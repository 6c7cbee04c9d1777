------------------------------- MODULE I2cIrq -------------------------------
(***************************************************************************)
(* Bcm2837I2cIrqTransport (inc/i2c_irq.hpp, src/i2c/i2c_irq.cpp): the      *)
(* interrupt-driven I2C transport.  A thread starts a transfer and waits   *)
(* (write, read, write_read) or goes on (write_async, read_async); the     *)
(* interrupt handler moves the bytes between the caller's buffer and the   *)
(* FIFO and finalizes; the controller of module Bsc runs beside both.      *)
(*                                                                         *)
(* Every access to a register of the controller is a step of its own, and  *)
(* a read-modify-write of C is two, so that an interrupt may come between  *)
(* any two of them.  The assignments to the fields of m_xfer at the top of *)
(* start() are one step, and so is one turn of the loop in handle_irq().   *)
(***************************************************************************)
EXTENDS Bsc

CONSTANTS
  Lens,         \* the buffer lengths callers pass
  MaxWaits,     \* m_max_waits, the budget of the watchdog
  OneCore,      \* the handler runs on the thread's core, so it preempts it
  SharedLine,   \* other sources raise IRQ 53 too (BSC0, BSC2)
  Disciplined,  \* callers do not block on a transfer while one is in flight
  Patient,      \* the budget outlasts every transfer the slave will finish,
                \* and callers leave a wedged bus alone
  MayWedge      \* a slave may wedge the bus

ASSUME IrqAssumption ==
  /\ Lens \subseteq Nat \ {0}
  /\ MaxWaits \in Nat
  /\ OneCore \in BOOLEAN /\ SharedLine \in BOOLEAN /\ Disciplined \in BOOLEAN
  /\ Patient \in BOOLEAN /\ MayWedge \in BOOLEAN

VARIABLES
  xfer,      \* m_xfer; id numbers the transfer, n and i stand for tn/rn, ti/ri
  thread,    \* the thread: where it is and the call it is executing
  isr,       \* the handler: where it is, the result and transfer it finalizes
  prog, at,  \* per context: the register program it executes, the next step
  word,      \* per context: the value of C read by a read-modify-write
  used,      \* the number of transfers begun so far (history)
  want,      \* per transfer: the bytes asked for (history)
  moved,     \* per transfer: its bytes that reached the far end (history)
  outcome,   \* per transfer: what its caller was told (history)
  cbs        \* per transfer: how often its callback ran (history)

driver  == <<xfer, thread, isr, prog, at, word>>
history == <<used, want, moved, outcome, cbs>>
vars    == <<bscVars, driver, history>>

Ctx     == {"thread", "isr"}
Results == {"Ok", "Nack", "ClockTimeout", "Timeout"}
NoWord  == {"none"}   \* no read-modify-write is half way

\* Xfer{}: the default member initialisers, and no transfer.
NoXfer == [id |-> 0, reading |-> FALSE, n |-> 0, i |-> 0, done |-> FALSE,
           result |-> "Timeout", async |-> FALSE, cb |-> FALSE,
           active |-> FALSE]

-----------------------------------------------------------------------------
(* The register programs of start(), finalize() and abort_transfer().      *)
(* set_control() clears the field and ORs in the value: two updates of C.  *)

Clr(f) == RmwOp({f}, {})
Set(f) == RmwOp({}, {f})

\* Mutants of the programs: no INTT and INTR, or the one for the other; finalize()
\* forgets DONE and INTD, or INTR; abort_transfer() forgets DONE and the FIFO.
StartProgDoneOnly(reading) ==
  LET dir == IF reading THEN Set("READ") ELSE RmwOp({}, {})
  IN <<Clr("CLEAR"), Set("CLEAR"),
       W1cOp("DONE"), W1cOp("ERR"), W1cOp("CLKT"), DlenOp,
       Clr("INTD"), Set("INTD"),
       Clr("I2CEN"), Set("I2CEN"), Clr("READ"), dir, Clr("ST"), Set("ST")>>
StartProgSwapped(reading) ==
  LET int == IF reading THEN "INTT" ELSE "INTR"
      dir == IF reading THEN Set("READ") ELSE RmwOp({}, {})
  IN <<Clr("CLEAR"), Set("CLEAR"),
       W1cOp("DONE"), W1cOp("ERR"), W1cOp("CLKT"), DlenOp,
       Clr(int), Set(int), Clr("INTD"), Set("INTD"),
       Clr("I2CEN"), Set("I2CEN"), Clr("READ"), dir, Clr("ST"), Set("ST")>>
FinalizeProgKeepsDone ==
  <<W1cOp("ERR"), W1cOp("CLKT"), Clr("INTT"), Clr("INTR")>>
FinalizeProgKeepsIntr ==
  <<W1cOp("DONE"), W1cOp("ERR"), W1cOp("CLKT"), Clr("INTD"), Clr("INTT")>>
AbortProgForgetful == <<Clr("INTT"), Clr("INTR")>>

StartProg(reading) ==
  LET int == IF reading THEN "INTR" ELSE "INTT"
      dir == IF reading THEN Set("READ") ELSE RmwOp({}, {})
  IN <<Clr("CLEAR"), Set("CLEAR"),
       W1cOp("DONE"), W1cOp("ERR"), W1cOp("CLKT"), DlenOp,
       Clr(int), Set(int), Clr("INTD"), Set("INTD"),
       Clr("I2CEN"), Set("I2CEN"), Clr("READ"), dir, Clr("ST"), Set("ST")>>

FinalizeProg ==
  <<W1cOp("DONE"), W1cOp("ERR"), W1cOp("CLKT"),
    Clr("INTD"), Clr("INTT"), Clr("INTR")>>

AbortProg ==
  <<Clr("INTD"), Clr("INTT"), Clr("INTR"), Clr("CLEAR"), Set("CLEAR"),
    W1cOp("DONE"), W1cOp("ERR"), W1cOp("CLKT")>>

ProgNames == {"none", "startRead", "startWrite", "finalize", "abort"}
Program(p) == CASE p = "startRead"  -> StartProg(TRUE)
                [] p = "startWrite" -> StartProg(FALSE)
                [] p = "finalize"   -> FinalizeProg
                [] p = "abort"      -> AbortProg
                [] p = "none"       -> <<>>

\* Load and leave a program; Ended: its last step was made.
Load(c, p) ==
  /\ prog' = [prog EXCEPT ![c] = p]
  /\ at' = [at EXCEPT ![c] = 1]
  /\ UNCHANGED word
Unload(c) == Load(c, "none")
Ended(c) == at[c] > Len(Program(prog[c]))

Advance(c) ==
  /\ at' = [at EXCEPT ![c] = @ + 1]
  /\ word' = [word EXCEPT ![c] = NoWord]

\* One register access of context c.
Access(c) ==
  /\ ~Ended(c)
  /\ LET op == Program(prog[c])[at[c]] IN
     \/ /\ op.k = "rmw" /\ word[c] = NoWord
        /\ word' = [word EXCEPT ![c] = ctrl]
        /\ UNCHANGED <<bscVars, at>>
     \/ /\ op.k = "rmw" /\ word[c] # NoWord
        /\ StoreC((word[c] \ op.off) \cup op.on, xfer.id)
        /\ Advance(c)
     \/ op.k = "w1c" /\ ClrStatus(op.off) /\ Advance(c)
     \/ op.k = "dlen" /\ DataLength(xfer.n) /\ Advance(c)
  /\ UNCHANGED <<xfer, thread, isr, prog, history>>

-----------------------------------------------------------------------------
(* start(): m_xfer is overwritten, whatever it held; then the registers.   *)

\* Mutant: done keeps its value from the transfer before.
StartKeepsDone(c, reading, n, async) ==
  /\ used < MaxXfers
  /\ Patient => ~wire.wedged
  /\ used' = used + 1
  /\ want' = [want EXCEPT ![used + 1] = n]
  /\ xfer' = [xfer EXCEPT !.id = used + 1, !.reading = reading, !.n = n,
                          !.i = 0, !.async = async, !.cb = async,
                          !.active = TRUE]
  /\ Load(c, IF reading THEN "startRead" ELSE "startWrite")
  /\ UNCHANGED <<bscVars, moved, outcome, cbs>>

Start(c, reading, n, async) ==
  /\ used < MaxXfers
  /\ Patient => ~wire.wedged
  /\ used' = used + 1
  /\ want' = [want EXCEPT ![used + 1] = n]
  /\ xfer' = [NoXfer EXCEPT !.id = used + 1, !.reading = reading, !.n = n,
                            !.async = async, !.cb = async, !.active = TRUE]
  /\ Load(c, IF reading THEN "startRead" ELSE "startWrite")
  /\ UNCHANGED <<bscVars, moved, outcome, cbs>>

\* What the caller of transfer id is told.
Report(id, result) ==
  outcome' = [outcome EXCEPT ![id] = result]

-----------------------------------------------------------------------------
(* The thread. *)

\* On one core the thread makes no step while the handler runs.
ThreadRuns == OneCore => isr.pc = "idle"

\* Bus set up, interrupt handler installed, IRQ 53 enabled.
BusInit ==
  /\ thread.pc = "off"
  /\ ctrl' = ctrl \cup {"I2CEN"}
  /\ thread' = [thread EXCEPT !.pc = "idle"]
  /\ UNCHANGED <<stat, dlen, fifo, wire, xfer, isr, prog, at, word, history>>

\* write() and read(); second is the length write_read() then reads, or 0.
Blocking(reading, n, second) ==
  /\ thread.pc = "idle"
  /\ Disciplined => ~xfer.active
  /\ second > 0 => used + 2 <= MaxXfers
  /\ Start("thread", reading, n, FALSE)
  /\ thread' = [pc |-> "start", id |-> used + 1, waits |-> 0, second |-> second]
  /\ UNCHANGED isr

\* Mutant: no test of m_xfer.active.
AsyncUnguarded(reading, n) ==
  /\ thread.pc = "idle"
  /\ Start("thread", reading, n, TRUE)
  /\ thread' = [pc |-> "kick", id |-> used + 1, waits |-> 0, second |-> 0]
  /\ UNCHANGED isr

\* write_async() and read_async(), refused (BadArg) while one is in flight.
Async(reading, n) ==
  /\ thread.pc = "idle"
  /\ ~xfer.active
  /\ Start("thread", reading, n, TRUE)
  /\ thread' = [pc |-> "kick", id |-> used + 1, waits |-> 0, second |-> 0]
  /\ UNCHANGED isr

\* The end of start().
Started ==
  /\ thread.pc \in {"start", "kick"} /\ Ended("thread")
  /\ Unload("thread")
  /\ thread' = [thread EXCEPT !.pc = IF @ = "start" THEN "check" ELSE "idle"]
  /\ UNCHANGED <<bscVars, xfer, isr, history>>

\* wait_complete(): another turn of the loop finds done still clear ...
CheckPending ==
  /\ thread.pc = "check" /\ thread.waits < MaxWaits /\ ~xfer.done
  /\ thread' = [thread EXCEPT !.pc = "wait"]
  /\ UNCHANGED <<bscVars, xfer, isr, prog, at, word, history>>

\* ... or set: the call returns.  write_read() goes on to read after an Ok.
CheckDone ==
  /\ thread.pc = "check" /\ thread.waits < MaxWaits /\ xfer.done
  /\ Report(thread.id, xfer.result)
  /\ thread' = [thread EXCEPT
                  !.pc = IF xfer.result = "Ok" /\ thread.second > 0
                         THEN "second" ELSE "idle"]
  /\ UNCHANGED <<bscVars, xfer, isr, prog, at, word, used, want, moved, cbs>>

SecondHalf ==
  /\ thread.pc = "second"
  /\ Start("thread", TRUE, thread.second, FALSE)
  /\ thread' = [pc |-> "start", id |-> used + 1, waits |-> 0, second |-> 0]
  /\ UNCHANGED isr

\* Mutant: the watchdog does not count.
WaitForIrqUncounted ==
  /\ thread.pc = "wait"
  /\ thread' = [thread EXCEPT !.pc = "check"]
  /\ UNCHANGED <<bscVars, xfer, isr, prog, at, word, history>>

\* wait_for_irq() returns: at once in a hosted build; on bare metal WFI ends
\* with the next interrupt, at the latest that of the timer.
WaitForIrq ==
  /\ thread.pc = "wait"
  /\ thread' = [thread EXCEPT !.pc = "check", !.waits = @ + 1]
  /\ UNCHANGED <<bscVars, xfer, isr, prog, at, word, history>>

\* The budget is spent: abort_transfer().
GiveUp ==
  /\ thread.pc = "check" /\ thread.waits >= MaxWaits
  /\ Patient => ~TA \/ wire.wedged
  /\ Load("thread", "abort")
  /\ thread' = [thread EXCEPT !.pc = "abort"]
  /\ UNCHANGED <<bscVars, xfer, isr, history>>

Aborted ==
  /\ thread.pc = "abort" /\ Ended("thread")
  /\ Unload("thread")
  /\ xfer' = [xfer EXCEPT !.active = FALSE]
  /\ Report(thread.id, "Timeout")
  /\ thread' = [thread EXCEPT !.pc = "idle"]
  /\ UNCHANGED <<bscVars, isr, used, want, moved, cbs>>

ThreadAccess == thread.pc \in {"start", "kick", "abort"} /\ Access("thread")

\* What the thread does by itself once a call has begun.
ThreadStep == ThreadRuns /\
  (ThreadAccess \/ Started \/ CheckPending \/ CheckDone \/ WaitForIrq
                \/ GiveUp \/ Aborted)

\* What callers decide to do.
Call == ThreadRuns /\
  \/ BusInit
  \/ SecondHalf
  \/ \E n \in Lens, reading \in BOOLEAN :
       Blocking(reading, n, 0) \/ Async(reading, n)
  \/ \E n, m \in Lens : Blocking(FALSE, n, m)

-----------------------------------------------------------------------------
(* The interrupt handler: handle_irq() and finalize(). *)

IsrEnter ==
  /\ thread.pc # "off" /\ isr.pc = "idle"
  /\ Line \/ SharedLine
  /\ isr' = [isr EXCEPT !.pc = "loop"]
  /\ UNCHANGED <<bscVars, xfer, thread, prog, at, word, history>>

\* One turn of the loop reads S.  A byte may move towards the FIFO or out
\* of it; neither does after an error.
Failing  == {"ERR", "CLKT"} \cap stat # {}
MayDrain == xfer.reading /\ RXD /\ xfer.i < xfer.n
MayFill  == ~xfer.reading /\ TXD /\ xfer.i < xfer.n

IsrDrain ==
  /\ isr.pc = "loop" /\ ~Failing /\ MayDrain
  /\ ReadByte
  /\ xfer' = [xfer EXCEPT !.i = @ + 1]
  /\ moved' = IF Head(fifo) = xfer.id
              THEN [moved EXCEPT ![xfer.id] = @ + 1] ELSE moved
  /\ UNCHANGED <<thread, isr, prog, at, word, used, want, outcome, cbs>>

IsrFill ==
  /\ isr.pc = "loop" /\ ~Failing /\ MayFill
  /\ WriteByte(xfer.id)
  /\ xfer' = [xfer EXCEPT !.i = @ + 1]
  /\ UNCHANGED <<thread, isr, prog, at, word, history>>

Finalize(result) ==
  /\ isr' = [pc |-> "finalize", result |-> result]
  /\ Load("isr", "finalize")
  /\ UNCHANGED <<bscVars, xfer, thread, history>>

IsrFail ==
  /\ isr.pc = "loop" /\ Failing
  /\ Finalize(IF "ERR" \in stat THEN "Nack" ELSE "ClockTimeout")

IsrDone ==
  /\ isr.pc = "loop" /\ ~Failing /\ ~MayDrain /\ ~MayFill
  /\ "DONE" \in stat
  /\ Finalize(IF xfer.reading /\ xfer.i # xfer.n THEN "Timeout" ELSE "Ok")

\* Nothing to move and not done: wait for the next interrupt.
IsrReturn ==
  /\ isr.pc = "loop" /\ ~Failing /\ ~MayDrain /\ ~MayFill
  /\ "DONE" \notin stat
  /\ isr' = [isr EXCEPT !.pc = "idle"]
  /\ UNCHANGED <<bscVars, xfer, thread, prog, at, word, history>>

\* The rest of finalize(), one store to m_xfer at a time.
IsrPublish ==
  /\ isr.pc = "finalize" /\ Ended("isr")
  /\ Unload("isr")
  /\ xfer' = [xfer EXCEPT !.result = isr.result, !.done = TRUE]
  /\ isr' = [isr EXCEPT !.pc = "release"]
  /\ UNCHANGED <<bscVars, thread, history>>

IsrRelease ==
  /\ isr.pc = "release"
  /\ xfer' = [xfer EXCEPT !.active = FALSE]
  /\ isr' = [isr EXCEPT !.pc = "callback"]
  /\ UNCHANGED <<bscVars, thread, prog, at, word, history>>

IsrNoCallback ==
  /\ isr.pc = "callback" /\ ~xfer.cb
  /\ isr' = [isr EXCEPT !.pc = "idle"]
  /\ UNCHANGED <<bscVars, xfer, thread, prog, at, word, history>>

\* cb is cleared, then called; it may start the next transfer.
IsrCallback ==
  /\ isr.pc = "callback" /\ xfer.cb
  /\ xfer' = [xfer EXCEPT !.cb = FALSE]
  /\ Report(xfer.id, isr.result)
  /\ cbs' = [cbs EXCEPT ![xfer.id] = @ + 1]
  /\ isr' = [isr EXCEPT !.pc = "user"]
  /\ UNCHANGED <<bscVars, thread, prog, at, word, used, want, moved>>

IsrCallbackReturn ==
  /\ isr.pc = "user"
  /\ isr' = [isr EXCEPT !.pc = "idle"]
  /\ UNCHANGED <<bscVars, xfer, thread, prog, at, word, history>>

IsrChain(reading, n) ==
  /\ isr.pc = "user"
  /\ ~xfer.active
  /\ Start("isr", reading, n, TRUE)
  /\ isr' = [isr EXCEPT !.pc = "kick"]
  /\ UNCHANGED thread

\* Mutant: cb is called first and cleared when it has returned.
IsrChainedThenClears ==
  /\ isr.pc = "kick" /\ Ended("isr")
  /\ Unload("isr")
  /\ xfer' = [xfer EXCEPT !.cb = FALSE]
  /\ isr' = [isr EXCEPT !.pc = "idle"]
  /\ UNCHANGED <<bscVars, thread, history>>

IsrChained ==
  /\ isr.pc = "kick" /\ Ended("isr")
  /\ Unload("isr")
  /\ isr' = [isr EXCEPT !.pc = "idle"]
  /\ UNCHANGED <<bscVars, xfer, thread, history>>

IsrAccess == isr.pc \in {"finalize", "kick"} /\ Access("isr")

IsrStep ==
  \/ IsrEnter \/ IsrDrain \/ IsrFill \/ IsrFail \/ IsrDone \/ IsrReturn
  \/ IsrAccess \/ IsrPublish \/ IsrRelease \/ IsrNoCallback \/ IsrCallback
  \/ IsrCallbackReturn \/ IsrChained

IsrCall == \E n \in Lens, reading \in BOOLEAN : IsrChain(reading, n)

-----------------------------------------------------------------------------
(* The controller.  A byte of a write counts when it is clocked out. *)

WireStep ==
  /\ \/ /\ WireByte
        /\ moved' = IF ~wire.reading /\ Head(fifo) = wire.id
                    THEN [moved EXCEPT ![wire.id] = @ + 1] ELSE moved
     \/ /\ WireEnd({"DONE"})
        /\ UNCHANGED moved
  /\ UNCHANGED <<driver, used, want, outcome, cbs>>

WireFault ==
  /\ \/ WireEnd({"ERR", "DONE"}) \/ WireEnd({"CLKT", "DONE"})
     \/ MayWedge /\ WireWedge
  /\ UNCHANGED <<driver, history>>

-----------------------------------------------------------------------------
Init ==
  /\ BscInit
  /\ xfer = NoXfer
  /\ thread = [pc |-> "off", id |-> 0, waits |-> 0, second |-> 0]
  /\ isr = [pc |-> "idle", result |-> "Ok"]
  /\ prog = [c \in Ctx |-> "none"]
  /\ at = [c \in Ctx |-> 1]
  /\ word = [c \in Ctx |-> NoWord]
  /\ used = 0
  /\ want = [id \in Ids |-> 0]
  /\ moved = [id \in Ids |-> 0]
  /\ outcome = [id \in Ids |-> "none"]
  /\ cbs = [id \in Ids |-> 0]

Next == ThreadStep \/ Call \/ IsrStep \/ IsrCall \/ WireStep \/ WireFault

Spec == Init /\ [][Next]_vars

\* Cores execute, a pending interrupt is taken, the controller clocks; callers
\* owe nothing, and neither does a slave.
FairSpec == Spec /\ WF_vars(ThreadStep) /\ WF_vars(IsrStep)
                 /\ WF_vars(WireStep) /\ WF_vars(ThreadRuns /\ SecondHalf)

-----------------------------------------------------------------------------
(* Properties *)

XferType ==
  /\ xfer \in [id : 0 .. MaxXfers, reading : BOOLEAN, n : Nat, i : Nat,
               done : BOOLEAN, result : Results, async : BOOLEAN,
               cb : BOOLEAN, active : BOOLEAN]
  /\ xfer.i <= xfer.n
ContextType ==
  /\ thread \in [pc : {"off", "idle", "start", "kick", "check", "wait", "abort",
                       "second"},
                 id : 0 .. MaxXfers, waits : Nat, second : Nat]
  /\ isr \in [pc : {"idle", "loop", "finalize", "release", "callback", "user",
                    "kick"},
              result : Results]
ProgType ==
  /\ prog \in [Ctx -> ProgNames]
  /\ at \in [Ctx -> Nat \ {0}]
  /\ word \in [Ctx -> (SUBSET CtrlBits) \cup {NoWord}]
HistoryType ==
  /\ used \in 0 .. MaxXfers
  /\ want \in [Ids -> Nat]
  /\ moved \in [Ids -> Nat]
  /\ outcome \in [Ids -> Results \cup {"none"}]
  /\ cbs \in [Ids -> Nat]

\* The types; among them, ti and ri never pass the end of the caller's buffer.
TypeOK == BscTypeOK /\ XferType /\ ContextType /\ ProgType /\ HistoryType

\* start() overwrites m_xfer only after the caller of the transfer it held
\* was told how that one ended: no caller is forgotten.
NoneForgotten == \A id \in 1 .. used : id # xfer.id => outcome[id] # "none"

\* finalize() calls an asynchronous caller back once, and as long as it has
\* not, m_xfer still knows whom to call.
CallbackOnce ==
  /\ \A id \in Ids : cbs[id] <= 1
  /\ xfer.async => (xfer.cb <=> outcome[xfer.id] = "none")

\* A transfer reported Ok put every byte of its own buffer on the bus, or
\* got every byte from it: none of another transfer, none missing.
OkMeansMoved == \A id \in Ids : outcome[id] = "Ok" => moved[id] = want[id]

\* With no transfer in flight the interrupts of the controller are off.
InterruptsQuiet ==
  ~xfer.active /\ isr.pc = "idle" /\ thread.pc # "abort"
    => ctrl \cap IntBits = {}

\* The handler and the controller do not wait for each other: while a transfer is
\* active and nobody starts, handles or aborts it, the controller can go on by
\* itself, or the line is up and brings the handler back, or the bus is wedged.
NoLostInterrupt ==
  xfer.active /\ isr.pc = "idle" /\ thread.pc \notin {"start", "kick", "abort"}
    => \/ TA /\ (wire.left = 0 \/ IF wire.reading THEN TXD ELSE RXD)
       \/ Line
       \/ wire.wedged

\* handle_irq() stores into a caller's buffer only until the call returned.
BufferOwned == [][IsrDrain => outcome[xfer.id] = "none"]_vars

\* abort_transfer() is for a transfer that did not complete.
TimeoutHonest == [][GiveUp => ~xfer.done]_vars

\* A blocking call returns, also on a wedged bus.
SyncReturns == thread.pc = "start" ~> thread.pc \in {"idle", "second"}

\* An asynchronous transfer completes and its caller is called back, unless a
\* slave wedges the bus: an asynchronous transfer has no watchdog.
AsyncCompletes == \A id \in Ids :
  xfer.id = id /\ xfer.async ~> cbs[id] = 1 \/ wire.wedged

\* The transport implements the seam: a transfer is open from start() until
\* its caller is told the result.
Seam == INSTANCE I2cTransport WITH
  Xfers  <- Ids,
  Sizes  <- Lens,
  status <- [id \in Ids |-> IF outcome[id] # "none" THEN outcome[id]
                            ELSE IF id <= used THEN "open" ELSE "new"],
  size   <- want,
  count  <- moved

ImplementsSeam == Seam!Spec

=============================================================================
