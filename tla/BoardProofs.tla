---------------------------- MODULE BoardProofs ----------------------------
(***************************************************************************)
(* Theorems about module I2cBoard: on a board with one core for them, the  *)
(* transport and the dispatcher each see the other as its own module takes *)
(* for granted.  So what is proved of each alone holds of the two at work  *)
(* together.                                                               *)
(***************************************************************************)
EXTENDS I2cBoard, I2cIrqProofs

\* The dispatcher of the board, with what is proved about dispatchers.
IrqP == INSTANCE IrqDispatchProofs WITH
  Cores   <- {Core},
  GpuCore <- Core,
  Devices <- {kBsc1Irq},
  Owner   <- [n \in {kBsc1Irq} |-> Core],
  raised  <- IF Line \/ isr.pc # "idle" THEN {kBsc1Irq} ELSE {},
  thread  <- setup,
  isr     <- vector,
  want    <- asked,
  overlap <- {}

\* The line of the BSC as the dispatcher sees it.
Raised == IF Line \/ isr.pc # "idle" THEN {kBsc1Irq} ELSE {}

LEMMA Wiring == IrqP!DispatchAssumption
  BY BoardAssumption DEF IrqP!DispatchAssumption, Core

LEMMA SameInit == Irq!Init <=> IrqP!Init
  BY DEF Irq!Init, IrqP!Init, Irq!Banks, IrqP!Banks, Irq!kLocalBase, IrqP!kLocalBase,
     Irq!CNTPNSIRQ, IrqP!CNTPNSIRQ, Irq!NotCalled, IrqP!NotCalled, Irq!AtRest, IrqP!AtRest

LEMMA SameThread ==
  ASSUME NEW c
  PROVE  Irq!ThreadStep(c) <=> IrqP!ThreadStep(c)
  BY DEF Irq!ThreadStep, IrqP!ThreadStep, Irq!SetUp, IrqP!SetUp, Irq!DisableRead,
     IrqP!DisableRead, Irq!EnableRead, IrqP!EnableRead, Irq!EnableWrite, IrqP!EnableWrite,
     Irq!DisableWrite, IrqP!DisableWrite, Irq!ThreadAt, IrqP!ThreadAt, Irq!Own, IrqP!Own,
     Irq!BankOf, IrqP!BankOf, Irq!BitOf, IrqP!BitOf, Irq!Bits, IrqP!Bits,
     Irq!NotCalled, IrqP!NotCalled, Irq!hardware, IrqP!hardware, Irq!history,
     IrqP!history, Irq!Wired, IrqP!Wired, Irq!LineOf, IrqP!LineOf, Irq!Overlaps,
     IrqP!Overlaps, Irq!Between, IrqP!Between

LEMMA SameIsr ==
  ASSUME NEW c
  PROVE  Irq!IsrStep(c) <=> IrqP!IsrStep(c)
  BY DEF Irq!IsrStep, IrqP!IsrStep, Irq!IsrEnter, IrqP!IsrEnter, Irq!ReadSource,
     IrqP!ReadSource, Irq!ReadPending1, IrqP!ReadPending1, Irq!ReadPending2,
     IrqP!ReadPending2, Irq!CallHandler, IrqP!CallHandler, Irq!Serves, IrqP!Serves,
     Irq!Source, IrqP!Source, Irq!Pending, IrqP!Pending, Irq!LineOf, IrqP!LineOf,
     Irq!Banks, IrqP!Banks, Irq!GPU, IrqP!GPU, Irq!CoreId, IrqP!CoreId,
     Irq!LocalLines, IrqP!LocalLines, Irq!lowest_set_bit, IrqP!lowest_set_bit,
     Irq!Decide, IrqP!Decide, Irq!Return, IrqP!Return, Irq!AtRest, IrqP!AtRest,
     Irq!kLocalBase, IrqP!kLocalBase, Irq!hardware, IrqP!hardware, Irq!history,
     IrqP!history

LEMMA SameNext == Irq!Next <=> IrqP!Next
<1>1. \A c : Irq!TimerFires(c) <=> IrqP!TimerFires(c)
  BY DEF Irq!TimerFires, IrqP!TimerFires, Irq!CNTPNSIRQ, IrqP!CNTPNSIRQ,
     Irq!history, IrqP!history
<1>2. \A n : (Irq!Raise(n) <=> IrqP!Raise(n)) /\ (Irq!Withdraw(n) <=> IrqP!Withdraw(n))
  BY DEF Irq!Raise, IrqP!Raise, Irq!Withdraw, IrqP!Withdraw, Irq!history, IrqP!history
<1> QED
  BY <1>1, <1>2, SameThread, SameIsr DEF Irq!Next, IrqP!Next

LEMMA SameStep == [Irq!Next]_(Irq!vars) <=> [IrqP!Next]_(IrqP!vars)
  BY SameNext DEF Irq!vars, IrqP!vars, Irq!hardware, IrqP!hardware, Irq!history, IrqP!history

LEMMA SameSafe ==
  /\ Irq!NoStorm <=> IrqP!NoStorm
  /\ Irq!CalledIsPending <=> IrqP!CalledIsPending
  /\ Irq!AsRequested <=> IrqP!AsRequested
<1>1. Irq!NoStorm <=> IrqP!NoStorm
  BY DEF Irq!NoStorm, IrqP!NoStorm
<1>2. Irq!CalledIsPending <=> IrqP!CalledIsPending
  BY DEF Irq!CalledIsPending, IrqP!CalledIsPending, Irq!kLocalBase, IrqP!kLocalBase,
     Irq!Own, IrqP!Own, Irq!BankOf, IrqP!BankOf
<1>3. Irq!AsRequested <=> IrqP!AsRequested
  BY DEF Irq!AsRequested, IrqP!AsRequested, Irq!Lines, IrqP!Lines, Irq!BankOf, IrqP!BankOf,
     Irq!BitOf, IrqP!BitOf, Irq!LineOf, IrqP!LineOf, Irq!On, IrqP!On, Irq!Banks, IrqP!Banks,
     Irq!isEnabled, IrqP!isEnabled
<1> QED
  BY <1>1, <1>2, <1>3

-----------------------------------------------------------------------------
(* The invariant that ties the two together *)

\* handle_irq() runs inside the vector, and has nothing to run for before bus_init().
\* Transfers begin after bus_init(), when its enable() has returned.
Link ==
  /\ isr.pc # "idle" => Calling
  /\ kBsc1Irq \in handlers => thread.pc # "off"
  /\ used > 0 => thread.pc # "off" /\ setup[Core].pc = "idle"
  /\ thread.pc # "off" => \/ kBsc1Irq \in asked
                          \/ setup[Core].pc \in {"enable", "store"}
                             /\ setup[Core].line = kBsc1Irq

BoardInv == TypeOK /\ OwnInv /\ SeamInv /\ Armed /\ IrqP!Inv /\ Link

LEMMA CoreFacts ==
  ASSUME IrqP!Inv
  PROVE  /\ setup = [c \in {Core} |-> setup[Core]]
         /\ vector = [c \in {Core} |-> vector[Core]]
         /\ timers = [c \in {Core} |-> timers[Core]]
         /\ setup[Core].pc \in {"idle", "enable", "store", "clear"}
         /\ vector[Core].pc \in {"idle", "source", "pending1", "pending2", "call"}
         /\ timers[Core] \subseteq {1}
         /\ kBsc1Irq \in Nat /\ kBsc1Irq < IrqP!kLocalBase /\ IrqP!kLocalBase \in Nat
  BY BoardAssumption
     DEF IrqP!Inv, IrqP!TypeOK, IrqP!HandlerInv, IrqP!CNTPNSIRQ, IrqP!kLocalBase

\* dispatch() calls handle_irq() for a line that is up, with the handler installed.
LEMMA CallFacts ==
  ASSUME IrqP!Inv, Calling
  PROVE  /\ Line \/ isr.pc # "idle"
         /\ kBsc1Irq \in handlers
<1>1. IrqP!IsrInv!(Core)
  BY DEF IrqP!Inv, IrqP!IsrInv
<1>2. Calling => IrqP!Own(Core, vector[Core].slot)
  BY DEF Calling, IrqP!Own
<1> QED
  BY <1>1, <1>2, CoreFacts DEF Calling

-----------------------------------------------------------------------------
(* What the steps of the transport do to the rest of the board *)

LEMMA ThreadKeeps ==
  ASSUME TypeOK, ThreadStep \/ Call
  PROVE  /\ isr' = isr
         /\ thread'.pc # "off"
         /\ thread.pc # "off" \/ used' = used
<1>1. CASE ThreadStep
  BY <1>1 DEF ThreadStep, ThreadAccess, Access, Started, CheckPending, CheckDone, WaitForIrq,
     GiveUp, Aborted, TypeOK, ContextType, history
<1>2. CASE Call
  <2>1. CASE BusInit
    BY <2>1 DEF BusInit, TypeOK, ContextType, history
  <2>2. CASE SecondHalf
    BY <2>2 DEF SecondHalf
  <2>3. ASSUME NEW n, NEW reading, NEW m, Blocking(reading, n, m)
        PROVE  isr' = isr /\ thread'.pc # "off" /\ thread.pc # "off"
    BY <2>3 DEF Blocking
  <2>4. ASSUME NEW n, NEW reading, Async(reading, n)
        PROVE  isr' = isr /\ thread'.pc # "off" /\ thread.pc # "off"
    BY <2>4 DEF Async
  <2> QED
    BY <1>2, <2>1, <2>2, <2>3, <2>4 DEF Call
<1> QED
  BY <1>1, <1>2

LEMMA HandlerKeeps ==
  ASSUME TypeOK, OwnInv, IsrStep \/ IsrCall
  PROVE  thread' = thread /\ (used > 0 \/ used' = used)
<1>1. CASE IsrStep
  BY <1>1 DEF IsrStep, IsrEnter, IsrDrain, IsrFill, IsrFail, IsrDone, IsrReturn, IsrAccess,
     IsrPublish, IsrRelease, IsrNoCallback, IsrCallback, IsrCallbackReturn, IsrChained,
     Finalize, Access, history
<1>2. CASE IsrCall
  BY <1>2 DEF IsrCall, IsrChain, OwnInv, AsyncOpen, CurrentIsLast
<1> QED
  BY <1>1, <1>2

\* The controller takes back no interrupt by itself: what it has raised stays up until
\* the handler has served it.
LEMMA LineStays ==
  ASSUME TypeOK, OwnInv, SeamInv, Armed, WireStep \/ WireFault
  PROVE  /\ Line => Line'
         /\ UNCHANGED <<xfer, thread, isr, used>>
<1>1. UNCHANGED <<xfer, thread, isr, used, ctrl>>
  BY DEF WireStep, WireFault, WireByte, WireEnd, WireWedge, driver, history
<1>2. CASE WireByte
  <2>1. /\ TA /\ wire.left > 0 /\ wire' = [wire EXCEPT !.left = @ - 1] /\ stat' = stat
        /\ wire.reading => fifo' = Append(fifo, wire.id)
        /\ ~wire.reading => fifo # <<>> /\ fifo' = Tail(fifo)
    BY <1>2 DEF WireByte, RXD
  <2>2. /\ wire'.id = wire.id /\ wire'.reading = wire.reading
        /\ wire'.left = wire.left - 1 /\ wire.left \in Nat
        /\ fifo \in Seq(0 .. MaxXfers) /\ wire.id \in 0 .. MaxXfers
    BY <2>1, BscAssumption DEF TypeOK, BscTypeOK
  <2>3. wire.reading => Len(fifo') = Len(fifo) + 1
    BY <2>1, <2>2
  <2>4. ~wire.reading => Len(fifo') = Len(fifo) - 1
    BY <2>1, <2>2
  <2>5. Len(fifo) \in Nat /\ TxLow \in Nat /\ RxHigh \in Nat
    BY <2>2, BscAssumption
  <2>6. TXW => TXW'
    BY <2>2, <2>4, <2>5 DEF TXW, TA
  <2>7. RXR => RXR'
    BY <2>2, <2>3, <2>5 DEF RXR, TA
  <2> QED
    BY <1>1, <2>1, <2>6, <2>7 DEF Line
<1>3. ASSUME NEW bits, "DONE" \in bits, WireEnd(bits)
      PROVE  Line'
  <2>1. TA /\ ~wire.wedged /\ "DONE" \in stat'
    BY <1>3 DEF WireEnd
  <2>2. "INTD" \in ctrl
    BY <2>1, WireClocked DEF Armed
  <2> QED
    BY <1>1, <2>1, <2>2 DEF Line
<1>4. CASE WireWedge
  BY <1>1, <1>4 DEF WireWedge, Line, TXW, RXR, TA, TypeOK, BscTypeOK
<1> QED
  BY <1>1, <1>2, <1>3, <1>4 DEF WireStep, WireFault

-----------------------------------------------------------------------------
(* Each sees the other as it takes for granted. *)

\* The handler is at rest whenever the vector is not in its call.
LEMMA HandlerRests == ASSUME Link, ~Calling PROVE isr.pc = "idle"
  BY DEF Link

\* A step of the board is a step of the transport, or none.
LEMMA TransportStep ==
  ASSUME Careful, BoardInv, [BoardNext]_boardVars
  PROVE  [Next]_vars
<1>1. CASE UNCHANGED boardVars
  BY <1>1 DEF boardVars
<1>2. CASE InitBus
  <2>1. BusInit /\ vector[Core].pc = "idle"
    BY <1>2 DEF InitBus, Irq!SetUp, Irq!ThreadAt
  <2> QED
    BY <2>1, HandlerRests DEF BoardInv, Calling, Next, Call, ThreadRuns
<1>3. CASE EnableLine \/ Dispatch \/ TimerIsr \/ TimerFires
  BY <1>3 DEF EnableLine, Dispatch, TimerIsr, TimerFires
<1>4. CASE ThreadGoesOn \/ ThreadCalls \/ Controller \/ Handler
  BY <1>4 DEF ThreadGoesOn, ThreadCalls, Controller, Handler, Next
<1>5. CASE HandleIrq
  <2>1. Line /\ thread.pc # "off"
    BY <1>5, CallFacts DEF HandleIrq, BoardInv, Link
  <2> QED
    BY <1>5, <2>1 DEF HandleIrq, IsrEnter, IsrStep, Next, history
<1> QED
  BY <1>1, <1>2, <1>3, <1>4, <1>5 DEF BoardNext

\* The line of the BSC comes up, or its thread takes the request back, or neither.
LEMMA RaisedStep ==
  ASSUME UNCHANGED board, AtRest \/ (Raised = {kBsc1Irq} => Raised' = {kBsc1Irq})
  PROVE  [Irq!Next]_(Irq!vars)
<1>1. Raised \in {{}, {kBsc1Irq}} /\ Raised' \in {{}, {kBsc1Irq}}
  BY DEF Raised
<1>2. CASE Raised' = Raised
  BY <1>2 DEF board, Irq!vars, Irq!hardware, Irq!history, Raised
<1>3. CASE Raised = {} /\ Raised' = {kBsc1Irq}
  <2>1. Irq!Raise(kBsc1Irq)
    BY <1>3 DEF board, Irq!Raise, Irq!history, Raised
  <2> QED
    BY <2>1 DEF Irq!Next
<1>4. CASE Raised = {kBsc1Irq} /\ Raised' = {}
  <2>1. Irq!Withdraw(kBsc1Irq)
    BY <1>4 DEF board, Irq!Withdraw, Irq!history, Raised, AtRest
  <2> QED
    BY <2>1 DEF Irq!Next
<1> QED
  BY <1>1, <1>2, <1>3, <1>4

\* With its last step handle_irq() returns to dispatch(); the line is down, or up
\* again, or still up.
LEMMA ReturnStep ==
  ASSUME BoardInv, Calling, isr.pc # "idle", isr'.pc = "idle", Irq!Return(Core),
         UNCHANGED <<handlers, enable, timers, asked, setup>>
  PROVE  Irq!Next
<1>1. CASE Raised' = Raised
  BY <1>1 DEF Calling, Irq!Next, Irq!IsrStep, Irq!CallHandler, Irq!hardware, Irq!history, Raised
<1>2. CASE Raised' # Raised
  <2>1. Raised = {kBsc1Irq} /\ Raised' = {}
    BY <1>2 DEF Raised
  <2>2. timers' = [timers EXCEPT ![Core] = @ \ {kBsc1Irq - Irq!kLocalBase}]
    <3>1. kBsc1Irq - Irq!kLocalBase \notin timers[Core]
      BY CoreFacts DEF BoardInv, Irq!kLocalBase, IrqP!kLocalBase
    <3>2. timers[Core] \ {kBsc1Irq - Irq!kLocalBase} = timers[Core]
      BY <3>1
    <3>3. [timers EXCEPT ![Core] = timers[Core]] = timers
      BY CoreFacts DEF BoardInv
    <3> QED
      BY <3>2, <3>3
  <2>3. Irq!Serves(Core)
    BY <2>1, <2>2, CallFacts DEF Irq!Serves, BoardInv, Calling, Raised
  <2> QED
    BY <2>3 DEF Calling, Irq!Next, Irq!IsrStep, Irq!CallHandler, Irq!history
<1> QED
  BY <1>1, <1>2

\* A step of the board is a step of the dispatcher, or none.
LEMMA DispatcherStep ==
  ASSUME Careful, BoardInv, [BoardNext]_boardVars
  PROVE  [Irq!Next]_(Irq!vars)
<1>1. CASE UNCHANGED boardVars
  BY <1>1 DEF boardVars, vars, bscVars, driver, board, Irq!vars, Irq!hardware, Irq!history, Line,
         TXW, RXR, TA
<1>2. CASE InitBus \/ EnableLine \/ Dispatch \/ TimerIsr \/ TimerFires
  BY <1>2 DEF InitBus, EnableLine, Dispatch, TimerIsr, TimerFires, Irq!Next, Irq!ThreadStep,
     Irq!IsrStep
<1>3. CASE ThreadGoesOn \/ ThreadCalls
  BY <1>3, RaisedStep DEF ThreadGoesOn, ThreadCalls, ThreadFree
<1>4. CASE HandleIrq
  <2>1. Raised = {kBsc1Irq} /\ Raised' = {kBsc1Irq} /\ UNCHANGED board
    BY <1>4, CallFacts DEF HandleIrq, BoardInv, Raised, TypeOK, ContextType
  <2> QED
    BY <2>1, RaisedStep
<1>5. CASE Handler
  <2>1. CASE isr'.pc = "idle"
    BY <1>5, <2>1, ReturnStep DEF Handler
  <2>2. CASE isr'.pc # "idle"
    <3>1. Raised' = {kBsc1Irq} /\ UNCHANGED board
      BY <1>5, <2>2 DEF Handler, Raised, board
    <3> QED
      BY <3>1, RaisedStep
  <2> QED
    BY <2>1, <2>2
<1>6. CASE Controller
  <2>1. Raised = {kBsc1Irq} => Raised' = {kBsc1Irq}
    BY <1>6, LineStays DEF Controller, BoardInv, Raised
  <2> QED
    BY <1>6, <2>1, RaisedStep DEF Controller
<1> QED
  BY <1>1, <1>2, <1>3, <1>4, <1>5, <1>6 DEF BoardNext

LEMMA LinkInit == BoardInit => Link
  BY BoardAssumption
     DEF BoardInit, Init, Irq!Init, Link, Irq!kLocalBase, Irq!CNTPNSIRQ

\* A step of the vector that does not concern the transport.
LEMMA VectorLink ==
  ASSUME BoardInv, UNCHANGED vars, UNCHANGED <<handlers, asked, setup>>, ~Calling
  PROVE  Link'
  BY HandlerRests DEF BoardInv, Link, vars, driver, history

LEMMA LinkNext ==
  ASSUME Careful, BoardInv, [BoardNext]_boardVars
  PROVE  Link'
<1> USE DEF BoardInv
<1>1. CASE UNCHANGED boardVars
  BY <1>1 DEF boardVars, vars, driver, history, board, Link, Calling
<1>2. CASE InitBus
  <2>1. BusInit /\ vector[Core].pc = "idle" /\ UNCHANGED <<vector, asked>>
    BY <1>2 DEF InitBus, Irq!SetUp, Irq!ThreadAt, Irq!history
  <2>2. setup'[Core].pc = "enable" /\ setup'[Core].line = kBsc1Irq
    BY <1>2, CoreFacts DEF InitBus, Irq!SetUp
  <2>3. isr' = isr /\ isr.pc = "idle" /\ used' = used /\ ~(used > 0)
    BY <2>1, HandlerRests DEF Calling, BusInit, history, Link
  <2>4. thread'.pc # "off"
    BY <2>1 DEF BusInit, TypeOK, ContextType
  <2> QED
    BY <2>2, <2>3, <2>4 DEF Link
<1>3. CASE EnableLine
  <2>1. UNCHANGED vars /\ UNCHANGED <<handlers, vector>> /\ vector[Core].pc = "idle"
    BY <1>3 DEF EnableLine, Irq!EnableRead, Irq!EnableWrite, Irq!ThreadAt
  <2>2. setup[Core].pc \in {"enable", "store"}
    BY <1>3 DEF EnableLine, Irq!EnableRead, Irq!EnableWrite, Irq!ThreadAt
  <2>3. kBsc1Irq \in asked \/ setup[Core].line = kBsc1Irq \/ thread.pc = "off"
    BY DEF Link
  <2>4. \/ /\ setup'[Core].pc = "store" /\ setup'[Core].line = setup[Core].line
           /\ asked' = asked
        \/ asked' = asked \cup {setup[Core].line}
    BY <1>3 DEF EnableLine, Irq!EnableRead, Irq!EnableWrite, IrqP!Inv, IrqP!TypeOK
  <2>5. ~(used > 0) /\ isr.pc = "idle" /\ UNCHANGED <<isr, thread, used>>
    BY <2>1, <2>2, HandlerRests DEF Link, Calling, vars, driver, history
  <2> QED
    BY <2>1, <2>3, <2>4, <2>5 DEF Link
<1>4. CASE ThreadGoesOn \/ ThreadCalls
  <2>1. /\ ThreadStep \/ Call
        /\ UNCHANGED board /\ vector[Core].pc = "idle" /\ setup[Core].pc = "idle"
        /\ thread.pc # "off"
    BY <1>4 DEF ThreadGoesOn, ThreadCalls, ThreadFree, AtRest, ThreadStep, ThreadAccess,
       Started, CheckPending, CheckDone, WaitForIrq, GiveUp, Aborted
  <2>2. isr' = isr /\ thread'.pc # "off" /\ isr.pc = "idle"
    BY <2>1, ThreadKeeps, HandlerRests DEF Calling
  <2> QED
    BY <2>1, <2>2 DEF Link, board
<1>5. CASE Dispatch \/ TimerIsr
  <2>1. UNCHANGED vars /\ UNCHANGED <<handlers, asked, setup>> /\ ~Calling
    BY <1>5 DEF Dispatch, TimerIsr, Irq!IsrEnter, Irq!ReadSource, Irq!ReadPending1,
       Irq!ReadPending2, Irq!CallHandler, Irq!history, Calling
  <2> QED
    BY <2>1, VectorLink
<1>6. CASE HandleIrq
  BY <1>6 DEF HandleIrq, board, history, Link, Calling
<1>7. CASE Handler
  <2>1. /\ thread' = thread /\ (used > 0 \/ used' = used)
        /\ UNCHANGED <<handlers, asked, setup>>
        /\ isr'.pc # "idle" => UNCHANGED vector
    BY <1>7, HandlerKeeps DEF Handler
  <2> QED
    BY <1>7, <2>1 DEF Handler, Link, Calling
<1>8. CASE Controller
  <2>1. UNCHANGED <<xfer, thread, isr, used>> /\ UNCHANGED board
    BY <1>8, LineStays DEF Controller
  <2> QED
    BY <2>1 DEF Link, board, Calling
<1>9. CASE TimerFires
  BY <1>9 DEF TimerFires, Irq!TimerFires, Irq!history, vars, driver, history, Link, Calling
<1> QED
  BY <1>1, <1>2, <1>3, <1>4, <1>5, <1>6, <1>7, <1>8, <1>9 DEF BoardNext

-----------------------------------------------------------------------------
LEMMA BoardInitInv == ASSUME Careful PROVE BoardInit => BoardInv
<1> SUFFICES ASSUME BoardInit PROVE BoardInv
  OBVIOUS
<1>1. Init /\ IrqP!Init
  BY SameInit DEF BoardInit
<1> QED
  BY <1>1, TypeInit, OwnInit, SeamInit, ArmedInit, LinkInit, Wiring, IrqP!InitInv DEF BoardInv

LEMMA BoardNextInv ==
  ASSUME Careful, BoardInv, [BoardNext]_boardVars
  PROVE  BoardInv'
<1>1. [Next]_vars
  BY TransportStep
<1>2. [IrqP!Next]_(IrqP!vars)
  BY DispatcherStep, SameStep
<1>3. TypeOK' /\ OwnInv' /\ SeamInv' /\ Armed'
  BY <1>1, TypeNext, OwnNext, SeamNext, ArmedNext DEF BoardInv, Careful
<1>4. IrqP!Inv'
  BY <1>2, Wiring, IrqP!NextInv DEF BoardInv
<1> QED
  BY <1>3, <1>4, LinkNext DEF BoardInv

\* The invariant of the board holds in every reachable state.
THEOREM BoardInvariant == ASSUME Careful PROVE BoardSpec => []BoardInv
  BY BoardInitInv, BoardNextInv, PTL DEF BoardSpec

\* dispatch() calls handle_irq() as module I2cIrq takes for granted: while the line
\* is up, never on top of itself, never while the thread runs.  So every theorem
\* about the transport alone holds on the board.
THEOREM TransportOnBoard == ASSUME Careful PROVE BoardSpec => ImplementsTransport
<1>1. BoardInit => Init
  BY DEF BoardInit
<1>2. BoardInv /\ [BoardNext]_boardVars => [Next]_vars
  BY TransportStep
<1> QED
  BY <1>1, <1>2, BoardInvariant, PTL DEF BoardSpec, ImplementsTransport, Spec

\* The transport is a driver as module IrqDispatch takes for granted: it installs its
\* handler before it enables its line, and its line goes down only by its handler or,
\* with no handler under way, by its thread.
THEOREM DispatchOnBoard == ASSUME Careful PROVE BoardSpec => ImplementsDispatch
<1>1. BoardInit => Irq!Init
  BY DEF BoardInit
<1>2. BoardInv /\ [BoardNext]_boardVars => [Irq!Next]_(Irq!vars)
  BY DispatcherStep
<1> QED
  BY <1>1, <1>2, BoardInvariant, PTL DEF BoardSpec, ImplementsDispatch, Irq!Spec

\* No transfer on the board waits for an interrupt that cannot come.
THEOREM AllHeard == ASSUME Careful PROVE BoardSpec => []Heard
<1>1. BoardInv => NoLostInterrupt
  BY NeverStuck DEF BoardInv
<1>2. ASSUME BoardInv, xfer.active
      PROVE  /\ kBsc1Irq \in handlers \cap Irq!On
             /\ Line => Irq!GPU \in Irq!Source(Core)
  <2>1. kBsc1Irq \in asked
    BY <1>2 DEF BoardInv, SeamInv, Active, Link
  <2>2. kBsc1Irq \in IrqP!Lines
    BY BoardAssumption DEF IrqP!Lines
  <2> DEFINE b == IrqP!BankOf(kBsc1Irq)
             bit == IrqP!BitOf(kBsc1Irq)
  <2>3. b \in {1, 2} /\ IrqP!LineOf(b, bit) = kBsc1Irq /\ bit \in enable[b]
    BY <1>2, <2>1, <2>2, Wiring, IrqP!LineFacts
       DEF BoardInv, IrqP!Inv, IrqP!EnableInv, IrqP!Banks
  <2>4. kBsc1Irq \in handlers
    BY <1>2, <2>3 DEF BoardInv, IrqP!Inv, IrqP!HandlerInv, IrqP!Handled, IrqP!Banks
  <2>5. kBsc1Irq \in Irq!On
    <3>1. kBsc1Irq \in Irq!Lines
      BY <2>2 DEF Irq!Lines, IrqP!Lines
    <3>2. b \in Irq!Banks /\ Irq!LineOf(b, bit) = kBsc1Irq
      BY <2>3 DEF Irq!Banks, Irq!LineOf, IrqP!LineOf
    <3> HIDE DEF b, bit
    <3> QED
      BY <2>3, <3>1, <3>2 DEF Irq!On
  <2>6. Line => Irq!GPU \in Irq!Source(Core)
    <3>1. Line => bit \in Irq!Pending(b)
      BY <2>3 DEF Irq!Pending, Irq!LineOf, IrqP!LineOf
    <3> HIDE DEF b, bit
    <3> QED
      BY <2>3, <3>1 DEF Irq!Source, Irq!Banks, Core
  <2> QED
    BY <2>4, <2>5, <2>6
<1>3. BoardInv => Heard
  BY <1>1, <1>2 DEF Heard
<1> QED
  BY <1>3, BoardInvariant, PTL

\* What is proved of the transport alone and what is proved of the dispatcher alone,
\* of both at work together: the transport implements the seam and finalizes, calls
\* back and stores for its own transfer only, and dispatch() calls what needs it.
COROLLARY BoardIsSafe ==
  ASSUME Careful
  PROVE  BoardSpec => /\ ImplementsSeam /\ BufferOwned
                      /\ [](NoneForgotten /\ CallbackOnce /\ InterruptsQuiet)
                      /\ [](Irq!NoStorm /\ Irq!CalledIsPending /\ Irq!AsRequested)
<1>1. Spec => /\ ImplementsSeam /\ BufferOwned
              /\ []NoneForgotten /\ []CallbackOnce /\ []InterruptsQuiet
  BY Implements, BufferSafe, NoTransferForgotten, CalledBackOnce, QuietBetween
     DEF Careful
<1>2. BoardInv => Irq!NoStorm /\ Irq!CalledIsPending /\ Irq!AsRequested
  <2>1. BoardInv => IrqP!NoStorm /\ IrqP!CalledIsPending /\ IrqP!AsRequested
    BY Wiring, IrqP!Safe DEF BoardInv
  <2> QED
    BY <2>1, SameSafe
<1> QED
  BY <1>1, <1>2, TransportOnBoard, BoardInvariant, PTL DEF ImplementsTransport
=============================================================================
