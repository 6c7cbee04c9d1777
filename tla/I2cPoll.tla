------------------------------ MODULE I2cPoll ------------------------------
(***************************************************************************)
(* Bcm2837I2cTransport (inc/i2c_bus.hpp, src/i2c/i2c_bus.cpp): the polling *)
(* I2C transport.  One thread primes the controller of module Bsc, starts  *)
(* it and spins on the Status register; the controller runs beside it and  *)
(* may move between any two accesses.                                      *)
(*                                                                         *)
(* No interrupt is enabled and nothing else writes C, so a whole           *)
(* set_control() is one step.                                              *)
(***************************************************************************)
EXTENDS Bsc

CONSTANTS
  Lens,      \* the buffer lengths callers pass
  MaxSpins,  \* m_max_spins, the budget of a call
  Patient,   \* the budget outlasts every transfer the slave will finish, and
             \* callers leave a wedged bus alone
  MayWedge   \* a slave may wedge the bus

ASSUME PollAssumption ==
  /\ Lens \subseteq Nat \ {0}
  /\ MaxSpins \in Nat
  /\ Patient \in BOOLEAN /\ MayWedge \in BOOLEAN

VARIABLES
  call,      \* the call: where it is, its transfer, direction, length, index i,
             \* spins so far, and the read that write_read() has still to do
  snap,      \* s, the bits poll_status() returned
  used,      \* the number of transfers begun so far (history)
  want,      \* per transfer: the bytes asked for (history)
  moved,     \* per transfer: its bytes that reached the far end (history)
  outcome    \* per transfer: what its caller was told (history)

history == <<used, want, moved, outcome>>
vars == <<bscVars, call, snap, history>>

Results == {"Ok", "Nack", "ClockTimeout", "Timeout"}
NoCall  == [pc |-> "idle", id |-> 0, reading |-> FALSE, n |-> 0, i |-> 0,
            k |-> 1, spin |-> 0, second |-> 0]

SetC(f) == RmwOp({f}, {f})

\* Mutants: DONE, or ERR, is not cleared.
PrimeKeepsDone(reading) ==
  <<SetC("CLEAR"), W1cOp("ERR"), W1cOp("CLKT"), DlenOp, SetC("I2CEN"),
    IF reading THEN SetC("READ") ELSE RmwOp({"READ"}, {}), SetC("ST")>>
PrimeKeepsErr(reading) ==
  <<SetC("CLEAR"), W1cOp("DONE"), W1cOp("CLKT"), DlenOp, SetC("I2CEN"),
    IF reading THEN SetC("READ") ELSE RmwOp({"READ"}, {}), SetC("ST")>>

\* prime(), then start_read() or start_write().
Prime(reading) ==
  <<SetC("CLEAR"), W1cOp("DONE"), W1cOp("ERR"), W1cOp("CLKT"), DlenOp,
    SetC("I2CEN"), IF reading THEN SetC("READ") ELSE RmwOp({"READ"}, {}),
    SetC("ST")>>

\* write() and read() begin; the arguments are valid (BadArg changes nothing).
Begin(reading, n, second) ==
  /\ used < MaxXfers
  /\ Patient => ~wire.wedged
  /\ used' = used + 1
  /\ want' = [want EXCEPT ![used + 1] = n]
  /\ call' = [NoCall EXCEPT !.pc = "prime", !.id = used + 1,
                            !.reading = reading, !.n = n, !.second = second]
  /\ UNCHANGED <<bscVars, snap, moved, outcome>>

Call ==
  /\ call.pc = "idle"
  /\ \/ \E n \in Lens, reading \in BOOLEAN : Begin(reading, n, 0)
     \/ \E n, m \in Lens : used + 2 <= MaxXfers /\ Begin(FALSE, n, m)

\* write_read() after an Ok.
SecondHalf == call.pc = "second" /\ Begin(TRUE, call.second, 0)

PrimeStep ==
  /\ call.pc = "prime" /\ call.k <= Len(Prime(call.reading))
  /\ LET op == Prime(call.reading)[call.k] IN
     \/ op.k = "rmw" /\ StoreC((ctrl \ op.off) \cup op.on, call.id)
     \/ op.k = "w1c" /\ ClrStatus(op.off)
     \/ op.k = "dlen" /\ DataLength(call.n)
  /\ call' = [call EXCEPT !.k = @ + 1]
  /\ UNCHANGED <<snap, history>>

Primed ==
  /\ call.pc = "prime" /\ call.k > Len(Prime(call.reading))
  /\ call' = [call EXCEPT !.pc = "poll"]
  /\ UNCHANGED <<bscVars, snap, history>>

-----------------------------------------------------------------------------
(* The loop: poll_status(), then act on what it returned. *)

Status == stat \cup (IF TXD THEN {"TXD"} ELSE {}) \cup (IF RXD THEN {"RXD"} ELSE {})

\* A patient budget is not spent while the controller can still make progress.
Spent == call.spin >= MaxSpins /\ (Patient => wire.wedged)

PollStatus ==
  /\ call.pc = "poll" /\ ~Spent
  /\ snap' = Status
  /\ call' = [call EXCEPT !.pc = "act"]
  /\ UNCHANGED <<bscVars, history>>

\* Mutant: a turn that moves a byte or finds nothing is not counted.
SpinFree == call' = [call EXCEPT !.pc = "poll"]

\* The next turn of the loop (the counter stops at the bound of the model).
Spin ==
  call' = [call EXCEPT !.pc = "poll",
                       !.spin = IF @ < MaxSpins THEN @ + 1 ELSE @]
\* The same, with one more byte handled.
SpinMoved ==
  call' = [call EXCEPT !.pc = "poll", !.i = @ + 1,
                       !.spin = IF @ < MaxSpins THEN @ + 1 ELSE @]

Return(result) ==
  /\ outcome' = [outcome EXCEPT ![call.id] = result]
  /\ call' = [call EXCEPT !.pc = IF result = "Ok" /\ call.second > 0
                                 THEN "second" ELSE "idle"]
  /\ UNCHANGED <<bscVars, snap, used, want, moved>>

Failing  == {"ERR", "CLKT"} \cap snap # {}
MayFeed  == ~call.reading /\ "TXD" \in snap /\ call.i < call.n
\* Mutant: the FIFO is not drained once DONE is set.
DrainUnlessDone == call.reading /\ "RXD" \in snap /\ call.i < call.n
                    /\ "DONE" \notin snap
MayDrain == call.reading /\ "RXD" \in snap /\ call.i < call.n

\* classify(): ERR wins over CLKT.
Fail ==
  /\ call.pc = "act" /\ Failing
  /\ Return(IF "ERR" \in snap THEN "Nack" ELSE "ClockTimeout")

Feed ==
  /\ call.pc = "act" /\ ~Failing /\ MayFeed
  /\ WriteByte(call.id)
  /\ SpinMoved
  /\ UNCHANGED <<snap, history>>

\* A FIFO that was emptied since poll_status() yields a byte of no transfer.
Drain ==
  /\ call.pc = "act" /\ ~Failing /\ MayDrain
  /\ IF RXD THEN ReadByte ELSE UNCHANGED bscVars
  /\ moved' = IF RXD /\ Head(fifo) = call.id
              THEN [moved EXCEPT ![call.id] = @ + 1] ELSE moved
  /\ SpinMoved
  /\ UNCHANGED <<snap, used, want, outcome>>

Done ==
  /\ call.pc = "act" /\ ~Failing /\ ~MayFeed /\ ~MayDrain /\ "DONE" \in snap
  /\ Return(IF call.reading /\ call.i < call.n THEN "Timeout" ELSE "Ok")

Nothing ==
  /\ call.pc = "act" /\ ~Failing /\ ~MayFeed /\ ~MayDrain /\ "DONE" \notin snap
  /\ Spin
  /\ UNCHANGED <<bscVars, snap, history>>

\* The budget is spent; the controller is left as it is.
GiveUp ==
  /\ call.pc = "poll" /\ Spent
  /\ Return("Timeout")

CallStep == PrimeStep \/ Primed \/ PollStatus \/ Fail \/ Feed \/ Drain \/ Done
            \/ Nothing \/ GiveUp

-----------------------------------------------------------------------------
(* The controller.  A byte of a write counts when it is clocked out. *)

WireStep ==
  /\ \/ /\ WireByte
        /\ moved' = IF ~wire.reading /\ Head(fifo) = wire.id
                    THEN [moved EXCEPT ![wire.id] = @ + 1] ELSE moved
     \/ /\ WireEnd({"DONE"}) \/ WireEnd({"ERR", "DONE"})
                             \/ WireEnd({"CLKT", "DONE"})
        /\ UNCHANGED moved
     \/ /\ MayWedge /\ WireWedge
        /\ UNCHANGED moved
  /\ UNCHANGED <<call, snap, used, want, outcome>>

-----------------------------------------------------------------------------
\* After bus_init().
Init ==
  /\ ctrl = {"I2CEN"} /\ stat = {} /\ dlen = 0 /\ fifo = <<>>
  /\ wire = IdleWire
  /\ call = NoCall
  /\ snap = {}
  /\ used = 0
  /\ want = [id \in Ids |-> 0]
  /\ moved = [id \in Ids |-> 0]
  /\ outcome = [id \in Ids |-> "none"]

Next == Call \/ SecondHalf \/ CallStep \/ WireStep

Spec == Init /\ [][Next]_vars

\* The thread runs, and the controller goes on with a transfer until it ends or
\* the slave wedges it.
FairSpec == Spec /\ WF_vars(CallStep) /\ WF_vars(WireStep)

-----------------------------------------------------------------------------
(* Properties *)

\* The types; among them, i never passes the end of the caller's buffer.
TypeOK ==
  /\ BscTypeOK
  /\ call \in [pc : {"idle", "prime", "poll", "act", "second"},
               id : 0 .. MaxXfers, reading : BOOLEAN, n : Nat, i : Nat,
               k : Nat \ {0}, spin : Nat, second : Nat]
  /\ call.i <= call.n /\ call.spin <= MaxSpins
  /\ snap \subseteq Latched \cup {"TXD", "RXD"}
  /\ used \in 0 .. MaxXfers
  /\ want \in [Ids -> Nat] /\ moved \in [Ids -> Nat]
  /\ outcome \in [Ids -> Results \cup {"none"}]

\* A transfer reported Ok put every byte of its own buffer on the bus, or got
\* every byte from it, whatever the transfers before it left in the FIFO.
OkMeansMoved == \A id \in Ids : outcome[id] = "Ok" => moved[id] = want[id]

\* A call that returns anything but Timeout leaves the bus free, so that the
\* next one does not meet a controller still clocking the old transfer.
BusReleased ==
  call.pc \in {"idle", "second"} /\ used > 0 /\ outcome[used] # "Timeout"
    => ~TA

\* With a patient budget Timeout is for a wedged bus: no transfer that the slave
\* completed is given up, and no read is cut short by an early DONE.
TimeoutMeansWedged ==
  \A id \in Ids : outcome[id] = "Timeout" => wire.wedged

\* A call returns, also when the slave wedges the bus under it.
CallReturns == call.pc = "prime" ~> call.pc \in {"idle", "second"}

\* The transport implements the seam.
Seam == INSTANCE I2cTransport WITH
  Xfers  <- Ids,
  Sizes  <- Lens,
  status <- [id \in Ids |-> IF outcome[id] # "none" THEN outcome[id]
                            ELSE IF id <= used THEN "open" ELSE "new"],
  size   <- want,
  count  <- moved

ImplementsSeam == Seam!Spec

=============================================================================
