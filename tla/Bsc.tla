-------------------------------- MODULE Bsc --------------------------------
(***************************************************************************)
(* The BSC1 I2C master of the BCM2837 as the driver sees it: the registers *)
(* that I2C (inc/i2c.hpp, src/i2c/i2c.cpp) reads and writes, and the       *)
(* controller behind them.                                                 *)
(*                                                                         *)
(* The register accessors are the driver's.  The controller itself is not  *)
(* in the repository: it is external, modelled from the bit descriptions   *)
(* of inc/memory_map.hpp and from what the two transports rely on.         *)
(*                                                                         *)
(* A byte is abstracted to the number of the transfer it belongs to, so    *)
(* that a byte which ends up in another transfer can be told apart.        *)
(***************************************************************************)
EXTENDS Integers, Sequences, FiniteSets

CONSTANTS
  MaxXfers,  \* transfers are numbered 1 .. MaxXfers (bounds the model)
  Depth,     \* capacity of the FIFO (16 in the chip)
  TxLow,     \* TXW: fewer than TxLow bytes in the FIFO (a quarter of Depth)
  RxHigh,    \* RXR: at least RxHigh bytes in the FIFO (three quarters)
  DlenMod    \* DLEN keeps a length modulo DlenMod (2^16 in the chip)

ASSUME BscAssumption ==
  /\ MaxXfers \in Nat \ {0}
  /\ Depth \in Nat \ {0}
  /\ TxLow \in 1 .. Depth
  /\ RxHigh \in 1 .. Depth
  /\ DlenMod \in Nat \ {0}

VARIABLES
  ctrl,      \* C: the set of control bits that are 1
  stat,      \* S: the latched (write-1-to-clear) bits that are 1
  dlen,      \* DLEN
  fifo,      \* FIFO: the bytes in it, each the number of its transfer
  wire       \* the transfer the controller is clocking over SDA/SCL

bscVars == <<ctrl, stat, dlen, fifo, wire>>

Ids      == 1 .. MaxXfers
IntBits  == {"INTD", "INTT", "INTR"}
CtrlBits == IntBits \cup {"READ", "I2CEN"}  \* the bits C keeps
Strobes  == {"CLEAR", "ST"}                 \* one-shot, read as 0
Latched  == {"DONE", "ERR", "CLKT"}

\* The controller between two transfers.
IdleWire == [id |-> 0, reading |-> FALSE, left |-> 0, wedged |-> FALSE]

BscInit ==
  /\ ctrl = {}
  /\ stat = {}
  /\ dlen = 0
  /\ fifo = <<>>
  /\ wire = IdleWire

BscTypeOK ==
  /\ ctrl \in SUBSET CtrlBits
  /\ stat \in SUBSET Latched
  /\ dlen \in 0 .. DlenMod - 1
  /\ fifo \in Seq(0 .. MaxXfers)
  /\ wire \in [id : 0 .. MaxXfers, reading : BOOLEAN,
               left : 0 .. DlenMod - 1, wedged : BOOLEAN]

-----------------------------------------------------------------------------
(* The Status register and the interrupt line. *)

TA  == wire.id # 0
TXD == Len(fifo) < Depth
RXD == fifo # <<>>

\* A write is under way and the FIFO has neither a quarter of its capacity
\* nor all that is still to be sent.
TXW == TA /\ ~wire.reading /\ Len(fifo) < TxLow /\ Len(fifo) < wire.left

\* A read is under way and the FIFO is three quarters full.
RXR == TA /\ wire.reading /\ Len(fifo) >= RxHigh

\* The level-triggered line IRQ 53 of the legacy interrupt controller.
Line == \/ "INTD" \in ctrl /\ "DONE" \in stat
        \/ "INTT" \in ctrl /\ TXW
        \/ "INTR" \in ctrl /\ RXR

-----------------------------------------------------------------------------
(* Register operations.  A store to C carries the strobes with it: CLEAR   *)
(* empties the FIFO, ST starts a transfer of DLEN bytes in the direction   *)
(* of READ, on behalf of transfer id.  What ST does to a controller that   *)
(* is still busy is not documented: it is ignored, or takes over.          *)

RmwOp(off, on) == [k |-> "rmw", off |-> off, on |-> on]
W1cOp(f)       == [k |-> "w1c", off |-> {f}, on |-> {}]
DlenOp         == [k |-> "dlen", off |-> {}, on |-> {}]
Op == [k : {"rmw", "w1c", "dlen"},
       off : SUBSET (CtrlBits \cup Strobes \cup Latched),
       on  : SUBSET (CtrlBits \cup Strobes)]

StoreC(w, id) ==
  /\ ctrl' = w \ Strobes
  /\ fifo' = IF "CLEAR" \in w THEN <<>> ELSE fifo
  /\ IF {"ST", "I2CEN"} \subseteq w
     THEN \/ wire' = [id |-> id, reading |-> "READ" \in w,
                      left |-> dlen, wedged |-> FALSE]
          \/ TA /\ wire' = wire
     ELSE wire' = wire
  /\ UNCHANGED <<stat, dlen>>

ClrStatus(bits) ==
  /\ stat' = stat \ bits
  /\ UNCHANGED <<ctrl, dlen, fifo, wire>>

DataLength(len) ==
  /\ dlen' = len % DlenMod
  /\ UNCHANGED <<ctrl, stat, fifo, wire>>

WriteByte(id) ==
  /\ fifo' = IF TXD THEN Append(fifo, id) ELSE fifo
  /\ UNCHANGED <<ctrl, stat, dlen, wire>>

ReadByte ==
  /\ fifo' = Tail(fifo)
  /\ UNCHANGED <<ctrl, stat, dlen, wire>>

-----------------------------------------------------------------------------
(* The controller and the slave (external). *)

\* One byte is clocked: into the FIFO in a read, out of it in a write.  The
\* clock is stretched while the FIFO is full (read) or empty (write).
WireByte ==
  /\ TA /\ ~wire.wedged /\ wire.left > 0
  /\ IF wire.reading
     THEN TXD /\ fifo' = Append(fifo, wire.id)
     ELSE RXD /\ fifo' = Tail(fifo)
  /\ wire' = [wire EXCEPT !.left = @ - 1]
  /\ UNCHANGED <<ctrl, stat, dlen>>

\* The transfer ends and leaves bits in S: DONE when every byte was clocked,
\* DONE with ERR or CLKT when the slave gives up before that.
WireEnd(bits) ==
  /\ TA /\ ~wire.wedged
  /\ bits = {"DONE"} <=> wire.left = 0
  /\ stat' = stat \cup bits
  /\ wire' = IdleWire
  /\ UNCHANGED <<ctrl, dlen, fifo>>

\* A slave holds SCL low for good.
WireWedge ==
  /\ TA /\ ~wire.wedged
  /\ wire' = [wire EXCEPT !.wedged = TRUE]
  /\ UNCHANGED <<ctrl, stat, dlen, fifo>>

=============================================================================
