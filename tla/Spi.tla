-------------------------------- MODULE Spi --------------------------------
(***************************************************************************)
(* The SPI0 master driver (inc/spi.hpp, src/spi/spi.cpp) in use, as in     *)
(* README.md: settings, clear_fifo(), begin_transfer(), bytes written when *)
(* can_write() and read when can_read(), end_transfer() at any time.       *)
(*                                                                         *)
(* CS is the set of its bits that are 1, without the status bits, which a  *)
(* write leaves alone; a value is a set of bits, too.  set_cs() is two     *)
(* updates of CS.  The controller works beside the driver, between any two *)
(* of its accesses; it is external, after the comments in                  *)
(* inc/memory_map.hpp.                                                     *)
(***************************************************************************)
EXTENDS Integers, Sequences

CONSTANTS
  Slaves,  \* the chip-select values in use, each a set of bits
  Modes,   \* the clock modes in use, pairs <<cpol, cpha>> of sets of bits
  Bytes,   \* the bytes to write in use
  Dividers, \* the clock dividers in use
  Depth    \* the room of each FIFO (64 in the chip)

ASSUME SpiAssumption ==
  /\ Slaves \subseteq SUBSET (0 .. 1)
  /\ Modes \subseteq (SUBSET {0}) \X (SUBSET {0})
  /\ Dividers \subseteq Nat
  /\ Depth \in Nat \ {0}

VARIABLES
  CS,      \* the bits of CS that hold what is written to them
  CLK,     \* the divider
  tx, rx,  \* the FIFOs; a byte received names the settings it was shifted with
  todo,    \* the updates of CS that the call under way has still to make
  cleared, \* clear_fifo() was called, and no transfer begun since
  asked,   \* the slave and the mode asked for last (history)
  owed     \* the answers to the bytes of the last transfer, unread (history)

spiVars == <<CS, CLK, tx, rx, todo, cleared, asked, owed>>

-----------------------------------------------------------------------------
(* CS *)

First == [CS_LINE |-> 0, CPHA |-> 2, CPOL |-> 3, CLEAR |-> 4, TA |-> 7]
Bits  == [CS_LINE |-> 0 .. 1, CPHA |-> {2}, CPOL |-> {3}, CLEAR |-> 4 .. 5,
          TA |-> {7}]

In(f, v)  == {First[f] + b : b \in v} \cap Bits[f]
get_cs(f) == {b - First[f] : b \in CS \cap Bits[f]}

Active    == get_cs("TA") # {}
can_write == Active /\ Len(tx) < Depth   \* TXD
can_read  == rx # <<>>                   \* RXD

set_cs(f, v) == <<[clear |-> Bits[f], set |-> {}], [clear |-> {}, set |-> In(f, v)]>>
clr_cs(f)    == <<[clear |-> Bits[f], set |-> {}]>>

\* The next update; CLEAR empties the FIFOs and does not stay.
Access ==
  /\ todo # <<>>
  /\ LET word == (CS \ Head(todo).clear) \cup Head(todo).set IN
     /\ CS' = word \ Bits["CLEAR"]
     /\ tx' = IF First["CLEAR"] \in word THEN <<>> ELSE tx
     /\ rx' = IF First["CLEAR"] + 1 \in word THEN <<>> ELSE rx
  /\ todo' = Tail(todo)
  /\ UNCHANGED <<CLK, cleared, asked, owed>>

-----------------------------------------------------------------------------
(* The calls *)

Settle(settings) ==
  /\ todo = <<>> /\ ~Active
  /\ asked' = settings
  /\ UNCHANGED <<CS, CLK, tx, rx, cleared, owed>>

mode(cpol, cpha) ==
  /\ Settle([asked EXCEPT !.mode = <<cpol, cpha>>])
  /\ todo' = set_cs("CPOL", cpol) \o set_cs("CPHA", cpha)

chip_select(ce) ==
  /\ Settle([asked EXCEPT !.ce = ce])
  /\ todo' = set_cs("CS_LINE", ce)

clock_divider(divider) ==
  /\ todo = <<>> /\ ~Active
  /\ CLK' = divider % 2^16
  /\ UNCHANGED <<CS, tx, rx, todo, cleared, asked, owed>>

\* Mutant: only the transmit FIFO is cleared.
clear_fifo_tx ==
  /\ todo = <<>> /\ ~Active
  /\ todo' = set_cs("CLEAR", {0})
  /\ cleared' = TRUE
  /\ UNCHANGED <<CS, CLK, tx, rx, asked, owed>>

clear_fifo ==
  /\ todo = <<>> /\ ~Active
  /\ todo' = set_cs("CLEAR", {0, 1})
  /\ cleared' = TRUE
  /\ UNCHANGED <<CS, CLK, tx, rx, asked, owed>>

begin_transfer ==
  /\ todo = <<>> /\ ~Active /\ cleared
  /\ todo' = set_cs("TA", {0})
  /\ cleared' = FALSE /\ owed' = <<>>
  /\ UNCHANGED <<CS, CLK, tx, rx, asked>>

end_transfer ==
  /\ todo = <<>> /\ Active
  /\ todo' = clr_cs("TA")
  /\ UNCHANGED <<CS, CLK, tx, rx, cleared, asked, owed>>

write_byte(byte) ==
  /\ todo = <<>> /\ can_write
  /\ tx' = Append(tx, byte)
  /\ owed' = Append(owed, [byte |-> byte, with |-> asked])
  /\ UNCHANGED <<CS, CLK, rx, todo, cleared, asked>>

\* During a transfer or after it.
read_byte ==
  /\ todo = <<>> /\ ~cleared /\ can_read
  /\ rx' = Tail(rx) /\ owed' = Tail(owed)
  /\ UNCHANGED <<CS, CLK, tx, todo, cleared, asked>>

-----------------------------------------------------------------------------
(* The controller (external) shifts a byte out and its answer in. *)

Exchange ==
  /\ Active /\ tx # <<>> /\ Len(rx) < Depth
  /\ tx' = Tail(tx)
  /\ rx' = Append(rx,
       [byte |-> Head(tx),
        with |-> [ce |-> get_cs("CS_LINE"), mode |-> <<get_cs("CPOL"), get_cs("CPHA")>>]])
  /\ UNCHANGED <<CS, CLK, todo, cleared, asked, owed>>

-----------------------------------------------------------------------------
SpiInit ==
  /\ CS = {} /\ CLK = 0
  /\ tx = <<>> /\ rx = <<>>
  /\ todo = <<>> /\ cleared = FALSE
  /\ asked = [ce |-> {}, mode |-> <<{}, {}>>]
  /\ owed = <<>>

SpiNext ==
  \/ Access \/ Exchange
  \/ clear_fifo \/ begin_transfer \/ end_transfer \/ read_byte
  \/ \E m \in Modes : mode(m[1], m[2])
  \/ \E ce \in Slaves : chip_select(ce)
  \/ \E divider \in Dividers : clock_divider(divider)
  \/ \E byte \in Bytes : write_byte(byte)

SpiSpec == SpiInit /\ [][SpiNext]_spiVars

-----------------------------------------------------------------------------
(* Properties *)

\* What a transfer reads are the answers to its own bytes, in their order, all
\* of them and nothing left over from a transfer that was ended early, and each
\* from the slave and in the mode asked for.
ReplyOwn == ~cleared =>
  /\ Len(rx) <= Len(owed) /\ rx = SubSeq(owed, 1, Len(rx))
  /\ Active => Len(rx) + Len(tx) = Len(owed)
=============================================================================
