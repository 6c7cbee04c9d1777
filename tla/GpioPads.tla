------------------------------ MODULE GpioPads ------------------------------
(***************************************************************************)
(* The GPIO driver's outputs and pulls (inc/gpio.hpp, src/gpio/gpio.cpp),  *)
(* the other half of module Gpio: GPSETn() and GPCLRn(), GPPUD() and       *)
(* GPPUDCLKn().                                                            *)
(*                                                                         *)
(* The pull of a pin is set by the sequence of inc/gpio.hpp, which the     *)
(* caller goes through: GPPUD(), GPPUDCLKn(), GPPUD(Off).  Its last step,  *)
(* to remove the clock, no function of the driver does: GPPUDCLKn() only   *)
(* sets bits.  What a pad makes of a clock bit that is written again is    *)
(* not said; here it takes the control signal again, or not.               *)
(*                                                                         *)
(* All three setters are a |= : they write what they read back, too.  What *)
(* the output set and clear registers read back is not said either: the    *)
(* bits that were written to them, which is what GPGETn() returns for the  *)
(* set registers, or nothing.                                              *)
(***************************************************************************)
EXTENDS Gpio, Sequences

CONSTANT Pulls  \* the PullUpDownConfig values in use, sets of bits

ASSUME PadAssumption == Pulls \subseteq SUBSET (0 .. 1)

VARIABLES
  GPPUD,     \* the control signal for all pads
  GPPUDCLK,  \* per bank: the clocks
  outputs,   \* per register and bank: the bits written to GPSET and to GPCLR
  pad,       \* per pin: what it drives as an output, and its pull (external)
  pulling,   \* the steps of the sequence under way, and its pin
  drive,     \* per pin: what it was last set or cleared to (history)
  pull,      \* per pin: the pull last asked for (history)
  again      \* the pins whose clock was written when it was up already (history)

padHistory == <<drive, pull, again>>
padVars    == <<GPPUD, GPPUDCLK, outputs, pad, pulling, padHistory>>

\* Bit of pin n is written to a register in which the bits of a word are 1.
Also(n, word) == [b \in 0 .. 1 |-> IF b \in Banks(n) THEN word[b] \cup {Bit(n)}
                                                    ELSE word[b]]

-----------------------------------------------------------------------------
(* GPSETn(), GPCLRn(): the pins of all bits that are written are driven. *)

Drive(n, reg) ==
  \E read \in {[b \in 0 .. 1 |-> {}], outputs[reg]} :
    /\ pad' = [m \in Pins |->
                 IF Bank(m) \in Banks(n) /\ Bit(m) \in Also(n, read)[Bank(m)]
                 THEN [pad[m] EXCEPT !.high = (reg = "GPSET")] ELSE pad[m]]
    /\ outputs' = [outputs EXCEPT ![reg] = Also(n, @)]
    /\ drive' = [drive EXCEPT ![n] = (reg = "GPSET")]
    /\ UNCHANGED <<GPPUD, GPPUDCLK, pulling, pull, again>>

GPSETn(n) == Drive(n, "GPSET")
GPCLRn(n) == Drive(n, "GPCLR")

-----------------------------------------------------------------------------
(* Pulls *)

Off == {}

\* GPPUD() is two updates of the register.
SetPull(cfg) == <<[op |-> "clear", cfg |-> cfg], [op |-> "set", cfg |-> cfg]>>

Sequence(cfg) ==
  SetPull(cfg) \o <<[op |-> "clock", cfg |-> cfg]>> \o SetPull(Off)

Pull(n, cfg) ==
  /\ pulling.steps = <<>>
  /\ pulling' = [n |-> n, steps |-> Sequence(cfg)]
  /\ UNCHANGED <<GPPUD, GPPUDCLK, outputs, pad, padHistory>>

ControlStep ==
  /\ pulling.steps # <<>> /\ Head(pulling.steps).op # "clock"
  /\ GPPUD' = IF Head(pulling.steps).op = "clear" THEN GPPUD \ (0 .. 1)
              ELSE GPPUD \cup (Head(pulling.steps).cfg \cap 0 .. 1)
  /\ pulling' = [pulling EXCEPT !.steps = Tail(@)]
  /\ UNCHANGED <<GPPUDCLK, outputs, pad, padHistory>>

\* The pins whose clock is written for pin n, and those it was written for before.
Written(n) == {m \in Pins : Bank(m) \in Banks(n) /\
                 Bit(m) \in Also(n, GPPUDCLK)[Bank(m)]}
Before(n)  == {m \in Written(n) : Bit(m) \in GPPUDCLK[Bank(m)]}

\* GPPUDCLKn()
ClockStep ==
  LET n == pulling.n IN
  /\ pulling.steps # <<>> /\ Head(pulling.steps).op = "clock"
  /\ \E retaken \in SUBSET Before(n) :
       pad' = [m \in Pins |-> IF m \in (Written(n) \ Before(n)) \cup retaken
                              THEN [pad[m] EXCEPT !.pull = GPPUD] ELSE pad[m]]
  /\ GPPUDCLK' = Also(n, GPPUDCLK)
  /\ pull' = [pull EXCEPT ![n] = Head(pulling.steps).cfg]
  /\ again' = again \cup Before(n)
  /\ pulling' = [pulling EXCEPT !.steps = Tail(@)]
  /\ UNCHANGED <<GPPUD, outputs, drive>>

-----------------------------------------------------------------------------
PadInit ==
  /\ GPPUD = Off
  /\ GPPUDCLK = [b \in 0 .. 1 |-> {}]
  /\ outputs = [reg \in {"GPSET", "GPCLR"} |-> [b \in 0 .. 1 |-> {}]]
  /\ pad = [n \in Pins |-> [high |-> FALSE, pull |-> Off]]
  /\ pulling = [n |-> 0, steps |-> <<>>]
  /\ drive = [n \in Pins |-> FALSE]
  /\ pull = [n \in Pins |-> Off]
  /\ again = {}

OutputNext == \E n \in Pins : GPSETn(n) \/ GPCLRn(n)

PullNext ==
  \/ \E n \in Pins, cfg \in Pulls : Pull(n, cfg)
  \/ ControlStep \/ ClockStep

PadNext == OutputNext \/ PullNext

PadSpec == PadInit /\ [][PadNext]_padVars

-----------------------------------------------------------------------------
(* Properties *)

\* A pin drives what it was set or cleared to last, and has the pull that was last
\* asked for it.
Driven(n) == pad[n].high = drive[n]
Pulled(n) == pad[n].pull = pull[n]

\* Bit of pin n was written to both output registers.
SetAndCleared(n) == \A reg \in {"GPSET", "GPCLR"} : Bit(n) \in outputs[reg][Bank(n)]

\* A pin is disturbed only through what the |= of a later call writes again, which
\* is not what inc/gpio.hpp:68-70 and :194-195 say of the registers, but no more: until
\* it has been both set and cleared it drives what it was told, whatever the other
\* pins of both banks are told, and until its clock is written a second time it has
\* the pull it was given, although the clock of the first time stays asserted
\* while the control signal changes for the other pins.
PadsApart == \A n \in Pins :
  /\ ~SetAndCleared(n) => Driven(n)
  /\ n \notin again => Pulled(n)
=============================================================================
