-------------------------------- MODULE Gpio --------------------------------
(***************************************************************************)
(* The GPIO driver (inc/gpio.hpp, src/gpio/gpio.cpp): the function of      *)
(* every pin, ten 3-bit fields to a GPFSEL register, and event detection,  *)
(* one bit per pin in two banks of registers.                              *)
(*                                                                         *)
(* A register is the set of its bits that are 1, and so is the code of a   *)
(* function.  write() and output() are two updates of GPFSEL.  GPEDSn() is *)
(* a |= on a register whose bits are cleared by writing ones, a read and a *)
(* write, and the controller latches events at any time, also between the  *)
(* two.  The detection logic is external, modelled from the descriptions   *)
(* in inc/gpio.hpp.                                                        *)
(***************************************************************************)
EXTENDS Integers

CONSTANTS
  Pins,       \* the GPIO numbers in use
  Functions,  \* the function codes in use, each a set of bits 0 .. 2
  Words,      \* the words written to a whole register in use
  Detectors   \* the kinds of detectors in use

Edges  == {"GPREN", "GPFEN", "GPAREN", "GPAFEN"}
Levels == {"GPHEN", "GPLEN"}
GPIO_MAX == 53

ASSUME GpioAssumption ==
  /\ Pins \subseteq 0 .. GPIO_MAX
  /\ Functions \subseteq SUBSET (0 .. 2)
  /\ Words \subseteq SUBSET (0 .. 29)
  /\ Detectors \subseteq Edges \cup Levels

VARIABLES
  GPFSEL,  \* per register: function select, ten pins to a register
  detect,  \* per kind and bank: the detect enable registers
  GPEDS,   \* per bank: the event detect status
  level,   \* the pins that are high
  call,    \* the call that is half way
  wanted   \* per pin: the function asked for last (history)

gpioVars == <<GPFSEL, detect, GPEDS, level, call, wanted>>

NoCall == [op |-> "none", n |-> 0, word |-> {}]

-----------------------------------------------------------------------------
(* Function select *)

FieldOf(n)   == (n % 10) * 3
FieldBits(n) == FieldOf(n) .. FieldOf(n) + 2
Code(n, word) == {b \in 0 .. 2 : FieldOf(n) + b \in word}
Function(n)   == Code(n, GPFSEL[n \div 10])   \* read()

\* Mutant: only the lowest bit of the field is cleared.
SelectClearsBit(n, cfg) ==
  /\ call = NoCall
  /\ GPFSEL' = [GPFSEL EXCEPT ![n \div 10] = @ \ {FieldOf(n)}]
  /\ call' = [op |-> "select", n |-> n, word |-> cfg]
  /\ wanted' = [wanted EXCEPT ![n] = cfg]
  /\ UNCHANGED <<detect, GPEDS, level>>

\* write(), output(): the field is cleared; the pin is an input for a moment.
Select(n, cfg) ==
  /\ call = NoCall
  /\ GPFSEL' = [GPFSEL EXCEPT ![n \div 10] = @ \ FieldBits(n)]
  /\ call' = [op |-> "select", n |-> n, word |-> cfg]
  /\ wanted' = [wanted EXCEPT ![n] = cfg]
  /\ UNCHANGED <<detect, GPEDS, level>>

Selected ==
  /\ call.op = "select"
  /\ GPFSEL' = [GPFSEL EXCEPT ![call.n \div 10] =
                  @ \cup {FieldOf(call.n) + b : b \in call.word}]
  /\ call' = NoCall
  /\ UNCHANGED <<detect, GPEDS, level, wanted>>

input(n) ==
  /\ call = NoCall
  /\ GPFSEL' = [GPFSEL EXCEPT ![n \div 10] = @ \ FieldBits(n)]
  /\ wanted' = [wanted EXCEPT ![n] = {}]
  /\ UNCHANGED <<detect, GPEDS, level, call>>

\* The whole register of the pin: a function for each of its ten pins.
write32(n, value) ==
  /\ call = NoCall
  /\ GPFSEL' = [GPFSEL EXCEPT ![n \div 10] = value]
  /\ wanted' = [m \in Pins |-> IF m \div 10 = n \div 10 THEN Code(m, value)
                                                      ELSE wanted[m]]
  /\ UNCHANGED <<detect, GPEDS, level, call>>

-----------------------------------------------------------------------------
(* Event detection *)

\* Mutant: both banks, as with a missing else.
BanksBoth(n) == {0, 1}

Bank(n)  == IF n < 32 THEN 0 ELSE 1
Banks(n) == {Bank(n)}
Bit(n)   == n % 32

\* GPRENn(), GPFENn(), GPHENn(), GPLENn(), GPARENn(), GPAFENn().
Enable(kind, n) ==
  /\ call = NoCall
  /\ detect' = [detect EXCEPT ![kind] =
                  [b \in 0 .. 1 |-> IF b \in Banks(n) THEN @[b] \cup {Bit(n)}
                                                      ELSE @[b]]]
  /\ UNCHANGED <<GPFSEL, GPEDS, level, call, wanted>>

Detects(kind, n) == kind \in Detectors /\ Bit(n) \in detect[kind][Bank(n)]
Event(n)         == Bit(n) \in GPEDS[Bank(n)]

\* The level of pin n matches a level detector.
Holds(n) == \/ Detects("GPHEN", n) /\ n \in level
            \/ Detects("GPLEN", n) /\ n \notin level

Latch(n) == [GPEDS EXCEPT ![Bank(n)] = @ \cup {Bit(n)}]

\* GPEDSn() as a setter: acknowledge the event of pin n.
AckRead(n) ==
  /\ call = NoCall
  /\ call' = [op |-> "ack", n |-> n, word |-> GPEDS[Bank(n)]]
  /\ UNCHANGED <<GPFSEL, detect, GPEDS, level, wanted>>

AckWrite ==
  /\ call.op = "ack"
  /\ LET ones == call.word \cup {Bit(call.n)} IN
     GPEDS' = [b \in 0 .. 1 |-> IF b \in Banks(call.n) THEN GPEDS[b] \ ones
                                                       ELSE GPEDS[b]]
  /\ call' = NoCall
  /\ UNCHANGED <<GPFSEL, detect, level, wanted>>

-----------------------------------------------------------------------------
(* The pins (external) *)

Edge(n) ==
  /\ level' = IF n \in level THEN level \ {n} ELSE level \cup {n}
  /\ GPEDS' = IF \/ n \notin level /\ (Detects("GPREN", n) \/ Detects("GPAREN", n))
                 \/ n \in level /\ (Detects("GPFEN", n) \/ Detects("GPAFEN", n))
              THEN Latch(n) ELSE GPEDS
  /\ UNCHANGED <<GPFSEL, detect, call, wanted>>

LevelEvent(n) ==
  /\ Holds(n) /\ ~Event(n)
  /\ GPEDS' = Latch(n)
  /\ UNCHANGED <<GPFSEL, detect, level, call, wanted>>

-----------------------------------------------------------------------------
GpioInit ==
  /\ GPFSEL = [k \in 0 .. 5 |-> {}]
  /\ detect = [kind \in Detectors |-> [b \in 0 .. 1 |-> {}]]
  /\ GPEDS = [b \in 0 .. 1 |-> {}]
  /\ level = {}
  /\ call = NoCall
  /\ wanted = [n \in Pins |-> {}]

FunctionNext ==
  \/ \E n \in Pins :
       \/ \E cfg \in Functions : Select(n, cfg)
       \/ \E value \in Words : write32(n, value)
       \/ input(n)
  \/ Selected

EventNext ==
  \/ \E n \in Pins :
       \/ \E kind \in Detectors : Enable(kind, n)
       \/ AckRead(n) \/ Edge(n) \/ LevelEvent(n)
  \/ AckWrite

GpioNext == FunctionNext \/ EventNext

GpioSpec == GpioInit /\ [][GpioNext]_gpioVars

-----------------------------------------------------------------------------
(* Properties *)

GpioTypeOK ==
  /\ GPFSEL \in [0 .. 5 -> SUBSET (0 .. 29)]
  /\ detect \in [Detectors -> [0 .. 1 -> SUBSET (0 .. 31)]]
  /\ GPEDS \in [0 .. 1 -> SUBSET (0 .. 31)]
  /\ level \subseteq Pins
  /\ call \in [op : {"none", "select", "ack"}, n : 0 .. GPIO_MAX,
               word : SUBSET (0 .. 31)]
  /\ wanted \in [Pins -> SUBSET (0 .. 2)]

\* Every pin has the function that was asked for last, whatever the pins that
\* share its register are set to; only the pin being set is an input meanwhile.
FunctionKept == \A n \in Pins :
  Function(n) = IF call.op = "select" /\ call.n = n THEN {} ELSE wanted[n]

\* The bit of a pin in GPEDS is cleared by writing a one to that bit: an event
\* of another pin is not lost.
EventKept == [][AckWrite => \A n \in Pins :
  Event(n) /\ n # call.n => Event(n)']_gpioVars
=============================================================================
