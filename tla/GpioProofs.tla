----------------------------- MODULE GpioProofs -----------------------------
(***************************************************************************)
(* For any pins, functions, detectors and pulls: pins that share a         *)
(* register keep their functions, and what is driven or pulled at one pin  *)
(* reaches another only through what the |= of a setter writes again.      *)
(***************************************************************************)
EXTENDS GpioPads, TLAPS

-----------------------------------------------------------------------------
(* The inductive invariant *)

\* The function on its way into the register is the one asked for.
CallInv ==
  /\ call.op = "select" =>
       call.n \in Pins /\ call.word = wanted[call.n]
  /\ call.op = "ack" => call.n \in Pins

Inv == GpioTypeOK /\ CallInv /\ FunctionKept

-----------------------------------------------------------------------------
(* Pins and their bits *)

LEMMA PinFacts ==
  ASSUME NEW n \in Pins
  PROVE  /\ n \in 0 .. GPIO_MAX /\ n \in Int
         /\ n \div 10 \in 0 .. 5
         /\ FieldOf(n) \in 0 .. 27
         /\ \A b \in 0 .. 2 : FieldOf(n) + b \in 0 .. 29 /\ FieldOf(n) + b \in FieldBits(n)
         /\ Bank(n) \in 0 .. 1 /\ Bit(n) \in 0 .. 31
<1>1. n \in 0 .. 53
  BY GpioAssumption DEF GPIO_MAX
<1>2. n % 10 \in 0 .. 9 /\ n \div 10 \in 0 .. 5 /\ n % 32 \in 0 .. 31
  BY <1>1
<1>3. FieldOf(n) \in 0 .. 27
  BY <1>2 DEF FieldOf
<1> QED
  BY <1>1, <1>2, <1>3 DEF GPIO_MAX, FieldBits, Bank, Bit

\* The fields of two pins of a register do not overlap.
LEMMA FieldsApart ==
  ASSUME NEW n \in Pins, NEW m \in Pins, n \div 10 = m \div 10,
         NEW b \in 0 .. 2, FieldOf(m) + b \in FieldBits(n)
  PROVE  m = n
<1>1. n \in 0 .. 53 /\ m \in 0 .. 53
  BY GpioAssumption DEF GPIO_MAX
<1>2. /\ n = 10 * (n \div 10) + (n % 10) /\ n % 10 \in 0 .. 9
      /\ m = 10 * (m \div 10) + (m % 10) /\ m % 10 \in 0 .. 9
  BY <1>1
<1>3. n % 10 = m % 10
  <2> DEFINE r == n % 10
             s == m % 10
  <2>1. r \in 0 .. 9 /\ s \in 0 .. 9 /\ s * 3 + b \in r * 3 .. r * 3 + 2
    BY <1>2 DEF FieldOf, FieldBits
  <2> HIDE DEF r, s
  <2>2. r = s
    BY <2>1
  <2> QED
    BY <2>2 DEF r, s
<1> QED
  BY <1>2, <1>3

-----------------------------------------------------------------------------
(* Every step *)

LEMMA InitInv == GpioInit => Inv
<1> SUFFICES ASSUME GpioInit PROVE Inv
  OBVIOUS
<1>1. GpioTypeOK
  BY GpioAssumption DEF GpioInit, GpioTypeOK, NoCall, GPIO_MAX
<1>2. CallInv /\ FunctionKept
  BY PinFacts DEF GpioInit, CallInv, FunctionKept, Function, Code, NoCall
<1> QED
  BY <1>1, <1>2 DEF Inv

\* The field of one pin is changed, those of the others are not.
LEMMA FieldWrite ==
  ASSUME GpioTypeOK, NEW n \in Pins, NEW word \in SUBSET (0 .. 29),
         \A b \in (0 .. 29) \ FieldBits(n) : b \in word <=> b \in GPFSEL[n \div 10],
         GPFSEL' = [GPFSEL EXCEPT ![n \div 10] = word]
  PROVE  /\ GPFSEL' \in [0 .. 5 -> SUBSET (0 .. 29)]
         /\ Function(n)' = {b \in 0 .. 2 : FieldOf(n) + b \in word}
         /\ \A m \in Pins : m # n => Function(m)' = Function(m)
<1>1. GPFSEL' \in [0 .. 5 -> SUBSET (0 .. 29)]
  BY PinFacts DEF GpioTypeOK
<1>2. Function(n)' = {b \in 0 .. 2 : FieldOf(n) + b \in word}
  BY PinFacts DEF Function, Code, GpioTypeOK
<1>3. ASSUME NEW m \in Pins, m # n PROVE Function(m)' = Function(m)
  <2>1. CASE m \div 10 = n \div 10
    <3>1. \A b \in 0 .. 2 : FieldOf(m) + b \in (0 .. 29) \ FieldBits(n)
      BY <1>3, <2>1, FieldsApart, PinFacts
    <3>2. GPFSEL'[m \div 10] = word
      BY <2>1, PinFacts DEF GpioTypeOK
    <3>3. \A b \in 0 .. 2 : FieldOf(m) + b \in GPFSEL'[m \div 10]
                              <=> FieldOf(m) + b \in GPFSEL[m \div 10]
      BY <2>1, <3>1, <3>2
    <3> QED
      BY <3>3 DEF Function, Code
  <2>2. CASE m \div 10 # n \div 10
    <3>1. GPFSEL'[m \div 10] = GPFSEL[m \div 10]
      BY <2>2, PinFacts DEF GpioTypeOK
    <3> QED
      BY <3>1 DEF Function, Code
  <2> QED
    BY <2>1, <2>2
<1> QED
  BY <1>1, <1>2, <1>3

LEMMA NextInv == Inv /\ [GpioNext]_gpioVars => Inv'
<1> SUFFICES ASSUME Inv, [GpioNext]_gpioVars PROVE Inv'
  OBVIOUS
<1> USE DEF Inv
<1>1. ASSUME NEW n \in Pins, NEW cfg \in SUBSET (0 .. 2),
             GPFSEL' = [GPFSEL EXCEPT ![n \div 10] = @ \ FieldBits(n)],
             wanted' = [wanted EXCEPT ![n] = cfg]
      PROVE  /\ GPFSEL' \in [0 .. 5 -> SUBSET (0 .. 29)]
             /\ wanted' \in [Pins -> SUBSET (0 .. 2)]
             /\ Function(n)' = {} /\ wanted'[n] = cfg
             /\ \A m \in Pins : m # n => /\ Function(m)' = Function(m)
                                         /\ wanted'[m] = wanted[m]
  <2> DEFINE word == GPFSEL[n \div 10] \ FieldBits(n)
  <2>1. word \in SUBSET (0 .. 29)
    BY PinFacts DEF GpioTypeOK
  <2>2. GPFSEL' = [GPFSEL EXCEPT ![n \div 10] = word]
    BY <1>1
  <2>3. \A b \in 0 .. 2 : FieldOf(n) + b \notin word
    BY PinFacts
  <2>4. \A b \in (0 .. 29) \ FieldBits(n) : b \in word <=> b \in GPFSEL[n \div 10]
    OBVIOUS
  <2> HIDE DEF word
  <2>5. /\ GPFSEL' \in [0 .. 5 -> SUBSET (0 .. 29)]
        /\ Function(n)' = {b \in 0 .. 2 : FieldOf(n) + b \in word}
        /\ \A m \in Pins : m # n => Function(m)' = Function(m)
    BY <2>1, <2>2, <2>4, FieldWrite
  <2> QED
    BY <2>3, <2>5, <1>1 DEF GpioTypeOK
<1>2. ASSUME NEW n \in Pins, NEW cfg \in Functions, Select(n, cfg) PROVE Inv'
  <2>1. cfg \in SUBSET (0 .. 2) /\ call.op = "none"
    BY <1>2, GpioAssumption DEF Select, NoCall
  <2>2. GpioTypeOK'
    BY <1>1, <1>2, <2>1, PinFacts DEF Select, GpioTypeOK
  <2>3. CallInv' /\ FunctionKept'
    BY <1>1, <1>2, <2>1 DEF Select, CallInv, FunctionKept
  <2> QED
    BY <2>2, <2>3
<1>3. CASE Selected
  <2> PICK n \in Pins : n = call.n
    BY <1>3 DEF Selected, CallInv
  <2> PICK cfg \in SUBSET (0 .. 2) : cfg = call.word /\ cfg = wanted[n]
    BY <1>3 DEF Selected, CallInv, GpioTypeOK
  <2> DEFINE bits == {FieldOf(n) + b : b \in cfg}
             word == GPFSEL[n \div 10] \cup bits
  <2>1. \A b \in bits : b \in 0 .. 29 /\ b \in FieldBits(n)
    BY PinFacts
  <2>2. word \in SUBSET (0 .. 29)
    BY <2>1, PinFacts DEF GpioTypeOK
  <2>3. GPFSEL' = [GPFSEL EXCEPT ![n \div 10] = word]
    BY <1>3 DEF Selected
  <2>4. \A b \in (0 .. 29) \ FieldBits(n) : b \in word <=> b \in GPFSEL[n \div 10]
    BY <2>1
  <2>5. {b \in 0 .. 2 : FieldOf(n) + b \in word} = cfg
    <3>1. \A b \in 0 .. 2 : FieldOf(n) + b \notin GPFSEL[n \div 10]
      BY <1>3 DEF Selected, FunctionKept, Function, Code
    <3>2. \A b \in 0 .. 2 : FieldOf(n) + b \in bits <=> b \in cfg
      BY PinFacts
    <3> QED
      BY <3>1, <3>2
  <2> HIDE DEF word, bits
  <2>6. /\ GPFSEL' \in [0 .. 5 -> SUBSET (0 .. 29)]
        /\ Function(n)' = cfg
        /\ \A m \in Pins : m # n => Function(m)' = Function(m)
    BY <2>2, <2>3, <2>4, <2>5, FieldWrite
  <2>7. GpioTypeOK'
    BY <2>6, <1>3, GpioAssumption DEF Selected, NoCall, GpioTypeOK, GPIO_MAX
  <2>8. CallInv' /\ FunctionKept'
    BY <2>6, <1>3 DEF Selected, NoCall, CallInv, FunctionKept
  <2> QED
    BY <2>7, <2>8
<1>4. ASSUME NEW n \in Pins, input(n) PROVE Inv'
  <2>1. call.op = "none" /\ call' = call
    BY <1>4 DEF input, NoCall
  <2>2. GpioTypeOK'
    BY <1>1, <1>4 DEF input, GpioTypeOK
  <2>3. CallInv' /\ FunctionKept'
    BY <1>1, <1>4, <2>1 DEF input, CallInv, FunctionKept
  <2> QED
    BY <2>2, <2>3
<1>12. ASSUME NEW n \in Pins, NEW value \in Words, write32(n, value) PROVE Inv'
  <2>1. value \in SUBSET (0 .. 29) /\ call.op = "none" /\ call' = call
    BY <1>12, GpioAssumption DEF write32, NoCall
  <2>2. GpioTypeOK'
    BY <1>12, <2>1, PinFacts DEF write32, GpioTypeOK, Code
  <2>3. ASSUME NEW m \in Pins PROVE Function(m)' = wanted'[m]
    <3>1. CASE m \div 10 = n \div 10
      BY <1>12, <3>1, PinFacts DEF write32, Function, GpioTypeOK
    <3>2. CASE m \div 10 # n \div 10
      <4>1. GPFSEL'[m \div 10] = GPFSEL[m \div 10] /\ wanted'[m] = wanted[m]
        BY <1>12, <3>2, PinFacts DEF write32, GpioTypeOK
      <4> QED
        BY <4>1, <2>1 DEF Function, FunctionKept
    <3> QED
      BY <3>1, <3>2
  <2> QED
    BY <2>1, <2>2, <2>3 DEF CallInv, FunctionKept
<1>5. ASSUME GpioTypeOK', UNCHANGED <<GPFSEL, wanted>>,
             call.op # "select", call'.op # "select",
             call'.op = "ack" => call'.n \in Pins
      PROVE  Inv'
  BY <1>5 DEF CallInv, FunctionKept, Function
<1>6. ASSUME NEW n \in Pins, NEW kind \in Detectors, Enable(kind, n) PROVE Inv'
  <2>1. GpioTypeOK'
    BY <1>6, PinFacts DEF Enable, Banks, GpioTypeOK
  <2> QED
    BY <2>1, <1>5, <1>6 DEF Enable, NoCall
<1>7. ASSUME NEW n \in Pins, AckRead(n) PROVE Inv'
  <2>1. GpioTypeOK'
    BY <1>7, PinFacts DEF AckRead, GpioTypeOK
  <2> QED
    BY <2>1, <1>5, <1>7 DEF AckRead, NoCall
<1>8. CASE AckWrite
  <2>1. GpioTypeOK'
    BY <1>8, GpioAssumption DEF AckWrite, NoCall, GpioTypeOK, GPIO_MAX
  <2> QED
    BY <2>1, <1>5, <1>8 DEF AckWrite, NoCall
<1>9. ASSUME UNCHANGED <<GPFSEL, detect, call, wanted>>,
             GPEDS' \in [0 .. 1 -> SUBSET (0 .. 31)], level' \subseteq Pins
      PROVE  Inv'
  BY <1>9 DEF GpioTypeOK, CallInv, FunctionKept, Function
<1>10. ASSUME NEW n \in Pins, Edge(n) \/ LevelEvent(n) PROVE Inv'
  <2>1. Latch(n) \in [0 .. 1 -> SUBSET (0 .. 31)]
    BY PinFacts DEF Latch, GpioTypeOK
  <2> QED
    BY <2>1, <1>9, <1>10 DEF Edge, LevelEvent, GpioTypeOK
<1>11. CASE UNCHANGED gpioVars
  BY <1>9, <1>11 DEF gpioVars, GpioTypeOK
<1> QED
  BY <1>2, <1>3, <1>4, <1>6, <1>7, <1>8, <1>10, <1>11, <1>12
     DEF GpioNext, FunctionNext, EventNext

LEMMA Invariance == GpioSpec => []Inv
  BY InitInv, NextInv, PTL DEF GpioSpec

-----------------------------------------------------------------------------
\* Every reachable state of the driver is well typed.
THEOREM TypeCorrect == GpioSpec => []GpioTypeOK
<1>1. Inv => GpioTypeOK
  BY DEF Inv
<1> QED
  BY <1>1, Invariance, PTL

\* write(), output() and input() of one pin leave every other pin of its
\* register as it was asked for, and the pin itself ends as it was asked for;
\* write32() says it for all pins of a register.
THEOREM FunctionsKept == GpioSpec => []FunctionKept
<1>1. Inv => FunctionKept
  BY DEF Inv
<1> QED
  BY <1>1, Invariance, PTL

-----------------------------------------------------------------------------
(* Outputs and pulls *)

PadType ==
  /\ GPPUD \subseteq 0 .. 1
  /\ GPPUDCLK \in [0 .. 1 -> SUBSET (0 .. 31)]
  /\ pad \in [Pins -> [high : BOOLEAN, pull : SUBSET (0 .. 1)]]
  /\ drive \in [Pins -> BOOLEAN]
  /\ outputs \in [{"GPSET", "GPCLR"} -> [0 .. 1 -> SUBSET (0 .. 31)]]
  /\ pull \in [Pins -> SUBSET (0 .. 1)]
  /\ again \subseteq Pins

\* What is left of the sequence is an end of it, and the control signal is what the
\* steps before have made of it: off when it is about to be set, and the pull asked
\* for when it is about to be clocked in.
Step == [op : {"clear", "set", "clock"}, cfg : SUBSET (0 .. 1)]
PullInv ==
  pulling.steps = <<>> \/
  \E cfg \in SUBSET (0 .. 1), k \in 1 .. 5 :
    /\ pulling.n \in Pins
    /\ pulling \in [n : Pins, steps : Seq(Step)]
    /\ Len(pulling.steps) = 6 - k
    /\ \A i \in k .. 5 : pulling.steps[i - k + 1] = Sequence(cfg)[i]
    /\ k \in {2, 5} => GPPUD = Off
    /\ k = 3 => GPPUD = cfg

\* Strengthening of PadsApart: a pin that was written to one of the output
\* registers at most was told what that register says.
DriveSides == \A n \in Pins :
  LET set == Bit(n) \in outputs["GPSET"][Bank(n)]
      cleared == Bit(n) \in outputs["GPCLR"][Bank(n)]
  IN /\ set /\ ~cleared => drive[n]
     /\ ~set => ~drive[n]

PadInv == PadType /\ PullInv /\ DriveSides /\ PadsApart

\* A pin is told by its bank and its bit.
LEMMA PinBit ==
  ASSUME NEW n \in Pins, NEW m \in Pins, Bank(n) = Bank(m), Bit(n) = Bit(m)
  PROVE  n = m
<1>1. n \in 0 .. 53 /\ m \in 0 .. 53
  BY GpioAssumption DEF GPIO_MAX
<1>2. /\ n < 32 => n % 32 = n
      /\ n >= 32 => n % 32 = n - 32
      /\ m < 32 => m % 32 = m
      /\ m >= 32 => m % 32 = m - 32
  BY <1>1
<1> QED
  BY <1>1, <1>2 DEF Bank, Bit

LEMMA SequenceSteps ==
  ASSUME NEW cfg \in SUBSET (0 .. 1)
  PROVE  /\ Sequence(cfg) \in Seq(Step)
         /\ Len(Sequence(cfg)) = 5
         /\ Sequence(cfg)[1] = [op |-> "clear", cfg |-> cfg]
         /\ Sequence(cfg)[2] = [op |-> "set", cfg |-> cfg]
         /\ Sequence(cfg)[3] = [op |-> "clock", cfg |-> cfg]
         /\ Sequence(cfg)[4] = [op |-> "clear", cfg |-> Off]
         /\ Sequence(cfg)[5] = [op |-> "set", cfg |-> Off]
  BY DEF Sequence, SetPull, Off, Step

LEMMA PadInitInv == PadInit => PadInv
<1> SUFFICES ASSUME PadInit PROVE PadInv
  OBVIOUS
<1>1. PadType
  BY DEF PadInit, PadType, Off
<1>2. PullInv /\ DriveSides /\ PadsApart
  BY DEF PadInit, PullInv, DriveSides, PadsApart, Driven, Pulled
<1> QED
  BY <1>1, <1>2 DEF PadInv

\* Of the bits of a word written for pin n, those that were not in it are n's.
LEMMA AlsoBit ==
  ASSUME NEW n \in Pins, NEW word \in [0 .. 1 -> SUBSET (0 .. 31)]
  PROVE  /\ Also(n, word) \in [0 .. 1 -> SUBSET (0 .. 31)]
         /\ \A m \in Pins : Bit(m) \in Also(n, word)[Bank(m)]
                              <=> m = n \/ Bit(m) \in word[Bank(m)]
<1>1. Bank(n) \in 0 .. 1 /\ Bit(n) \in 0 .. 31
  BY PinFacts
<1>2. Also(n, word) = [b \in 0 .. 1 |-> IF b = Bank(n) THEN word[b] \cup {Bit(n)}
                                                       ELSE word[b]]
  BY DEF Also, Banks
<1>3. \A m \in Pins : Bank(m) \in 0 .. 1
  BY PinFacts
<1> QED
  BY <1>1, <1>2, <1>3, PinBit

LEMMA DriveInv ==
  ASSUME PadInv, NEW n \in Pins, NEW reg \in {"GPSET", "GPCLR"}, Drive(n, reg)
  PROVE  PadInv'
<1> USE DEF PadInv
<1> DEFINE none == [b \in 0 .. 1 |-> {}]
<1>1. PICK read \in {none, outputs[reg]} :
        pad' = [m \in Pins |->
                 IF Bank(m) \in Banks(n) /\ Bit(m) \in Also(n, read)[Bank(m)]
                 THEN [pad[m] EXCEPT !.high = (reg = "GPSET")] ELSE pad[m]]
  BY DEF Drive
<1>2. /\ outputs[reg] \in [0 .. 1 -> SUBSET (0 .. 31)]
      /\ read \in [0 .. 1 -> SUBSET (0 .. 31)]
  BY DEF PadType
<1>3. ASSUME NEW m \in Pins
      PROVE  Bit(m) \in read[Bank(m)] => Bit(m) \in outputs[reg][Bank(m)]
  <2>1. Bank(m) \in 0 .. 1
    BY PinFacts
  <2> QED
    BY <2>1
<1>4. outputs' = [outputs EXCEPT ![reg] = Also(n, outputs[reg])]
  BY DEF Drive
<1>5. drive' = [drive EXCEPT ![n] = (reg = "GPSET")]
  BY DEF Drive
<1>6. PadType'
  <2>1. outputs' \in [{"GPSET", "GPCLR"} -> [0 .. 1 -> SUBSET (0 .. 31)]]
    BY <1>2, <1>4, AlsoBit DEF PadType
  <2>2. pad' \in [Pins -> [high : BOOLEAN, pull : SUBSET (0 .. 1)]]
    <3> DEFINE high == (reg = "GPSET")
    <3>1. /\ pad \in [Pins -> [high : BOOLEAN, pull : SUBSET (0 .. 1)]]
          /\ high \in BOOLEAN
      BY DEF PadType
    <3>2. \A m \in Pins : pad'[m] \in {pad[m], [pad[m] EXCEPT !.high = high]}
      BY <1>1
    <3>3. pad' = [m \in Pins |-> pad'[m]]
      BY <1>1
    <3> HIDE DEF high
    <3>4. \A m \in Pins : pad'[m] \in [high : BOOLEAN, pull : SUBSET (0 .. 1)]
      BY <3>1, <3>2
    <3> QED
      BY <3>3, <3>4
  <2> QED
    BY <1>5, <2>1, <2>2 DEF Drive, PadType
<1>7. PullInv'
  BY DEF Drive, PullInv
<1> DEFINE In(r, m) == Bit(m) \in outputs[r][Bank(m)]
<1>8. ASSUME NEW m \in Pins, NEW r \in {"GPSET", "GPCLR"}
      PROVE  In(r, m)' <=> In(r, m) \/ (r = reg /\ m = n)
  BY <1>2, <1>4, AlsoBit DEF PadType
<1>9. DriveSides'
  BY <1>5, <1>8 DEF DriveSides, PadType
<1>10. ASSUME NEW m \in Pins, ~SetAndCleared(m)' PROVE Driven(m)'
  <2>1. ~SetAndCleared(m)
    BY <1>8, <1>10 DEF SetAndCleared
  <2>2. CASE m = n
    <3>1. Bit(n) \in Also(n, read)[Bank(n)]
      BY <1>2, AlsoBit
    <3> QED
      BY <1>1, <1>5, <2>2, <3>1 DEF Banks, Driven, PadType
  <2>3. CASE m # n /\ Bit(m) \in read[Bank(m)]
    <3>1. In(reg, m)
      BY <1>3, <2>3
    <3>2. drive[m] = (reg = "GPSET")
      BY <2>1, <3>1 DEF SetAndCleared, DriveSides, PadType
    <3>3. pad'[m].high \in {pad[m].high, reg = "GPSET"}
      BY <1>1 DEF PadType
    <3> QED
      BY <1>5, <2>1, <2>3, <3>2, <3>3 DEF Driven, PadsApart, PadType
  <2>4. CASE m # n /\ Bit(m) \notin read[Bank(m)]
    <3>1. pad'[m] = pad[m]
      BY <1>1, <1>2, <2>4, AlsoBit
    <3> QED
      BY <1>5, <2>1, <2>4, <3>1 DEF Driven, PadsApart, PadType
  <2> QED
    BY <2>2, <2>3, <2>4
<1>11. ASSUME NEW m \in Pins, m \notin again' PROVE Pulled(m)'
  <2>1. pad'[m].pull = pad[m].pull
    BY <1>1 DEF PadType
  <2> QED
    BY <1>11, <2>1 DEF Drive, Pulled, PadsApart
<1> QED
  BY <1>6, <1>7, <1>9, <1>10, <1>11 DEF PadsApart

\* Steps that leave the outputs and the pads alone.
LEMMA PadsStay ==
  ASSUME PadInv, UNCHANGED <<outputs, pad, padHistory>>
  PROVE  DriveSides' /\ PadsApart'
BY DEF PadInv, padHistory, DriveSides, PadsApart, Driven, Pulled, SetAndCleared

LEMMA PullStart ==
  ASSUME PadInv, NEW n \in Pins, NEW cfg \in Pulls, Pull(n, cfg)
  PROVE  PadInv'
<1> USE DEF PadInv
<1>1. PadType' /\ DriveSides' /\ PadsApart'
  BY PadsStay DEF Pull, PadType, padHistory
<1>2. cfg \in SUBSET (0 .. 1)
  BY PadAssumption
<1>3. PullInv'
  <2> DEFINE sequence == Sequence(cfg)
  <2>0. sequence \in Seq(Step) /\ Len(sequence) = 5
    BY <1>2, SequenceSteps
  <2> HIDE DEF sequence
  <2>1. /\ pulling'.n = n /\ pulling'.steps = sequence
        /\ pulling' \in [n : Pins, steps : Seq(Step)]
    BY <2>0 DEF Pull, sequence
  <2>2. Len(pulling'.steps) = 6 - 1
    BY <2>0, <2>1
  <2>3. \A i \in 1 .. 5 : pulling'.steps[i - 1 + 1] = Sequence(cfg)[i]
    <3>1. \A i \in 1 .. 5 : i - 1 + 1 = i
      OBVIOUS
    <3> QED
      BY <2>1, <3>1 DEF sequence
  <2> QED
    BY <1>2, <2>1, <2>2, <2>3 DEF PullInv
<1> QED
  BY <1>1, <1>3

\* A step of the sequence: what is next, and what is left.
LEMMA PullStep ==
  ASSUME PullInv, pulling.steps # <<>>,
         pulling' = [pulling EXCEPT !.steps = Tail(@)]
  PROVE  \E cfg \in SUBSET (0 .. 1), k \in 1 .. 5 :
           /\ pulling.n \in Pins
           /\ Head(pulling.steps) = Sequence(cfg)[k]
           /\ k \in {2, 5} => GPPUD = Off
           /\ k = 3 => GPPUD = cfg
           /\ (k + 1 \in {2, 5} => GPPUD' = Off) /\ (k + 1 = 3 => GPPUD' = cfg)
                => PullInv'
<1>1. PICK cfg \in SUBSET (0 .. 1), k \in 1 .. 5 :
        /\ pulling.n \in Pins
        /\ pulling \in [n : Pins, steps : Seq(Step)]
        /\ Len(pulling.steps) = 6 - k
        /\ \A i \in k .. 5 : pulling.steps[i - k + 1] = Sequence(cfg)[i]
        /\ k \in {2, 5} => GPPUD = Off
        /\ k = 3 => GPPUD = cfg
  BY DEF PullInv
<1>2. Head(pulling.steps) = Sequence(cfg)[k]
  BY <1>1, SMTT(30)
<1>3. /\ pulling'.n = pulling.n /\ pulling' \in [n : Pins, steps : Seq(Step)]
      /\ pulling'.steps = Tail(pulling.steps)
      /\ Len(pulling'.steps) = 6 - (k + 1)
      /\ \A i \in k + 1 .. 5 : pulling'.steps[i - (k + 1) + 1] = Sequence(cfg)[i]
  <2> DEFINE s == pulling.steps
  <2>1. s \in Seq(Step) /\ s # <<>> /\ Len(s) = 6 - k
    BY <1>1
  <2>2. /\ Tail(s) \in Seq(Step) /\ Len(Tail(s)) = Len(s) - 1
        /\ \A j \in 1 .. Len(s) - 1 : Tail(s)[j] = s[j + 1]
    BY <2>1
  <2>3. ASSUME NEW i \in k + 1 .. 5
        PROVE  Tail(s)[i - (k + 1) + 1] = Sequence(cfg)[i]
    <3>1. /\ i - (k + 1) + 1 \in 1 .. Len(s) - 1 /\ i \in k .. 5
          /\ (i - (k + 1) + 1) + 1 = i - k + 1
      <4>1. k \in Int /\ i \in Int /\ k + 1 <= i /\ i <= 5 /\ 1 <= k
        OBVIOUS
      <4>2. Len(s) = 6 - k
        BY <2>1
      <4> HIDE DEF s
      <4> QED
        BY <4>1, <4>2
    <3>2. Tail(s)[i - (k + 1) + 1] = s[i - k + 1]
      BY <2>2, <3>1
    <3>3. s[i - k + 1] = Sequence(cfg)[i]
      BY <1>1, <3>1
    <3> QED
      BY <3>2, <3>3
  <2>4. pulling' = [pulling EXCEPT !.steps = Tail(s)]
    OBVIOUS
  <2>5. /\ pulling'.n = pulling.n /\ pulling' \in [n : Pins, steps : Seq(Step)]
        /\ pulling'.steps = Tail(s)
    BY <1>1, <2>2, <2>4
  <2>6. Len(Tail(s)) = 6 - (k + 1)
    BY <1>1, <2>1, <2>2
  <2> HIDE DEF s
  <2>7. \A i \in k + 1 .. 5 : pulling'.steps[i - (k + 1) + 1] = Sequence(cfg)[i]
    BY <2>3, <2>5
  <2> QED
    BY <2>5, <2>6, <2>7 DEF s
<1>4. CASE k = 5
  <2>1. pulling'.steps = <<>>
    BY <1>3, <1>4
  <2> QED
    BY <1>1, <1>2, <2>1 DEF PullInv
<1>5. CASE k # 5
  <2>1. k + 1 \in 1 .. 5
    BY <1>1, <1>5
  <2>2. (k + 1 \in {2, 5} => GPPUD' = Off) /\ (k + 1 = 3 => GPPUD' = cfg) => PullInv'
    BY <1>1, <1>3, <2>1 DEF PullInv
  <2> QED
    BY <1>1, <1>2, <2>2
<1> QED
  BY <1>4, <1>5

LEMMA ControlInv == ASSUME PadInv, ControlStep PROVE PadInv'
<1> USE DEF PadInv
<1>1. PICK cfg \in SUBSET (0 .. 1), k \in 1 .. 5 :
        /\ Head(pulling.steps) = Sequence(cfg)[k]
        /\ k \in {2, 5} => GPPUD = Off
        /\ (k + 1 \in {2, 5} => GPPUD' = Off) /\ (k + 1 = 3 => GPPUD' = cfg)
             => PullInv'
  BY PullStep DEF ControlStep
<1>2. /\ k # 3
      /\ k \in {1, 4} => GPPUD' = GPPUD \ (0 .. 1)
      /\ k = 2 => GPPUD' = GPPUD \cup (cfg \cap 0 .. 1)
      /\ k = 5 => GPPUD' = GPPUD \cup (Off \cap 0 .. 1)
  <2> DEFINE step == Head(pulling.steps)
  <2>1. /\ k \in {1, 4} => step.op = "clear"
        /\ k = 2 => step.op = "set" /\ step.cfg = cfg
        /\ k = 3 => step.op = "clock"
        /\ k = 5 => step.op = "set" /\ step.cfg = Off
    <3>1. /\ k = 1 => step = [op |-> "clear", cfg |-> cfg]
          /\ k = 2 => step = [op |-> "set", cfg |-> cfg]
          /\ k = 3 => step = [op |-> "clock", cfg |-> cfg]
          /\ k = 4 => step = [op |-> "clear", cfg |-> Off]
          /\ k = 5 => step = [op |-> "set", cfg |-> Off]
      BY <1>1, SequenceSteps, Zenon
    <3> HIDE DEF step
    <3> QED
      BY <3>1
  <2>2. /\ step.op # "clock"
        /\ GPPUD' = IF step.op = "clear" THEN GPPUD \ (0 .. 1)
                    ELSE GPPUD \cup (step.cfg \cap 0 .. 1)
    BY DEF ControlStep
  <2> HIDE DEF step
  <2> QED
    BY <2>1, <2>2
<1>3. GPPUD' \subseteq 0 .. 1 /\ (k \in {1, 4} => GPPUD' = Off) /\ (k = 2 => GPPUD' = cfg)
  <2>1. GPPUD \subseteq 0 .. 1 /\ cfg \cap 0 .. 1 = cfg /\ Off \cap 0 .. 1 = Off
    BY <1>1 DEF PadType, Off
  <2>2. CASE k \in {1, 4}
    BY <1>2, <2>1, <2>2 DEF Off
  <2>3. CASE k = 2
    BY <1>1, <1>2, <2>1, <2>3 DEF Off
  <2>4. CASE k = 5
    BY <1>1, <1>2, <2>1, <2>4 DEF Off
  <2> QED
    BY <1>1, <1>2, <2>2, <2>3, <2>4
<1>4. PullInv'
  BY <1>1, <1>2, <1>3
<1>5. PadType' /\ DriveSides' /\ PadsApart'
  BY <1>3, PadsStay DEF ControlStep, PadType, padHistory
<1> QED
  BY <1>4, <1>5

\* The clock reaches the pad of its own pin, and those whose clock is still asserted.
LEMMA ClockInv == ASSUME PadInv, ClockStep PROVE PadInv'
<1> USE DEF PadInv
<1>1. PICK cfg \in SUBSET (0 .. 1), k \in 1 .. 5 :
        /\ pulling.n \in Pins
        /\ Head(pulling.steps) = Sequence(cfg)[k]
        /\ k = 3 => GPPUD = cfg
        /\ (k + 1 \in {2, 5} => GPPUD' = Off) /\ (k + 1 = 3 => GPPUD' = cfg)
             => PullInv'
  BY PullStep DEF ClockStep
<1>2. k = 3 /\ Head(pulling.steps).cfg = cfg
  <2> DEFINE step == Head(pulling.steps)
  <2>1. /\ k = 1 => step = [op |-> "clear", cfg |-> cfg]
        /\ k = 2 => step = [op |-> "set", cfg |-> cfg]
        /\ k = 3 => step = [op |-> "clock", cfg |-> cfg]
        /\ k = 4 => step = [op |-> "clear", cfg |-> Off]
        /\ k = 5 => step = [op |-> "set", cfg |-> Off]
    BY <1>1, SequenceSteps, Zenon
  <2>2. step.op = "clock"
    BY DEF ClockStep
  <2> HIDE DEF step
  <2>3. k = 3 /\ step.cfg = cfg
    BY <1>1, <2>1, <2>2
  <2> QED
    BY <2>3 DEF step
<1>3. PullInv'
  BY <1>1, <1>2
<1> DEFINE n == pulling.n
           clocked == GPPUDCLK[Bank(n)]
<1>4. n \in Pins /\ Bank(n) \in 0 .. 1 /\ Bit(n) \in 0 .. 31 /\ clocked \subseteq 0 .. 31
  BY <1>1, PinFacts DEF PadType
<1>5. PICK retaken \in SUBSET Before(n) :
        pad' = [m \in Pins |-> IF m \in (Written(n) \ Before(n)) \cup retaken
                               THEN [pad[m] EXCEPT !.pull = GPPUD] ELSE pad[m]]
  BY DEF ClockStep
<1>6. pull' = [pull EXCEPT ![n] = cfg] /\ again' = again \cup Before(n)
  BY <1>2 DEF ClockStep
<1>7. Before(n) \subseteq Pins /\ Written(n) \ Before(n) \subseteq {n}
      /\ n \in Written(n)
  BY <1>4, AlsoBit DEF Before, Written, Banks, PadType
<1>8. GPPUD = cfg
  BY <1>1, <1>2
<1>9. PadType'
  <2>1. GPPUDCLK' \in [0 .. 1 -> SUBSET (0 .. 31)]
    BY <1>4, AlsoBit DEF ClockStep, PadType
  <2>2. pad' \in [Pins -> [high : BOOLEAN, pull : SUBSET (0 .. 1)]]
    BY <1>5 DEF PadType
  <2>3. pull' \in [Pins -> SUBSET (0 .. 1)] /\ again' \subseteq Pins
    BY <1>6, <1>7 DEF PadType
  <2> QED
    BY <2>1, <2>2, <2>3 DEF ClockStep, PadType
<1>10. ASSUME NEW m \in Pins, m \notin again' PROVE Pulled(m)'
  <2>1. m \notin Before(n) /\ Pulled(m)
    BY <1>6, <1>10 DEF PadsApart
  <2>2. CASE m = n
    <3>1. pad'[m].pull = GPPUD
      BY <1>5, <1>7, <2>1, <2>2 DEF PadType
    <3> QED
      BY <1>6, <1>8, <2>2, <3>1 DEF Pulled, PadType
  <2>3. CASE m # n
    <3>1. pad'[m] = pad[m]
      BY <1>5, <1>7, <2>1, <2>3
    <3> QED
      BY <1>6, <2>1, <2>3, <3>1 DEF Pulled, PadType
  <2> QED
    BY <2>2, <2>3
<1>11. /\ outputs' = outputs /\ drive' = drive
       /\ \A m \in Pins : pad'[m].high = pad[m].high
  BY <1>5 DEF ClockStep, PadType
<1>12. DriveSides' /\ \A m \in Pins : ~SetAndCleared(m)' => Driven(m)'
  BY <1>11 DEF DriveSides, PadsApart, SetAndCleared, Driven
<1> QED
  BY <1>3, <1>9, <1>10, <1>12 DEF PadsApart

LEMMA PadNextInv == PadInv /\ [PadNext]_padVars => PadInv'
<1> SUFFICES ASSUME PadInv, [PadNext]_padVars PROVE PadInv'
  OBVIOUS
<1>1. CASE UNCHANGED padVars
  <2>1. UNCHANGED <<GPPUD, GPPUDCLK, outputs, pad, pulling, padHistory>>
    BY <1>1 DEF padVars
  <2>2. PadType'
    BY <2>1 DEF padHistory, PadInv, PadType
  <2>3. PullInv'
    BY <2>1 DEF PadInv, PullInv
  <2>4. DriveSides' /\ PadsApart'
    BY <2>1, PadsStay
  <2> QED
    BY <2>2, <2>3, <2>4 DEF PadInv
<1> QED
  BY <1>1, DriveInv, PullStart, ControlInv, ClockInv DEF PadNext, OutputNext, PullNext, GPSETn, GPCLRn

\* Whatever is set, cleared or pulled, in any order, and whatever the output
\* registers read back: a pin drives what it was told last until it has been both
\* set and cleared, and has the pull it was given until its clock is written again.
THEOREM PadsStayApart == PadSpec => []PadsApart
<1>1. PadInv => PadsApart
  BY DEF PadInv
<1> QED
  BY <1>1, PadInitInv, PadNextInv, PTL DEF PadSpec
=============================================================================
