-------------------------------- MODULE Clock --------------------------------
(***************************************************************************)
(* The clock manager driver (inc/clock.hpp, src/clock/clock.cpp).  A       *)
(* register is the set of its bits that are 1, and so is a value.          *)
(*                                                                         *)
(* The driver has two interfaces to the same registers: write() and read() *)
(* go through one function per register, set_, clr_ and get_CM_GPnDIV and  *)
(* CM_GPnCTL take the register as an argument.  They agree on the fields   *)
(* of a divisor register, not on those of a control register.  Setting a   *)
(* field is |= in both, so a field adds up what is written to it until it  *)
(* is cleared.                                                             *)
(***************************************************************************)
EXTENDS Integers

CONSTANTS
  Typed,    \* the control registers that write() and read() are used for
  Generic,  \* the control registers that set_, clr_ and get_ are used for
  Divisors, \* the divisor registers in use, through both
  Values    \* the values to write in use, sets of bits

ControlRegisters == {"CM_GP0CTL", "CM_GP1CTL", "CM_GP2CTL"}
DivisorRegisters == {"CM_GP0DIV", "CM_GP1DIV", "CM_GP2DIV"}
Word == 0 .. 31

ASSUME ClockAssumption ==
  /\ Typed \subseteq ControlRegisters /\ Generic \subseteq ControlRegisters
  /\ Divisors \subseteq DivisorRegisters
  /\ Values \subseteq SUBSET Word

VARIABLES
  m_register, \* per register: its bits
  want        \* per register and field: what was written to it and not
              \* cleared or assigned since (history)

vars == <<m_register, want>>

Controls  == Typed \cup Generic
Registers == Controls \cup Divisors

-----------------------------------------------------------------------------
(* Fields *)

ControlFields == {"SRC", "ENAB", "KILL", "MASH"}
DivisorFields == {"DIVF", "DIVI"}
Fields(reg)   == IF reg \in Divisors THEN DivisorFields ELSE ControlFields
Width == [SRC |-> 4, ENAB |-> 1, KILL |-> 1, MASH |-> 2, DIVF |-> 12, DIVI |-> 12]

\* Mutant: the layout of write() for both interfaces.
ShiftOne(api, f) ==
  CASE f \in {"SRC", "DIVF"} -> 0
    [] f = "ENAB" -> 5
    [] f = "KILL" -> 6
    [] f = "MASH" -> 10
    [] f = "DIVI" -> 12

\* The lowest bit of a field, per interface.
Shift(api, f) ==
  CASE f \in {"SRC", "DIVF"} -> 0
    [] f = "ENAB" -> IF api = "write" THEN 5 ELSE 4
    [] f = "KILL" -> IF api = "write" THEN 6 ELSE 5
    [] f = "MASH" -> IF api = "write" THEN 10 ELSE 8
    [] f = "DIVI" -> 12

Mask(f) == 0 .. Width[f] - 1
Field(api, f) == {Shift(api, f) + b : b \in Mask(f)}

\* A value into its field, and back.
Put(api, f, v) == {Shift(api, f) + b : b \in v \cap Mask(f)}
Get(api, f, word) == {b \in Mask(f) : Shift(api, f) + b \in word}

-----------------------------------------------------------------------------
(* The calls *)

Update(reg, word, asked) ==
  /\ m_register' = [m_register EXCEPT ![reg] = word]
  /\ want' = [want EXCEPT ![reg] = [f \in Fields(reg) |->
                IF f \in DOMAIN asked THEN asked[f] ELSE @[f]]]

\* CM_GPnCTL(f, v), CM_GPnDIV(f, v); set_CM_GPnCTL, set_CM_GPnDIV.
SetField(api, reg, f, v) ==
  Update(reg, m_register[reg] \cup Put(api, f, v),
         [g \in {f} |-> want[reg][f] \cup (v \cap Mask(f))])

\* BOTH_VALUE: 24 bits.
SetBoth(reg, v) ==
  Update(reg, m_register[reg] \cup (v \cap 0 .. 23),
         [f \in DivisorFields |-> want[reg][f] \cup Get("set", f, v)])

\* ALL of write(): every field from the low bits of the one value.
WriteAll(reg, v) ==
  Update(reg, UNION {Put("write", f, v) : f \in ControlFields},
         [f \in ControlFields |-> v \cap Mask(f)])

\* ALL of set_CM_GPnCTL(): the value is the register.
SetAll(reg, v) ==
  Update(reg, v, [f \in ControlFields |-> Get("set", f, v)])

\* clr_CM_GPnCTL(), clr_CM_GPnDIV(): the latter keeps the low half for DIVI.
ClrField(reg, f) ==
  Update(reg, IF f = "DIVI" THEN m_register[reg] \cap 0 .. 11
                            ELSE m_register[reg] \ Field("set", f),
         [g \in {f} |-> {}])

ClrAll(reg) ==
  Update(reg, m_register[reg] \ (IF reg \in Divisors THEN 0 .. 23 ELSE 0 .. 9),
         [f \in Fields(reg) |-> {}])

\* read() and get_CM_GPnCTL(), get_CM_GPnDIV(), whose mask for DIVF is that of
\* one bit.
Read(api, reg, f) ==
  IF api = "set" /\ f = "DIVF" THEN m_register[reg] \ {12}
                               ELSE Get(api, f, m_register[reg])

-----------------------------------------------------------------------------
Init ==
  /\ m_register = [reg \in Registers |-> {}]
  /\ want = [reg \in Registers |-> [f \in Fields(reg) |-> {}]]

Apis(reg) == {api \in {"write", "set"} :
                \/ reg \in Divisors
                \/ reg \in Typed /\ api = "write"
                \/ reg \in Generic /\ api = "set"}

Next ==
  \/ \E reg \in Registers, v \in Values :
       \/ \E api \in Apis(reg), f \in Fields(reg) : SetField(api, reg, f, v)
       \/ reg \in Divisors /\ SetBoth(reg, v)
       \/ reg \in Typed /\ WriteAll(reg, v)
       \/ reg \in Generic /\ SetAll(reg, v)
  \/ \E reg \in Divisors \cup Generic :
       ClrAll(reg) \/ \E f \in Fields(reg) : ClrField(reg, f)

Spec == Init /\ [][Next]_vars

-----------------------------------------------------------------------------
(* Properties *)

\* A divisor register never holds more than its two fields, nor a control
\* register of write() a bit outside its four.
TypeOK ==
  /\ \A reg \in Registers : m_register[reg] \subseteq
       IF reg \in Divisors THEN 0 .. 23
       ELSE IF reg \in Generic THEN Word
       ELSE UNION {Field("write", f) : f \in ControlFields}
  /\ \A reg \in Registers : \A f \in Fields(reg) : want[reg][f] \subseteq Mask(f)

\* Through the interface that a register is used with, every field reads as all
\* that was written to it since it was last cleared or assigned, whatever was
\* done to the other fields and to the register as a whole; get_CM_GPnDIV(DIVF)
\* only as long as no bit of DIVI but its lowest is set.
FieldKept ==
  \A reg \in Registers : \A api \in Apis(reg), f \in Fields(reg) :
    (api = "set" /\ f = "DIVF" => want[reg]["DIVI"] \subseteq {0})
      => Read(api, reg, f) = want[reg][f]
=============================================================================
