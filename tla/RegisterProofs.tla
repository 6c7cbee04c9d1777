----------------------------- MODULE RegisterProofs ---------------------------
(***************************************************************************)
(* Clock manager: for any values and any registers, each control register  *)
(* used through one interface only, every field reads as what was written  *)
(* to it.  SPI0: for any slaves, modes, bytes and room of the FIFOs, what  *)
(* a transfer reads is its own answers.                                    *)
(***************************************************************************)
EXTENDS Clock, Spi, SequenceTheorems, TLAPS

-----------------------------------------------------------------------------
(* The inductive invariant *)

OneInterface == Typed \cap Generic = {}

Bound(reg) ==
  IF reg \in Divisors THEN 0 .. 23
  ELSE IF reg \in Generic THEN Word
  ELSE UNION {Field("write", f) : f \in ControlFields}

WantType ==
  /\ DOMAIN want = Registers
  /\ \A reg \in Registers :
       /\ DOMAIN want[reg] = Fields(reg)
       /\ \A f \in Fields(reg) : want[reg][f] \subseteq Mask(f)

RegisterType ==
  /\ DOMAIN m_register = Registers
  /\ \A reg \in Registers : m_register[reg] \subseteq Bound(reg)

\* What the bits of a field say, whatever get_CM_GPnDIV() makes of them.
BitsKept == \A reg \in Registers : \A api \in Apis(reg), f \in Fields(reg) :
  Get(api, f, m_register[reg]) = want[reg][f]

Inv == WantType /\ RegisterType /\ BitsKept

-----------------------------------------------------------------------------
(* The layouts *)

AllFields == ControlFields \cup DivisorFields
BothApis  == {"write", "set"}

LEMMA Layout ==
  /\ \A f \in AllFields, api \in BothApis :
       /\ Shift(api, f) \in 0 .. 12 /\ Width[f] \in 1 .. 12
       /\ Shift(api, f) + Width[f] <= 24
  /\ Width["DIVF"] = 12 /\ Width["DIVI"] = 12
  /\ \A api \in BothApis :
       Shift(api, "DIVF") = 0 /\ Shift(api, "DIVI") = 12
  /\ \A f \in ControlFields : Shift("set", f) + Width[f] <= 10
  BY DEF AllFields, BothApis, ControlFields, DivisorFields, Shift, Width

\* Two fields of a layout do not overlap.
LEMMA FieldsApart ==
  ASSUME NEW api \in BothApis,
         NEW f \in AllFields, NEW g \in AllFields,
         f \in ControlFields <=> g \in ControlFields,
         NEW b \in Mask(f), NEW c \in Mask(g),
         Shift(api, f) + b = Shift(api, g) + c
  PROVE  f = g /\ b = c
<1>1. b \in 0 .. Width[f] - 1 /\ c \in 0 .. Width[g] - 1
  BY DEF Mask
<1>2. CASE f \in ControlFields /\ g \in ControlFields
  BY <1>1, <1>2 DEF ControlFields, BothApis, Shift, Width
<1>3. CASE f \in DivisorFields /\ g \in DivisorFields
  BY <1>1, <1>3 DEF DivisorFields, BothApis, Shift, Width
<1>4. f \in ControlFields \/ f \in DivisorFields
  BY DEF AllFields
<1>5. g \in ControlFields \/ g \in DivisorFields
  BY DEF AllFields
<1> QED
  BY <1>2, <1>3, <1>4, <1>5 DEF ControlFields, DivisorFields

\* The interfaces that a register is used with share its layout.
LEMMA OneLayout ==
  ASSUME OneInterface, NEW reg \in Registers,
         NEW api \in Apis(reg), NEW other \in Apis(reg), NEW f \in Fields(reg)
  PROVE  /\ api \in BothApis /\ other \in BothApis /\ f \in AllFields
         /\ Shift(api, f) = Shift(other, f)
         /\ \A g \in Fields(reg) : f \in ControlFields <=> g \in ControlFields
<1>1. api \in BothApis /\ other \in BothApis
  BY DEF Apis, BothApis
<1>2. CASE reg \in Divisors
  BY <1>1, <1>2, Layout DEF Fields, DivisorFields, ControlFields, AllFields
<1>3. CASE reg \notin Divisors
  <2>1. api = other
    BY <1>3 DEF OneInterface, Apis, Registers, Controls
  <2> QED
    BY <1>1, <1>3, <2>1 DEF Fields, AllFields
<1> QED
  BY <1>2, <1>3

\* A field put into a word is read back, and no other field sees it.
LEMMA PutGet ==
  ASSUME OneInterface, NEW reg \in Registers,
         NEW api \in Apis(reg), NEW other \in Apis(reg),
         NEW f \in Fields(reg), NEW g \in Fields(reg), NEW v
  PROVE  /\ Get(other, g, Put(api, f, v)) = IF g = f THEN v \cap Mask(f) ELSE {}
         /\ Put(api, f, v) \subseteq Field(api, f)
<1>1. /\ other \in BothApis /\ f \in AllFields /\ g \in AllFields
      /\ Shift(api, f) = Shift(other, f)
      /\ f \in ControlFields <=> g \in ControlFields
  BY OneLayout
<1>2. ASSUME NEW b \in Mask(g)
      PROVE  Shift(other, g) + b \in Put(api, f, v) <=> g = f /\ b \in v
  BY <1>1, <1>2, FieldsApart DEF Put
<1>3. Get(other, g, Put(api, f, v)) = {b \in Mask(g) : g = f /\ b \in v}
  BY <1>2 DEF Get
<1> QED
  BY <1>3 DEF Put, Field

\* A field lies within its register.
LEMMA FieldBound ==
  ASSUME NEW reg \in Registers, NEW api \in Apis(reg), NEW f \in Fields(reg)
  PROVE  Field(api, f) \subseteq Bound(reg)
<1>1. api \in BothApis /\ f \in AllFields
  BY DEF Apis, BothApis, Fields, AllFields
<1>2. \A b \in Mask(f) : Shift(api, f) + b \in 0 .. 23
  BY <1>1, Layout DEF Mask
<1>3. CASE reg \in Divisors \/ reg \in Generic
  BY <1>2, <1>3 DEF Bound, Field, Word
<1>4. CASE reg \notin Divisors /\ reg \notin Generic
  BY <1>4 DEF Bound, Apis, Fields
<1> QED
  BY <1>3, <1>4

\* A field taken out of a word, and no other.
LEMMA TakeGet ==
  ASSUME OneInterface, NEW reg \in Registers,
         NEW api \in Apis(reg), NEW other \in Apis(reg),
         NEW f \in Fields(reg), NEW g \in Fields(reg), NEW word
  PROVE  Get(other, g, word \ Field(api, f)) =
           IF g = f THEN {} ELSE Get(other, g, word)
<1>1. /\ other \in BothApis /\ f \in AllFields /\ g \in AllFields
      /\ Shift(api, f) = Shift(other, f)
      /\ f \in ControlFields <=> g \in ControlFields
  BY OneLayout
<1>2. ASSUME NEW b \in Mask(g)
      PROVE  Shift(other, g) + b \in Field(api, f) <=> g = f
  BY <1>1, <1>2, FieldsApart DEF Field
<1> QED
  BY <1>2 DEF Get

LEMMA GetUnion ==
  ASSUME NEW api, NEW f, NEW v, NEW w
  PROVE  Get(api, f, v \cup w) = Get(api, f, v) \cup Get(api, f, w)
  BY DEF Get

-----------------------------------------------------------------------------
(* Every call *)

LEMMA InitInv == Init => Inv
<1> SUFFICES ASSUME Init PROVE Inv
  OBVIOUS
<1>1. WantType
  BY DEF Init, WantType
<1>2. RegisterType
  BY DEF Init, RegisterType
<1>3. BitsKept
  BY DEF Init, BitsKept, Get
<1> QED
  BY <1>1, <1>2, <1>3 DEF Inv

\* A call keeps the invariant if the word that it leaves has, in every field,
\* what is asked for or, where nothing is asked, what was there.
LEMMA UpdateKeeps ==
  ASSUME Inv, NEW reg \in Registers, NEW word, NEW given,
         Update(reg, word, given), word \subseteq Bound(reg),
         \A f \in Fields(reg) :
           LET now == IF f \in DOMAIN given THEN given[f] ELSE want[reg][f]
           IN /\ now \subseteq Mask(f)
              /\ \A api \in Apis(reg) : Get(api, f, word) = now
  PROVE  Inv'
<1> DEFINE now(f) == IF f \in DOMAIN given THEN given[f] ELSE want[reg][f]
           then == [f \in Fields(reg) |-> now(f)]
<1>1. /\ m_register' = [m_register EXCEPT ![reg] = word]
      /\ want' = [want EXCEPT ![reg] = then]
  BY DEF Update
<1>2. \A f \in Fields(reg) : then[f] = now(f)
  OBVIOUS
<1>3. DOMAIN then = Fields(reg)
  OBVIOUS
<1> HIDE DEF then
<1>4. WantType'
  BY <1>1, <1>2, <1>3 DEF Inv, WantType
<1>5. RegisterType'
  BY <1>1 DEF Inv, RegisterType
<1>6. BitsKept'
  <2> SUFFICES ASSUME NEW r \in Registers, NEW api \in Apis(r), NEW f \in Fields(r)
               PROVE  Get(api, f, m_register'[r]) = want'[r][f]
    BY DEF BitsKept, Get
  <2>1. CASE r = reg
    BY <2>1, <1>1, <1>2 DEF Inv, WantType, RegisterType
  <2>2. CASE r # reg
    BY <2>2, <1>1 DEF Inv, WantType, RegisterType, BitsKept
  <2> QED
    BY <2>1, <2>2
<1> QED
  BY <1>4, <1>5, <1>6 DEF Inv

LEMMA SetFieldInv ==
  ASSUME OneInterface, Inv, NEW reg \in Registers, NEW api \in Apis(reg),
         NEW f \in Fields(reg), NEW v, SetField(api, reg, f, v)
  PROVE  Inv'
<1> DEFINE word  == m_register[reg] \cup Put(api, f, v)
           given == [g \in {f} |-> want[reg][f] \cup (v \cap Mask(f))]
<1>1. Update(reg, word, given)
  BY DEF SetField
<1>2. word \subseteq Bound(reg)
  BY PutGet, FieldBound DEF Inv, RegisterType
<1>3. ASSUME NEW g \in Fields(reg), NEW other \in Apis(reg)
      PROVE  Get(other, g, word) =
               IF g = f THEN want[reg][f] \cup (v \cap Mask(f)) ELSE want[reg][g]
  <2>1. Get(other, g, m_register[reg]) = want[reg][g]
    BY DEF Inv, BitsKept
  <2>2. Get(other, g, Put(api, f, v)) = IF g = f THEN v \cap Mask(f) ELSE {}
    BY PutGet
  <2>3. Get(other, g, word) =
          Get(other, g, m_register[reg]) \cup Get(other, g, Put(api, f, v))
    BY GetUnion
  <2>4. CASE g = f
    BY <2>1, <2>2, <2>3, <2>4
  <2>5. CASE g # f
    BY <2>1, <2>2, <2>3, <2>5
  <2> QED
    BY <2>4, <2>5
<1>4. \A g \in Fields(reg) : want[reg][g] \subseteq Mask(g)
  BY DEF Inv, WantType
<1>5. DOMAIN given = {f} /\ given[f] = want[reg][f] \cup (v \cap Mask(f))
  OBVIOUS
<1> HIDE DEF word, given
<1> QED
  BY <1>1, <1>2, <1>3, <1>4, <1>5, UpdateKeeps, ZenonT(60)

LEMMA SetBothInv ==
  ASSUME OneInterface, Inv, NEW reg \in Divisors, NEW v, SetBoth(reg, v)
  PROVE  Inv'
<1> DEFINE word  == m_register[reg] \cup (v \cap 0 .. 23)
           given == [f \in DivisorFields |-> want[reg][f] \cup Get("set", f, v)]
<1>1. Update(reg, word, given) /\ reg \in Registers /\ Fields(reg) = DivisorFields
  BY DEF SetBoth, Registers, Fields
<1>2. word \subseteq Bound(reg)
  BY <1>1 DEF Inv, RegisterType, Bound
<1>3. ASSUME NEW f \in DivisorFields, NEW api \in Apis(reg)
      PROVE  Get(api, f, word) = want[reg][f] \cup Get("set", f, v)
  <2>1. Get(api, f, m_register[reg]) = want[reg][f]
    BY <1>1 DEF Inv, BitsKept
  <2>2. /\ api \in BothApis /\ "set" \in BothApis /\ f \in {"DIVF", "DIVI"}
        /\ \A b \in Mask(f) : Shift(api, f) + b \in 0 .. 23
        /\ Shift(api, f) = Shift("set", f)
    BY Layout DEF Apis, BothApis, DivisorFields, Mask
  <2>3. Get(api, f, v \cap 0 .. 23) = Get("set", f, v)
    BY <2>2 DEF Get
  <2>4. Get(api, f, word) = Get(api, f, m_register[reg]) \cup Get(api, f, v \cap 0 .. 23)
    BY GetUnion
  <2> QED
    BY <2>1, <2>3, <2>4
<1>4. \A f \in DivisorFields : want[reg][f] \cup Get("set", f, v) \subseteq Mask(f)
  BY <1>1 DEF Inv, WantType, Get
<1>5. /\ DOMAIN given = DivisorFields
      /\ \A f \in DivisorFields : given[f] = want[reg][f] \cup Get("set", f, v)
  OBVIOUS
<1> HIDE DEF word, given
<1> QED
  BY <1>1, <1>2, <1>3, <1>4, <1>5, UpdateKeeps

LEMMA WriteAllInv ==
  ASSUME OneInterface, Inv, NEW reg \in Typed, reg \notin Divisors, NEW v,
         WriteAll(reg, v)
  PROVE  Inv'
<1> DEFINE word  == UNION {Put("write", f, v) : f \in ControlFields}
           given == [f \in ControlFields |-> v \cap Mask(f)]
<1>1. /\ Update(reg, word, given) /\ reg \in Registers
      /\ Fields(reg) = ControlFields /\ Apis(reg) = {"write"}
  BY DEF WriteAll, Registers, Controls, Fields, Apis, OneInterface
<1>2. word \subseteq Bound(reg)
  BY <1>1, PutGet, FieldBound
<1>3. ASSUME NEW g \in ControlFields
      PROVE  Get("write", g, word) = v \cap Mask(g)
  <2>1. \A f \in ControlFields : Get("write", g, Put("write", f, v)) =
          IF g = f THEN v \cap Mask(f) ELSE {}
    BY <1>1, PutGet
  <2>2. Get("write", g, word) =
          UNION {Get("write", g, Put("write", f, v)) : f \in ControlFields}
    BY DEF Get
  <2> QED
    BY <2>1, <2>2
<1>5. /\ DOMAIN given = ControlFields
      /\ \A f \in ControlFields : given[f] = v \cap Mask(f)
  OBVIOUS
<1> HIDE DEF word, given
<1> QED
  BY <1>1, <1>2, <1>3, <1>5, UpdateKeeps

LEMMA SetAllInv ==
  ASSUME OneInterface, Inv, NEW reg \in Generic, reg \notin Divisors,
         NEW v \in Values, SetAll(reg, v)
  PROVE  Inv'
<1> DEFINE given == [f \in ControlFields |-> Get("set", f, v)]
<1>1. /\ Update(reg, v, given) /\ reg \in Registers
      /\ Fields(reg) = ControlFields /\ Apis(reg) = {"set"}
  BY DEF SetAll, Registers, Controls, Fields, Apis, OneInterface
<1>2. v \subseteq Bound(reg)
  BY ClockAssumption DEF Bound
<1>3. \A f \in ControlFields : Get("set", f, v) \subseteq Mask(f)
  BY DEF Get
<1>4. /\ DOMAIN given = ControlFields
      /\ \A f \in ControlFields : given[f] = Get("set", f, v)
  OBVIOUS
<1> HIDE DEF given
<1> QED
  BY <1>1, <1>2, <1>3, <1>4, UpdateKeeps

LEMMA ClrFieldInv ==
  ASSUME OneInterface, Inv, NEW reg \in Divisors \cup Generic,
         reg \in Divisors => reg \notin Generic,
         NEW f \in Fields(reg), ClrField(reg, f)
  PROVE  Inv'
<1> DEFINE word  == IF f = "DIVI" THEN m_register[reg] \cap 0 .. 11
                                  ELSE m_register[reg] \ Field("set", f)
           given == [g \in {f} |-> {}]
<1>1. Update(reg, word, given) /\ reg \in Registers /\ "set" \in Apis(reg)
  BY DEF ClrField, Registers, Controls, Apis
<1>2. word \subseteq Bound(reg)
  BY <1>1 DEF Inv, RegisterType
<1>3. ASSUME NEW g \in Fields(reg), NEW api \in Apis(reg)
      PROVE  Get(api, g, word) = IF g = f THEN {} ELSE want[reg][g]
  <2>1. Get(api, g, m_register[reg]) = want[reg][g]
    BY <1>1 DEF Inv, BitsKept
  <2>2. CASE f # "DIVI"
    BY <2>1, <2>2, <1>1, TakeGet
  <2>3. CASE f = "DIVI"
    <3>1. reg \in Divisors /\ api \in BothApis
      BY <2>3 DEF Fields, ControlFields, Apis, BothApis
    <3>2. g = "DIVF" \/ g = "DIVI"
      BY <3>1 DEF Fields, DivisorFields
    <3>3. \A b \in Mask(g) : Shift(api, g) + b \in 0 .. 11 <=> g = "DIVF"
      BY <3>1, <3>2, Layout DEF Mask
    <3> QED
      BY <2>1, <2>3, <3>2, <3>3 DEF Get
  <2> QED
    BY <2>2, <2>3
<1>4. \A g \in Fields(reg) : want[reg][g] \subseteq Mask(g)
  BY <1>1 DEF Inv, WantType
<1>5. DOMAIN given = {f} /\ given[f] = {}
  OBVIOUS
<1> HIDE DEF word, given
<1> QED
  BY <1>1, <1>2, <1>3, <1>4, <1>5, UpdateKeeps

LEMMA ClrAllInv ==
  ASSUME OneInterface, Inv, NEW reg \in Divisors \cup Generic, ClrAll(reg)
  PROVE  Inv'
<1> DEFINE word  == m_register[reg] \ (IF reg \in Divisors THEN 0 .. 23 ELSE 0 .. 9)
           given == [f \in Fields(reg) |-> {}]
<1>1. Update(reg, word, given) /\ reg \in Registers
  BY DEF ClrAll, Registers, Controls
<1>2. word \subseteq Bound(reg)
  BY <1>1 DEF Inv, RegisterType
<1>3. ASSUME NEW f \in Fields(reg), NEW api \in Apis(reg)
      PROVE  Get(api, f, word) = {}
  <2>1. CASE reg \in Divisors
    <3>1. \A b \in Mask(f) : Shift(api, f) + b \in 0 .. 23
      BY <2>1, Layout DEF Fields, AllFields, Apis, BothApis, Mask
    <3> QED
      BY <2>1, <3>1 DEF Get
  <2>2. CASE reg \notin Divisors
    <3>1. api = "set" /\ f \in ControlFields
      BY <2>2 DEF Apis, Fields, OneInterface
    <3>2. \A b \in Mask(f) : Shift(api, f) + b \in 0 .. 9
      BY <3>1, Layout DEF AllFields, BothApis, Mask
    <3> QED
      BY <2>2, <3>2 DEF Get
  <2> QED
    BY <2>1, <2>2
<1>4. DOMAIN given = Fields(reg) /\ \A f \in Fields(reg) : given[f] = {}
  OBVIOUS
<1> HIDE DEF word, given
<1> QED
  BY <1>1, <1>2, <1>3, <1>4, UpdateKeeps

LEMMA NextInv == OneInterface /\ Inv /\ [Next]_vars => Inv'
<1> SUFFICES ASSUME OneInterface, Inv, [Next]_vars PROVE Inv'
  OBVIOUS
<1>1. \A reg \in Registers : reg \in Divisors => reg \notin Typed \cup Generic
  BY ClockAssumption DEF ControlRegisters, DivisorRegisters
<1>2. Divisors \cup Typed \cup Generic \subseteq Registers
  BY DEF Registers, Controls
<1>3. ASSUME NEW reg \in Registers, NEW v \in Values, NEW api \in Apis(reg),
             NEW f \in Fields(reg), SetField(api, reg, f, v)
      PROVE  Inv'
  BY <1>3, SetFieldInv
<1>4. ASSUME NEW reg \in Divisors, NEW v \in Values, SetBoth(reg, v) PROVE Inv'
  BY <1>4, SetBothInv
<1>5. ASSUME NEW reg \in Typed, NEW v \in Values, WriteAll(reg, v) PROVE Inv'
  BY <1>1, <1>2, <1>5, WriteAllInv
<1>6. ASSUME NEW reg \in Generic, NEW v \in Values, SetAll(reg, v) PROVE Inv'
  BY <1>1, <1>2, <1>6, SetAllInv
<1>7. ASSUME NEW reg \in Divisors \cup Generic, NEW f \in Fields(reg), ClrField(reg, f)
      PROVE  Inv'
  BY <1>1, <1>2, <1>7, ClrFieldInv
<1>8. ASSUME NEW reg \in Divisors \cup Generic, ClrAll(reg) PROVE Inv'
  BY <1>8, ClrAllInv
<1>9. CASE UNCHANGED vars
  BY <1>9 DEF vars, Inv, WantType, RegisterType, BitsKept, Get
<1> QED
  BY <1>3, <1>4, <1>5, <1>6, <1>7, <1>8, <1>9 DEF Next

LEMMA Invariance ==
  ASSUME OneInterface
  PROVE  Spec => []Inv
<1>1. OneInterface
  OBVIOUS
<1>2. Inv /\ [Next]_vars => Inv'
  BY <1>1, NextInv
<1> QED
  BY <1>2, InitInv, PTL DEF Spec

-----------------------------------------------------------------------------
\* A register never holds a bit that is not in one of its fields, unless the
\* whole of it was assigned.
THEOREM TypeCorrect ==
  ASSUME OneInterface
  PROVE  Spec => []TypeOK
<1>1. Inv => TypeOK
  BY DEF Inv, RegisterType, Bound, WantType, TypeOK
<1> QED
  BY <1>1, Invariance, PTL

\* However the calls on a register are ordered and whatever values they write,
\* each field reads as all that was written to it since it was last cleared or
\* assigned.
THEOREM FieldsKept ==
  ASSUME OneInterface
  PROVE  Spec => []FieldKept
<1>1. Inv => FieldKept
  <2> SUFFICES ASSUME Inv, NEW reg \in Registers, NEW api \in Apis(reg),
                      NEW f \in Fields(reg),
                      api = "set" /\ f = "DIVF" => want[reg]["DIVI"] \subseteq {0}
               PROVE  Read(api, reg, f) = want[reg][f]
    BY DEF FieldKept
  <2>1. Get(api, f, m_register[reg]) = want[reg][f]
    BY DEF Inv, BitsKept
  <2>2. CASE api = "set" /\ f = "DIVF"
    <3>1. reg \in Divisors /\ "DIVI" \in Fields(reg)
      BY <2>2 DEF Fields, ControlFields, DivisorFields
    <3>2. m_register[reg] \subseteq 0 .. 23
      BY <3>1 DEF Inv, RegisterType, Bound
    <3>3. Get("set", "DIVI", m_register[reg]) \subseteq {0}
      BY <2>2, <3>1 DEF Inv, BitsKept
    <3>4. /\ Shift("set", "DIVI") = 12 /\ Shift("set", "DIVF") = 0
          /\ Mask("DIVI") = 0 .. 11 /\ Mask("DIVF") = 0 .. 11
      BY Layout DEF BothApis, Mask
    <3>5. \A b \in 1 .. 11 : 12 + b \notin m_register[reg]
      BY <3>3, <3>4 DEF Get
    <3>6. \A n \in m_register[reg] : n \in 0 .. 11 \/ n = 12
      <4> SUFFICES ASSUME NEW n \in m_register[reg], n \notin 0 .. 12 PROVE FALSE
        BY <3>2
      <4>1. n - 12 \in 1 .. 11 /\ 12 + (n - 12) = n
        BY <3>2
      <4> QED
        BY <4>1, <3>5
    <3>7. Get("set", "DIVF", m_register[reg]) = m_register[reg] \ {12}
      BY <3>4, <3>6 DEF Get
    <3> QED
      BY <2>1, <2>2, <3>7 DEF Read
  <2>3. CASE ~(api = "set" /\ f = "DIVF")
    BY <2>1, <2>3 DEF Read
  <2> QED
    BY <2>2, <2>3
<1> QED
  BY <1>1, Invariance, PTL

-----------------------------------------------------------------------------
(* SPI0: the inductive invariant *)

Setting == [ce : SUBSET (0 .. 1), mode : (SUBSET {0}) \X (SUBSET {0})]
Answer  == [byte : Bytes, with : Setting]

SpiType ==
  /\ CS \subseteq (0 .. 3) \cup {7}
  /\ tx \in Seq(Bytes)
  /\ rx \in Seq(Answer) /\ owed \in Seq(Answer)
  /\ asked \in Setting
  /\ cleared \in BOOLEAN

\* A field of CS has the setting that was asked for last.
CE   == CS \cap 0 .. 1 = asked.ce
CPOL == 3 \in CS <=> 0 \in asked.mode[1]
CPHA == 2 \in CS <=> 0 \in asked.mode[2]

\* The FIFOs are empty.
Idle == tx = <<>> /\ rx = <<>>

\* The two updates of a call set_cs(f, v); clr_cs(f) is the first.
Lower(f)    == [clear |-> Bits[f], set |-> {}]
Raise(f, v) == [clear |-> {}, set |-> In(f, v)]

\* What is left to do is an end of one call, and CS is what the updates before
\* have made of it.
Stage ==
  \/ todo = <<>> /\ CE /\ CPOL /\ CPHA /\ (cleared => Idle)
  \/ /\ ~Active /\ CE /\ (cleared => Idle)
     /\ \/ todo = <<Lower("CPOL"), Raise("CPOL", asked.mode[1]),
                    Lower("CPHA"), Raise("CPHA", asked.mode[2])>>
        \/ /\ todo = <<Raise("CPOL", asked.mode[1]),
                       Lower("CPHA"), Raise("CPHA", asked.mode[2])>>
           /\ 3 \notin CS
        \/ todo = <<Lower("CPHA"), Raise("CPHA", asked.mode[2])>> /\ CPOL
        \/ todo = <<Raise("CPHA", asked.mode[2])>> /\ CPOL /\ 2 \notin CS
  \/ /\ ~Active /\ CPOL /\ CPHA /\ (cleared => Idle)
     /\ \/ todo = <<Lower("CS_LINE"), Raise("CS_LINE", asked.ce)>>
        \/ todo = <<Raise("CS_LINE", asked.ce)>> /\ CS \cap 0 .. 1 = {}
  \/ /\ ~Active /\ CE /\ CPOL /\ CPHA /\ cleared
     /\ \/ todo = <<Lower("CLEAR"), Raise("CLEAR", {0, 1})>>
        \/ todo = <<Raise("CLEAR", {0, 1})>>
  \/ /\ ~Active /\ CE /\ CPOL /\ CPHA /\ ~cleared /\ Idle /\ owed = <<>>
     /\ \/ todo = <<Lower("TA"), Raise("TA", {0})>>
        \/ todo = <<Raise("TA", {0})>>
  \/ Active /\ CE /\ CPOL /\ CPHA /\ todo = <<Lower("TA")>>

\* During a transfer the answers owed are those that wait to be read and those
\* that the bytes still to be shifted will have.
Owed ==
  /\ Active => ~cleared
  /\ ~cleared => /\ Len(rx) <= Len(owed)
                 /\ \A i \in 1 .. Len(rx) : rx[i] = owed[i]
  /\ Active => /\ Len(rx) + Len(tx) = Len(owed)
               /\ \A i \in 1 .. Len(tx) :
                    owed[Len(rx) + i] = [byte |-> tx[i], with |-> asked]

SpiInv == SpiType /\ Stage /\ Owed

-----------------------------------------------------------------------------
(* CS and its updates *)

LEMMA Empty == \A S : <<>> \in Seq(S)
  OBVIOUS

LEMMA Layouts ==
  /\ Bits["CS_LINE"] = 0 .. 1 /\ Bits["CPHA"] = {2} /\ Bits["CPOL"] = {3}
  /\ Bits["CLEAR"] = 4 .. 5 /\ Bits["TA"] = {7}
  /\ First["CS_LINE"] = 0 /\ First["CPHA"] = 2 /\ First["CPOL"] = 3
  /\ First["CLEAR"] = 4 /\ First["TA"] = 7
  BY DEF Bits, First

LEMMA FieldValues ==
  /\ \A v \in SUBSET (0 .. 1) : In("CS_LINE", v) = v
  /\ \A v \in SUBSET {0} : /\ In("CPOL", v) = {3 : b \in v}
                           /\ In("CPHA", v) = {2 : b \in v}
  /\ In("CLEAR", {0, 1}) = {4, 5} /\ In("TA", {0}) = {7}
<1> USE Layouts DEF In
<1>1. ASSUME NEW v \in SUBSET (0 .. 1) PROVE In("CS_LINE", v) = v
  <2>1. {0 + b : b \in v} = v
    <3>1. \A b \in v : 0 + b = b
      OBVIOUS
    <3> QED
      BY <3>1, ZenonT(60)
  <2> QED
    BY <2>1
<1>2. \A v \in SUBSET {0} : In("CPOL", v) = {3 : b \in v}
  OBVIOUS
<1>3. \A v \in SUBSET {0} : In("CPHA", v) = {2 : b \in v}
  OBVIOUS
<1>4. In("CLEAR", {0, 1}) = {4, 5}
  OBVIOUS
<1>5. In("TA", {0}) = {7}
  OBVIOUS
<1> QED
  BY <1>1, <1>2, <1>3, <1>4, <1>5

LEMMA ActiveBit == Active <=> 7 \in CS
  BY Layouts DEF Active, get_cs

\* Two programs of two updates make one of four.
LEMMA Join ==
  ASSUME NEW S, NEW s \in Seq(S), NEW t \in Seq(S), NEW u \in Seq(S),
         Len(s) = 2, Len(t) = 2, Len(u) = 4,
         u[1] = s[1], u[2] = s[2], u[3] = t[1], u[4] = t[2]
  PROVE  s \o t = u
<1> DEFINE r == s \o t
<1>1. /\ r \in Seq(S) /\ Len(r) = Len(s) + Len(t)
      /\ \A i \in 1 .. Len(s) + Len(t) :
           r[i] = IF i <= Len(s) THEN s[i] ELSE t[i - Len(s)]
  BY ConcatProperties, Zenon
<1> HIDE DEF r
<1>2. r[1] = u[1] /\ r[2] = u[2] /\ r[3] = u[3] /\ r[4] = u[4]
  <2> DEFINE L == Len(s)
             M == Len(t)
  <2>1. L = 2 /\ M = 2
    OBVIOUS
  <2>2. \A i \in 1 .. L + M : r[i] = IF i <= L THEN s[i] ELSE t[i - L]
    BY <1>1, Zenon
  <2> HIDE DEF L, M
  <2>3. r[1] = s[1] /\ r[2] = s[2] /\ r[3] = t[1] /\ r[4] = t[2]
    BY <2>1, <2>2
  <2> QED
    BY <2>3, Zenon
<1>3. \A i \in 1 .. 4 : r[i] = u[i]
  <2>1. \A i \in 1 .. 4 : i = 1 \/ i = 2 \/ i = 3 \/ i = 4
    OBVIOUS
  <2> QED
    BY <1>2, <2>1, Zenon
<1>4. Len(r) = 4
  BY <1>1
<1>5. r = u
  BY <1>1, <1>3, <1>4
<1> QED
  BY <1>5 DEF r

LEMMA JoinTwo ==
  ASSUME NEW a, NEW b, NEW c, NEW d
  PROVE  <<a, b>> \o <<c, d>> = <<a, b, c, d>>
<1> DEFINE S == {a, b, c, d}
           s == <<a, b>>
           t == <<c, d>>
           u == <<a, b, c, d>>
<1>1. /\ s \in Seq(S) /\ Len(s) = 2 /\ s[1] = a /\ s[2] = b
      /\ t \in Seq(S) /\ Len(t) = 2 /\ t[1] = c /\ t[2] = d
  OBVIOUS
<1>2. u \in Seq(S) /\ Len(u) = 4 /\ u[1] = a /\ u[2] = b /\ u[3] = c /\ u[4] = d
  OBVIOUS
<1> HIDE DEF S, s, t, u
<1>3. s \o t = u
  BY <1>1, <1>2, Join, Zenon
<1> QED
  BY <1>3 DEF s, t, u

LEMMA Queue ==
  ASSUME NEW a, NEW b, NEW c, NEW d
  PROVE  /\ Head(<<a>>) = a /\ Tail(<<a>>) = <<>>
         /\ Head(<<a, b>>) = a /\ Tail(<<a, b>>) = <<b>>
         /\ Head(<<a, b, c>>) = a /\ Tail(<<a, b, c>>) = <<b, c>>
         /\ Head(<<a, b, c, d>>) = a /\ Tail(<<a, b, c, d>>) = <<b, c, d>>
         /\ <<a>> # <<>> /\ <<a, b>> # <<>>
         /\ <<a, b, c>> # <<>> /\ <<a, b, c, d>> # <<>>
<1>1. Head(<<a>>) = a /\ Tail(<<a>>) = <<>>
  OBVIOUS
<1>2. Head(<<a, b>>) = a /\ Tail(<<a, b>>) = <<b>>
  OBVIOUS
<1>3. Head(<<a, b, c>>) = a /\ Tail(<<a, b, c>>) = <<b, c>>
  OBVIOUS
<1>4. Head(<<a, b, c, d>>) = a /\ Tail(<<a, b, c, d>>) = <<b, c, d>>
  OBVIOUS
<1>5. /\ <<a>> # <<>> /\ <<a, b>> # <<>>
      /\ <<a, b, c>> # <<>> /\ <<a, b, c, d>> # <<>>
  OBVIOUS
<1> QED
  BY <1>1, <1>2, <1>3, <1>4, <1>5

-----------------------------------------------------------------------------
(* SPI0: every step *)

LEMMA SpiInitInv == SpiInit => SpiInv
<1> SUFFICES ASSUME SpiInit PROVE SpiInv
  OBVIOUS
<1>1. SpiType
  <2>1. asked \in Setting
    BY DEF SpiInit, Setting
  <2>2. CS = {} /\ tx = <<>> /\ rx = <<>> /\ owed = <<>> /\ cleared = FALSE
    BY DEF SpiInit
  <2>3. tx \in Seq(Bytes) /\ rx \in Seq(Answer) /\ owed \in Seq(Answer)
    BY <2>2
  <2> QED
    BY <2>1, <2>2, <2>3 DEF SpiType
<1>2. Stage
  BY DEF SpiInit, Stage, CE, CPOL, CPHA, Idle
<1>3. Owed
  BY ActiveBit DEF SpiInit, Owed
<1> QED
  BY <1>1, <1>2, <1>3 DEF SpiInv

\* One update of CS, told by the bits it clears and those it sets.
LEMMA Updated ==
  ASSUME SpiInv, Access, NEW c, NEW s \in SUBSET ((0 .. 5) \cup {7}), NEW rest,
         Head(todo) = [clear |-> c, set |-> s], Tail(todo) = rest
  PROVE  /\ CS' = ((CS \ c) \cup s) \ (4 .. 5)
         /\ tx' = IF 4 \in s THEN <<>> ELSE tx
         /\ rx' = IF 5 \in s THEN <<>> ELSE rx
         /\ todo' = rest
         /\ UNCHANGED <<CLK, cleared, asked, owed>>
         /\ SpiType' /\ (Active' <=> 7 \in CS')
         /\ (c \cup s) \cap 0 .. 1 = {} => (CE' <=> CE)
         /\ 2 \notin c \cup s => (CPHA' <=> CPHA)
         /\ 3 \notin c \cup s => (CPOL' <=> CPOL)
<1> USE DEF SpiInv
<1> DEFINE word == (CS \ c) \cup s
<1>1. /\ CS' = word \ (4 .. 5)
      /\ tx' = IF 4 \in word THEN <<>> ELSE tx
      /\ rx' = IF 5 \in word THEN <<>> ELSE rx
      /\ todo' = rest
      /\ UNCHANGED <<CLK, cleared, asked, owed>>
  <2>1. Head(todo).clear = c /\ Head(todo).set = s
    OBVIOUS
  <2>2. /\ Bits["CLEAR"] = 4 .. 5
        /\ First["CLEAR"] = 4 /\ First["CLEAR"] + 1 = 5
    BY Layouts
  <2> QED
    BY <2>1, <2>2 DEF Access
<1>2. (4 \in word <=> 4 \in s) /\ (5 \in word <=> 5 \in s)
  BY DEF SpiType
<1>3. Active' <=> 7 \in CS'
  BY Layouts DEF Active, get_cs
<1>4. SpiType'
  <2>1. CS' \subseteq (0 .. 3) \cup {7}
    <3>1. \A b \in CS : b \in (0 .. 5) \cup {7}
      BY DEF SpiType
    <3>2. \A b \in s : b \in (0 .. 5) \cup {7}
      BY Zenon
    <3>3. \A b \in (0 .. 5) \cup {7} : b \notin 4 .. 5 => b \in (0 .. 3) \cup {7}
      OBVIOUS
    <3> QED
      BY <1>1, <3>1, <3>2, <3>3, Zenon
  <2>2. tx' \in Seq(Bytes) /\ rx' \in Seq(Answer)
    BY <1>1, Empty DEF SpiType
  <2> QED
    BY <1>1, <2>1, <2>2 DEF SpiType
<1>5. (c \cup s) \cap 0 .. 1 = {} => (CE' <=> CE)
  <2>1. (c \cup s) \cap 0 .. 1 = {} => CS' \cap 0 .. 1 = CS \cap 0 .. 1
    BY <1>1
  <2> QED
    BY <1>1, <2>1 DEF CE
<1>6. /\ 2 \notin c \cup s => (CPHA' <=> CPHA)
      /\ 3 \notin c \cup s => (CPOL' <=> CPOL)
  BY <1>1 DEF CPHA, CPOL
<1> QED
  BY <1>1, <1>2, <1>3, <1>4, <1>5, <1>6

\* An update that sets neither CLEAR nor TA, nor clears TA, leaves the FIFOs and
\* the transfer alone.
LEMMA Plain ==
  ASSUME SpiInv, Access, NEW c \in SUBSET (0 .. 5), NEW s \in SUBSET (0 .. 3),
         NEW rest, Head(todo) = [clear |-> c, set |-> s], Tail(todo) = rest
  PROVE  /\ CS' = (CS \ c) \cup s
         /\ todo' = rest /\ (Active' <=> Active)
         /\ UNCHANGED <<cleared, asked>>
         /\ SpiType' /\ Owed' /\ (Idle' <=> Idle)
         /\ (c \cup s) \cap 0 .. 1 = {} => (CE' <=> CE)
         /\ 2 \notin c \cup s => (CPHA' <=> CPHA)
         /\ 3 \notin c \cup s => (CPOL' <=> CPOL)
<1>1. s \in SUBSET ((0 .. 5) \cup {7}) /\ 4 \notin s /\ 5 \notin s
  OBVIOUS
<1>2. /\ CS' = ((CS \ c) \cup s) \ (4 .. 5)
      /\ tx' = IF 4 \in s THEN <<>> ELSE tx
      /\ rx' = IF 5 \in s THEN <<>> ELSE rx
      /\ todo' = rest
      /\ UNCHANGED <<CLK, cleared, asked, owed>>
      /\ SpiType' /\ (Active' <=> 7 \in CS')
      /\ (c \cup s) \cap 0 .. 1 = {} => (CE' <=> CE)
      /\ 2 \notin c \cup s => (CPHA' <=> CPHA)
      /\ 3 \notin c \cup s => (CPOL' <=> CPOL)
  BY <1>1, Updated
<1>3. CS' = (CS \ c) \cup s /\ (7 \in CS' <=> 7 \in CS)
  BY <1>2 DEF SpiInv, SpiType
<1>4. (Active' <=> Active) /\ UNCHANGED <<tx, rx, owed, asked, cleared>>
  BY <1>1, <1>2, <1>3, ActiveBit
<1>5. Owed' /\ (Idle' <=> Idle)
  BY <1>4 DEF SpiInv, Owed, Idle
<1> QED
  BY <1>2, <1>3, <1>4, <1>5

\* The updates of each field, as sets of bits.
LEMMA FieldUpdates ==
  ASSUME SpiType
  PROVE  /\ Lower("CPOL") = [clear |-> {3}, set |-> {}]
         /\ Lower("CPHA") = [clear |-> {2}, set |-> {}]
         /\ Lower("CS_LINE") = [clear |-> 0 .. 1, set |-> {}]
         /\ Lower("CLEAR") = [clear |-> 4 .. 5, set |-> {}]
         /\ Lower("TA") = [clear |-> {7}, set |-> {}]
         /\ Raise("CS_LINE", asked.ce) = [clear |-> {}, set |-> asked.ce]
         /\ Raise("CLEAR", {0, 1}) = [clear |-> {}, set |-> {4, 5}]
         /\ Raise("TA", {0}) = [clear |-> {}, set |-> {7}]
         /\ asked.ce \in SUBSET (0 .. 1)
         /\ asked.mode[1] \in SUBSET {0} /\ asked.mode[2] \in SUBSET {0}
         /\ Raise("CPOL", asked.mode[1]) = [clear |-> {}, set |-> {3 : b \in asked.mode[1]}]
         /\ Raise("CPHA", asked.mode[2]) = [clear |-> {}, set |-> {2 : b \in asked.mode[2]}]
<1>1. /\ asked.ce \in SUBSET (0 .. 1)
      /\ asked.mode[1] \in SUBSET {0} /\ asked.mode[2] \in SUBSET {0}
  BY DEF SpiType, Setting
<1> QED
  BY <1>1, Layouts, FieldValues DEF Lower, Raise

\* The update that is next: those of the settings, the first of clear_fifo(), then
\* those that empty the FIFOs, begin a transfer and end it.
LEMMA AccessInv == ASSUME SpiInv, Access PROVE SpiInv'
<1> DEFINE P == asked.mode[1]
           H == asked.mode[2]
           L == asked.ce
<1>1. /\ P \in SUBSET {0} /\ H \in SUBSET {0} /\ L \in SUBSET (0 .. 1)
      /\ {3 : b \in P} \in SUBSET (0 .. 3) /\ {2 : b \in H} \in SUBSET (0 .. 3)
      /\ L \in SUBSET (0 .. 3)
  BY FieldUpdates DEF SpiInv
<1>2. CASE /\ ~Active /\ CE /\ (cleared => Idle)
           /\ todo = <<Lower("CPOL"), Raise("CPOL", P), Lower("CPHA"), Raise("CPHA", H)>>
  <2> DEFINE c == {3}
             s == {}
             rest == <<Raise("CPOL", P), Lower("CPHA"), Raise("CPHA", H)>>
  <2>1. Head(todo) = [clear |-> c, set |-> s] /\ Tail(todo) = rest
    BY <1>2, Queue, FieldUpdates DEF SpiInv
  <2>2. /\ c \in SUBSET (0 .. 5) /\ s \in SUBSET (0 .. 3)
        /\ (c \cup s) \cap 0 .. 1 = {}
    BY <1>1
  <2> HIDE DEF c, s, rest
  <2>3. /\ CS' = (CS \ c) \cup s /\ todo' = rest
        /\ (Active' <=> Active) /\ SpiType' /\ Owed' /\ (Idle' <=> Idle)
        /\ (CE' <=> CE)
        /\ cleared' = cleared /\ asked' = asked
    BY <2>1, <2>2, Plain
  <2>4. 3 \notin CS'
    BY <1>1, <1>2, <2>3 DEF c, s, CE, CPOL, CPHA
  <2> QED
    BY <1>2, <2>3, <2>4 DEF rest, SpiInv, Stage
<1>3. CASE /\ ~Active /\ CE /\ (cleared => Idle) /\ 3 \notin CS
           /\ todo = <<Raise("CPOL", P), Lower("CPHA"), Raise("CPHA", H)>>
  <2> DEFINE c == {}
             s == {3 : b \in P}
             rest == <<Lower("CPHA"), Raise("CPHA", H)>>
  <2>1. Head(todo) = [clear |-> c, set |-> s] /\ Tail(todo) = rest
    BY <1>3, Queue, FieldUpdates DEF SpiInv
  <2>2. /\ c \in SUBSET (0 .. 5) /\ s \in SUBSET (0 .. 3)
        /\ (c \cup s) \cap 0 .. 1 = {}
    BY <1>1
  <2> HIDE DEF c, s, rest
  <2>3. /\ CS' = (CS \ c) \cup s /\ todo' = rest
        /\ (Active' <=> Active) /\ SpiType' /\ Owed' /\ (Idle' <=> Idle)
        /\ (CE' <=> CE)
        /\ cleared' = cleared /\ asked' = asked
    BY <2>1, <2>2, Plain
  <2>4. CPOL'
    BY <1>1, <1>3, <2>3 DEF c, s, CE, CPOL, CPHA
  <2> QED
    BY <1>3, <2>3, <2>4 DEF rest, SpiInv, Stage
<1>4. CASE /\ ~Active /\ CE /\ (cleared => Idle) /\ CPOL
           /\ todo = <<Lower("CPHA"), Raise("CPHA", H)>>
  <2> DEFINE c == {2}
             s == {}
             rest == <<Raise("CPHA", H)>>
  <2>1. Head(todo) = [clear |-> c, set |-> s] /\ Tail(todo) = rest
    BY <1>4, Queue, FieldUpdates DEF SpiInv
  <2>2. /\ c \in SUBSET (0 .. 5) /\ s \in SUBSET (0 .. 3)
        /\ (c \cup s) \cap 0 .. 1 = {} /\ 3 \notin c \cup s
    BY <1>1
  <2> HIDE DEF c, s, rest
  <2>3. /\ CS' = (CS \ c) \cup s /\ todo' = rest
        /\ (Active' <=> Active) /\ SpiType' /\ Owed' /\ (Idle' <=> Idle)
        /\ (CE' <=> CE) /\ (CPOL' <=> CPOL)
        /\ cleared' = cleared /\ asked' = asked
    BY <2>1, <2>2, Plain
  <2>4. 2 \notin CS'
    BY <1>1, <1>4, <2>3 DEF c, s, CE, CPOL, CPHA
  <2> QED
    BY <1>4, <2>3, <2>4 DEF rest, SpiInv, Stage
<1>5. CASE /\ ~Active /\ CE /\ (cleared => Idle) /\ CPOL /\ 2 \notin CS
           /\ todo = <<Raise("CPHA", H)>>
  <2> DEFINE c == {}
             s == {2 : b \in H}
             rest == <<>>
  <2>1. Head(todo) = [clear |-> c, set |-> s] /\ Tail(todo) = rest
    BY <1>5, Queue, FieldUpdates DEF SpiInv
  <2>2. /\ c \in SUBSET (0 .. 5) /\ s \in SUBSET (0 .. 3)
        /\ (c \cup s) \cap 0 .. 1 = {} /\ 3 \notin c \cup s
    BY <1>1
  <2> HIDE DEF c, s, rest
  <2>3. /\ CS' = (CS \ c) \cup s /\ todo' = rest
        /\ (Active' <=> Active) /\ SpiType' /\ Owed' /\ (Idle' <=> Idle)
        /\ (CE' <=> CE) /\ (CPOL' <=> CPOL)
        /\ cleared' = cleared /\ asked' = asked
    BY <2>1, <2>2, Plain
  <2>4. CPHA'
    BY <1>1, <1>5, <2>3 DEF c, s, CE, CPOL, CPHA
  <2> QED
    BY <1>5, <2>3, <2>4 DEF rest, SpiInv, Stage
<1>6. CASE /\ ~Active /\ CPOL /\ CPHA /\ (cleared => Idle)
           /\ todo = <<Lower("CS_LINE"), Raise("CS_LINE", L)>>
  <2> DEFINE c == 0 .. 1
             s == {}
             rest == <<Raise("CS_LINE", L)>>
  <2>1. Head(todo) = [clear |-> c, set |-> s] /\ Tail(todo) = rest
    BY <1>6, Queue, FieldUpdates DEF SpiInv
  <2>2. /\ c \in SUBSET (0 .. 5) /\ s \in SUBSET (0 .. 3)
        /\ 3 \notin c \cup s /\ 2 \notin c \cup s
    BY <1>1
  <2> HIDE DEF c, s, rest
  <2>3. /\ CS' = (CS \ c) \cup s /\ todo' = rest
        /\ (Active' <=> Active) /\ SpiType' /\ Owed' /\ (Idle' <=> Idle)
        /\ (CPOL' <=> CPOL) /\ (CPHA' <=> CPHA)
        /\ cleared' = cleared /\ asked' = asked
    BY <2>1, <2>2, Plain
  <2>4. CS' \cap 0 .. 1 = {}
    BY <1>1, <1>6, <2>3 DEF c, s, CE, CPOL, CPHA
  <2> QED
    BY <1>6, <2>3, <2>4 DEF rest, SpiInv, Stage
<1>7. CASE /\ ~Active /\ CPOL /\ CPHA /\ (cleared => Idle) /\ CS \cap 0 .. 1 = {}
           /\ todo = <<Raise("CS_LINE", L)>>
  <2> DEFINE c == {}
             s == L
             rest == <<>>
  <2>1. Head(todo) = [clear |-> c, set |-> s] /\ Tail(todo) = rest
    BY <1>7, Queue, FieldUpdates DEF SpiInv
  <2>2. /\ c \in SUBSET (0 .. 5) /\ s \in SUBSET (0 .. 3)
        /\ 3 \notin c \cup s /\ 2 \notin c \cup s
    BY <1>1
  <2> HIDE DEF c, s, rest
  <2>3. /\ CS' = (CS \ c) \cup s /\ todo' = rest
        /\ (Active' <=> Active) /\ SpiType' /\ Owed' /\ (Idle' <=> Idle)
        /\ (CPOL' <=> CPOL) /\ (CPHA' <=> CPHA)
        /\ cleared' = cleared /\ asked' = asked
    BY <2>1, <2>2, Plain
  <2>4. CE'
    BY <1>1, <1>7, <2>3 DEF c, s, CE, CPOL, CPHA
  <2> QED
    BY <1>7, <2>3, <2>4 DEF rest, SpiInv, Stage
<1>8. CASE /\ ~Active /\ CE /\ CPOL /\ CPHA /\ cleared
           /\ todo = <<Lower("CLEAR"), Raise("CLEAR", {0, 1})>>
  <2> DEFINE c == 4 .. 5
             s == {}
             rest == <<Raise("CLEAR", {0, 1})>>
  <2>1. Head(todo) = [clear |-> c, set |-> s] /\ Tail(todo) = rest
    BY <1>8, Queue, FieldUpdates DEF SpiInv
  <2>2. /\ c \in SUBSET (0 .. 5) /\ s \in SUBSET (0 .. 3)
        /\ (c \cup s) \cap 0 .. 1 = {} /\ 3 \notin c \cup s /\ 2 \notin c \cup s
    BY <1>1
  <2> HIDE DEF c, s, rest
  <2>3. /\ CS' = (CS \ c) \cup s /\ todo' = rest
        /\ (Active' <=> Active) /\ SpiType' /\ Owed' /\ (Idle' <=> Idle)
        /\ (CE' <=> CE) /\ (CPOL' <=> CPOL) /\ (CPHA' <=> CPHA)
        /\ cleared' = cleared /\ asked' = asked
    BY <2>1, <2>2, Plain
  <2> QED
    BY <1>8, <2>3 DEF rest, SpiInv, Stage
<1>9. CASE /\ ~Active /\ CE /\ CPOL /\ CPHA /\ cleared
           /\ todo = <<Raise("CLEAR", {0, 1})>>
  <2> DEFINE c == {}
             s == {4, 5}
             rest == <<>>
  <2>1. /\ Head(todo) = [clear |-> c, set |-> s] /\ Tail(todo) = rest
        /\ s \in SUBSET ((0 .. 5) \cup {7})
        /\ (c \cup s) \cap 0 .. 1 = {} /\ 2 \notin c \cup s /\ 3 \notin c \cup s
    BY <1>9, Queue, FieldUpdates DEF SpiInv
  <2> HIDE DEF c, s, rest
  <2>2. /\ CS' = ((CS \ c) \cup s) \ (4 .. 5)
        /\ tx' = IF 4 \in s THEN <<>> ELSE tx
        /\ rx' = IF 5 \in s THEN <<>> ELSE rx
        /\ todo' = rest /\ UNCHANGED <<cleared, asked, owed>>
        /\ SpiType' /\ (Active' <=> 7 \in CS')
        /\ (CE' <=> CE) /\ (CPOL' <=> CPOL) /\ (CPHA' <=> CPHA)
    BY <2>1, Updated
  <2>3. CS' = CS /\ tx' = <<>> /\ rx' = <<>>
    BY <1>9, <2>2, ActiveBit DEF c, s, SpiInv, SpiType, Idle
  <2>4. Stage'
    BY <1>9, <2>2, <2>3, ActiveBit DEF rest, SpiInv, Stage, Owed, Idle
  <2>5. Owed'
    BY <1>9, <2>2, <2>3, ActiveBit DEF SpiInv, Owed, Idle
  <2> QED
    BY <2>2, <2>4, <2>5 DEF SpiInv
<1>10. CASE /\ ~Active /\ CE /\ CPOL /\ CPHA /\ ~cleared /\ Idle /\ owed = <<>>
           /\ todo = <<Lower("TA"), Raise("TA", {0})>>
  <2> DEFINE c == {7}
             s == {}
             rest == <<Raise("TA", {0})>>
  <2>1. /\ Head(todo) = [clear |-> c, set |-> s] /\ Tail(todo) = rest
        /\ s \in SUBSET ((0 .. 5) \cup {7})
        /\ (c \cup s) \cap 0 .. 1 = {} /\ 2 \notin c \cup s /\ 3 \notin c \cup s
    BY <1>10, Queue, FieldUpdates DEF SpiInv
  <2> HIDE DEF c, s, rest
  <2>2. /\ CS' = ((CS \ c) \cup s) \ (4 .. 5)
        /\ tx' = IF 4 \in s THEN <<>> ELSE tx
        /\ rx' = IF 5 \in s THEN <<>> ELSE rx
        /\ todo' = rest /\ UNCHANGED <<cleared, asked, owed>>
        /\ SpiType' /\ (Active' <=> 7 \in CS')
        /\ (CE' <=> CE) /\ (CPOL' <=> CPOL) /\ (CPHA' <=> CPHA)
    BY <2>1, Updated
  <2>3. CS' = CS /\ tx' = <<>> /\ rx' = <<>>
    BY <1>10, <2>2, ActiveBit DEF c, s, SpiInv, SpiType, Idle
  <2>4. Stage'
    BY <1>10, <2>2, <2>3, ActiveBit DEF rest, SpiInv, Stage, Owed, Idle
  <2>5. Owed'
    BY <1>10, <2>2, <2>3, ActiveBit DEF SpiInv, Owed, Idle
  <2> QED
    BY <2>2, <2>4, <2>5 DEF SpiInv
<1>11. CASE /\ ~Active /\ CE /\ CPOL /\ CPHA /\ ~cleared /\ Idle /\ owed = <<>>
           /\ todo = <<Raise("TA", {0})>>
  <2> DEFINE c == {}
             s == {7}
             rest == <<>>
  <2>1. /\ Head(todo) = [clear |-> c, set |-> s] /\ Tail(todo) = rest
        /\ s \in SUBSET ((0 .. 5) \cup {7})
        /\ (c \cup s) \cap 0 .. 1 = {} /\ 2 \notin c \cup s /\ 3 \notin c \cup s
    BY <1>11, Queue, FieldUpdates DEF SpiInv
  <2> HIDE DEF c, s, rest
  <2>2. /\ CS' = ((CS \ c) \cup s) \ (4 .. 5)
        /\ tx' = IF 4 \in s THEN <<>> ELSE tx
        /\ rx' = IF 5 \in s THEN <<>> ELSE rx
        /\ todo' = rest /\ UNCHANGED <<cleared, asked, owed>>
        /\ SpiType' /\ (Active' <=> 7 \in CS')
        /\ (CE' <=> CE) /\ (CPOL' <=> CPOL) /\ (CPHA' <=> CPHA)
    BY <2>1, Updated
  <2>3. CS' = CS \cup {7} /\ tx' = <<>> /\ rx' = <<>>
    BY <1>11, <2>2, ActiveBit DEF c, s, SpiInv, SpiType, Idle
  <2>4. Stage'
    BY <1>11, <2>2, <2>3, ActiveBit DEF rest, SpiInv, Stage, Owed, Idle
  <2>5. Owed'
    BY <1>11, <2>2, <2>3, ActiveBit DEF SpiInv, Owed, Idle
  <2> QED
    BY <2>2, <2>4, <2>5 DEF SpiInv
<1>12. CASE /\ Active /\ CE /\ CPOL /\ CPHA
           /\ todo = <<Lower("TA")>>
  <2> DEFINE c == {7}
             s == {}
             rest == <<>>
  <2>1. /\ Head(todo) = [clear |-> c, set |-> s] /\ Tail(todo) = rest
        /\ s \in SUBSET ((0 .. 5) \cup {7})
        /\ (c \cup s) \cap 0 .. 1 = {} /\ 2 \notin c \cup s /\ 3 \notin c \cup s
    BY <1>12, Queue, FieldUpdates DEF SpiInv
  <2> HIDE DEF c, s, rest
  <2>2. /\ CS' = ((CS \ c) \cup s) \ (4 .. 5)
        /\ tx' = IF 4 \in s THEN <<>> ELSE tx
        /\ rx' = IF 5 \in s THEN <<>> ELSE rx
        /\ todo' = rest /\ UNCHANGED <<cleared, asked, owed>>
        /\ SpiType' /\ (Active' <=> 7 \in CS')
        /\ (CE' <=> CE) /\ (CPOL' <=> CPOL) /\ (CPHA' <=> CPHA)
    BY <2>1, Updated
  <2>3. CS' = CS \ {7} /\ tx' = tx /\ rx' = rx
    BY <1>12, <2>2, ActiveBit DEF c, s, SpiInv, SpiType, Idle
  <2>4. Stage'
    BY <1>12, <2>2, <2>3, ActiveBit DEF rest, SpiInv, Stage, Owed, Idle
  <2>5. Owed'
    BY <1>12, <2>2, <2>3, ActiveBit DEF SpiInv, Owed, Idle
  <2> QED
    BY <2>2, <2>4, <2>5 DEF SpiInv
<1> QED
  BY <1>2, <1>3, <1>4, <1>5, <1>6, <1>7, <1>8, <1>9, <1>10,
     <1>11, <1>12 DEF SpiInv, Stage, Access

\* What the controller shifts a byte with is what was asked for.
LEMMA Shifted ==
  ASSUME SpiType, CE, CPOL, CPHA
  PROVE  [ce |-> get_cs("CS_LINE"), mode |-> <<get_cs("CPOL"), get_cs("CPHA")>>] = asked
<1>1. get_cs("CS_LINE") = asked.ce
  <2>1. {b - 0 : b \in CS \cap 0 .. 1} = CS \cap 0 .. 1
    <3>1. \A b \in CS \cap 0 .. 1 : b - 0 = b
      OBVIOUS
    <3> QED
      BY <3>1
  <2> QED
    BY <2>1, Layouts DEF get_cs, CE
<1>2. asked.mode[1] \in SUBSET {0} /\ asked.mode[2] \in SUBSET {0}
  BY FieldUpdates
<1>3. get_cs("CPOL") = asked.mode[1]
  <2>1. get_cs("CPOL") = {b - 3 : b \in CS \cap {3}}
    BY Layouts DEF get_cs
  <2>2. {b - 3 : b \in CS \cap {3}} = {b \in {0} : 3 \in CS}
    OBVIOUS
  <2> QED
    BY <1>2, <2>1, <2>2 DEF CPOL
<1>4. get_cs("CPHA") = asked.mode[2]
  <2>1. get_cs("CPHA") = {b - 2 : b \in CS \cap {2}}
    BY Layouts DEF get_cs
  <2>2. {b - 2 : b \in CS \cap {2}} = {b \in {0} : 2 \in CS}
    OBVIOUS
  <2> QED
    BY <1>2, <2>1, <2>2 DEF CPHA
<1>5. asked = [ce |-> asked.ce, mode |-> <<asked.mode[1], asked.mode[2]>>]
  BY DEF SpiType, Setting
<1> QED
  BY <1>1, <1>3, <1>4, <1>5

\* The byte that leaves one FIFO is the first of those owed that is not in the other.
LEMMA ExchangeInv == ASSUME SpiInv, Exchange PROVE SpiInv'
<1> USE DEF SpiInv
<1>1. /\ Active /\ tx # <<>> /\ CE /\ CPOL /\ CPHA
      /\ todo = <<>> \/ todo = <<Lower("TA")>>
  BY DEF Exchange, Stage
<1>2. /\ tx' = Tail(tx) /\ rx' = Append(rx, [byte |-> Head(tx), with |-> asked])
      /\ UNCHANGED <<CS, CLK, todo, cleared, asked, owed>>
  BY <1>1, Shifted DEF Exchange
<1>3. SpiType'
  <2>1. tx \in Seq(Bytes) /\ rx \in Seq(Answer) /\ asked \in Setting
    BY DEF SpiType
  <2>2. Tail(tx) \in Seq(Bytes) /\ Head(tx) \in Bytes
    BY <1>1, <2>1
  <2>3. Append(rx, [byte |-> Head(tx), with |-> asked]) \in Seq(Answer)
    BY <2>1, <2>2 DEF Answer
  <2> QED
    BY <1>2, <2>2, <2>3 DEF SpiType
<1>4. Active' /\ CE' /\ CPOL' /\ CPHA' /\ ~cleared'
  BY <1>1, <1>2 DEF Active, get_cs, CE, CPOL, CPHA, Owed
<1>5. Stage'
  BY <1>1, <1>2, <1>4 DEF Stage
<1>6. Owed'
  <2> DEFINE r == [byte |-> Head(tx), with |-> asked]
  <2>1. /\ tx \in Seq(Bytes) /\ tx # <<>> /\ rx \in Seq(Answer) /\ owed \in Seq(Answer)
        /\ Len(rx) + Len(tx) = Len(owed)
        /\ \A i \in 1 .. Len(rx) : rx[i] = owed[i]
        /\ \A i \in 1 .. Len(tx) :
             owed[Len(rx) + i] = [byte |-> tx[i], with |-> asked]
    BY <1>1 DEF SpiType, Owed
  <2>2. /\ Len(tx) >= 1 /\ Len(tx') = Len(tx) - 1
        /\ \A i \in 1 .. Len(tx) - 1 : tx'[i] = tx[i + 1]
    BY <1>2, <2>1
  <2>3. owed[Len(rx) + 1] = r
    <3>1. 1 \in 1 .. Len(tx) /\ Head(tx) = tx[1]
      BY <2>1, <2>2
    <3> QED
      BY <2>1, <3>1
  <2> HIDE DEF r
  <2>4. /\ Len(rx') = Len(rx) + 1 /\ rx'[Len(rx) + 1] = r
        /\ \A i \in 1 .. Len(rx) : rx'[i] = rx[i]
    BY <1>2, <2>1 DEF r
  <2>5. \A i \in 1 .. Len(rx') : rx'[i] = owed[i]
    BY <2>1, <2>3, <2>4
  <2>6. ASSUME NEW i \in 1 .. Len(tx')
        PROVE  owed[Len(rx') + i] = [byte |-> tx'[i], with |-> asked]
    <3>1. /\ i + 1 \in 1 .. Len(tx) /\ i \in 1 .. Len(tx) - 1
          /\ Len(rx') + i = Len(rx) + (i + 1)
      BY <2>1, <2>2, <2>4
    <3>2. owed[Len(rx) + (i + 1)] = [byte |-> tx[i + 1], with |-> asked]
      BY <2>1, <3>1
    <3> QED
      BY <2>2, <3>1, <3>2
  <2>7. Len(rx') + Len(tx') = Len(owed) /\ Len(rx') <= Len(owed)
    <3>1. Len(rx) \in Nat /\ Len(tx) \in Nat /\ Len(owed) \in Nat
      BY <2>1
    <3>2. Len(rx) + Len(tx) = Len(owed) /\ Len(tx) >= 1
      BY <2>1, <2>2
    <3>3. Len(rx') = Len(rx) + 1 /\ Len(tx') = Len(tx) - 1
      BY <2>2, <2>4, Zenon
    <3> QED
      BY <3>1, <3>2, <3>3
  <2> QED
    BY <1>2, <1>4, <2>5, <2>6, <2>7 DEF Owed
<1> QED
  BY <1>3, <1>5, <1>6

LEMMA WriteInv == ASSUME SpiInv, NEW byte \in Bytes, write_byte(byte) PROVE SpiInv'
<1> USE DEF SpiInv
<1> DEFINE r == [byte |-> byte, with |-> asked]
<1>1. /\ Active /\ todo = <<>> /\ ~cleared
      /\ tx' = Append(tx, byte) /\ owed' = Append(owed, r)
      /\ UNCHANGED <<CS, CLK, rx, todo, cleared, asked>>
  BY DEF write_byte, can_write, Owed
<1>2. SpiType'
  <2>1. /\ tx \in Seq(Bytes) /\ owed \in Seq(Answer) /\ r \in Answer
    BY DEF SpiType, Answer
  <2>2. Append(tx, byte) \in Seq(Bytes) /\ Append(owed, r) \in Seq(Answer)
    BY <2>1
  <2> QED
    BY <1>1, <2>2 DEF SpiType
<1>3. Active' /\ Stage'
  <2>1. Active' /\ CE' /\ CPOL' /\ CPHA' /\ CE /\ CPOL /\ CPHA
    BY <1>1, Queue DEF Active, get_cs, CE, CPOL, CPHA, Stage
  <2> QED
    BY <1>1, <2>1 DEF Stage
<1>4. Owed'
  <2>1. /\ tx \in Seq(Bytes) /\ rx \in Seq(Answer) /\ owed \in Seq(Answer) /\ r \in Answer
        /\ Len(rx) + Len(tx) = Len(owed)
        /\ \A i \in 1 .. Len(rx) : rx[i] = owed[i]
        /\ \A i \in 1 .. Len(tx) :
             owed[Len(rx) + i] = [byte |-> tx[i], with |-> asked]
    BY <1>1 DEF SpiType, Owed, Answer
  <2> HIDE DEF r
  <2>2. /\ Len(tx') = Len(tx) + 1 /\ tx'[Len(tx) + 1] = byte
        /\ \A i \in 1 .. Len(tx) : tx'[i] = tx[i]
    BY <1>1, <2>1
  <2>3. /\ Len(owed') = Len(owed) + 1 /\ owed'[Len(owed) + 1] = r
        /\ \A i \in 1 .. Len(owed) : owed'[i] = owed[i]
    BY <1>1, <2>1
  <2>4. /\ Len(rx) <= Len(owed') /\ Len(rx) + Len(tx') = Len(owed')
        /\ \A i \in 1 .. Len(rx) : rx[i] = owed'[i]
    BY <2>1, <2>2, <2>3
  <2>5. ASSUME NEW i \in 1 .. Len(tx')
        PROVE  owed'[Len(rx) + i] = [byte |-> tx'[i], with |-> asked]
    <3>1. CASE i = Len(tx) + 1
      <4>1. Len(rx) + i = Len(owed) + 1
        <5>1. /\ Len(rx) \in Nat /\ Len(tx) \in Nat /\ Len(owed) \in Nat
              /\ Len(rx) + Len(tx) = Len(owed)
          BY <2>1
        <5> QED
          BY <3>1, <5>1
      <4>2. owed'[Len(rx) + i] = r /\ tx'[i] = byte
        BY <2>2, <2>3, <3>1, <4>1, Zenon
      <4> QED
        BY <4>2 DEF r
    <3>2. CASE i # Len(tx) + 1
      <4>1. i \in 1 .. Len(tx) /\ Len(rx) + i \in 1 .. Len(owed)
        BY <2>1, <2>2, <3>2
      <4> QED
        BY <2>1, <2>2, <2>3, <4>1
    <3> QED
      BY <3>1, <3>2
  <2> QED
    BY <1>1, <1>3, <2>4, <2>5 DEF Owed
<1> QED
  BY <1>2, <1>3, <1>4

LEMMA ReadInv == ASSUME SpiInv, read_byte PROVE SpiInv'
<1> USE DEF SpiInv
<1>1. /\ todo = <<>> /\ ~cleared /\ rx # <<>>
      /\ rx' = Tail(rx) /\ owed' = Tail(owed)
      /\ UNCHANGED <<CS, CLK, tx, todo, cleared, asked>>
  BY DEF read_byte, can_read
<1>2. (Active' <=> Active) /\ Stage'
  <2>1. (Active' <=> Active) /\ CE' /\ CPOL' /\ CPHA' /\ CE /\ CPOL /\ CPHA
    BY <1>1, Queue DEF Active, get_cs, CE, CPOL, CPHA, Stage
  <2> QED
    BY <1>1, <2>1 DEF Stage
<1>3. /\ tx \in Seq(Bytes) /\ rx \in Seq(Answer) /\ owed \in Seq(Answer)
      /\ Len(rx) <= Len(owed)
      /\ \A i \in 1 .. Len(rx) : rx[i] = owed[i]
  BY <1>1 DEF SpiType, Owed
<1>4. Len(rx) >= 1 /\ Len(owed) >= 1 /\ owed # <<>>
  BY <1>1, <1>3
<1>5. /\ rx' \in Seq(Answer) /\ Len(rx') = Len(rx) - 1
      /\ \A i \in 1 .. Len(rx) - 1 : rx'[i] = rx[i + 1]
      /\ owed' \in Seq(Answer) /\ Len(owed') = Len(owed) - 1
      /\ \A i \in 1 .. Len(owed) - 1 : owed'[i] = owed[i + 1]
  BY <1>1, <1>3, <1>4
<1>6. SpiType'
  BY <1>1, <1>5 DEF SpiType
<1>7. Len(rx') <= Len(owed') /\ \A i \in 1 .. Len(rx') : rx'[i] = owed'[i]
  <2>1. Len(rx) \in Nat /\ Len(owed) \in Nat /\ Len(rx) <= Len(owed)
    BY <1>3
  <2>2. Len(rx') = Len(rx) - 1 /\ Len(owed') = Len(owed) - 1
    BY <1>5, Zenon
  <2>3. ASSUME NEW i \in 1 .. Len(rx') PROVE rx'[i] = owed'[i]
    <3>1. /\ i \in 1 .. Len(rx) - 1 /\ i \in 1 .. Len(owed) - 1
          /\ i + 1 \in 1 .. Len(rx)
      BY <2>1, <2>2
    <3>2. rx[i + 1] = owed[i + 1]
      BY <1>3, <3>1, Zenon
    <3> QED
      BY <1>5, <3>1, <3>2, Zenon
  <2> QED
    BY <2>1, <2>2, <2>3
<1>8. ASSUME Active
      PROVE  /\ Len(rx') + Len(tx) = Len(owed')
             /\ \A i \in 1 .. Len(tx) :
                  owed'[Len(rx') + i] = [byte |-> tx[i], with |-> asked]
  <2>1. /\ Len(rx) + Len(tx) = Len(owed)
        /\ \A i \in 1 .. Len(tx) :
             owed[Len(rx) + i] = [byte |-> tx[i], with |-> asked]
    BY <1>8 DEF Owed
  <2>2. ASSUME NEW i \in 1 .. Len(tx)
        PROVE  owed'[Len(rx') + i] = [byte |-> tx[i], with |-> asked]
    <3>1. Len(rx') + i \in 1 .. Len(owed) - 1 /\ (Len(rx') + i) + 1 = Len(rx) + i
      BY <1>3, <1>4, <1>5, <2>1
    <3> QED
      BY <1>5, <2>1, <3>1
  <2>3. Len(rx') + Len(tx) = Len(owed')
    <3>1. Len(rx) \in Nat /\ Len(tx) \in Nat /\ Len(owed) \in Nat
      BY <1>3
    <3>2. Len(rx') = Len(rx) - 1 /\ Len(owed') = Len(owed) - 1
      BY <1>5, Zenon
    <3> QED
      BY <2>1, <3>1, <3>2
  <2> QED
    BY <2>2, <2>3
<1>9. Owed'
  BY <1>1, <1>2, <1>7, <1>8 DEF Owed
<1> QED
  BY <1>2, <1>6, <1>9

\* A call made between transfers, with nothing left of the one before.
LEMMA CallBegins ==
  ASSUME SpiInv, todo = <<>>, ~Active, UNCHANGED <<CS, tx, rx>>,
         asked' \in Setting, cleared' \in BOOLEAN,
         owed' = owed \/ (owed' = <<>> /\ Idle), ~cleared' => ~cleared \/ owed' = <<>>
  PROVE  /\ SpiType' /\ Owed' /\ ~Active' /\ (Idle' <=> Idle)
         /\ CE /\ CPOL /\ CPHA /\ (cleared => Idle)
         /\ asked'.ce = asked.ce => CE'
         /\ asked'.mode = asked.mode => CPOL' /\ CPHA'
<1> USE DEF SpiInv
<1>1. CE /\ CPOL /\ CPHA /\ (cleared => Idle)
  BY Queue DEF Stage
<1>2. ~Active' /\ (Idle' <=> Idle)
  BY DEF Active, get_cs, Idle
<1>3. owed' \in Seq(Answer)
  BY Empty DEF SpiType
<1>4. SpiType'
  BY <1>3 DEF SpiType
<1>5. CASE owed' = owed /\ (~cleared' => ~cleared)
  <2>1. Owed'
    BY <1>2, <1>5 DEF Owed
  <2> QED
    BY <1>1, <1>2, <1>4, <2>1 DEF CE, CPOL, CPHA
<1>6. CASE owed' = <<>> /\ Idle
  <2>1. rx' = <<>> /\ owed' = <<>>
    BY <1>6 DEF Idle
  <2>2. Owed'
    BY <1>2, <2>1 DEF Owed
  <2> QED
    BY <1>1, <1>2, <1>4, <2>2 DEF CE, CPOL, CPHA
<1> QED
  BY <1>1, <1>5, <1>6

LEMMA ModeInv == ASSUME SpiInv, NEW m \in Modes, mode(m[1], m[2]) PROVE SpiInv'
<1> DEFINE a == m[1]
           b == m[2]
<1>1. /\ a \in SUBSET {0} /\ b \in SUBSET {0} /\ asked \in Setting
      /\ todo = <<>> /\ ~Active
      /\ asked' = [asked EXCEPT !.mode = <<a, b>>]
      /\ UNCHANGED <<CS, CLK, tx, rx, cleared, owed>>
  BY SpiAssumption DEF mode, Settle, SpiInv, SpiType
<1>2. /\ asked' \in Setting /\ asked'.ce = asked.ce
      /\ asked'.mode[1] = a /\ asked'.mode[2] = b
  BY <1>1 DEF Setting
<1>3. SpiType' /\ Owed' /\ ~Active' /\ CE' /\ (cleared' => Idle')
  BY <1>1, <1>2, CallBegins DEF SpiInv, SpiType
<1>4. todo' = <<Lower("CPOL"), Raise("CPOL", a), Lower("CPHA"), Raise("CPHA", b)>>
  <2> DEFINE w == Lower("CPOL")
             x == Raise("CPOL", a)
             y == Lower("CPHA")
             z == Raise("CPHA", b)
  <2>1. todo' = <<w, x>> \o <<y, z>>
    BY DEF mode, set_cs, Lower, Raise
  <2> HIDE DEF w, x, y, z
  <2>2. todo' = <<w, x, y, z>>
    BY <2>1, JoinTwo, Zenon
  <2> QED
    BY <2>2 DEF w, x, y, z
<1>5. Stage'
  <2>1. todo' = <<Lower("CPOL"), Raise("CPOL", asked'.mode[1]),
                  Lower("CPHA"), Raise("CPHA", asked'.mode[2])>>
    BY <1>2, <1>4, Zenon
  <2> QED
    BY <1>3, <2>1 DEF Stage
<1> QED
  BY <1>3, <1>5 DEF SpiInv

LEMMA ChipSelectInv == ASSUME SpiInv, NEW ce \in Slaves, chip_select(ce) PROVE SpiInv'
<1>1. /\ ce \in SUBSET (0 .. 1) /\ asked \in Setting
      /\ todo = <<>> /\ ~Active
      /\ asked' = [asked EXCEPT !.ce = ce]
      /\ UNCHANGED <<CS, CLK, tx, rx, cleared, owed>>
  BY SpiAssumption DEF chip_select, Settle, SpiInv, SpiType
<1>2. asked' \in Setting /\ asked'.ce = ce /\ asked'.mode = asked.mode
  BY <1>1 DEF Setting
<1>3. SpiType' /\ Owed' /\ ~Active' /\ CPOL' /\ CPHA' /\ (cleared' => Idle')
  BY <1>1, <1>2, CallBegins DEF SpiInv, SpiType
<1>4. todo' = <<Lower("CS_LINE"), Raise("CS_LINE", asked'.ce)>>
  BY <1>2 DEF chip_select, set_cs, Lower, Raise
<1>5. Stage'
  BY <1>3, <1>4 DEF Stage
<1> QED
  BY <1>3, <1>5 DEF SpiInv

LEMMA BetweenInv ==
  ASSUME SpiInv, \/ \E divider \in Dividers : clock_divider(divider)
                 \/ clear_fifo \/ begin_transfer
  PROVE  SpiInv'
<1>1. asked \in Setting /\ cleared \in BOOLEAN
  BY DEF SpiInv, SpiType
<1>2. ASSUME NEW divider \in Dividers, clock_divider(divider) PROVE SpiInv'
  <2>1. /\ todo = <<>> /\ ~Active
        /\ UNCHANGED <<CS, tx, rx, todo, cleared, asked, owed>>
    BY <1>2 DEF clock_divider
  <2>2. /\ SpiType' /\ Owed' /\ CE' /\ CPOL' /\ CPHA' /\ (cleared' => Idle')
    BY <1>1, <2>1, CallBegins
  <2> QED
    BY <2>1, <2>2 DEF SpiInv, Stage
<1>3. CASE clear_fifo
  <2>1. /\ todo = <<>> /\ ~Active /\ cleared' = TRUE
        /\ UNCHANGED <<CS, tx, rx, asked, owed>>
        /\ todo' = <<Lower("CLEAR"), Raise("CLEAR", {0, 1})>>
    BY <1>3 DEF clear_fifo, set_cs, Lower, Raise
  <2>2. /\ SpiType' /\ Owed' /\ ~Active' /\ CE' /\ CPOL' /\ CPHA'
    BY <1>1, <2>1, CallBegins
  <2> QED
    BY <2>1, <2>2 DEF SpiInv, Stage
<1>4. CASE begin_transfer
  <2>1. /\ todo = <<>> /\ ~Active /\ cleared /\ cleared' = FALSE /\ owed' = <<>>
        /\ UNCHANGED <<CS, tx, rx, asked>>
        /\ todo' = <<Lower("TA"), Raise("TA", {0})>>
    BY <1>4 DEF begin_transfer, set_cs, Lower, Raise
  <2>2. Idle
    BY <2>1, Queue DEF SpiInv, Stage
  <2>3. /\ SpiType' /\ Owed' /\ ~Active' /\ Idle' /\ CE' /\ CPOL' /\ CPHA'
    BY <1>1, <2>1, <2>2, CallBegins
  <2> QED
    BY <2>1, <2>3 DEF SpiInv, Stage
<1> QED
  BY <1>2, <1>3, <1>4

LEMMA EndInv == ASSUME SpiInv, end_transfer PROVE SpiInv'
<1>1. /\ todo = <<>> /\ Active /\ todo' = <<Lower("TA")>>
      /\ UNCHANGED <<CS, CLK, tx, rx, cleared, asked, owed>>
  BY DEF end_transfer, clr_cs, Lower
<1>2. Active' /\ CE' /\ CPOL' /\ CPHA'
  BY <1>1, Queue DEF SpiInv, Stage, Active, get_cs, CE, CPOL, CPHA
<1>3. Owed' /\ SpiType'
  BY <1>1, <1>2 DEF SpiInv, Owed, SpiType
<1> QED
  BY <1>1, <1>2, <1>3 DEF SpiInv, Stage

LEMMA SpiNextInv == SpiInv /\ [SpiNext]_spiVars => SpiInv'
<1> SUFFICES ASSUME SpiInv, [SpiNext]_spiVars PROVE SpiInv'
  OBVIOUS
<1>1. CASE UNCHANGED spiVars
  <2>1. UNCHANGED <<CS, CLK, tx, rx, todo, cleared, asked, owed>>
    BY <1>1 DEF spiVars
  <2>2. SpiType' /\ (Active' <=> Active) /\ (Idle' <=> Idle)
    BY <2>1 DEF SpiInv, SpiType, Active, get_cs, Idle
  <2>3. Owed'
    BY <2>1, <2>2 DEF SpiInv, Owed
  <2>4. (CE' <=> CE) /\ (CPOL' <=> CPOL) /\ (CPHA' <=> CPHA)
    BY <2>1 DEF CE, CPOL, CPHA
  <2>5. Stage'
    BY <2>1, <2>2, <2>4 DEF SpiInv, Stage
  <2> QED
    BY <2>2, <2>3, <2>5 DEF SpiInv
<1> QED
  BY <1>1, AccessInv, ExchangeInv, BetweenInv, EndInv, ReadInv, ModeInv,
     ChipSelectInv, WriteInv DEF SpiNext

-----------------------------------------------------------------------------
\* What a transfer reads is its own answers, in their order, each from the slave and
\* in the mode asked for, whatever was left in the FIFOs by the transfer before and
\* wherever the controller is when a call is made.
THEOREM RepliesOwn == SpiSpec => []ReplyOwn
<1>1. SpiInv => ReplyOwn
  <2> SUFFICES ASSUME SpiInv, ~cleared PROVE ReplyOwn
    BY DEF ReplyOwn
  <2>1. /\ rx \in Seq(Answer) /\ owed \in Seq(Answer)
        /\ Len(rx) <= Len(owed)
        /\ \A i \in 1 .. Len(rx) : rx[i] = owed[i]
        /\ Active => Len(rx) + Len(tx) = Len(owed)
    BY DEF SpiInv, SpiType, Owed
  <2>2. rx = SubSeq(owed, 1, Len(rx))
    <3> DEFINE s == SubSeq(owed, 1, Len(rx))
    <3>1. s \in Seq(Answer) /\ Len(s) = Len(rx) /\ \A i \in 1 .. Len(rx) : s[i] = owed[i]
      BY <2>1
    <3> HIDE DEF s
    <3>2. rx = s
      BY <2>1, <3>1
    <3> QED
      BY <3>2 DEF s
  <2> QED
    BY <2>1, <2>2 DEF ReplyOwn
<1> QED
  BY <1>1, SpiInitInv, SpiNextInv, PTL DEF SpiSpec
=============================================================================
