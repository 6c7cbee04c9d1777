-------------------------- MODULE IrqDispatchProofs --------------------------
(***************************************************************************)
(* Proofs about module IrqDispatch, for any number of cores, any width of  *)
(* the registers and any wiring: the types; that dispatch() never decides  *)
(* on a source without a handler, however the cores share the banks; that  *)
(* what it calls for its own core still needs it; and that where no calls  *)
(* of two cores overlap the read-modify-writes lose no update.             *)
(***************************************************************************)
EXTENDS IrqDispatch, TLAPS

\* Every line of the word has a handler.
Handled(b, word) == \A bit \in word : LineOf(b, bit) \in handlers

\* A thread sets up the lines of its own core, and enables what has a handler: the
\* line of its call, and whatever it read back, which may be another core's.
ThreadInv ==
  \A c \in Cores :
    /\ thread[c].pc # "idle" => thread[c].line \in Devices /\ Own(c, thread[c].line)
    /\ thread[c].pc \in {"enable", "store"} => thread[c].line \in handlers
    /\ thread[c].pc = "store" =>
         Handled(BankOf(thread[c].line), thread[c].word)

\* In a bank where no calls overlapped, one core at a time is between its read and
\* its write, and the word it has read is still right.
WordInv ==
  \A b \in Banks \ overlap : \A c \in Cores : Between(c, b) =>
    /\ \A d \in Cores : Between(d, b) => d = c
    /\ thread[c].pc = "store" => thread[c].word \subseteq enable[b]
    /\ thread[c].pc = "clear" => thread[c].word \cap enable[b] = {}

\* The enable registers of such a bank hold what was asked for.
EnableInv == \A n \in Lines : BankOf(n) \notin overlap =>
  (n \in want <=> BitOf(n) \in enable[BankOf(n)])

\* Whatever can be pending has a handler, in every bank.
HandlerInv ==
  /\ \A b \in Banks : Handled(b, enable[b])
  /\ kLocalBase + CNTPNSIRQ \in handlers
  /\ \A c \in Cores : timers[c] \subseteq {CNTPNSIRQ}

\* The controller interrupts one core, and what dispatch() decided on stays so
\* until its handler is called, as far as the thread of this core is concerned.
IsrInv ==
  \A c \in Cores :
    /\ isr[c].pc \in {"pending1", "pending2"} => c = GpuCore
    /\ isr[c].pc = "call" =>
         /\ isr[c].slot \in handlers
         /\ isr[c].slot >= kLocalBase => isr[c].slot - kLocalBase \in timers[c]
         /\ isr[c].slot < kLocalBase =>
              /\ c = GpuCore /\ isr[c].slot \in Devices
              /\ Own(c, isr[c].slot) =>
                   /\ isr[c].slot \in raised
                   /\ BankOf(isr[c].slot) \notin overlap => isr[c].slot \in want

Inv == TypeOK /\ ThreadInv /\ WordInv /\ EnableInv /\ HandlerInv /\ IsrInv

-----------------------------------------------------------------------------
(* Lines and bits *)

LEMMA LineFacts ==
  ASSUME NEW n \in Lines
  PROVE  /\ BankOf(n) \in Banks /\ BitOf(n) \in Bits
         /\ LineOf(BankOf(n), BitOf(n)) = n
  BY DispatchAssumption DEF Lines, Banks, Bits, BankOf, BitOf, LineOf

LEMMA BitFacts ==
  ASSUME NEW b \in Banks, NEW bit \in Bits
  PROVE  /\ LineOf(b, bit) \in Lines
         /\ BankOf(LineOf(b, bit)) = b /\ BitOf(LineOf(b, bit)) = bit
         /\ LineOf(b, bit) = IF b = 1 THEN bit ELSE Width + bit
  BY DispatchAssumption DEF Lines, Banks, Bits, BankOf, BitOf, LineOf

LEMMA SlotFacts ==
  /\ Lines \subseteq Slots /\ Devices \subseteq Lines
  /\ \A line \in LocalLines : kLocalBase + line \in Slots
  /\ kLocalBase \in Nat /\ \A n \in Lines : n < kLocalBase
  /\ 0 \in Lines /\ 0 \in Slots
  BY DispatchAssumption DEF Lines, Slots, LocalLines, kLocalBase

-----------------------------------------------------------------------------
LEMMA InitInv == Init => Inv
<1> SUFFICES ASSUME Init PROVE Inv
  OBVIOUS
<1>1. TypeOK
  BY SlotFacts, DispatchAssumption
     DEF Init, TypeOK, NotCalled, AtRest, LocalLines, CNTPNSIRQ
<1>2. ThreadInv /\ WordInv
  BY DEF Init, ThreadInv, WordInv, Between, NotCalled
<1>3. EnableInv
  BY LineFacts DEF Init, EnableInv
<1>4. HandlerInv
  BY DEF Init, HandlerInv, Handled
<1>5. IsrInv
  BY DEF Init, IsrInv, AtRest
<1> QED
  BY <1>1, <1>2, <1>3, <1>4, <1>5 DEF Inv

-----------------------------------------------------------------------------
(* The thread's steps *)

LEMMA SetUpInv ==
  ASSUME Inv, NEW c \in Cores, NEW n \in Devices, SetUp(c, n)
  PROVE  Inv'
<1> USE DEF Inv, SetUp, ThreadAt
<1>0. n \in Lines /\ n \in Slots
  BY SlotFacts
<1>1. TypeOK'
  BY <1>0, SlotFacts DEF TypeOK, hardware, history
<1>2. ThreadInv'
  BY <1>0, SlotFacts DEF ThreadInv, Handled, Own, TypeOK, hardware, history
<1>3. WordInv'
  BY DEF WordInv, Between, TypeOK, hardware, history
<1>4. EnableInv' /\ HandlerInv' /\ IsrInv'
  BY DEF EnableInv, HandlerInv, Handled, IsrInv, Own, hardware, history
<1> QED
  BY <1>1, <1>2, <1>3, <1>4

\* A thread reads the word of its |=: either it is alone in the bank, and the word
\* is right, or the bank is one where calls overlapped.
LEMMA ReadInv ==
  ASSUME Inv, NEW c \in Cores, NEW n \in Devices, NEW pc \in {"store", "clear"},
         NEW w \in SUBSET Bits, Own(c, n), ThreadAt(c, thread[c].pc),
         thread' = [thread EXCEPT ![c] = [pc |-> pc, line |-> n, word |-> w]],
         Overlaps(c, BankOf(n)),
         UNCHANGED <<handlers, enable, hardware, isr, want>>,
         pc = "store" => n \in handlers /\ w = enable[BankOf(n)],
         pc = "clear" => w \cap enable[BankOf(n)] = {}
  PROVE  Inv'
<1> DEFINE b == BankOf(n)
           r == [pc |-> pc, line |-> n, word |-> w]
<1>0. n \in Lines /\ b \in Banks
  BY SlotFacts, LineFacts
<1>1. overlap \subseteq overlap' /\ overlap' \subseteq Banks
  BY <1>0 DEF Overlaps, Inv, TypeOK
<1>2. /\ thread'[c] = r /\ r.pc = pc /\ r.line = n /\ r.word = w
      /\ \A d \in Cores \ {c} : thread'[d] = thread[d]
  BY DEF Inv, TypeOK
<1>3. TypeOK'
  BY <1>0, <1>1, <1>2 DEF Inv, TypeOK, hardware
<1>4. ThreadInv'
  <2> SUFFICES ASSUME NEW d \in Cores PROVE ThreadInv!(d)'
    BY DEF ThreadInv
  <2>1. CASE d = c
    BY <2>1, <1>0, <1>2 DEF Inv, HandlerInv, Handled, Own
  <2>2. CASE d # c
    BY <2>2, <1>2 DEF Inv, ThreadInv, Handled, Own
  <2> QED
    BY <2>1, <2>2
<1>5. WordInv'
  <2> SUFFICES ASSUME NEW x \in Banks, x \notin overlap', NEW d \in Cores,
                      Between(d, x)'
               PROVE  /\ \A e \in Cores : Between(e, x)' => e = d
                      /\ thread'[d].pc = "store" => thread'[d].word \subseteq enable[x]
                      /\ thread'[d].pc = "clear" => thread'[d].word \cap enable[x] = {}
    BY DEF WordInv
  <2>1. Between(c, x)' <=> x = b
    BY <1>2 DEF Between
  <2>2. \A e \in Cores \ {c} : Between(e, x)' <=> Between(e, x)
    BY <1>2 DEF Between
  <2>3. x = b => \A e \in Cores \ {c} : ~Between(e, x)
    BY DEF Overlaps
  <2>4. CASE d = c
    BY <2>1, <2>2, <2>3, <2>4, <1>2
  <2>5. CASE d # c
    <3>1. x # b /\ Between(d, x) /\ x \notin overlap
      BY <2>2, <2>3, <2>5, <1>1
    <3> QED
      BY <3>1, <2>1, <2>2, <2>5, <1>2 DEF Inv, WordInv
  <2> QED
    BY <2>4, <2>5
<1>6. EnableInv'
  BY <1>1 DEF Inv, EnableInv
<1>7. HandlerInv' /\ IsrInv'
  BY <1>1 DEF Inv, HandlerInv, Handled, IsrInv, Own, hardware
<1> QED
  BY <1>3, <1>4, <1>5, <1>6, <1>7 DEF Inv

LEMMA EnableReadInv ==
  ASSUME Inv, NEW c \in Cores, EnableRead(c)
  PROVE  Inv'
<1> DEFINE n == thread[c].line
<1>1. /\ n \in Devices /\ Own(c, n) /\ n \in handlers /\ ThreadAt(c, thread[c].pc)
      /\ enable[BankOf(n)] \in SUBSET Bits
  BY SlotFacts, LineFacts DEF Inv, TypeOK, ThreadInv, EnableRead, ThreadAt
<1>2. thread' = [thread EXCEPT
                   ![c] = [pc |-> "store", line |-> n, word |-> enable[BankOf(n)]]]
  BY DEF Inv, TypeOK, EnableRead
<1>3. /\ Overlaps(c, BankOf(n))
      /\ UNCHANGED <<handlers, enable, hardware, isr, want>>
  BY DEF EnableRead
<1> HIDE DEF n
<1> QED
  BY <1>1, <1>2, <1>3, ReadInv

LEMMA DisableReadInv ==
  ASSUME Inv, NEW c \in Cores, NEW n \in Devices, DisableRead(c, n)
  PROVE  Inv'
<1>1. PICK w \in SUBSET (Wired(BankOf(n)) \ enable[BankOf(n)]) :
        thread' = [thread EXCEPT ![c] = [pc |-> "clear", line |-> n, word |-> w]]
  BY DEF DisableRead
<1>2. /\ Own(c, n) /\ ThreadAt(c, thread[c].pc) /\ Overlaps(c, BankOf(n))
      /\ UNCHANGED <<handlers, enable, hardware, isr, want>>
  BY DEF DisableRead, ThreadAt
<1>3. w \in SUBSET Bits /\ w \cap enable[BankOf(n)] = {}
  BY DEF Wired
<1> QED
  BY <1>1, <1>2, <1>3, ReadInv

\* A thread writes its word, which changes one bank: in a bank where no calls
\* overlapped it changes one line, as asked.
LEMMA WriteInv ==
  ASSUME Inv, NEW c \in Cores, NEW n \in Devices, NEW reg \in SUBSET Bits, NEW asked,
         Between(c, BankOf(n)), Own(c, n), isr[c].pc = "idle",
         enable' = [enable EXCEPT ![BankOf(n)] = reg],
         Handled(BankOf(n), reg),
         want' = asked, asked \subseteq Lines,
         \A m \in Lines \ {n} : m \in asked <=> m \in want,
         BankOf(n) \notin overlap => \A m \in Lines : BankOf(m) = BankOf(n) =>
           (m \in asked <=> BitOf(m) \in reg),
         thread' = [thread EXCEPT ![c] = NotCalled],
         UNCHANGED <<handlers, hardware, isr, overlap>>
  PROVE  Inv'
<1> DEFINE b == BankOf(n)
<1>0. n \in Lines /\ b \in Banks
  BY SlotFacts, LineFacts
<1>1. /\ enable'[b] = reg /\ \A x \in Banks \ {b} : enable'[x] = enable[x]
      /\ thread'[c].pc = "idle" /\ \A d \in Cores \ {c} : thread'[d] = thread[d]
  BY <1>0 DEF Inv, TypeOK, NotCalled
<1> HIDE DEF b
<1>2. TypeOK'
  BY <1>0, SlotFacts DEF Inv, TypeOK, NotCalled, hardware, b
<1>3. ThreadInv'
  <2> SUFFICES ASSUME NEW d \in Cores PROVE ThreadInv!(d)'
    BY DEF ThreadInv
  <2> QED
    BY <1>1 DEF Inv, ThreadInv, Handled, Own
<1>4. WordInv'
  <2> SUFFICES ASSUME NEW x \in Banks, x \notin overlap, NEW d \in Cores,
                      Between(d, x)'
               PROVE  /\ \A e \in Cores : Between(e, x)' => e = d
                      /\ thread'[d].pc = "store" => thread'[d].word \subseteq enable'[x]
                      /\ thread'[d].pc = "clear" => thread'[d].word \cap enable'[x] = {}
    BY DEF WordInv
  <2>1. \A e \in Cores : Between(e, x)' => e # c /\ Between(e, x)
    BY <1>1 DEF Between
  <2>2. x # b
    BY <2>1 DEF Inv, WordInv, b
  <2> QED
    BY <2>1, <2>2, <1>1 DEF Inv, WordInv
<1>5. EnableInv'
  <2> SUFFICES ASSUME NEW m \in Lines, BankOf(m) \notin overlap
               PROVE  m \in asked <=> BitOf(m) \in enable'[BankOf(m)]
    BY DEF EnableInv
  <2>1. CASE BankOf(m) = b
    BY <2>1, <1>1 DEF b
  <2>2. CASE BankOf(m) # b
    BY <2>2, <1>1, LineFacts DEF Inv, EnableInv, b
  <2> QED
    BY <2>1, <2>2
<1>6. HandlerInv'
  BY <1>1 DEF Inv, HandlerInv, Handled, hardware, b
<1>7. IsrInv'
  <2> SUFFICES ASSUME NEW d \in Cores PROVE IsrInv!(d)'
    BY DEF IsrInv
  <2>1. Own(d, isr[d].slot) /\ isr[d].pc = "call" => isr[d].slot # n
    BY DEF Own
  <2>2. isr[d].slot \in Devices => isr[d].slot \in Lines
    BY SlotFacts
  <2> QED
    BY <2>1, <2>2 DEF Inv, IsrInv, Own, hardware
<1> QED
  BY <1>2, <1>3, <1>4, <1>5, <1>6, <1>7 DEF Inv

LEMMA EnableWriteInv ==
  ASSUME Inv, NEW c \in Cores, EnableWrite(c)
  PROVE  Inv'
<1> DEFINE n == thread[c].line
           b == BankOf(n)
           reg == enable[b] \cup thread[c].word \cup {BitOf(n)}
<1>1. /\ n \in Devices /\ n \in Lines /\ b \in Banks /\ BitOf(n) \in Bits
      /\ Own(c, n) /\ n \in handlers /\ Handled(b, thread[c].word)
      /\ thread[c].pc = "store" /\ isr[c].pc = "idle" /\ Between(c, b)
  BY SlotFacts, LineFacts
     DEF Inv, TypeOK, ThreadInv, EnableWrite, ThreadAt, Between
<1>2. /\ enable' = [enable EXCEPT ![b] = reg] /\ want' = want \cup {n}
      /\ thread' = [thread EXCEPT ![c] = NotCalled]
      /\ UNCHANGED <<handlers, hardware, isr, overlap>>
  BY <1>1 DEF EnableWrite, Inv, TypeOK
<1>3. reg \in SUBSET Bits /\ want \cup {n} \subseteq Lines
  BY <1>1 DEF Inv, TypeOK
<1>4. Handled(b, reg)
  BY <1>1, LineFacts DEF Handled, Inv, HandlerInv
<1>5. ASSUME b \notin overlap, NEW m \in Lines, BankOf(m) = b
      PROVE  m \in want \cup {n} <=> BitOf(m) \in reg
  <2>1. thread[c].word \subseteq enable[b]
    BY <1>1, <1>5 DEF Inv, WordInv
  <2>2. BitOf(m) = BitOf(n) => m = n
    BY <1>1, <1>5, LineFacts
  <2> QED
    BY <2>1, <2>2, <1>5 DEF Inv, EnableInv
<1> HIDE DEF n, b, reg
<1> QED
  BY <1>1, <1>2, <1>3, <1>4, <1>5, WriteInv DEF b

LEMMA DisableWriteInv ==
  ASSUME Inv, NEW c \in Cores, DisableWrite(c)
  PROVE  Inv'
<1> DEFINE n == thread[c].line
           b == BankOf(n)
           reg == enable[b] \ (thread[c].word \cup {BitOf(n)})
<1>1. /\ n \in Devices /\ n \in Lines /\ b \in Banks /\ BitOf(n) \in Bits
      /\ Own(c, n) /\ thread[c].pc = "clear" /\ isr[c].pc = "idle" /\ Between(c, b)
  BY SlotFacts, LineFacts
     DEF Inv, TypeOK, ThreadInv, DisableWrite, ThreadAt, Between
<1>2. /\ enable' = [enable EXCEPT ![b] = reg] /\ want' = want \ {n}
      /\ thread' = [thread EXCEPT ![c] = NotCalled]
      /\ UNCHANGED <<handlers, hardware, isr, overlap>>
  BY <1>1 DEF DisableWrite, Inv, TypeOK
<1>3. reg \in SUBSET Bits /\ want \ {n} \subseteq Lines
  BY <1>1 DEF Inv, TypeOK
<1>4. Handled(b, reg)
  BY <1>1 DEF Handled, Inv, HandlerInv
<1>5. ASSUME b \notin overlap, NEW m \in Lines, BankOf(m) = b
      PROVE  m \in want \ {n} <=> BitOf(m) \in reg
  <2>1. thread[c].word \cap enable[b] = {}
    BY <1>1, <1>5 DEF Inv, WordInv
  <2>2. BitOf(m) = BitOf(n) => m = n
    BY <1>1, <1>5, LineFacts
  <2> QED
    BY <2>1, <2>2, <1>5 DEF Inv, EnableInv
<1> HIDE DEF n, b, reg
<1> QED
  BY <1>1, <1>2, <1>3, <1>4, <1>5, WriteInv DEF b

-----------------------------------------------------------------------------
(* dispatch() *)

\* A step of the handler of core c that changes nothing but where it is.
LEMMA IsrFrame ==
  ASSUME Inv, NEW c \in Cores, NEW r, isr' = [isr EXCEPT ![c] = r],
         UNCHANGED <<handlers, enable, hardware, thread, history>>,
         r \in [pc : {"idle", "source", "pending1", "pending2", "call"},
                slot : Slots],
         r.pc \in {"pending1", "pending2"} => c = GpuCore,
         r.pc = "call" =>
           /\ r.slot \in handlers
           /\ r.slot >= kLocalBase => r.slot - kLocalBase \in timers[c]
           /\ r.slot < kLocalBase =>
                /\ c = GpuCore /\ r.slot \in Devices
                /\ Own(c, r.slot) =>
                     /\ r.slot \in raised
                     /\ BankOf(r.slot) \notin overlap => r.slot \in want
  PROVE  Inv'
<1> USE DEF Inv
<1>1. TypeOK'
  BY DEF TypeOK, hardware, history
<1>2. ThreadInv' /\ WordInv' /\ EnableInv' /\ HandlerInv'
  BY DEF ThreadInv, WordInv, Between, Own, EnableInv, HandlerInv, Handled, hardware,
         history
<1>3. IsrInv'
  BY DEF IsrInv, Own, TypeOK, hardware, history
<1> QED
  BY <1>1, <1>2, <1>3

\* A pending bit is a line that is raised and has a handler, and that was asked for
\* if no calls overlapped in its bank.
LEMMA PendingFacts ==
  ASSUME Inv, NEW b \in Banks, NEW bit \in Pending(b)
  PROVE  /\ LineOf(b, bit) \in raised \cap handlers
         /\ bit \in Bits /\ LineOf(b, bit) \in Lines /\ LineOf(b, bit) \in Devices
         /\ BankOf(LineOf(b, bit)) \notin overlap => LineOf(b, bit) \in want
<1>1. bit \in Bits /\ bit \in enable[b] /\ LineOf(b, bit) \in raised
  BY DEF Pending, Inv, TypeOK
<1>2. BankOf(LineOf(b, bit)) \notin overlap => LineOf(b, bit) \in want
  BY <1>1, BitFacts DEF Inv, EnableInv
<1>3. LineOf(b, bit) \in handlers
  BY <1>1 DEF Inv, HandlerInv, Handled
<1> QED
  BY <1>1, <1>2, <1>3, BitFacts DEF Inv, TypeOK

LEMMA DispatchInv ==
  ASSUME Inv, NEW c \in Cores,
         IsrEnter(c) \/ ReadSource(c) \/ ReadPending1(c) \/ ReadPending2(c)
  PROVE  Inv'
<1> DEFINE At(pc) == [isr[c] EXCEPT !.pc = pc]
           Call(slot) == [pc |-> "call", slot |-> slot]
           Pc == {"idle", "source", "pending1", "pending2", "call"}
<1>1. isr[c] \in [pc : Pc, slot : Slots] /\ isr \in [Cores -> [pc : Pc, slot : Slots]]
  BY DEF Inv, TypeOK
<1>2. AtRest \in [pc : Pc, slot : Slots] /\ AtRest.pc = "idle"
  BY SlotFacts DEF AtRest
<1>3. ASSUME NEW pc \in {"source", "pending1", "pending2"},
             isr' = [isr EXCEPT ![c].pc = pc],
             UNCHANGED <<handlers, enable, hardware, thread, history>>,
             pc # "source" => c = GpuCore
      PROVE  Inv'
  <2>1. isr' = [isr EXCEPT ![c] = At(pc)]
    BY <1>3, <1>1
  <2>2. At(pc) \in [pc : Pc, slot : Slots] /\ At(pc).pc = pc
    BY <1>1
  <2> HIDE DEF At
  <2> QED
    BY <2>1, <2>2, <1>3, IsrFrame
<1>4. ASSUME Return(c), UNCHANGED <<handlers, enable, hardware, thread, history>>
      PROVE  Inv'
  BY <1>4, <1>2, IsrFrame DEF Return
<1>5. ASSUME NEW b \in Banks, NEW bit \in Pending(b), Decide(c, LineOf(b, bit)),
             c = GpuCore, UNCHANGED <<handlers, enable, hardware, thread, history>>
      PROVE  Inv'
  <2>1. /\ LineOf(b, bit) \in raised \cap handlers /\ LineOf(b, bit) \in Devices
        /\ BankOf(LineOf(b, bit)) \notin overlap => LineOf(b, bit) \in want
        /\ LineOf(b, bit) \in Slots /\ LineOf(b, bit) < kLocalBase
        /\ LineOf(b, bit) \in Nat /\ kLocalBase \in Nat
    BY PendingFacts, SlotFacts DEF Lines
  <2> DEFINE r == Call(LineOf(b, bit))
  <2>2. /\ r \in [pc : Pc, slot : Slots]
        /\ r.pc = "call" /\ r.slot = LineOf(b, bit)
    BY <2>1
  <2>3. ~(r.slot >= kLocalBase)
    BY <2>1, <2>2
  <2>4. isr' = [isr EXCEPT ![c] = r]
    BY <1>5 DEF Decide
  <2> HIDE DEF r
  <2> QED
    BY <2>1, <2>2, <2>3, <2>4, <1>5, IsrFrame
<1>6. ASSUME IsrEnter(c) PROVE Inv'
  BY <1>6, <1>3 DEF IsrEnter
<1>7. ASSUME ReadSource(c) PROVE Inv'
  <2> DEFINE source == Source(CoreId(c))
             local  == source \cap LocalLines
  <2>1. local \subseteq timers[c]
    BY DEF Source, CoreId, LocalLines, GPU
  <2>2. ASSUME NEW line \in lowest_set_bit(local), Decide(c, kLocalBase + line)
        PROVE  Inv'
    <3>1. line \in timers[c] /\ line = CNTPNSIRQ /\ line \in LocalLines
      BY <2>1, <2>2 DEF lowest_set_bit, Inv, HandlerInv
    <3>2. kLocalBase + line \in handlers /\ kLocalBase + line \in Slots
      BY <3>1, SlotFacts DEF Inv, HandlerInv
    <3>3. kLocalBase + line >= kLocalBase /\ ~(kLocalBase + line < kLocalBase)
          /\ (kLocalBase + line) - kLocalBase = line
      BY <3>1, SlotFacts DEF CNTPNSIRQ
    <3>4. Call(kLocalBase + line) \in [pc : Pc, slot : Slots]
      BY <3>2
    <3> QED
      BY <3>1, <3>2, <3>3, <3>4, <2>2, <1>7, IsrFrame DEF Decide, ReadSource
  <2>3. ASSUME GPU \in source, isr' = [isr EXCEPT ![c].pc = "pending1"]
        PROVE  Inv'
    <3>1. GPU \notin timers[c]
      BY DEF Inv, HandlerInv, CNTPNSIRQ, GPU
    <3>2. c = GpuCore
      BY <2>3, <3>1 DEF Source, CoreId
    <3> QED
      BY <3>2, <2>3, <1>3, <1>7 DEF ReadSource
  <2> QED
    BY <2>2, <2>3, <1>4, <1>7 DEF ReadSource
<1>8. ASSUME ReadPending1(c) PROVE Inv'
  <2>1. c = GpuCore
    BY <1>8 DEF ReadPending1, Inv, IsrInv
  <2>2. ASSUME NEW bit \in lowest_set_bit(Pending(1)), Decide(c, bit)
        PROVE  Inv'
    <3>1. 1 \in Banks /\ bit \in Pending(1) /\ bit = LineOf(1, bit)
      BY DEF lowest_set_bit, LineOf, Banks
    <3> QED
      BY <3>1, <2>1, <2>2, <1>5, <1>8 DEF ReadPending1
  <2> QED
    BY <2>1, <2>2, <1>3, <1>8 DEF ReadPending1
<1>9. ASSUME ReadPending2(c) PROVE Inv'
  <2>1. c = GpuCore
    BY <1>9 DEF ReadPending2, Inv, IsrInv
  <2>2. ASSUME NEW bit \in lowest_set_bit(Pending(2)), Decide(c, Width + bit)
        PROVE  Inv'
    <3>1. 2 \in Banks /\ bit \in Pending(2)
      BY DEF lowest_set_bit, Banks
    <3>2. Width + bit = LineOf(2, bit)
      BY <3>1, PendingFacts, BitFacts
    <3> QED
      BY <3>1, <3>2, <2>1, <2>2, <1>5, <1>9 DEF ReadPending2
  <2> QED
    BY <2>1, <2>2, <1>4, <1>9 DEF ReadPending2
<1> QED
  BY <1>6, <1>7, <1>8, <1>9

LEMMA CallHandlerInv ==
  ASSUME Inv, NEW c \in Cores, CallHandler(c)
  PROVE  Inv'
<1> DEFINE slot == isr[c].slot
<1>1. /\ slot \in Slots
      /\ \/ raised' = raised \ {slot}
            /\ timers' = [timers EXCEPT ![c] = @ \ {slot - kLocalBase}]
         \/ raised' = raised /\ timers' = timers
      /\ isr' = [isr EXCEPT ![c] = AtRest]
      /\ UNCHANGED <<handlers, enable, thread, history>>
  BY DEF CallHandler, Serves, Return, hardware, Inv, IsrInv, TypeOK
<1>2. slot < kLocalBase => c = GpuCore
  BY DEF CallHandler, Inv, IsrInv
<1> USE DEF Inv
<1> HIDE DEF slot
<1>3. TypeOK'
  BY <1>1, SlotFacts DEF TypeOK, AtRest, history
<1>4. ThreadInv' /\ WordInv' /\ EnableInv'
  BY <1>1 DEF ThreadInv, WordInv, Between, Own, Handled, EnableInv, history
<1>5. HandlerInv'
  BY <1>1 DEF HandlerInv, Handled, TypeOK
<1>6. IsrInv'
  <2> SUFFICES ASSUME NEW d \in Cores PROVE IsrInv!(d)'
    BY DEF IsrInv
  <2>1. CASE d = c
    BY <2>1, <1>1 DEF TypeOK, AtRest
  <2>2. CASE d # c
    <3>1. isr'[d] = isr[d] /\ timers'[d] = timers[d]
      BY <2>2, <1>1 DEF TypeOK
    <3>2. isr[d].pc = "call" /\ isr[d].slot < kLocalBase => isr[d].slot # slot
      BY <2>2, <1>2 DEF IsrInv
    <3> QED
      BY <3>1, <3>2, <1>1 DEF IsrInv, Own, history
  <2> QED
    BY <2>1, <2>2
<1> QED
  BY <1>3, <1>4, <1>5, <1>6

-----------------------------------------------------------------------------
(* The devices, and all steps *)

LEMMA DeviceInv ==
  ASSUME Inv,
         \/ \E n \in Devices : Raise(n) \/ Withdraw(n)
         \/ \E c \in Cores : TimerFires(c)
  PROVE  Inv'
<1>1. ASSUME NEW n \in Devices, Raise(n) \/ Withdraw(n) PROVE Inv'
  <2>1. raised' \subseteq raised \cup {n}
        /\ UNCHANGED <<handlers, enable, timers, thread, isr, history>>
    BY <1>1 DEF Raise, Withdraw
  <2>2. TypeOK'
    BY <2>1 DEF Inv, TypeOK, history
  <2>3. ThreadInv' /\ WordInv' /\ EnableInv' /\ HandlerInv'
    BY <2>1 DEF Inv, ThreadInv, WordInv, Between, Own, EnableInv, HandlerInv, Handled,
       history
  <2>4. IsrInv'
    <3> SUFFICES ASSUME NEW c \in Cores PROVE IsrInv!(c)'
      BY DEF IsrInv
    <3>1. isr[c].pc = "call" /\ Own(c, isr[c].slot) /\ isr[c].slot \in raised
            => isr[c].slot \in raised'
      BY <1>1 DEF Raise, Withdraw, Own
    <3> QED
      BY <3>1, <2>1 DEF Inv, IsrInv, Own, history
  <2> QED
    BY <2>2, <2>3, <2>4 DEF Inv
<1>2. ASSUME NEW c \in Cores, TimerFires(c) PROVE Inv'
  <2>1. TypeOK'
    BY <1>2 DEF TimerFires, Inv, TypeOK, LocalLines, CNTPNSIRQ, history
  <2>2. ThreadInv' /\ WordInv' /\ EnableInv'
    BY <1>2 DEF TimerFires, Inv, ThreadInv, WordInv, Between, Own, Handled, EnableInv,
       history
  <2>3. HandlerInv' /\ IsrInv'
    BY <1>2 DEF TimerFires, Inv, TypeOK, HandlerInv, Handled, IsrInv, Own, history
  <2> QED
    BY <2>1, <2>2, <2>3 DEF Inv
<1> QED
  BY <1>1, <1>2

LEMMA NextInv == Inv /\ [Next]_vars => Inv'
<1> SUFFICES ASSUME Inv, [Next]_vars PROVE Inv'
  OBVIOUS
<1>1. ASSUME NEW c \in Cores, ThreadStep(c) PROVE Inv'
  BY <1>1, SetUpInv, EnableReadInv, EnableWriteInv, DisableReadInv,
     DisableWriteInv DEF ThreadStep
<1>2. ASSUME NEW c \in Cores, IsrStep(c) PROVE Inv'
  BY <1>2, DispatchInv, CallHandlerInv DEF IsrStep
<1>3. CASE UNCHANGED vars
  BY <1>3 DEF vars, hardware, history, Inv, TypeOK, ThreadInv, WordInv, Between, Own,
     EnableInv, HandlerInv, Handled, IsrInv
<1> QED
  BY <1>1, <1>2, <1>3, DeviceInv DEF Next

LEMMA Invariance == Spec => []Inv
  BY InitInv, NextInv, PTL DEF Spec

-----------------------------------------------------------------------------
\* What the invariant says of a state.
LEMMA Safe == Inv => TypeOK /\ NoStorm /\ CalledIsPending /\ AsRequested
<1> SUFFICES ASSUME Inv PROVE TypeOK /\ NoStorm /\ CalledIsPending /\ AsRequested
  OBVIOUS
<1>1. TypeOK /\ NoStorm
  BY DEF Inv, IsrInv, NoStorm
<1>2. CalledIsPending
  <2> SUFFICES ASSUME NEW c \in Cores, isr[c].pc = "call"
               PROVE  CalledIsPending!(c)!2
    BY DEF CalledIsPending
  <2> QED
    BY SlotFacts DEF Inv, IsrInv, TypeOK, Slots
<1>3. AsRequested
  <2> SUFFICES ASSUME NEW n \in Devices, BankOf(n) \notin overlap
               PROVE  (n \in want <=> n \in On) /\ (n \in want <=> isEnabled(n))
    BY DEF AsRequested
  <2>0. n \in Lines
    BY SlotFacts
  <2>1. n \in want <=> isEnabled(n)
    BY <2>0 DEF Inv, EnableInv, isEnabled
  <2>2. n \in On <=> BitOf(n) \in enable[BankOf(n)]
    <3>1. ASSUME n \in On PROVE BitOf(n) \in enable[BankOf(n)]
      BY <2>0, <3>1, BitFacts DEF On, Inv, TypeOK
    <3>2. ASSUME BitOf(n) \in enable[BankOf(n)] PROVE n \in On
      BY <2>0, <3>2, LineFacts DEF On
    <3> QED
      BY <3>1, <3>2
  <2> QED
    BY <2>1, <2>2 DEF isEnabled
<1> QED
  BY <1>1, <1>2, <1>3

\* Every reachable state of the dispatcher is well typed; in particular it never
\* decides on a slot outside the table of handlers.
THEOREM TypeCorrect == Spec => []TypeOK
  BY Safe, Invariance, PTL

\* dispatch() never meets a pending source without a handler, so no level-
\* triggered line re-enters it for ever.
THEOREM NeverStorms == Spec => []NoStorm
  BY Safe, Invariance, PTL

\* However long ago the registers were read: the handler that dispatch() calls is
\* for a timer of its core that is still up or, where the driver's thread is on this
\* core, for a device that still asks for it.
THEOREM CallsPending == Spec => []CalledIsPending
  BY Safe, Invariance, PTL

\* Cores may share a bank: as long as no two calls on it overlap, no update of its
\* enable register is lost, to another core or to an interrupt.
THEOREM EnabledAsRequested == Spec => []AsRequested
  BY Safe, Invariance, PTL
=============================================================================
