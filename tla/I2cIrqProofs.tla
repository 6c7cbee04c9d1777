---------------------------- MODULE I2cIrqProofs ----------------------------
(***************************************************************************)
(* Theorems about module I2cIrq, for every value of its constants: type    *)
(* correctness, action by action; on top of it the invariants about who    *)
(* owns the transfer record; on top of these that the transport implements *)
(* the seam, and that neither the handler nor the controller waits for the *)
(* other.                                                                  *)
(***************************************************************************)
EXTENDS I2cIrq, TLAPS

\* The register operations that the programs are built from are operations.
LEMMA OpTypes ==
  /\ \A f \in CtrlBits \cup Strobes : Clr(f) \in Op /\ Set(f) \in Op
  /\ \A f \in Latched : W1cOp(f) \in Op
  /\ DlenOp \in Op
  /\ RmwOp({}, {}) \in Op
  BY SMT DEF Clr, Set, RmwOp, W1cOp, DlenOp, Op, CtrlBits, Strobes, Latched, IntBits

\* Every register program is a sequence of operations.
LEMMA ProgramTypes == ASSUME NEW p \in ProgNames PROVE Program(p) \in Seq(Op)
<1> DEFINE int(r) == IF r THEN "INTR" ELSE "INTT"
           dir(r) == IF r THEN Set("READ") ELSE RmwOp({}, {})
<1>1. ASSUME NEW r \in BOOLEAN PROVE StartProg(r) \in Seq(Op)
  <2>1. /\ int(r) \in CtrlBits \cup Strobes
        /\ {"CLEAR", "ST", "INTD", "READ", "I2CEN"} \subseteq CtrlBits \cup Strobes
        /\ {"DONE", "ERR", "CLKT"} \subseteq Latched
    BY DEF CtrlBits, Strobes, Latched, IntBits
  <2>2. dir(r) \in Op
    BY OpTypes, <2>1
  <2>3. /\ Clr("CLEAR") \in Op /\ Set("CLEAR") \in Op
        /\ W1cOp("DONE") \in Op /\ W1cOp("ERR") \in Op /\ W1cOp("CLKT") \in Op
        /\ DlenOp \in Op
        /\ Clr(int(r)) \in Op /\ Set(int(r)) \in Op
        /\ Clr("INTD") \in Op /\ Set("INTD") \in Op
        /\ Clr("I2CEN") \in Op /\ Set("I2CEN") \in Op
        /\ Clr("READ") \in Op /\ Clr("ST") \in Op /\ Set("ST") \in Op
    BY OpTypes, <2>1
  <2> QED
    BY <2>2, <2>3 DEF StartProg
<1>2. FinalizeProg \in Seq(Op)
  BY OpTypes DEF FinalizeProg, CtrlBits, Strobes, Latched, IntBits
<1>3. AbortProg \in Seq(Op)
  BY OpTypes DEF AbortProg, CtrlBits, Strobes, Latched, IntBits
<1>4. <<>> \in Seq(Op)
  OBVIOUS
<1> QED
  BY <1>1, <1>2, <1>3, <1>4 DEF Program, ProgNames

-----------------------------------------------------------------------------
(* Type correctness, part by part *)

\* A store to the control register keeps the controller well typed.
LEMMA StoreTypes ==
  ASSUME BscTypeOK, NEW w \in SUBSET (CtrlBits \cup Strobes),
         NEW id \in 0 .. MaxXfers, StoreC(w, id)
  PROVE  BscTypeOK'
<1>1. ctrl' \in SUBSET CtrlBits
  BY DEF StoreC
<1>2. fifo' \in Seq(0 .. MaxXfers)
  <2>1. <<>> \in Seq(0 .. MaxXfers)
    OBVIOUS
  <2>2. fifo \in Seq(0 .. MaxXfers)
    BY DEF BscTypeOK
  <2>3. fifo' = <<>> \/ fifo' = fifo
    BY DEF StoreC
  <2> QED
    BY <2>1, <2>2, <2>3
<1>3. wire' \in [id : 0 .. MaxXfers, reading : BOOLEAN,
                 left : 0 .. DlenMod - 1, wedged : BOOLEAN]
  <2> DEFINE dir == "READ" \in w
  <2>1. dir \in BOOLEAN /\ dlen \in 0 .. DlenMod - 1
    BY DEF BscTypeOK
  <2>2. \/ wire' = [id |-> id, reading |-> dir, left |-> dlen, wedged |-> FALSE]
        \/ wire' = wire
    BY DEF StoreC
  <2>3. wire \in [id : 0 .. MaxXfers, reading : BOOLEAN,
                  left : 0 .. DlenMod - 1, wedged : BOOLEAN]
    BY DEF BscTypeOK
  <2> HIDE DEF dir
  <2>4. [id |-> id, reading |-> dir, left |-> dlen, wedged |-> FALSE]
          \in [id : 0 .. MaxXfers, reading : BOOLEAN,
              left : 0 .. DlenMod - 1, wedged : BOOLEAN]
    BY <2>1
  <2> QED
    BY <2>2, <2>3, <2>4
<1>4. stat' \in SUBSET Latched /\ dlen' \in 0 .. DlenMod - 1
  BY DEF StoreC, BscTypeOK
<1> QED
  BY <1>1, <1>2, <1>3, <1>4 DEF BscTypeOK

\* What is left of a length in DLEN is a DLEN value.
LEMMA DlenTypes == ASSUME NEW n \in Nat PROVE n % DlenMod \in 0 .. DlenMod - 1
  BY BscAssumption

\* Counting one more of something keeps a table of counters a table of counters.
LEMMA BumpTypes ==
  ASSUME NEW f \in [Ids -> Nat], NEW x
  PROVE  [f EXCEPT ![x] = @ + 1] \in [Ids -> Nat]
<1>1. CASE x \in Ids
  BY <1>1
<1>2. CASE x \notin Ids
  BY <1>2
<1> QED
  BY <1>1, <1>2

\* Append and Tail keep a sequence in its set.
LEMMA QueueTypes ==
  ASSUME NEW S, NEW q \in Seq(S)
  PROVE  /\ \A e \in S : Append(q, e) \in Seq(S)
         /\ q # <<>> => Tail(q) \in Seq(S)
  OBVIOUS

\* Going on to the next step of a program keeps the contexts well typed.
LEMMA AdvanceTypes ==
  ASSUME ProgType, NEW c \in Ctx, Advance(c), UNCHANGED prog
  PROVE  ProgType'
  BY DEF ProgType, Advance

\* So does loading a program.
LEMMA LoadTypes ==
  ASSUME ProgType, NEW c \in Ctx, NEW p \in ProgNames, Load(c, p)
  PROVE  ProgType'
  BY DEF ProgType, Load

\* One register access of the thread or of the handler keeps every type.
LEMMA AccessTypes ==
  ASSUME TypeOK, NEW c \in Ctx, Access(c)
  PROVE  TypeOK'
<1> DEFINE op == Program(prog[c])[at[c]]
<1> USE DEF TypeOK
<1>1. op \in Op
  <2>1. prog[c] \in ProgNames /\ at[c] \in Nat \ {0}
    BY DEF ProgType
  <2>2. Program(prog[c]) \in Seq(Op) /\ at[c] \in 1 .. Len(Program(prog[c]))
    BY <2>1, ProgramTypes DEF Access, Ended
  <2> QED
    BY <2>2
<1>2. UNCHANGED <<xfer, thread, isr, prog, used, want, moved, outcome, cbs>>
  BY DEF Access, history
<1>3. XferType' /\ ContextType' /\ HistoryType'
  BY <1>2 DEF XferType, ContextType, HistoryType
<1>4. BscTypeOK' /\ ProgType'
  <2>1. CASE word' = [word EXCEPT ![c] = ctrl] /\ UNCHANGED <<bscVars, at>>
    BY <2>1, <1>2 DEF BscTypeOK, ProgType, bscVars
  <2>2. CASE word[c] # NoWord
             /\ StoreC((word[c] \ op.off) \cup op.on, xfer.id) /\ Advance(c)
    <3>1. word[c] \in (SUBSET CtrlBits) \cup {NoWord}
      BY DEF ProgType
    <3>2. op.on \in SUBSET (CtrlBits \cup Strobes)
      BY <1>1 DEF Op
    <3>3. (word[c] \ op.off) \cup op.on \in SUBSET (CtrlBits \cup Strobes)
      BY <2>2, <3>1, <3>2
    <3>4. xfer.id \in 0 .. MaxXfers
      BY DEF XferType
    <3> QED
      BY <1>2, <2>2, <3>3, <3>4, StoreTypes, AdvanceTypes
  <2>3. CASE ClrStatus(op.off) /\ Advance(c)
    <3>1. BscTypeOK'
      BY <2>3 DEF BscTypeOK, ClrStatus
    <3> QED
      BY <1>2, <2>3, <3>1, AdvanceTypes
  <2>4. CASE DataLength(xfer.n) /\ Advance(c)
    <3>1. xfer.n % DlenMod \in 0 .. DlenMod - 1
      BY DlenTypes DEF XferType
    <3>2. BscTypeOK'
      BY <2>4, <3>1 DEF BscTypeOK, DataLength
    <3> QED
      BY <1>2, <2>4, <3>2, AdvanceTypes
  <2> QED
    BY <2>1, <2>2, <2>3, <2>4 DEF Access
<1> QED
  BY <1>3, <1>4

\* So does the assignment of m_xfer at the top of start().
LEMMA StartTypes ==
  ASSUME TypeOK, NEW c \in Ctx, NEW reading \in BOOLEAN, NEW n \in Nat,
         NEW async \in BOOLEAN, Start(c, reading, n, async)
  PROVE  BscTypeOK' /\ XferType' /\ ProgType' /\ HistoryType'
<1> USE DEF TypeOK
<1>1. used + 1 \in 0 .. MaxXfers /\ used' = used + 1
  BY BscAssumption DEF Start, HistoryType
<1>2. xfer' = [id |-> used + 1, reading |-> reading, n |-> n, i |-> 0,
               done |-> FALSE, result |-> "Timeout", async |-> async,
               cb |-> async, active |-> TRUE]
  BY DEF Start, NoXfer
<1>3. XferType'
  BY <1>1, <1>2 DEF XferType, Results
<1>4. ProgType'
  <2>1. Load(c, IF reading THEN "startRead" ELSE "startWrite")
    BY DEF Start
  <2>2. (IF reading THEN "startRead" ELSE "startWrite") \in ProgNames
    BY DEF ProgNames
  <2> QED
    BY <2>1, <2>2, LoadTypes
<1>5. HistoryType'
  BY <1>1 DEF Start, HistoryType
<1>6. BscTypeOK'
  BY DEF Start, bscVars, BscTypeOK
<1> QED
  BY <1>3, <1>4, <1>5, <1>6

\* So does every step of the thread ...
LEMMA ThreadTypes ==
  ASSUME TypeOK, ThreadStep
  PROVE  TypeOK'
<1> USE DEF TypeOK
<1>1. CASE ThreadAccess
  BY <1>1, AccessTypes DEF ThreadAccess, Ctx
<1>2. CASE Started
  <2>1. ProgType'
    BY <1>2, LoadTypes DEF Started, Unload, Ctx, ProgNames
  <2>2. thread' = [thread EXCEPT !.pc = "check"] \/ thread' = [thread EXCEPT !.pc = "idle"]
    BY <1>2 DEF Started
  <2>3. ContextType'
    BY <1>2, <2>2 DEF Started, ContextType
  <2> QED
    BY <1>2, <2>1, <2>3 DEF Started, BscTypeOK, bscVars, XferType, HistoryType, history
<1>3. CASE CheckPending
  BY <1>3, ZenonT(30) DEF CheckPending, BscTypeOK, bscVars, XferType, ContextType,
     ProgType, HistoryType, history
<1>4. CASE CheckDone
  <2>1. outcome' = [outcome EXCEPT ![thread.id] = xfer.result]
        /\ xfer.result \in Results
    BY <1>4 DEF CheckDone, Report, XferType
  <2>2. HistoryType'
    BY <1>4, <2>1 DEF CheckDone, HistoryType
  <2>3. thread' = [thread EXCEPT !.pc = "second"] \/ thread' = [thread EXCEPT !.pc = "idle"]
    BY <1>4 DEF CheckDone
  <2>4. ContextType'
    BY <1>4, <2>3 DEF CheckDone, ContextType
  <2> QED
    BY <1>4, <2>2, <2>4 DEF CheckDone, BscTypeOK, bscVars, XferType, ProgType
<1>5. CASE WaitForIrq
  <2> DEFINE waits == thread.waits + 1
  <2>1. waits \in Nat
    BY DEF ContextType
  <2>2. thread' = [thread EXCEPT !.pc = "check", !.waits = waits]
    BY <1>5 DEF WaitForIrq
  <2> HIDE DEF waits
  <2>3. ContextType'
    BY <1>5, <2>1, <2>2 DEF WaitForIrq, ContextType
  <2> QED
    BY <1>5, <2>3 DEF WaitForIrq, BscTypeOK, bscVars, XferType, ProgType,
       HistoryType, history
<1>6. CASE GiveUp
  <2>1. ProgType'
    BY <1>6, LoadTypes DEF GiveUp, Ctx, ProgNames
  <2> QED
    BY <1>6, <2>1, ZenonT(60) DEF GiveUp, BscTypeOK, bscVars, XferType, ContextType,
       HistoryType, history
<1>7. CASE Aborted
  <2>1. ProgType'
    BY <1>7, LoadTypes DEF Aborted, Unload, Ctx, ProgNames
  <2>2. outcome' = [outcome EXCEPT ![thread.id] = "Timeout"]
    BY <1>7 DEF Aborted, Report
  <2>3. HistoryType'
    BY <1>7, <2>2 DEF Aborted, HistoryType, Results
  <2> QED
    BY <1>7, <2>1, <2>3 DEF Aborted, BscTypeOK, bscVars, XferType, ContextType
<1> QED
  BY <1>1, <1>2, <1>3, <1>4, <1>5, <1>6, <1>7 DEF ThreadStep

\* ... every call ...
LEMMA CallTypes ==
  ASSUME TypeOK, Call
  PROVE  TypeOK'
<1> USE DEF TypeOK
<1>1. CASE BusInit
  <2>1. BscTypeOK'
    BY <1>1 DEF BusInit, BscTypeOK, CtrlBits
  <2> QED
    BY <1>1, <2>1 DEF BusInit, XferType, ContextType, ProgType, HistoryType, history
<1>2. CASE SecondHalf
  <2>1. thread.second \in Nat
    BY DEF ContextType
  <2>2. Start("thread", TRUE, thread.second, FALSE)
    BY <1>2 DEF SecondHalf
  <2>3. BscTypeOK' /\ XferType' /\ ProgType' /\ HistoryType'
    BY <2>1, <2>2, StartTypes DEF Ctx
  <2>4. used + 1 \in 0 .. MaxXfers
    BY <2>2, BscAssumption DEF Start, HistoryType
  <2> QED
    BY <1>2, <2>3, <2>4 DEF SecondHalf, ContextType
<1>3. ASSUME NEW n \in Nat, NEW reading \in BOOLEAN, NEW second \in Nat,
             Blocking(reading, n, second)
      PROVE  TypeOK'
  <2>1. Start("thread", reading, n, FALSE)
    BY <1>3 DEF Blocking
  <2>2. BscTypeOK' /\ XferType' /\ ProgType' /\ HistoryType'
    BY <2>1, StartTypes DEF Ctx
  <2>3. used + 1 \in 0 .. MaxXfers
    BY <2>1, BscAssumption DEF Start, HistoryType
  <2> QED
    BY <1>3, <2>2, <2>3 DEF Blocking, ContextType
<1>4. ASSUME NEW n \in Nat, NEW reading \in BOOLEAN, Async(reading, n)
      PROVE  TypeOK'
  <2>1. Start("thread", reading, n, TRUE)
    BY <1>4 DEF Async
  <2>2. BscTypeOK' /\ XferType' /\ ProgType' /\ HistoryType'
    BY <2>1, StartTypes DEF Ctx
  <2>3. used + 1 \in 0 .. MaxXfers
    BY <2>1, BscAssumption DEF Start, HistoryType
  <2> QED
    BY <1>4, <2>2, <2>3 DEF Async, ContextType
<1>5. Lens \subseteq Nat /\ 0 \in Nat
  BY IrqAssumption
<1> QED
  BY <1>1, <1>2, <1>3, <1>4, <1>5 DEF Call

\* ... every step of the handler; here xfer.i stays within the buffer ...
LEMMA IsrTypes ==
  ASSUME TypeOK, IsrStep \/ IsrCall
  PROVE  TypeOK'
<1> USE DEF TypeOK
<1>1. CASE IsrAccess
  BY <1>1, AccessTypes DEF IsrAccess, Ctx
<1>2. CASE IsrEnter \/ IsrReturn \/ IsrNoCallback \/ IsrCallbackReturn
  BY <1>2, ZenonT(60) DEF IsrEnter, IsrReturn, IsrNoCallback, IsrCallbackReturn, BscTypeOK,
     bscVars, XferType, ContextType, ProgType, HistoryType, history
<1>3. CASE IsrDrain
  <2>1. BscTypeOK'
    <3>1. fifo # <<>> /\ fifo' = Tail(fifo) /\ UNCHANGED <<ctrl, stat, dlen, wire>>
      BY <1>3 DEF IsrDrain, MayDrain, RXD, ReadByte
    <3> QED
      BY <3>1 DEF BscTypeOK
  <2>2. XferType'
    BY <1>3 DEF IsrDrain, MayDrain, XferType
  <2>3. HistoryType'
    BY <1>3, BumpTypes DEF IsrDrain, HistoryType
  <2> QED
    BY <1>3, <2>1, <2>2, <2>3 DEF IsrDrain, ContextType, ProgType
<1>4. CASE IsrFill
  <2>1. BscTypeOK'
    <3>1. /\ fifo' = Append(fifo, xfer.id) \/ fifo' = fifo
          /\ UNCHANGED <<ctrl, stat, dlen, wire>>
      BY <1>4 DEF IsrFill, WriteByte
    <3>2. xfer.id \in 0 .. MaxXfers
      BY DEF XferType
    <3>3. fifo' \in Seq(0 .. MaxXfers)
      BY <3>1, <3>2, QueueTypes DEF BscTypeOK
    <3> QED
      BY <3>1, <3>3 DEF BscTypeOK
  <2>2. XferType'
    BY <1>4 DEF IsrFill, MayFill, XferType
  <2> QED
    BY <1>4, <2>1, <2>2 DEF IsrFill, ContextType, ProgType, HistoryType, history
<1>5. ASSUME NEW r \in Results, Finalize(r)
      PROVE  TypeOK'
  <2>1. ProgType'
    BY <1>5, LoadTypes DEF Finalize, Ctx, ProgNames
  <2> QED
    BY <1>5, <2>1, ZenonT(60) DEF Finalize, BscTypeOK, bscVars, XferType, ContextType,
       HistoryType, history
<1>6. CASE IsrFail \/ IsrDone
  <2>1. PICK r \in Results : Finalize(r)
    BY <1>6 DEF IsrFail, IsrDone, Results
  <2> QED
    BY <2>1, <1>5
<1>7. CASE IsrPublish
  <2>1. ProgType'
    BY <1>7, LoadTypes DEF IsrPublish, Unload, Ctx, ProgNames
  <2>2. XferType' /\ ContextType'
    BY <1>7 DEF IsrPublish, XferType, ContextType
  <2> QED
    BY <1>7, <2>1, <2>2 DEF IsrPublish, BscTypeOK, bscVars, HistoryType, history
<1>8. CASE IsrRelease
  BY <1>8 DEF IsrRelease, BscTypeOK, bscVars, XferType, ContextType, ProgType,
     HistoryType, history
<1>9. CASE IsrCallback
  <2>1. HistoryType'
    <3>1. outcome' = [outcome EXCEPT ![xfer.id] = isr.result]
          /\ isr.result \in Results
      BY <1>9 DEF IsrCallback, Report, ContextType
    <3> QED
      BY <1>9, <3>1, BumpTypes DEF IsrCallback, HistoryType
  <2> QED
    BY <1>9, <2>1 DEF IsrCallback, BscTypeOK, bscVars, XferType, ContextType, ProgType
<1>10. CASE IsrChained
  <2>1. ProgType'
    BY <1>10, LoadTypes DEF IsrChained, Unload, Ctx, ProgNames
  <2> QED
    BY <1>10, <2>1, ZenonT(60) DEF IsrChained, BscTypeOK, bscVars, XferType, ContextType,
       HistoryType, history
<1>11. CASE IsrCall
  <2>1. PICK n \in Lens, reading \in BOOLEAN : IsrChain(reading, n)
    BY <1>11 DEF IsrCall
  <2>2. n \in Nat
    BY IrqAssumption
  <2>3. BscTypeOK' /\ XferType' /\ ProgType' /\ HistoryType'
    BY <2>1, <2>2, StartTypes DEF IsrChain, Ctx
  <2> QED
    BY <2>1, <2>3 DEF IsrChain, ContextType
<1> QED
  BY <1>1, <1>2, <1>3, <1>4, <1>6, <1>7, <1>8, <1>9, <1>10, <1>11 DEF IsrStep

\* ... and every step of the controller.
LEMMA WireTypes ==
  ASSUME TypeOK, WireStep \/ WireFault
  PROVE  TypeOK'
<1> USE DEF TypeOK
<1>1. ASSUME WireByte PROVE BscTypeOK'
  <2>1. wire' = [wire EXCEPT !.left = @ - 1] /\ wire.left \in 1 .. DlenMod - 1
    BY <1>1, BscAssumption DEF WireByte, BscTypeOK
  <2>2. wire.id \in 0 .. MaxXfers
    BY DEF BscTypeOK
  <2>3. fifo' = Append(fifo, wire.id) \/ (fifo # <<>> /\ fifo' = Tail(fifo))
    BY <1>1 DEF WireByte, RXD
  <2>4. fifo' \in Seq(0 .. MaxXfers)
    BY <2>2, <2>3, QueueTypes DEF BscTypeOK
  <2>5. wire' \in [id : 0 .. MaxXfers, reading : BOOLEAN,
                   left : 0 .. DlenMod - 1, wedged : BOOLEAN]
    <3> DEFINE left == wire.left - 1
    <3>1. left \in 0 .. DlenMod - 1
      BY <2>1, BscAssumption
    <3>2. wire' = [wire EXCEPT !.left = left]
      BY <2>1
    <3> HIDE DEF left
    <3> QED
      BY <3>1, <3>2 DEF BscTypeOK
  <2> QED
    BY <1>1, <2>4, <2>5 DEF WireByte, BscTypeOK
<1>2. ASSUME NEW bits \in SUBSET Latched, WireEnd(bits)
      PROVE  BscTypeOK'
  <2>1. IdleWire \in [id : 0 .. MaxXfers, reading : BOOLEAN,
                      left : 0 .. DlenMod - 1, wedged : BOOLEAN]
    BY BscAssumption DEF IdleWire
  <2> QED
    BY <1>2, <2>1 DEF WireEnd, BscTypeOK
<1>3. ASSUME WireWedge PROVE BscTypeOK'
  BY <1>3 DEF WireWedge, BscTypeOK
<1>4. BscTypeOK'
  <2>1. {"DONE"} \in SUBSET Latched /\ {"ERR", "DONE"} \in SUBSET Latched
        /\ {"CLKT", "DONE"} \in SUBSET Latched
    BY DEF Latched
  <2> QED
    BY <1>1, <1>2, <1>3, <2>1 DEF WireStep, WireFault
<1>5. HistoryType'
  BY BumpTypes DEF WireStep, WireFault, history, HistoryType
<1>6. XferType' /\ ContextType' /\ ProgType'
  BY DEF WireStep, WireFault, driver, XferType, ContextType, ProgType
<1> QED
  BY <1>4, <1>5, <1>6

LEMMA TypeNext == ASSUME TypeOK, [Next]_vars PROVE TypeOK'
<1>1. CASE UNCHANGED vars
  BY <1>1, SMTT(30) DEF vars, bscVars, driver, history, TypeOK, BscTypeOK, XferType,
     ContextType, ProgType, HistoryType
<1> QED
  BY <1>1, ThreadTypes, CallTypes, IsrTypes, WireTypes DEF Next

LEMMA TypeInit == Init => TypeOK
<1> SUFFICES ASSUME Init PROVE TypeOK
  OBVIOUS
<1>1. BscTypeOK
  BY BscAssumption DEF Init, BscInit, BscTypeOK, IdleWire
<1>2. XferType /\ ContextType
  BY BscAssumption DEF Init, NoXfer, XferType, ContextType, Results
<1>3. ProgType
  BY DEF Init, ProgType, ProgNames, NoWord
<1>4. HistoryType
  BY BscAssumption DEF Init, HistoryType
<1> QED
  BY <1>1, <1>2, <1>3, <1>4 DEF TypeOK

\* Every variable keeps its type, and ti and ri stay within the buffer the
\* caller passed, for every number of transfers, every FIFO and every budget,
\* whatever the slave, the sharers of the line and the callers do.
THEOREM TypeCorrect == Spec => []TypeOK
  BY TypeInit, TypeNext, PTL DEF Spec

-----------------------------------------------------------------------------
(* Who owns the transfer record.  With the handler on the thread's core, and
   callers that do not block while a transfer of theirs is in flight, every
   transfer is reported before the next one takes its place, and called back
   once.  Nothing is assumed of the slave, of the budget of the watchdog or of
   the other sources on the interrupt line. *)

\* The transfer m_xfer holds is the last one begun; its caller waits, or gave a
\* callback.
CurrentIsLast ==
  /\ xfer.id = used
  /\ xfer.cb => xfer.async
  /\ xfer.async => used > 0

\* While a blocking call is in progress its transfer is the current one, and
\* not yet reported.
SyncOpen ==
  thread.pc \in {"start", "check", "wait", "abort"} =>
    used > 0 /\ thread.id = used /\ ~xfer.async /\ outcome[used] = "none"

\* Outside a blocking call, a transfer without a callback was reported.
SyncReported ==
  /\ thread.pc \in {"off", "idle", "second"} /\ ~xfer.async /\ used > 0
       => outcome[used] # "none"
  /\ thread.pc = "kick" => xfer.async
  /\ thread.pc = "second" => ~xfer.async

\* An asynchronous transfer has its callback until it is reported; it is active
\* or the handler is about to call it back, and no one else is.
AsyncOpen ==
  /\ xfer.async => (xfer.cb <=> outcome[used] = "none")
  /\ xfer.cb /\ ~xfer.active => isr.pc = "callback"
  /\ isr.pc = "user" => xfer.async /\ ~xfer.cb

\* Reports and callbacks, per transfer.
Reports ==
  /\ \A id \in Ids : id < used => outcome[id] # "none"
  /\ \A id \in Ids : id > used => outcome[id] = "none"
  /\ \A id \in Ids : cbs[id] <= 1 /\ (outcome[id] = "none" => cbs[id] = 0)

OwnInv == CurrentIsLast /\ SyncOpen /\ SyncReported /\ AsyncOpen /\ Reports

-----------------------------------------------------------------------------
\* A step that leaves the reports, the thread and the owner of m_xfer alone.
LEMMA OwnFrame ==
  ASSUME OwnInv, UNCHANGED <<used, outcome, cbs, thread>>,
         xfer'.id = xfer.id, xfer'.async = xfer.async, xfer'.cb = xfer.cb,
         xfer'.active = xfer.active, isr'.pc # "user" \/ isr'.pc = isr.pc,
         xfer.cb /\ ~xfer.active => isr'.pc = "callback"
  PROVE  OwnInv'
  BY DEF OwnInv, CurrentIsLast, SyncOpen, SyncReported, AsyncOpen, Reports

\* A register access is such a step.
LEMMA OwnAccess ==
  ASSUME OwnInv, NEW c \in Ctx, Access(c), isr.pc # "user",
         xfer.cb /\ ~xfer.active => isr.pc = "callback"
  PROVE  OwnInv'
  BY OwnFrame DEF Access, history

\* A new transfer, begun when the one before was reported.
LEMMA OwnStart ==
  ASSUME TypeOK, OwnInv, NEW c \in Ctx, NEW reading \in BOOLEAN, NEW n,
         NEW async \in BOOLEAN, Start(c, reading, n, async),
         used > 0 => outcome[used] # "none"
  PROVE  /\ used' = used + 1 /\ used' \in Ids /\ UNCHANGED <<outcome, cbs>>
         /\ outcome[used'] = "none"
         /\ CurrentIsLast' /\ Reports'
         /\ xfer'.async = async /\ xfer'.cb = async /\ xfer'.active = TRUE
<1>1. used' = used + 1 /\ used < MaxXfers /\ UNCHANGED <<outcome, cbs>>
  BY DEF Start
<1>2. xfer'.id = used + 1 /\ xfer'.async = async /\ xfer'.cb = async
      /\ xfer'.active = TRUE
  BY DEF Start, NoXfer
<1>3. used \in Nat /\ MaxXfers \in Nat
  BY BscAssumption DEF TypeOK, HistoryType
<1>4. used' \in Ids
  BY <1>1, <1>3 DEF Ids
<1>5. CurrentIsLast'
  BY <1>1, <1>2, <1>3 DEF CurrentIsLast
<1>6. outcome[used'] = "none"
  BY <1>1, <1>3, <1>4 DEF OwnInv, Reports
<1>7. Reports'
  <2>1. ASSUME NEW id \in Ids, id < used' PROVE outcome[id] # "none"
    BY <2>1, <1>1, <1>3 DEF Ids, OwnInv, Reports
  <2>2. ASSUME NEW id \in Ids, id > used' PROVE outcome[id] = "none"
    BY <2>2, <1>1, <1>3 DEF Ids, OwnInv, Reports
  <2> QED
    BY <2>1, <2>2, <1>1 DEF OwnInv, Reports
<1> QED
  BY <1>1, <1>2, <1>4, <1>5, <1>6, <1>7

\* The result of the current transfer is reported by a blocking call.
LEMMA OwnReport ==
  ASSUME TypeOK, OwnInv, NEW result \in Results, Report(thread.id, result),
         thread.pc \in {"check", "abort"}, UNCHANGED <<used, cbs, isr>>,
         xfer'.id = xfer.id, xfer'.async = xfer.async, xfer'.cb = xfer.cb,
         thread'.pc \in {"idle", "second"}
  PROVE  OwnInv'
<1>1. used > 0 /\ thread.id = used /\ ~xfer.async /\ outcome[used] = "none"
  BY DEF OwnInv, SyncOpen
<1>2. ~xfer.cb /\ xfer.id = used
  BY <1>1 DEF OwnInv, CurrentIsLast
<1>3. outcome \in [Ids -> Results \cup {"none"}] /\ used \in Ids
  BY <1>1 DEF TypeOK, HistoryType, Ids
<1>4. outcome'[used] = result /\ result # "none"
      /\ \A id \in Ids : id # used => outcome'[id] = outcome[id]
  BY <1>1, <1>3 DEF Report, Results
<1>5. CurrentIsLast' /\ SyncOpen'
  BY <1>1, <1>2 DEF OwnInv, CurrentIsLast, SyncOpen
<1>6. SyncReported'
  BY <1>1, <1>4 DEF SyncReported
<1>7. AsyncOpen'
  BY <1>1, <1>2 DEF OwnInv, AsyncOpen
<1>8. Reports'
  <2>1. ASSUME NEW id \in Ids, id > used PROVE outcome'[id] = "none"
    BY <2>1, <1>3, <1>4 DEF OwnInv, Reports, Ids
  <2>2. ASSUME NEW id \in Ids, id < used PROVE outcome'[id] # "none"
    BY <2>2, <1>3, <1>4 DEF OwnInv, Reports, Ids
  <2>3. ASSUME NEW id \in Ids, outcome'[id] = "none" PROVE cbs[id] = 0
    BY <2>3, <1>4 DEF OwnInv, Reports
  <2> QED
    BY <2>1, <2>2, <2>3 DEF OwnInv, Reports
<1> QED
  BY <1>5, <1>6, <1>7, <1>8 DEF OwnInv

\* The thread's steps, on the core of the handler.
LEMMA OwnThread ==
  ASSUME OneCore, TypeOK, OwnInv, ThreadStep
  PROVE  OwnInv'
<1> USE DEF OwnInv
<1>1. isr.pc = "idle" /\ (xfer.cb => xfer.active)
  BY DEF ThreadStep, ThreadRuns, AsyncOpen
<1>2. CASE ThreadAccess
  BY <1>1, <1>2, OwnAccess DEF ThreadAccess, Ctx
<1>3. CASE Started
  <2>1. UNCHANGED <<xfer, isr, history>> /\ thread'.id = thread.id
        /\ \/ thread.pc = "start" /\ thread'.pc = "check"
           \/ thread.pc = "kick" /\ thread'.pc = "idle"
    BY <1>3 DEF Started, ContextType, TypeOK
  <2> QED
    BY <1>1, <2>1 DEF history,
       CurrentIsLast, SyncOpen, SyncReported, AsyncOpen, Reports
<1>4. CASE CheckPending \/ WaitForIrq
  <2>1. UNCHANGED <<xfer, isr, history>> /\ thread'.id = thread.id
        /\ thread.pc \in {"check", "wait"} /\ thread'.pc \in {"check", "wait"}
    BY <1>4 DEF CheckPending, WaitForIrq, ContextType, TypeOK
  <2> QED
    BY <1>1, <2>1 DEF history,
       CurrentIsLast, SyncOpen, SyncReported, AsyncOpen, Reports
<1>5. CASE CheckDone
  <2>1. xfer.result \in Results
    BY DEF TypeOK, XferType
  <2>2. thread'.pc \in {"idle", "second"}
    BY <1>5 DEF CheckDone, ContextType, TypeOK
  <2> QED
    BY <1>5, <2>1, <2>2, OwnReport DEF CheckDone
<1>6. CASE GiveUp
  BY <1>1, <1>6 DEF GiveUp, Load, history, ContextType, TypeOK,
     CurrentIsLast, SyncOpen, SyncReported, AsyncOpen, Reports
<1>7. CASE Aborted
  <2>1. /\ xfer'.id = xfer.id /\ xfer'.async = xfer.async
        /\ xfer'.cb = xfer.cb
    BY <1>7 DEF Aborted, XferType, TypeOK
  <2>2. thread'.pc = "idle" /\ "Timeout" \in Results
    BY <1>7 DEF Aborted, ContextType, TypeOK, Results
  <2> QED
    BY <1>7, <2>1, <2>2, OwnReport DEF Aborted
<1> QED
  BY <1>2, <1>3, <1>4, <1>5, <1>6, <1>7 DEF ThreadStep

\* The calls.
LEMMA OwnCall ==
  ASSUME OneCore, Disciplined, TypeOK, OwnInv, Call
  PROVE  OwnInv'
<1> USE DEF OwnInv
<1>1. isr.pc = "idle" /\ (xfer.cb => xfer.active)
  BY DEF Call, ThreadRuns, AsyncOpen
<1>2. thread.pc = "idle" /\ ~xfer.active /\ used > 0 => outcome[used] # "none"
  BY <1>1 DEF SyncReported, AsyncOpen
<1>3. CASE BusInit
  BY <1>1, <1>3 DEF BusInit, history, ContextType, TypeOK,
     CurrentIsLast, SyncOpen, SyncReported, AsyncOpen, Reports
<1>4. ASSUME NEW reading \in BOOLEAN, NEW n \in Nat, NEW m \in Nat,
             Blocking(reading, n, m)
      PROVE  OwnInv'
  <2>1. thread.pc = "idle" /\ ~xfer.active /\ Start("thread", reading, n, FALSE)
        /\ thread'.pc = "start" /\ thread'.id = used + 1 /\ isr' = isr
    BY <1>4 DEF Blocking
  <2>2. /\ used' = used + 1 /\ used' \in Ids /\ UNCHANGED <<outcome, cbs>>
        /\ outcome[used'] = "none"
        /\ CurrentIsLast' /\ Reports'
        /\ xfer'.async = FALSE /\ xfer'.cb = FALSE
    BY <2>1, <1>2, OwnStart DEF Ctx
  <2> QED
    BY <1>1, <2>1, <2>2 DEF SyncOpen, SyncReported, AsyncOpen, Ids
<1>5. ASSUME NEW reading \in BOOLEAN, NEW n \in Nat, Async(reading, n)
      PROVE  OwnInv'
  <2>1. thread.pc = "idle" /\ ~xfer.active /\ Start("thread", reading, n, TRUE)
        /\ thread'.pc = "kick" /\ isr' = isr
    BY <1>5 DEF Async
  <2>2. /\ used' = used + 1 /\ used' \in Ids /\ UNCHANGED <<outcome, cbs>>
        /\ outcome[used'] = "none"
        /\ CurrentIsLast' /\ Reports'
        /\ xfer'.async = TRUE /\ xfer'.cb = TRUE /\ xfer'.active = TRUE
    BY <2>1, <1>2, OwnStart DEF Ctx
  <2> QED
    BY <1>1, <2>1, <2>2 DEF SyncOpen, SyncReported, AsyncOpen, Ids
<1>6. CASE SecondHalf
  <2>1. thread.pc = "second" /\ Start("thread", TRUE, thread.second, FALSE)
        /\ thread'.pc = "start" /\ thread'.id = used + 1 /\ isr' = isr
    BY <1>6 DEF SecondHalf
  <2>2. used > 0 => outcome[used] # "none"
    BY <2>1 DEF SyncReported
  <2>3. /\ used' = used + 1 /\ used' \in Ids /\ UNCHANGED <<outcome, cbs>>
        /\ outcome[used'] = "none"
        /\ CurrentIsLast' /\ Reports'
        /\ xfer'.async = FALSE /\ xfer'.cb = FALSE
    BY <2>1, <2>2, OwnStart DEF Ctx
  <2> QED
    BY <1>1, <2>1, <2>3 DEF SyncOpen, SyncReported, AsyncOpen, Ids
<1> QED
  BY <1>3, <1>4, <1>5, <1>6, IrqAssumption DEF Call

\* The handler's steps.
LEMMA OwnIsr ==
  ASSUME TypeOK, OwnInv, IsrStep
  PROVE  OwnInv'
<1> USE DEF OwnInv
<1>1. CASE IsrEnter \/ IsrReturn
  <2>1. isr'.pc # "user" /\ isr.pc \in {"idle", "loop"}
    BY <1>1 DEF IsrEnter, IsrReturn, TypeOK, ContextType
  <2>2. UNCHANGED <<xfer, used, outcome, cbs, thread>>
    BY <1>1 DEF IsrEnter, IsrReturn, history
  <2> QED
    BY <2>1, <2>2, OwnFrame DEF AsyncOpen
<1>2. CASE IsrDrain \/ IsrFill
  <2>1. isr.pc = "loop" /\ UNCHANGED <<isr, used, outcome, cbs, thread>>
    BY <1>2 DEF IsrDrain, IsrFill, history
  <2>2. /\ xfer'.id = xfer.id /\ xfer'.async = xfer.async
        /\ xfer'.cb = xfer.cb /\ xfer'.active = xfer.active
    BY <1>2 DEF IsrDrain, IsrFill, TypeOK, XferType
  <2> QED
    BY <2>1, <2>2, OwnFrame DEF AsyncOpen
<1>3. CASE IsrFail \/ IsrDone
  <2>1. isr.pc = "loop" /\ isr'.pc = "finalize"
        /\ UNCHANGED <<xfer, used, outcome, cbs, thread>>
    BY <1>3 DEF IsrFail, IsrDone, Finalize, history
  <2> QED
    BY <2>1, OwnFrame DEF AsyncOpen
<1>4. CASE IsrAccess
  BY <1>4, OwnAccess DEF IsrAccess, Ctx, AsyncOpen
<1>5. CASE IsrPublish
  <2>1. isr.pc = "finalize" /\ isr'.pc = "release"
        /\ UNCHANGED <<used, outcome, cbs, thread>>
    BY <1>5 DEF IsrPublish, history, TypeOK, ContextType
  <2>2. /\ xfer'.id = xfer.id /\ xfer'.async = xfer.async
        /\ xfer'.cb = xfer.cb /\ xfer'.active = xfer.active
    BY <1>5 DEF IsrPublish, TypeOK, XferType
  <2> QED
    BY <2>1, <2>2, OwnFrame DEF AsyncOpen
<1>6. CASE IsrRelease
  <2>1. isr'.pc = "callback" /\ UNCHANGED <<used, outcome, cbs, thread>>
    BY <1>6 DEF IsrRelease, history, TypeOK, ContextType
  <2>2. /\ xfer'.id = xfer.id /\ xfer'.async = xfer.async
        /\ xfer'.cb = xfer.cb
    BY <1>6 DEF IsrRelease, TypeOK, XferType
  <2> QED
    BY <2>1, <2>2 DEF CurrentIsLast, SyncOpen, SyncReported, AsyncOpen, Reports
<1>7. CASE IsrNoCallback \/ IsrCallbackReturn
  <2>1. isr'.pc = "idle" /\ UNCHANGED <<xfer, used, outcome, cbs, thread>>
    BY <1>7 DEF IsrNoCallback, IsrCallbackReturn, history, TypeOK, ContextType
  <2>2. ~xfer.cb
    BY <1>7 DEF IsrNoCallback, IsrCallbackReturn, AsyncOpen
  <2> QED
    BY <2>1, <2>2, OwnFrame
<1>8. CASE IsrCallback
  <2>1. /\ isr.pc = "callback" /\ isr'.pc = "user" /\ xfer.cb
        /\ UNCHANGED <<used, thread>>
    BY <1>8 DEF IsrCallback, TypeOK, ContextType
  <2>2. xfer'.id = xfer.id /\ xfer'.async = xfer.async /\ xfer'.cb = FALSE
    BY <1>8 DEF IsrCallback, TypeOK, XferType
  <2>3. xfer.async /\ xfer.id = used /\ used > 0 /\ used \in Ids
        /\ outcome[used] = "none" /\ cbs[used] = 0
    BY <2>1 DEF CurrentIsLast, AsyncOpen, Reports, TypeOK, HistoryType, Ids
  <2>4. /\ outcome' = [outcome EXCEPT ![used] = isr.result]
        /\ cbs' = [cbs EXCEPT ![used] = @ + 1]
    BY <1>8, <2>3 DEF IsrCallback, Report
  <2>5. outcome \in [Ids -> Results \cup {"none"}] /\ cbs \in [Ids -> Nat]
        /\ isr.result \in Results
    BY DEF TypeOK, HistoryType, ContextType
  <2>6. outcome'[used] = isr.result /\ isr.result # "none" /\ cbs'[used] = 1
    BY <2>3, <2>4, <2>5 DEF Results
  <2>7. \A id \in Ids : id # used => outcome'[id] = outcome[id]
                                     /\ cbs'[id] = cbs[id]
    BY <2>4, <2>5
  <2>8. Reports'
    <3>1. ASSUME NEW id \in Ids, id > used PROVE outcome'[id] = "none"
      BY <3>1, <2>3, <2>7 DEF Reports, Ids
    <3>2. ASSUME NEW id \in Ids, id < used PROVE outcome'[id] # "none"
      BY <3>2, <2>3, <2>7 DEF Reports, Ids
    <3>3. ASSUME NEW id \in Ids
          PROVE  cbs'[id] <= 1 /\ (outcome'[id] = "none" => cbs'[id] = 0)
      BY <3>3, <2>6, <2>7 DEF Reports
    <3> QED
      BY <2>1, <3>1, <3>2, <3>3 DEF Reports
  <2> QED
    BY <2>1, <2>2, <2>3, <2>6, <2>8
       DEF CurrentIsLast, SyncOpen, SyncReported, AsyncOpen
<1>9. CASE IsrChained
  <2>1. isr.pc = "kick" /\ isr'.pc = "idle"
        /\ UNCHANGED <<xfer, used, outcome, cbs, thread>>
    BY <1>9 DEF IsrChained, history, TypeOK, ContextType
  <2> QED
    BY <2>1, OwnFrame DEF AsyncOpen
<1> QED
  BY <1>1, <1>2, <1>3, <1>4, <1>5, <1>6, <1>7, <1>8, <1>9 DEF IsrStep

\* A callback that starts the next transfer.
LEMMA OwnIsrCall ==
  ASSUME TypeOK, OwnInv, IsrCall
  PROVE  OwnInv'
<1> USE DEF OwnInv
<1>1. PICK n \in Lens, reading \in BOOLEAN : IsrChain(reading, n)
  BY DEF IsrCall
<1>2. isr.pc = "user" /\ Start("isr", reading, n, TRUE) /\ isr'.pc = "kick"
      /\ thread' = thread
  BY <1>1 DEF IsrChain, TypeOK, ContextType
<1>3. xfer.async /\ outcome[used] # "none"
  BY <1>2 DEF AsyncOpen, CurrentIsLast, TypeOK, XferType
<1>4. /\ used' = used + 1 /\ used' \in Ids /\ UNCHANGED <<outcome, cbs>>
      /\ outcome[used'] = "none"
      /\ CurrentIsLast' /\ Reports'
      /\ xfer'.async = TRUE /\ xfer'.cb = TRUE /\ xfer'.active = TRUE
  BY <1>2, <1>3, OwnStart DEF Ctx
<1> QED
  BY <1>2, <1>3, <1>4 DEF SyncOpen, SyncReported, AsyncOpen, Ids

-----------------------------------------------------------------------------
LEMMA OwnInit == Init => OwnInv
  BY BscAssumption DEF Init, NoXfer, OwnInv, CurrentIsLast, SyncOpen,
     SyncReported, AsyncOpen, Reports, Ids

LEMMA OwnNext ==
  ASSUME OneCore, Disciplined, TypeOK, OwnInv, [Next]_vars
  PROVE  OwnInv'
<1>1. CASE UNCHANGED vars
  BY <1>1 DEF vars, driver, history, OwnInv, CurrentIsLast, SyncOpen,
     SyncReported, AsyncOpen, Reports
<1>2. CASE WireStep \/ WireFault
  BY <1>2 DEF WireStep, WireFault, driver, history, OwnInv, CurrentIsLast,
     SyncOpen, SyncReported, AsyncOpen, Reports
<1> QED
  BY <1>1, <1>2, OwnThread, OwnCall, OwnIsr, OwnIsrCall DEF Next

\* The ownership invariant holds in every reachable state.
THEOREM Ownership ==
  ASSUME OneCore, Disciplined PROVE Spec => []OwnInv
<1>1. TypeOK /\ OwnInv /\ [Next]_vars => OwnInv'
  BY OwnNext
<1> QED
  BY <1>1, OwnInit, TypeCorrect, PTL DEF Spec

\* start() never takes the transfer record from a transfer whose caller was
\* not told its result.
THEOREM NoTransferForgotten ==
  ASSUME OneCore, Disciplined PROVE Spec => []NoneForgotten
<1>1. TypeOK /\ OwnInv => NoneForgotten
  <2> SUFFICES ASSUME TypeOK, OwnInv, NEW id \in 1 .. used, id # xfer.id
               PROVE  outcome[id] # "none"
    BY DEF NoneForgotten
  <2>1. id \in Ids /\ id < used
    BY BscAssumption DEF TypeOK, HistoryType, OwnInv, CurrentIsLast, Ids
  <2> QED
    BY <2>1 DEF OwnInv, Reports
<1> QED
  BY <1>1, Ownership, TypeCorrect, PTL

\* No callback runs twice, and a callback that is still to run is on record.
THEOREM CalledBackOnce ==
  ASSUME OneCore, Disciplined PROVE Spec => []CallbackOnce
<1>1. OwnInv => CallbackOnce
  <2> SUFFICES ASSUME OwnInv PROVE CallbackOnce
    OBVIOUS
  <2>1. \A id \in Ids : cbs[id] <= 1
    BY DEF OwnInv, Reports
  <2>2. xfer.async => (xfer.cb <=> outcome[used] = "none")
    BY DEF OwnInv, AsyncOpen
  <2>3. xfer.id = used
    BY DEF OwnInv, CurrentIsLast
  <2> QED
    BY <2>1, <2>2, <2>3 DEF CallbackOnce
<1> QED
  BY <1>1, Ownership, PTL

-----------------------------------------------------------------------------
(* The seam.  For a handler on the thread's core, callers that do not block
   while a transfer of theirs is in flight, an interrupt line of its own, a
   patient budget and lengths that DLEN can hold, the transport implements
   module I2cTransport and keeps its interrupts off between transfers. *)

Careful == /\ OneCore /\ Disciplined /\ ~SharedLine /\ Patient
           /\ \A n \in Lens : n < DlenMod

-----------------------------------------------------------------------------
(* The invariant *)

\* Context c executes the program of start(); Kicking: its last step, the one that
\* starts the controller, is still to come.
Last       == 16
Starter(c) == IF c = "thread" THEN thread.pc \in {"start", "kick"}
                              ELSE isr.pc = "kick"
Kicking(c) == Starter(c) /\ at[c] <= Last
Starting   == \E c \in Ctx : Kicking(c)
StartName  == IF xfer.reading THEN "startRead" ELSE "startWrite"

\* Which register program a context executes.
Programs ==
  /\ \A c \in Ctx : /\ Starter(c) => prog[c] \in {"startRead", "startWrite"}
                    /\ Kicking(c) => prog[c] = StartName
  /\ thread.pc = "abort" => prog["thread"] = "abort"
  /\ isr.pc = "finalize" => prog["isr"] = "finalize"
  /\ thread.pc \notin {"start", "kick", "abort"} => prog["thread"] = "none"
  /\ isr.pc \notin {"finalize", "kick"} => prog["isr"] = "none"

\* What a read-modify-write has read is what the control register holds: only the
\* handler comes between the two, and only while the thread aborts.
Words ==
  /\ word["isr"] # NoWord => /\ word["isr"] = ctrl
                             /\ \/ Kicking("isr")
                                \/ isr.pc = "finalize" /\ at["isr"] <= 6
  /\ word["thread"] # NoWord => \/ Kicking("thread") /\ word["thread"] = ctrl
                                \/ thread.pc = "abort" /\ at["thread"] <= 8

\* The controller clocks the last transfer begun, with a clear Status register;
\* it is idle, or wedged for good, whenever that transfer is over.
Clock ==
  /\ wire.wedged => TA
  /\ TA => stat = {} /\ wire.id = used /\ wire.reading = xfer.reading
  /\ xfer.done => ~TA
  /\ isr.pc \in {"finalize", "release", "callback", "user"} => ~TA
  /\ ~xfer.active \/ thread.pc = "abort" => ~TA \/ wire.wedged
  /\ \A id \in Ids : id > used => moved[id] = 0 /\ want[id] = 0
  /\ used > 0 => /\ xfer.n \in Lens /\ want[used] = xfer.n
                 /\ xfer.reading => moved[used] <= xfer.i

\* From start() until the handler released it the transfer is active, and its
\* caller waits to hear of it.
Active ==
  /\ xfer.active => used > 0 /\ outcome[used] = "none"
  /\ isr.pc = "loop" => used > 0 /\ outcome[used] = "none"
  /\ isr.pc \in {"loop", "finalize"} /\ thread.pc # "abort" => xfer.active /\ ~xfer.done
  /\ xfer.done /\ xfer.active => isr.pc = "release"
  /\ isr.pc \in {"callback", "user"} => ~xfer.active
  /\ isr.pc = "kick" => xfer.async /\ xfer.active
  /\ isr.pc # "idle" => ~Kicking("thread")
  /\ thread.pc = "second" => xfer.done /\ thread.second \in Lens
  /\ thread.second \in Lens \cup {0}

\* The interrupts are off unless a transfer is active; each program that turns
\* them off has done so as far as it went.
Off(bits, k) ==
  /\ k > 1 => "INTD" \notin bits
  /\ k > 2 => "INTT" \notin bits
  /\ k > 3 => "INTR" \notin bits
Silent ==
  /\ isr.pc = "finalize" /\ at["isr"] > 3 => Off(ctrl, at["isr"] - 3)
  /\ isr.pc \in {"release", "callback", "user"} => ctrl \cap IntBits = {}
  /\ ~xfer.active /\ isr.pc = "idle" /\ thread.pc # "abort" => ctrl \cap IntBits = {}
  /\ thread.pc = "abort" => /\ Off(ctrl, at["thread"])
                            /\ word["thread"] # NoWord => Off(word["thread"], at["thread"])

\* What start() has done so far, on an idle controller.
Programmed ==
  \A c \in Ctx : Kicking(c) =>
    /\ ~TA /\ xfer.active /\ ~xfer.done /\ xfer.i = 0 /\ moved[used] = 0
    /\ at[c] <= 3 => ctrl \cap IntBits = {}
    /\ at[c] > 2 => fifo = <<>>
    /\ at[c] > 3 => "DONE" \notin stat
    /\ at[c] > 4 => "ERR" \notin stat
    /\ at[c] > 5 => stat = {}
    /\ at[c] > 6 => dlen = xfer.n
    /\ at[c] > 12 => "I2CEN" \in ctrl
    /\ at[c] = 14 => "READ" \notin ctrl
    /\ at[c] > 14 => ("READ" \in ctrl <=> xfer.reading)

\* No byte is lost: those still to be clocked, those in the FIFO and those handled
\* add up.
Clocked == /\ xfer.active /\ ~Starting
           /\ thread.pc # "abort" /\ isr.pc \in {"idle", "loop", "kick"}
Conserved ==
  Clocked =>
    /\ \A j \in 1 .. Len(fifo) : fifo[j] = used
    /\ xfer.reading =>
         /\ moved[used] = xfer.i
         /\ TA => xfer.i + Len(fifo) + wire.left = xfer.n
         /\ ~TA /\ stat = {"DONE"} => xfer.i + Len(fifo) = xfer.n
    /\ ~xfer.reading =>
         /\ TA => moved[used] + wire.left = xfer.n
         /\ ~TA /\ stat = {"DONE"} => moved[used] = xfer.n

\* A result of Ok is the truth, while the handler holds it and while it waits for
\* the thread.
Truth ==
  /\ isr.pc \in {"finalize", "release", "callback"} /\ thread.pc # "abort"
       /\ isr.result = "Ok" => moved[used] = want[used]
  /\ thread.pc \in {"start", "check", "wait"} /\ xfer.done
       /\ xfer.result = "Ok" => moved[used] = want[used]

SeamInv == Programs /\ Words /\ Clock /\ Active /\ Silent /\ Programmed /\ Conserved /\ Truth
-----------------------------------------------------------------------------
(* The register programs, step by step *)

\* The program of start(), step by step.
LEMMA StartSteps ==
  ASSUME NEW r \in BOOLEAN
  PROVE  /\ Len(StartProg(r)) = 16
         /\ StartProg(r)[1] = Clr("CLEAR") /\ StartProg(r)[2] = Set("CLEAR")
         /\ StartProg(r)[3] = W1cOp("DONE") /\ StartProg(r)[4] = W1cOp("ERR")
         /\ StartProg(r)[5] = W1cOp("CLKT") /\ StartProg(r)[6] = DlenOp
         /\ \E int \in IntBits : /\ StartProg(r)[7] = Clr(int)
                                 /\ StartProg(r)[8] = Set(int)
         /\ StartProg(r)[9] = Clr("INTD") /\ StartProg(r)[10] = Set("INTD")
         /\ StartProg(r)[11] = Clr("I2CEN") /\ StartProg(r)[12] = Set("I2CEN")
         /\ StartProg(r)[13] = Clr("READ")
         /\ StartProg(r)[14] = IF r THEN Set("READ") ELSE RmwOp({}, {})
         /\ StartProg(r)[15] = Clr("ST") /\ StartProg(r)[16] = Set("ST")
  BY DEF StartProg, IntBits

\* It has sixteen steps for either direction.
LEMMA StartLength == Len(StartProg(TRUE)) = 16 /\ Len(StartProg(FALSE)) = 16
  BY StartSteps

\* The program of finalize().
LEMMA FinalizeSteps ==
  /\ Len(FinalizeProg) = 6
  /\ FinalizeProg[1] = W1cOp("DONE") /\ FinalizeProg[2] = W1cOp("ERR")
  /\ FinalizeProg[3] = W1cOp("CLKT") /\ FinalizeProg[4] = Clr("INTD")
  /\ FinalizeProg[5] = Clr("INTT") /\ FinalizeProg[6] = Clr("INTR")
  BY DEF FinalizeProg

\* The program of abort_transfer().
LEMMA AbortSteps ==
  /\ Len(AbortProg) = 8
  /\ AbortProg[1] = Clr("INTD") /\ AbortProg[2] = Clr("INTT")
  /\ AbortProg[3] = Clr("INTR") /\ AbortProg[4] = Clr("CLEAR")
  /\ AbortProg[5] = Set("CLEAR") /\ AbortProg[6] = W1cOp("DONE")
  /\ AbortProg[7] = W1cOp("ERR") /\ AbortProg[8] = W1cOp("CLKT")
  BY DEF AbortProg

\* What the operations of the programs do to the control and Status registers.
LEMMA Ops ==
  /\ \A f : /\ Clr(f).k = "rmw" /\ Clr(f).off = {f} /\ Clr(f).on = {}
            /\ Set(f).k = "rmw" /\ Set(f).off = {} /\ Set(f).on = {f}
            /\ W1cOp(f).k = "w1c" /\ W1cOp(f).off = {f}
  /\ RmwOp({}, {}).k = "rmw" /\ RmwOp({}, {}).off = {} /\ RmwOp({}, {}).on = {}
  /\ DlenOp.k = "dlen"
  BY DEF Clr, Set, W1cOp, RmwOp, DlenOp

\* A register access, by kind: the first half of a read-modify-write reads; the
\* second half stores; the others are one step.
Reads(c) ==
  /\ word[c] = NoWord /\ word' = [word EXCEPT ![c] = ctrl]
  /\ UNCHANGED <<bscVars, at, xfer, thread, isr, prog, history>>
Steps(c) ==
  /\ at' = [at EXCEPT ![c] = @ + 1] /\ word' = [word EXCEPT ![c] = NoWord]
  /\ UNCHANGED <<xfer, thread, isr, prog, history>>

\* An access is one half of the operation that the program is at, or the whole of it.
LEMMA AccessOf ==
  ASSUME NEW c \in Ctx, Access(c), NEW op, op = Program(prog[c])[at[c]]
  PROVE  /\ ~Ended(c)
         /\ \A f : /\ op = Clr(f) => \/ Reads(c)
                                     \/ /\ Steps(c) /\ word[c] # NoWord
                                        /\ StoreC(word[c] \ {f}, xfer.id)
                   /\ op = Set(f) => \/ Reads(c)
                                     \/ /\ Steps(c) /\ word[c] # NoWord
                                        /\ StoreC(word[c] \cup {f}, xfer.id)
                   /\ op = W1cOp(f) => Steps(c) /\ ClrStatus({f})
         /\ op = RmwOp({}, {}) => \/ Reads(c)
                                  \/ /\ Steps(c) /\ word[c] # NoWord
                                     /\ StoreC(word[c], xfer.id)
         /\ op = DlenOp => Steps(c) /\ DataLength(xfer.n)
<1>1. ~Ended(c) /\ UNCHANGED <<xfer, thread, isr, prog, history>>
  BY DEF Access
<1>2. \/ op.k = "rmw" /\ Reads(c)
      \/ /\ op.k = "rmw" /\ word[c] # NoWord
         /\ StoreC((word[c] \ op.off) \cup op.on, xfer.id) /\ Steps(c)
      \/ op.k = "w1c" /\ ClrStatus(op.off) /\ Steps(c)
      \/ op.k = "dlen" /\ DataLength(xfer.n) /\ Steps(c)
  BY <1>1 DEF Access, Reads, Steps, Advance
<1>3. \A w, f : (w \ {f}) \cup {} = w \ {f} /\ (w \ {}) \cup {f} = w \cup {f}
                /\ (w \ {}) \cup {} = w
  OBVIOUS
<1>4. ASSUME NEW f, op = Clr(f)
      PROVE  \/ Reads(c)
             \/ Steps(c) /\ word[c] # NoWord /\ StoreC(word[c] \ {f}, xfer.id)
  <2>1. op.k = "rmw" /\ op.off = {f} /\ op.on = {}
    BY <1>4, Ops
  <2> QED
    BY <1>2, <1>3, <2>1
<1>5. ASSUME NEW f, op = Set(f)
      PROVE  \/ Reads(c)
             \/ Steps(c) /\ word[c] # NoWord /\ StoreC(word[c] \cup {f}, xfer.id)
  <2>1. op.k = "rmw" /\ op.off = {} /\ op.on = {f}
    BY <1>5, Ops
  <2> QED
    BY <1>2, <1>3, <2>1
<1>6. ASSUME NEW f, op = W1cOp(f) PROVE Steps(c) /\ ClrStatus({f})
  <2>1. op.k = "w1c" /\ op.off = {f}
    BY <1>6, Ops
  <2> QED
    BY <1>2, <2>1
<1>7. ASSUME op = RmwOp({}, {})
      PROVE  \/ Reads(c)
             \/ Steps(c) /\ word[c] # NoWord /\ StoreC(word[c], xfer.id)
  <2>1. op.k = "rmw" /\ op.off = {} /\ op.on = {}
    BY <1>7, Ops
  <2> QED
    BY <1>2, <1>3, <2>1
<1>8. ASSUME op = DlenOp PROVE Steps(c) /\ DataLength(xfer.n)
  <2>1. op.k = "dlen"
    BY <1>8, Ops
  <2> QED
    BY <1>2, <2>1
<1> QED
  BY <1>1, <1>4, <1>5, <1>6, <1>7, <1>8

-----------------------------------------------------------------------------
(* start() *)

\* The two contexts do not meet in the invariant: while one of them starts a
\* transfer, the other is elsewhere.
LEMMA Alone ==
  ASSUME OwnInv, SeamInv, NEW c \in Ctx, Kicking(c)
  PROVE  /\ thread.pc # "abort" /\ isr.pc \in {"idle", "kick"}
         /\ \A d \in Ctx : d # c => ~Kicking(d) /\ word[d] = NoWord
         /\ word[c] # NoWord => word[c] = ctrl
         /\ c = "thread" => isr.pc = "idle"
         /\ c = "isr" => isr.pc = "kick"
<1> USE DEF SeamInv, Ctx
<1>1. CASE c = "thread"
  <2>1. thread.pc \in {"start", "kick"} /\ isr.pc = "idle" /\ ~Kicking("isr")
    BY <1>1 DEF Kicking, Starter, Active
  <2> QED
    BY <1>1, <2>1 DEF Words
<1>2. CASE c = "isr"
  <2>1. isr.pc = "kick" /\ ~Kicking("thread") /\ xfer.async
    BY <1>2 DEF Kicking, Starter, Active
  <2>2. thread.pc # "abort"
    BY <2>1 DEF OwnInv, SyncOpen
  <2> QED
    BY <1>2, <2>1, <2>2 DEF Words
<1> QED
  BY <1>1, <1>2

\* What each step of the program of start() does.
Effect(c) ==
  /\ at[c] \in {1, 15} => UNCHANGED bscVars
  /\ at[c] = 2 => fifo' = <<>> /\ UNCHANGED <<ctrl, stat, dlen, wire>>
  /\ at[c] = 3 => ClrStatus({"DONE"})
  /\ at[c] = 4 => ClrStatus({"ERR"})
  /\ at[c] = 5 => ClrStatus({"CLKT"})
  /\ at[c] = 6 => DataLength(xfer.n)
  /\ at[c] \in 7 .. 14 => UNCHANGED <<stat, dlen, fifo, wire>>
  /\ at[c] = 12 => "I2CEN" \in ctrl'
  /\ at[c] \in {13, 14} /\ "I2CEN" \in ctrl => "I2CEN" \in ctrl'
  /\ at[c] = 13 => "READ" \notin ctrl'
  /\ at[c] = 14 /\ "READ" \notin ctrl => ("READ" \in ctrl' <=> xfer.reading)
  /\ at[c] = 16 => StoreC(ctrl \cup {"ST"}, xfer.id)

\* A step of start() reads, or has the effect listed for its place in the program.
LEMMA KickDoes ==
  ASSUME TypeOK, OwnInv, SeamInv, NEW c \in Ctx, Kicking(c), Access(c)
  PROVE  /\ at[c] \in 1 .. 16
         /\ \/ Reads(c)
            \/ Steps(c) /\ Effect(c)
<1> DEFINE p == StartProg(xfer.reading)
           k == at[c]
<1>1. xfer.reading \in BOOLEAN /\ at[c] \in Nat \ {0} /\ at[c] <= 16
  BY DEF TypeOK, XferType, ProgType, Kicking, Last
<1>2. Program(prog[c]) = p
  <2>1. prog[c] = StartName
    BY DEF SeamInv, Programs
  <2> QED
    BY <1>1, <2>1 DEF StartName, Program
<1>3. at[c] \in 1 .. 16
  BY <1>1
<1>4. "ST" \notin ctrl /\ "CLEAR" \notin ctrl /\ ctrl \subseteq CtrlBits
      /\ ctrl \ Strobes = ctrl
  BY DEF TypeOK, BscTypeOK, CtrlBits, IntBits, Strobes
<1>5. word[c] # NoWord => word[c] = ctrl
  BY Alone
<1>6. ASSUME NEW w \in SUBSET CtrlBits, StoreC(w, xfer.id)
      PROVE  ctrl' = w /\ UNCHANGED <<stat, dlen, fifo, wire>>
  <2>1. "ST" \notin w /\ "CLEAR" \notin w /\ w \ Strobes = w
    BY DEF CtrlBits, IntBits, Strobes
  <2> QED
    BY <1>6, <2>1 DEF StoreC
<1>7. ASSUME ~Reads(c), NEW f, p[k] = Clr(f)
      PROVE  Steps(c) /\ ctrl' = ctrl \ {f} /\ UNCHANGED <<stat, dlen, fifo, wire>>
  <2>1. Steps(c) /\ StoreC(ctrl \ {f}, xfer.id)
    BY <1>2, <1>5, <1>7, AccessOf
  <2> QED
    BY <1>4, <1>6, <2>1
<1>8. ASSUME ~Reads(c), NEW f, p[k] = Set(f)
      PROVE  Steps(c) /\ StoreC(ctrl \cup {f}, xfer.id)
  BY <1>2, <1>5, <1>8, AccessOf
<1>9. ASSUME ~Reads(c), NEW f \in CtrlBits, p[k] = Set(f)
      PROVE  Steps(c) /\ ctrl' = ctrl \cup {f} /\ UNCHANGED <<stat, dlen, fifo, wire>>
  <2>1. ctrl \cup {f} \in SUBSET CtrlBits
    BY <1>4
  <2> QED
    BY <1>6, <1>8, <1>9, <2>1
<1>10. ASSUME ~Reads(c), p[k] = RmwOp({}, {})
       PROVE  Steps(c) /\ ctrl' = ctrl /\ UNCHANGED <<stat, dlen, fifo, wire>>
  <2>1. Steps(c) /\ StoreC(ctrl, xfer.id)
    BY <1>2, <1>5, <1>10, AccessOf
  <2> QED
    BY <1>4, <1>6, <2>1
<1>11. ASSUME ~Reads(c)
       PROVE  Steps(c) /\ Effect(c)
  <2> USE <1>11
  <2>1. CASE k \in {1, 15}
    <3>1. PICK f \in {"CLEAR", "ST"} : p[k] = Clr(f)
      BY <1>1, <2>1, StartSteps
    <3>2. ctrl \ {f} = ctrl
      BY <1>4
    <3>3. Steps(c) /\ ctrl' = ctrl /\ UNCHANGED <<stat, dlen, fifo, wire>>
      BY <1>7, <3>1, <3>2
    <3> QED
      BY <2>1, <3>3 DEF bscVars, Effect
  <2>2. CASE k = 2
    <3>1. Steps(c) /\ StoreC(ctrl \cup {"CLEAR"}, xfer.id)
      BY <1>1, <1>8, <2>2, StartSteps
    <3>2. (ctrl \cup {"CLEAR"}) \ Strobes = ctrl /\ "ST" \notin ctrl \cup {"CLEAR"}
      BY <1>4 DEF Strobes
    <3> QED
      BY <2>2, <3>1, <3>2 DEF StoreC, Effect
  <2>3. CASE k \in {3, 4, 5}
    <3>1. PICK f : /\ p[k] = W1cOp(f)
                   /\ k = 3 => f = "DONE"
                   /\ k = 4 => f = "ERR"
                   /\ k = 5 => f = "CLKT"
      BY <1>1, <2>3, StartSteps
    <3>2. Steps(c) /\ ClrStatus({f})
      BY <1>2, <3>1, AccessOf
    <3> QED
      BY <2>3, <3>1, <3>2 DEF ClrStatus, Effect
  <2>4. CASE k = 6
    <3>1. p[k] = DlenOp
      BY <1>1, <2>4, StartSteps
    <3> QED
      BY <1>2, <2>4, <3>1, AccessOf DEF Effect
  <2>5. CASE k \in 7 .. 11
    <3>1. \E f \in CtrlBits : p[k] = Clr(f) \/ p[k] = Set(f)
      BY <1>1, <2>5, StartSteps DEF CtrlBits, IntBits
    <3> QED
      BY <1>7, <1>9, <2>5, <3>1 DEF Effect
  <2>6. CASE k = 12
    <3>1. p[k] = Set("I2CEN") /\ "I2CEN" \in CtrlBits
      BY <1>1, <2>6, StartSteps DEF CtrlBits
    <3> QED
      BY <1>9, <2>6, <3>1 DEF Effect
  <2>7. CASE k = 13
    <3>1. p[k] = Clr("READ")
      BY <1>1, <2>7, StartSteps
    <3> QED
      BY <1>7, <2>7, <3>1 DEF Effect
  <2>8. CASE k = 14 /\ xfer.reading
    <3>1. p[14] = (IF xfer.reading THEN Set("READ") ELSE RmwOp({}, {}))
      BY <1>1, StartSteps
    <3>2. p[k] = Set("READ") /\ "READ" \in CtrlBits
      BY <2>8, <3>1 DEF CtrlBits
    <3>3. Steps(c) /\ ctrl' = ctrl \cup {"READ"} /\ UNCHANGED <<stat, dlen, fifo, wire>>
      BY <1>9, <3>2
    <3> QED
      BY <2>8, <3>3 DEF Effect
  <2>9. CASE k = 14 /\ ~xfer.reading
    <3>1. p[k] = RmwOp({}, {})
      BY <1>1, <2>9, StartSteps
    <3> QED
      BY <1>10, <2>9, <3>1 DEF Effect
  <2>10. CASE k = 16
    <3>1. p[k] = Set("ST")
      BY <1>1, <2>10, StartSteps
    <3> QED
      BY <1>8, <2>10, <3>1 DEF Effect
  <2> QED
    BY <1>3, <2>1, <2>2, <2>3, <2>4, <2>5, <2>6, <2>7, <2>8, <2>9, <2>10
<1> QED
  BY <1>3, <1>11

\* A step of start() keeps the invariant: the last one starts the transfer on an
\* idle controller, with nothing left of others.
LEMMA KickSeam ==
  ASSUME Careful, TypeOK, OwnInv, SeamInv, NEW c \in Ctx, Kicking(c), Access(c)
  PROVE  SeamInv'
<1> DEFINE k == at[c]
<1>1. /\ UNCHANGED <<xfer, thread, isr, prog, used, want, moved, outcome>>
      /\ \A d \in Ctx : d # c => at'[d] = at[d] /\ word'[d] = word[d]
      /\ \/ at' = at /\ word'[c] = ctrl /\ UNCHANGED bscVars
         \/ at'[c] = k + 1 /\ word'[c] = NoWord
      /\ k \in 1 .. 16
  <2>1. at \in [Ctx -> Nat \ {0}] /\ word \in [Ctx -> (SUBSET CtrlBits) \cup {NoWord}]
    BY DEF TypeOK, ProgType
  <2> QED
    BY <2>1, KickDoes DEF Reads, Steps, history
<1>2. /\ \A d \in Ctx : (Starter(d)' <=> Starter(d)) /\ (Kicking(d)' => Kicking(d))
      /\ \A d \in Ctx : d # c => ~Kicking(d)'
      /\ ~Starting' => k = 16 /\ at'[c] = 17
  <2>1. \A d \in Ctx : Starter(d)' <=> Starter(d)
    BY <1>1 DEF Starter
  <2>2. ASSUME NEW d \in Ctx, Kicking(d)' PROVE Kicking(d) /\ d = c
    <3>1. Starter(d) /\ at'[d] <= 16
      BY <2>1, <2>2 DEF Kicking, Last
    <3>2. at[d] <= at'[d] /\ at[d] \in Nat /\ at'[d] \in Nat
      BY <1>1 DEF TypeOK, ProgType
    <3>3. Kicking(d)
      BY <3>1, <3>2 DEF Kicking, Last
    <3> QED
      BY <3>3, Alone
  <2>3. ASSUME ~Starting' PROVE k = 16 /\ at'[c] = 17
    <3>1. Starter(c)' /\ ~Kicking(c)'
      BY <2>1, <2>3 DEF Starting, Kicking
    <3> QED
      BY <1>1, <3>1 DEF Kicking, Last
  <2> QED
    BY <2>1, <2>2, <2>3
<1>3. Programs'
  BY <1>1, <1>2 DEF SeamInv, Programs, StartName
<1>4. Words'
  <2>1. /\ thread.pc # "abort" /\ isr.pc \in {"idle", "kick"}
        /\ \A d \in Ctx : d # c => word'[d] = NoWord
    BY <1>1, Alone
  <2>2. word'[c] # NoWord => Kicking(c)' /\ word'[c] = ctrl'
    BY <1>1 DEF Kicking, Starter, bscVars
  <2> QED
    BY <2>1, <2>2 DEF Words, Ctx
<1>5. ~TA /\ xfer.active /\ ~xfer.done /\ xfer.i = 0 /\ moved[used] = 0 /\ xfer.id = used
      /\ used > 0 /\ used \in Nat /\ xfer.n \in Lens /\ xfer.n \in Nat /\ want[used] = xfer.n
      /\ ~wire.wedged /\ xfer.reading \in BOOLEAN
  BY IrqAssumption DEF SeamInv, Programmed, Active, Clock, OwnInv, CurrentIsLast,
     TypeOK, HistoryType, XferType
<1>6. Active'
  BY <1>1, <1>2 DEF SeamInv, Active, Ctx
<1>7. Silent'
  BY <1>1, <1>5, Alone DEF Silent
<1>8. Truth'
  BY <1>1, <1>5, Alone DEF Truth
<1>9. CASE k < 16
  <2>1. wire' = wire /\ (stat' \subseteq stat)
    <3>1. CASE Reads(c)
      BY <3>1 DEF Reads, bscVars
    <3>2. CASE Effect(c)
      <4>1. CASE k \in {1, 15}
        BY <3>2, <4>1 DEF Effect, bscVars
      <4>2. CASE k \in {2} \cup 6 .. 14
        BY <1>1, <3>2, <4>2 DEF Effect, DataLength
      <4>3. CASE k \in {3, 4, 5}
        BY <3>2, <4>3 DEF Effect, ClrStatus
      <4> QED
        BY <1>1, <1>9, <4>1, <4>2, <4>3
    <3> QED
      BY <3>1, <3>2, KickDoes
  <2>2. Clock'
    BY <1>1, <1>5, <2>1 DEF SeamInv, Clock, TA
  <2>3. Conserved'
    BY <1>2, <1>9 DEF Conserved, Clocked
  <2>4. Programmed'
    <3>1. at'[c] = k /\ UNCHANGED bscVars => Programmed'
      BY <1>1, <1>2 DEF SeamInv, Programmed, bscVars, TA
    <3>2. ASSUME at'[c] = k + 1, Steps(c) PROVE Programmed'
      <4>0. /\ k <= 3 => ctrl \cap IntBits = {}
            /\ k > 2 => fifo = <<>>
            /\ k > 3 => "DONE" \notin stat
            /\ k > 4 => "ERR" \notin stat
            /\ k > 5 => stat = {}
            /\ k > 6 => dlen = xfer.n
            /\ k > 12 => "I2CEN" \in ctrl
            /\ k = 14 => "READ" \notin ctrl
            /\ k > 14 => ("READ" \in ctrl <=> xfer.reading)
        BY DEF SeamInv, Programmed
      <4>1. ~TA' /\ xfer'.active /\ ~xfer'.done /\ xfer'.i = 0 /\ moved'[used'] = 0
        BY <1>1, <1>5, <2>1 DEF TA
      <4> DEFINE j == k + 1
      <4>2. /\ j <= 3 => ctrl' \cap IntBits = {}
            /\ j > 2 => fifo' = <<>>
            /\ j > 3 => "DONE" \notin stat'
            /\ j > 4 => "ERR" \notin stat'
            /\ j > 5 => stat' = {}
            /\ j > 6 => dlen' = xfer.n
            /\ j > 12 => "I2CEN" \in ctrl'
            /\ j = 14 => "READ" \notin ctrl'
            /\ j > 14 => ("READ" \in ctrl' <=> xfer.reading)
        <5>1. Effect(c)
          BY <3>2, KickDoes DEF Reads
        <5>2. CASE k \in {1, 15}
          BY <4>0, <5>1, <5>2 DEF Effect, bscVars
        <5>3. CASE k = 2
          BY <4>0, <5>1, <5>3 DEF Effect
        <5>4. CASE k \in {3, 4, 5}
          <6>1. stat \subseteq {"DONE", "ERR", "CLKT"}
            BY DEF TypeOK, BscTypeOK, Latched
          <6>2. CASE k = 3
            BY <4>0, <5>1, <6>2 DEF Effect, ClrStatus
          <6>3. CASE k = 4
            BY <4>0, <5>1, <6>3 DEF Effect, ClrStatus
          <6>4. CASE k = 5
            <7>1. /\ "DONE" \notin stat /\ "ERR" \notin stat /\ stat' = stat \ {"CLKT"}
                  /\ UNCHANGED <<ctrl, dlen, fifo>>
              BY <4>0, <5>1, <6>4 DEF Effect, ClrStatus
            <7>2. stat' = {}
              BY <6>1, <7>1
            <7> QED
              BY <4>0, <6>4, <7>1, <7>2
          <6> QED
            BY <5>4, <6>2, <6>3, <6>4
        <5>5. CASE k = 6
          <6>1. xfer.n < DlenMod
            BY <1>5 DEF Careful
          <6>2. dlen' = xfer.n
            BY <1>5, <5>1, <5>5, <6>1, BscAssumption DEF Effect, DataLength
          <6> QED
            BY <4>0, <5>1, <5>5, <6>2 DEF Effect, DataLength
        <5>6. CASE k \in 7 .. 14
          BY <4>0, <5>1, <5>6 DEF Effect
        <5> QED
          BY <1>1, <1>9, <5>2, <5>3, <5>4, <5>5, <5>6
      <4> QED
        BY <1>1, <1>2, <3>2, <4>1, <4>2 DEF Programmed
    <3> QED
      BY <1>1, <3>1, <3>2, KickDoes DEF Reads
  <2> QED
    BY <1>3, <1>4, <1>6, <1>7, <1>8, <2>2, <2>3, <2>4 DEF SeamInv
<1>10. CASE k = 16
  <2>1. CASE at' = at /\ UNCHANGED bscVars
    <3>1. Clock' /\ Programmed'
      BY <1>1, <1>2, <2>1 DEF SeamInv, Clock, Programmed, bscVars, TA
    <3>2. Conserved'
      BY <1>2, <1>10, <2>1 DEF Conserved, Clocked
    <3> QED
      BY <1>3, <1>4, <1>6, <1>7, <1>8, <3>1, <3>2 DEF SeamInv
  <2>2. CASE at'[c] = 17
    <3>1. /\ fifo = <<>> /\ stat = {} /\ dlen = xfer.n /\ "I2CEN" \in ctrl
          /\ "READ" \in ctrl <=> xfer.reading
      BY <1>10 DEF SeamInv, Programmed
    <3>2. StoreC(ctrl \cup {"ST"}, xfer.id)
      <4>1. ~Reads(c)
        BY <1>10, <2>2 DEF Reads
      <4>2. Effect(c)
        BY <4>1, KickDoes
      <4> QED
        BY <1>10, <4>2 DEF Effect
    <3>3. /\ wire' = [id |-> used, reading |-> "READ" \in ctrl \cup {"ST"},
                      left |-> xfer.n, wedged |-> FALSE]
          /\ fifo' = <<>> /\ stat' = {}
      BY <1>5, <3>1, <3>2 DEF StoreC, Strobes
    <3>4. /\ wire'.id = used /\ wire'.left = xfer.n /\ ~wire'.wedged /\ TA'
          /\ wire'.reading = xfer.reading
      BY <1>5, <3>1, <3>3 DEF TA
    <3>5. thread.pc # "abort" /\ isr.pc \in {"idle", "kick"}
      BY Alone
    <3>6. Clock'
      BY <1>1, <1>5, <3>3, <3>4, <3>5 DEF SeamInv, Clock
    <3>7. Programmed'
      BY <1>2, <2>2 DEF Programmed, Kicking, Last
    <3>8. Conserved'
      <4>1. Len(fifo') = 0 /\ 0 + 0 + xfer.n = xfer.n /\ 0 + xfer.n = xfer.n
        BY <1>5, <3>3
      <4> QED
        BY <1>1, <1>5, <3>3, <3>4, <4>1 DEF Conserved
    <3> QED
      BY <1>3, <1>4, <1>6, <1>7, <1>8, <3>6, <3>7, <3>8 DEF SeamInv
  <2> QED
    BY <1>1, <1>10, <2>1, <2>2
<1> QED
  BY <1>1, <1>9, <1>10

-----------------------------------------------------------------------------
(* finalize() and abort_transfer() *)

\* A register access of a context that starts no transfer: it leaves the wire
\* alone, and sets no bit of the Status register.
LEMMA OtherAccess ==
  ASSUME TypeOK, OwnInv, SeamInv, NEW c \in Ctx,
         \A d \in Ctx : ~Kicking(d) /\ ~Kicking(d)',
         thread.pc = "abort" \/ isr.pc = "finalize",
         UNCHANGED <<xfer, thread, isr, prog, history, wire>>, stat' \subseteq stat
  PROVE  /\ Programs' /\ Clock' /\ Active' /\ Programmed' /\ Conserved' /\ Truth'
<1> USE DEF SeamInv
<1>1. Programs'
  BY DEF Programs, Starter, StartName
<1>2. Clock'
  BY DEF Clock, TA, history
<1>3. Active'
  BY DEF Active, history, Ctx
<1>4. Programmed' /\ Conserved'
  BY DEF Programmed, Conserved, Clocked
<1>5. Truth'
  BY DEF Truth, history
<1> QED
  BY <1>1, <1>2, <1>3, <1>4, <1>5

\* finalize() turns the interrupts off, one after the other.
LEMMA FinalizeSeam ==
  ASSUME TypeOK, OwnInv, SeamInv, isr.pc = "finalize", Access("isr")
  PROVE  SeamInv'
<1> DEFINE k == at["isr"]
           p == FinalizeProg
<1> USE DEF SeamInv
<1>1. Program(prog["isr"]) = p /\ "isr" \in Ctx /\ k \in Nat \ {0}
  BY DEF Programs, Program, Ctx, TypeOK, ProgType
<1>2. k \in 1 .. 6
  BY <1>1, FinalizeSteps, AccessOf DEF Ended
<1>3. /\ word["isr"] # NoWord => word["isr"] = ctrl
      /\ ctrl \ Strobes = ctrl /\ \A f : (ctrl \ {f}) \ Strobes = ctrl \ {f}
      /\ \A f : "ST" \notin ctrl \ {f} /\ "CLEAR" \notin ctrl \ {f}
  BY DEF Words, TypeOK, BscTypeOK, CtrlBits, IntBits, Strobes
<1>4. \/ Reads("isr")
      \/ /\ Steps("isr") /\ k \in 1 .. 3
         /\ UNCHANGED <<ctrl, dlen, fifo, wire>> /\ stat' \subseteq stat
      \/ /\ Steps("isr") /\ k \in 4 .. 6
         /\ UNCHANGED <<stat, dlen, fifo, wire>>
         /\ \E f \in IntBits : /\ ctrl' = ctrl \ {f}
                               /\ k = 4 => f = "INTD"
                               /\ k = 5 => f = "INTT"
                               /\ k = 6 => f = "INTR"
  <2>1. CASE k \in 1 .. 3
    <3>1. PICK f : p[k] = W1cOp(f)
      BY <2>1, FinalizeSteps
    <3>2. Steps("isr") /\ ClrStatus({f})
      BY <1>1, <3>1, AccessOf
    <3> QED
      BY <2>1, <3>2 DEF ClrStatus
  <2>2. CASE k \in 4 .. 6
    <3>1. PICK f \in IntBits : /\ p[k] = Clr(f)
                               /\ k = 4 => f = "INTD"
                               /\ k = 5 => f = "INTT"
                               /\ k = 6 => f = "INTR"
      BY <2>2, FinalizeSteps DEF IntBits
    <3>2. \/ Reads("isr")
          \/ Steps("isr") /\ StoreC(ctrl \ {f}, xfer.id)
      BY <1>1, <1>3, <3>1, AccessOf
    <3>3. ASSUME StoreC(ctrl \ {f}, xfer.id)
          PROVE  ctrl' = ctrl \ {f} /\ UNCHANGED <<stat, dlen, fifo, wire>>
      BY <1>3, <3>3 DEF StoreC
    <3> QED
      BY <2>2, <3>1, <3>2, <3>3
  <2> QED
    BY <1>2, <2>1, <2>2
<1>5. /\ UNCHANGED <<xfer, thread, isr, prog, history, wire>> /\ stat' \subseteq stat
      /\ at'["thread"] = at["thread"] /\ word'["thread"] = word["thread"]
      /\ ctrl' \subseteq ctrl
      /\ \/ at' = at /\ word'["isr"] = ctrl'
         \/ at'["isr"] = k + 1 /\ word'["isr"] = NoWord
  <2>1. at \in [Ctx -> Nat \ {0}] /\ word \in [Ctx -> (SUBSET CtrlBits) \cup {NoWord}]
        /\ "thread" \in Ctx
    BY DEF TypeOK, ProgType, Ctx
  <2> QED
    BY <1>1, <1>4, <2>1 DEF Reads, Steps, bscVars
<1>6. \A d \in Ctx : ~Kicking(d) /\ ~Kicking(d)'
  <2>1. ~Kicking("thread") /\ ~Starter("isr")
    BY DEF Active, Starter
  <2>2. ~Kicking("thread")' /\ ~Starter("isr")'
    BY <1>5, <2>1 DEF Kicking, Starter
  <2> QED
    BY <2>1, <2>2 DEF Kicking, Ctx
<1>7. Programs' /\ Clock' /\ Active' /\ Programmed' /\ Conserved' /\ Truth'
  BY <1>1, <1>5, <1>6, OtherAccess
<1>8. Words'
  BY <1>2, <1>5, <1>6 DEF Words, Ctx
<1>9. Silent'
  <2>1. k > 3 => Off(ctrl, k - 3)
    BY DEF Silent
  <2>2. at'["isr"] > 3 => Off(ctrl', at'["isr"] - 3)
    <3>1. CASE at' = at
      BY <1>2, <1>5, <2>1, <3>1 DEF Off
    <3>2. CASE at'["isr"] = k + 1 /\ k \in 1 .. 3
      BY <3>2 DEF Off
    <3>3. CASE at'["isr"] = k + 1 /\ k \in 4 .. 6
      BY <1>4, <2>1, <3>3 DEF Off, Reads
    <3> QED
      BY <1>2, <1>5, <3>1, <3>2, <3>3
  <2>3. thread.pc = "abort" => Off(ctrl', at["thread"])
    BY <1>5 DEF Silent, Off
  <2> QED
    BY <1>5, <2>2, <2>3 DEF Silent
<1> QED
  BY <1>7, <1>8, <1>9

\* So does abort_transfer(), although the handler may run between its steps.
LEMMA AbortSeam ==
  ASSUME TypeOK, OwnInv, SeamInv, thread.pc = "abort", isr.pc = "idle", Access("thread")
  PROVE  SeamInv'
<1> DEFINE k == at["thread"]
           w == word["thread"]
           p == AbortProg
<1> USE DEF SeamInv
<1>1. Program(prog["thread"]) = p /\ "thread" \in Ctx /\ k \in Nat \ {0}
  BY DEF Programs, Program, Ctx, TypeOK, ProgType
<1>2. k \in 1 .. 8
  BY <1>1, AbortSteps, AccessOf DEF Ended
<1>3. w # NoWord => w \subseteq CtrlBits /\ Off(w, k)
  BY <1>1 DEF Silent, TypeOK, ProgType
<1>4. \/ Reads("thread")
      \/ /\ Steps("thread") /\ k \in 6 .. 8
         /\ UNCHANGED <<ctrl, dlen, fifo, wire>> /\ stat' \subseteq stat
      \/ /\ Steps("thread") /\ k \in 1 .. 5 /\ w # NoWord
         /\ UNCHANGED <<stat, dlen, wire>> /\ ctrl' \subseteq w
         /\ k = 1 => "INTD" \notin ctrl'
         /\ k = 2 => "INTT" \notin ctrl'
         /\ k = 3 => "INTR" \notin ctrl'
  <2>1. CASE k \in 6 .. 8
    <3>1. PICK f : p[k] = W1cOp(f)
      BY <2>1, AbortSteps
    <3>2. Steps("thread") /\ ClrStatus({f})
      BY <1>1, <3>1, AccessOf
    <3> QED
      BY <2>1, <3>2 DEF ClrStatus
  <2>2. CASE k \in 1 .. 4
    <3>1. PICK f \in CtrlBits \cup {"CLEAR"} : /\ p[k] = Clr(f)
                                               /\ k = 1 => f = "INTD"
                                               /\ k = 2 => f = "INTT"
                                               /\ k = 3 => f = "INTR"
      BY <2>2, AbortSteps DEF CtrlBits, IntBits
    <3>2. \/ Reads("thread")
          \/ Steps("thread") /\ w # NoWord /\ StoreC(w \ {f}, xfer.id)
      BY <1>1, <3>1, AccessOf
    <3>3. ASSUME w # NoWord, StoreC(w \ {f}, xfer.id)
          PROVE  UNCHANGED <<stat, dlen, wire>> /\ ctrl' \subseteq w \ {f}
      <4>1. "ST" \notin w \ {f}
        BY <1>3, <3>3 DEF CtrlBits, IntBits
      <4> QED
        BY <3>3, <4>1 DEF StoreC
    <3> QED
      BY <2>2, <3>1, <3>2, <3>3
  <2>3. CASE k = 5
    <3>1. p[k] = Set("CLEAR")
      BY <2>3, AbortSteps
    <3>2. \/ Reads("thread")
          \/ Steps("thread") /\ w # NoWord /\ StoreC(w \cup {"CLEAR"}, xfer.id)
      BY <1>1, <3>1, AccessOf
    <3>3. ASSUME w # NoWord, StoreC(w \cup {"CLEAR"}, xfer.id)
          PROVE  UNCHANGED <<stat, dlen, wire>> /\ ctrl' \subseteq w
      <4>1. "ST" \notin w \cup {"CLEAR"}
        BY <1>3, <3>3 DEF CtrlBits, IntBits
      <4> QED
        BY <3>3, <4>1 DEF StoreC, Strobes
    <3> QED
      BY <2>3, <3>2, <3>3
  <2> QED
    BY <1>2, <2>1, <2>2, <2>3
<1>5. /\ UNCHANGED <<xfer, thread, isr, prog, history, wire>> /\ stat' \subseteq stat
      /\ at'["isr"] = at["isr"] /\ word'["isr"] = word["isr"]
      /\ \/ at' = at /\ word'["thread"] = ctrl' /\ ctrl' = ctrl
         \/ at'["thread"] = k + 1 /\ word'["thread"] = NoWord
  <2>1. at \in [Ctx -> Nat \ {0}] /\ word \in [Ctx -> (SUBSET CtrlBits) \cup {NoWord}]
        /\ "isr" \in Ctx
    BY DEF TypeOK, ProgType, Ctx
  <2> QED
    BY <1>1, <1>4, <2>1 DEF Reads, Steps, bscVars
<1>6. \A d \in Ctx : ~Kicking(d) /\ ~Kicking(d)'
  BY <1>5 DEF Kicking, Starter, Ctx
<1>7. Programs' /\ Clock' /\ Active' /\ Programmed' /\ Conserved' /\ Truth'
  BY <1>1, <1>5, <1>6, OtherAccess
<1>8. Words'
  BY <1>2, <1>5, <1>6 DEF Words, Ctx
<1>9. Silent'
  <2>1. Off(ctrl, k)
    BY DEF Silent
  <2>2. Off(ctrl', at'["thread"])
    <3>1. CASE at' = at
      <4>1. ctrl' = ctrl
        BY <1>2, <1>5, <3>1
      <4> QED
        BY <2>1, <3>1, <4>1
    <3>2. CASE at'["thread"] = k + 1 /\ k \in 6 .. 8
      BY <1>4, <2>1, <3>2 DEF Off, Reads
    <3>3. CASE at'["thread"] = k + 1 /\ k \in 1 .. 5
      BY <1>3, <1>4, <3>3 DEF Off, Reads
    <3> QED
      BY <1>2, <1>5, <3>1, <3>2, <3>3
  <2>3. word'["thread"] # NoWord => Off(word'["thread"], at'["thread"])
    BY <1>5, <2>1
  <2> QED
    BY <1>5, <2>2, <2>3 DEF Silent
<1> QED
  BY <1>7, <1>8, <1>9

-----------------------------------------------------------------------------
(* Calls *)

\* A transfer begins on an idle controller, with its interrupts off.
LEMMA StartSeam ==
  ASSUME TypeOK, OwnInv, SeamInv, NEW c \in Ctx, NEW reading \in BOOLEAN, NEW n \in Lens,
         NEW async \in BOOLEAN, Start(c, reading, n, async),
         ~TA, ctrl \cap IntBits = {}, used > 0 => outcome[used] # "none",
         \A d \in Ctx : ~Kicking(d),
         c = "thread" => /\ isr.pc = "idle" /\ isr' = isr
                         /\ thread.pc \in {"idle", "second"}
                         /\ thread'.pc \in {"start", "kick"}
                         /\ thread'.second \in Lens \cup {0},
         c = "isr" => /\ isr.pc = "user" /\ isr'.pc = "kick" /\ async
                      /\ thread.pc \in {"off", "idle", "kick"} /\ thread' = thread
  PROVE  SeamInv'
<1> USE DEF SeamInv
<1>1. /\ used' = used + 1 /\ used' \in Ids /\ used \in Nat /\ outcome' = outcome
      /\ outcome[used'] = "none"
  <2>1. used' = used + 1 /\ used' \in Ids /\ UNCHANGED <<outcome, cbs>>
        /\ outcome[used'] = "none"
    BY OwnStart
  <2>2. used \in Nat
    BY BscAssumption DEF TypeOK, HistoryType
  <2> QED
    BY <2>1, <2>2
<1>2. /\ UNCHANGED <<ctrl, stat, dlen, fifo, wire, moved>> /\ word' = word
      /\ want' = [want EXCEPT ![used'] = n] /\ want \in [Ids -> Nat]
  BY <1>1 DEF Start, Load, bscVars, TypeOK, HistoryType
<1>3. /\ xfer'.id = used' /\ xfer'.reading = reading /\ xfer'.n = n /\ xfer'.i = 0
      /\ ~xfer'.done /\ xfer'.async = async /\ xfer'.active
  BY <1>1 DEF Start, NoXfer
<1>4. /\ prog'[c] = (IF reading THEN "startRead" ELSE "startWrite") /\ at'[c] = 1
      /\ \A d \in Ctx : d # c => prog'[d] = prog[d] /\ at'[d] = at[d]
  <2>1. prog \in [Ctx -> ProgNames] /\ at \in [Ctx -> Nat \ {0}]
    BY DEF TypeOK, ProgType
  <2> QED
    BY <2>1 DEF Start, Load
<1>5. /\ thread.pc # "abort" /\ thread'.pc # "abort"
      /\ isr.pc \in {"idle", "user"} /\ isr'.pc \in {"idle", "kick"}
      /\ Starter(c)' /\ Kicking(c)' /\ \A d \in Ctx : d # c => ~Kicking(d)'
  <2>1. Starter(c)' /\ Kicking(c)'
    BY <1>4 DEF Starter, Kicking, Last, Ctx
  <2>2. \A d \in Ctx : d # c => (Kicking(d)' <=> Kicking(d))
    BY <1>4 DEF Starter, Kicking, Ctx
  <2> QED
    BY <2>1, <2>2 DEF Ctx
<1>6. word["thread"] = NoWord /\ word["isr"] = NoWord
  BY <1>5 DEF Words, Ctx
<1>7. Programs'
  BY <1>3, <1>4, <1>5 DEF Programs, Starter, StartName, Ctx
<1>8. Words'
  BY <1>2, <1>6 DEF Words
<1>9. Clock'
  <2>1. ~TA' /\ ~wire'.wedged
    BY <1>2 DEF Clock, TA
  <2>2. \A id \in Ids : id > used' => moved'[id] = 0 /\ want'[id] = 0
    BY <1>1, <1>2 DEF Clock, Ids
  <2>3. want'[used'] = n /\ moved'[used'] = 0
    BY <1>1, <1>2 DEF Clock
  <2> QED
    BY <1>3, <1>5, <2>1, <2>2, <2>3 DEF Clock
<1>10. Active'
  <2>1. isr'.pc # "idle" => ~Kicking("thread")'
    BY <1>5 DEF Ctx
  <2>2. /\ thread'.pc # "second" /\ thread'.second \in Lens \cup {0}
        /\ isr'.pc = "kick" => async
    BY <1>5 DEF Active, Ctx
  <2>3. used' > 0 /\ outcome'[used'] = "none"
    BY <1>1
  <2> QED
    BY <1>3, <1>5, <2>1, <2>2, <2>3 DEF Active
<1>11. Silent'
  BY <1>3, <1>5 DEF Silent
<1>12. Programmed'
  <2>1. moved'[used'] = 0 /\ ~TA'
    BY <1>1, <1>2 DEF Clock, TA
  <2> QED
    BY <1>2, <1>3, <1>4, <1>5, <2>1 DEF Programmed
<1>13. Conserved'
  BY <1>5 DEF Conserved, Clocked, Starting
<1>14. Truth'
  BY <1>3, <1>5 DEF Truth
<1> QED
  BY <1>7, <1>8, <1>9, <1>10, <1>11, <1>12, <1>13, <1>14

\* What holds when a caller may begin a transfer.
LEMMA Free ==
  ASSUME OwnInv, SeamInv, isr.pc = "idle", thread.pc \in {"idle", "second"}, ~xfer.active,
         ~wire.wedged
  PROVE  /\ ~TA /\ ctrl \cap IntBits = {} /\ \A d \in Ctx : ~Kicking(d)
         /\ used > 0 => outcome[used] # "none"
  BY DEF SeamInv, OwnInv, SyncReported, AsyncOpen, Clock, Silent, Kicking, Starter, Ctx

\* A call of the driver keeps the invariant: it begins a transfer only when the
\* one before it is over.
LEMMA CallSeam ==
  ASSUME Careful, TypeOK, OwnInv, SeamInv, Call
  PROVE  SeamInv'
<1>1. isr.pc = "idle"
  BY DEF Call, ThreadRuns, Careful
<1>2. CASE BusInit
  <2>1. /\ thread' = [thread EXCEPT !.pc = "idle"] /\ thread.pc = "off"
        /\ ctrl' = ctrl \cup {"I2CEN"}
        /\ UNCHANGED <<stat, dlen, fifo, wire, xfer, isr, prog, at, word, history>>
    BY <1>2 DEF BusInit
  <2>2. thread'.pc = "idle" /\ thread'.second = thread.second
    BY <2>1 DEF TypeOK, ContextType
  <2>3. \A d \in Ctx : ~Kicking(d) /\ ~Kicking(d)' /\ ~Starter(d) /\ ~Starter(d)'
    BY <1>1, <2>1, <2>2 DEF Kicking, Starter, Ctx
  <2> USE DEF SeamInv
  <2>4. Programs' /\ Words'
    BY <1>1, <2>1, <2>2, <2>3 DEF Programs, Words, Ctx
  <2>5. Clock' /\ Active'
    BY <1>1, <2>1, <2>2, <2>3 DEF Clock, Active, TA, history, Ctx
  <2>6. Silent'
    BY <1>1, <2>1, <2>2 DEF Silent, IntBits
  <2>7. Programmed'
    BY <2>3 DEF Programmed
  <2>8. Conserved'
    BY <1>1, <2>1, <2>2, <2>3 DEF Conserved, Clocked, Starting, TA, history
  <2>9. Truth'
    BY <1>1, <2>1, <2>2 DEF Truth
  <2> QED
    BY <2>4, <2>5, <2>6, <2>7, <2>8, <2>9
<1>3. ASSUME NEW n \in Lens, NEW reading \in BOOLEAN, NEW m \in Lens \cup {0},
             Blocking(reading, n, m)
      PROVE  SeamInv'
  <2>1. /\ thread.pc = "idle" /\ ~xfer.active /\ Start("thread", reading, n, FALSE)
        /\ thread'.pc = "start" /\ thread'.second = m /\ isr' = isr
    BY <1>3 DEF Blocking, Careful
  <2>2. ~wire.wedged
    BY <2>1 DEF Start, Careful
  <2> QED
    BY <1>1, <2>1, <2>2, Free, StartSeam DEF Ctx
<1>4. ASSUME NEW n \in Lens, NEW reading \in BOOLEAN, Async(reading, n)
      PROVE  SeamInv'
  <2>1. /\ thread.pc = "idle" /\ ~xfer.active /\ Start("thread", reading, n, TRUE)
        /\ thread'.pc = "kick" /\ thread'.second = 0 /\ isr' = isr
    BY <1>4 DEF Async
  <2>2. ~wire.wedged
    BY <2>1 DEF Start, Careful
  <2> QED
    BY <1>1, <2>1, <2>2, Free, StartSeam DEF Ctx
<1>5. CASE SecondHalf
  <2>1. /\ thread.pc = "second" /\ Start("thread", TRUE, thread.second, FALSE)
        /\ thread'.pc = "start" /\ thread'.second = 0 /\ isr' = isr
    BY <1>5 DEF SecondHalf
  <2>2. ~wire.wedged
    BY <2>1 DEF Start, Careful
  <2>3. thread.second \in Lens /\ ~xfer.active
    BY <1>1, <2>1 DEF SeamInv, Active
  <2> QED
    BY <1>1, <2>1, <2>2, <2>3, Free, StartSeam DEF Ctx
<1> QED
  BY <1>2, <1>3, <1>4, <1>5 DEF Call

\* A callback that starts the next transfer.
LEMMA ChainSeam ==
  ASSUME Careful, TypeOK, OwnInv, SeamInv, IsrCall
  PROVE  SeamInv'
<1>1. PICK n \in Lens, reading \in BOOLEAN : IsrChain(reading, n)
  BY DEF IsrCall
<1>2. isr.pc = "user" /\ Start("isr", reading, n, TRUE) /\ isr'.pc = "kick" /\ thread' = thread
  BY <1>1 DEF IsrChain, TypeOK, ContextType
<1>3. xfer.async /\ outcome[used] # "none"
  BY <1>2 DEF OwnInv, AsyncOpen, CurrentIsLast, TypeOK, XferType
<1>4. thread.pc \in {"off", "idle", "kick"}
  BY <1>3 DEF OwnInv, SyncOpen, SyncReported, TypeOK, ContextType
<1>5. ~TA /\ ctrl \cap IntBits = {} /\ \A d \in Ctx : ~Kicking(d)
  BY <1>2 DEF SeamInv, Clock, Silent, Active, Kicking, Starter, Ctx
<1> QED
  BY <1>2, <1>3, <1>4, <1>5, StartSeam DEF Ctx

-----------------------------------------------------------------------------
(* The thread *)

\* Steps of the thread between start() and the end of the call: the controller,
\* the register programs of the handler and the transfer record stay.
LEMMA ThreadSeam ==
  ASSUME Careful, TypeOK, OwnInv, SeamInv, ThreadStep
  PROVE  SeamInv'
<1> USE DEF SeamInv
<1>1. isr.pc = "idle" /\ "thread" \in Ctx /\ "isr" \in Ctx
  BY DEF ThreadStep, ThreadRuns, Careful, Ctx
<1>2. prog \in [Ctx -> ProgNames] /\ at \in [Ctx -> Nat \ {0}]
  BY DEF TypeOK, ProgType
<1>3. ~Starter("isr") /\ ~Kicking("isr") /\ word["isr"] = NoWord
  BY <1>1 DEF Kicking, Starter, Words
<1>4. CASE ThreadAccess
  <2>1. CASE thread.pc = "abort"
    BY <1>1, <1>4, <2>1, AbortSeam DEF ThreadAccess
  <2>2. CASE thread.pc \in {"start", "kick"}
    <3>1. Len(Program(prog["thread"])) = 16
      <4>1. Starter("thread")
        BY <2>2 DEF Starter
      <4>2. prog["thread"] = "startRead" \/ prog["thread"] = "startWrite"
        BY <1>1, <4>1 DEF Programs
      <4> QED
        BY <4>2, StartLength DEF Program
    <3>2. at["thread"] <= 16
      BY <1>2, <1>4, <3>1 DEF ThreadAccess, Access, Ended, Ctx
    <3>3. Kicking("thread")
      BY <2>2, <3>2 DEF Kicking, Starter, Last
    <3> QED
      BY <1>1, <1>4, <3>3, KickSeam DEF ThreadAccess
  <2> QED
    BY <1>4, <2>1, <2>2 DEF ThreadAccess
<1>5. CASE Started
  <2>1. /\ thread.pc \in {"start", "kick"} /\ Ended("thread")
        /\ UNCHANGED <<bscVars, xfer, isr, history>>
        /\ prog' = [prog EXCEPT !["thread"] = "none"] /\ at' = [at EXCEPT !["thread"] = 1]
        /\ word' = word
    BY <1>5 DEF Started, Unload, Load
  <2>2. /\ thread'.pc = (IF thread.pc = "start" THEN "check" ELSE "idle")
        /\ thread'.second = thread.second
    BY <1>5 DEF Started, TypeOK, ContextType
  <2>3. Len(Program(prog["thread"])) = 16
    <3>1. Starter("thread")
      BY <2>1 DEF Starter
    <3>2. prog["thread"] = "startRead" \/ prog["thread"] = "startWrite"
      BY <1>1, <3>1 DEF Programs
    <3> QED
      BY <3>2, StartLength DEF Program
  <2>4. ~(at["thread"] <= 16)
    BY <1>1, <1>2, <2>1, <2>3 DEF Ended
  <2>5. /\ ~Kicking("thread") /\ ~Starter("thread")' /\ ~Starter("isr")'
        /\ \A d \in Ctx : ~Kicking(d) /\ ~Kicking(d)'
    BY <1>1, <1>3, <2>1, <2>2, <2>4 DEF Kicking, Starter, Last, Ctx
  <2>6. prog'["thread"] = "none" /\ prog'["isr"] = prog["isr"] /\ at'["isr"] = at["isr"]
    BY <1>1, <1>2, <2>1
  <2>7. Programs' /\ Words'
    BY <1>1, <1>3, <2>1, <2>2, <2>5, <2>6 DEF Programs, Words, Ctx, bscVars
  <2>8. Clock' /\ Active' /\ Silent'
    BY <1>1, <2>1, <2>2, <2>5 DEF Clock, Active, Silent, TA, history, bscVars, Ctx
  <2>9. Programmed' /\ Truth'
    BY <1>1, <2>1, <2>2, <2>5 DEF Programmed, Truth, history
  <2>10. Conserved'
    BY <1>1, <2>1, <2>2, <2>5 DEF Conserved, Clocked, Starting, TA, history, bscVars
  <2> QED
    BY <2>7, <2>8, <2>9, <2>10
\* The watchdog's loop: nothing but the thread's own state changes.
<1>6. ASSUME UNCHANGED <<bscVars, isr, prog, at, word, used, want, moved, xfer>>,
             thread.pc \in {"check", "wait"},
             thread'.pc \in {"check", "wait", "idle", "second"},
             thread'.second = thread.second,
             outcome' = outcome \/ xfer.done,
             thread'.pc = "second" => xfer.done /\ thread.second \in Lens
      PROVE  SeamInv'
  <2>1. \A d \in Ctx : ~Starter(d) /\ ~Starter(d)' /\ ~Kicking(d) /\ ~Kicking(d)'
    BY <1>1, <1>6 DEF Kicking, Starter, Ctx
  <2>2. Programs' /\ Words'
    BY <1>1, <1>3, <1>6, <2>1 DEF Programs, Words, Ctx, bscVars
  <2>3. Clock' /\ Silent'
    BY <1>1, <1>6, <2>1 DEF Clock, Silent, TA, bscVars
  <2>4. Active'
    <3>1. xfer.done => ~xfer.active
      BY <1>1 DEF Active
    <3> QED
      BY <1>1, <1>6, <2>1, <3>1 DEF Active, Ctx
  <2>5. Programmed' /\ Truth'
    BY <1>1, <1>6, <2>1 DEF Programmed, Truth
  <2>6. Conserved'
    BY <1>1, <1>6, <2>1 DEF Conserved, Clocked, Starting, TA, bscVars
  <2> QED
    BY <2>2, <2>3, <2>4, <2>5, <2>6
<1>7. CASE CheckPending \/ WaitForIrq
  <2>1. thread'.pc \in {"check", "wait"} /\ thread'.second = thread.second
    BY <1>7 DEF CheckPending, WaitForIrq, TypeOK, ContextType
  <2> QED
    BY <1>6, <1>7, <2>1 DEF CheckPending, WaitForIrq, history
<1>8. CASE CheckDone
  <2>1. /\ thread'.pc \in {"idle", "second"} /\ thread'.second = thread.second
        /\ thread'.pc = "second" => thread.second > 0
    BY <1>8 DEF CheckDone, TypeOK, ContextType
  <2>2. thread.second \in Lens \cup {0}
    BY DEF Active
  <2> QED
    BY <1>6, <1>8, <2>1, <2>2 DEF CheckDone
<1>9. CASE GiveUp
  <2>1. /\ thread.pc = "check" /\ (~TA \/ wire.wedged)
        /\ UNCHANGED <<bscVars, xfer, isr, history>> /\ word' = word
        /\ prog' = [prog EXCEPT !["thread"] = "abort"] /\ at' = [at EXCEPT !["thread"] = 1]
        /\ thread'.pc = "abort" /\ thread'.second = thread.second
    BY <1>9 DEF GiveUp, Load, Careful, TypeOK, ContextType
  <2>2. /\ prog'["thread"] = "abort" /\ at'["thread"] = 1
        /\ prog'["isr"] = prog["isr"] /\ at'["isr"] = at["isr"]
    BY <1>1, <1>2, <2>1
  <2>3. \A d \in Ctx : ~Starter(d) /\ ~Starter(d)' /\ ~Kicking(d) /\ ~Kicking(d)'
    BY <1>1, <2>1 DEF Kicking, Starter, Ctx
  <2>4. word["thread"] = NoWord
    BY <2>1, <2>3 DEF Words, Ctx
  <2>5. Programs' /\ Words'
    BY <1>1, <1>3, <2>1, <2>2, <2>3, <2>4 DEF Programs, Words, Ctx
  <2>6. Clock' /\ Active'
    BY <1>1, <2>1, <2>3 DEF Clock, Active, TA, history, bscVars, Ctx
  <2>7. Silent'
    BY <1>1, <2>1, <2>2, <2>4 DEF Silent, Off
  <2>8. Programmed' /\ Conserved' /\ Truth'
    BY <1>1, <2>1, <2>3 DEF Programmed, Conserved, Clocked, Truth
  <2> QED
    BY <2>5, <2>6, <2>7, <2>8
<1>10. CASE Aborted
  <2>1. /\ thread.pc = "abort" /\ Ended("thread")
        /\ UNCHANGED <<bscVars, isr, used, want, moved>> /\ word' = word
        /\ prog' = [prog EXCEPT !["thread"] = "none"] /\ at' = [at EXCEPT !["thread"] = 1]
        /\ xfer' = [xfer EXCEPT !.active = FALSE]
        /\ thread'.pc = "idle" /\ thread'.second = thread.second
    BY <1>10 DEF Aborted, Unload, Load, TypeOK, ContextType
  <2>2. /\ ~xfer'.active /\ xfer'.id = xfer.id /\ xfer'.reading = xfer.reading
        /\ xfer'.n = xfer.n /\ xfer'.i = xfer.i /\ xfer'.done = xfer.done
        /\ xfer'.async = xfer.async
    BY <2>1 DEF TypeOK, XferType
  <2>3. at["thread"] > 8
    BY <1>2, <2>1, AbortSteps DEF Programs, Program, Ended
  <2>4. \A d \in Ctx : ~Starter(d) /\ ~Starter(d)' /\ ~Kicking(d) /\ ~Kicking(d)'
    BY <1>1, <2>1 DEF Kicking, Starter, Ctx
  <2>5. ctrl \cap IntBits = {} /\ word["thread"] = NoWord
    <3>1. Off(ctrl, at["thread"])
      BY <2>1 DEF Silent
    <3>2. "INTD" \notin ctrl /\ "INTT" \notin ctrl /\ "INTR" \notin ctrl
      BY <1>2, <2>3, <3>1 DEF Off, Ctx
    <3>3. ~(at["thread"] <= 8)
      BY <1>2, <2>3 DEF Ctx
    <3>4. word["thread"] = NoWord
      BY <1>1, <2>4, <3>3 DEF Words
    <3> QED
      BY <3>2, <3>4 DEF IntBits
  <2>6. prog'["thread"] = "none" /\ prog'["isr"] = prog["isr"]
    BY <1>1, <1>2, <2>1
  <2>7. Programs' /\ Words'
    BY <1>1, <1>3, <2>1, <2>4, <2>5, <2>6 DEF Programs, Words, Ctx
  <2>8. Clock' /\ Active' /\ Silent'
    BY <1>1, <2>1, <2>2, <2>4, <2>5 DEF Clock, Active, Silent, TA, bscVars, Ctx
  <2>9. Programmed' /\ Conserved' /\ Truth'
    BY <1>1, <2>1, <2>2, <2>4, <2>5 DEF Programmed, Conserved, Clocked, Truth
  <2> QED
    BY <2>7, <2>8, <2>9
<1> QED
  BY <1>4, <1>5, <1>7, <1>8, <1>9, <1>10 DEF ThreadStep

-----------------------------------------------------------------------------
(* The handler *)

\* The line is down while a transfer is being started: until the last step of
\* start(), the interrupts are off or there is nothing to signal.
LEMMA LineDown ==
  ASSUME SeamInv, NEW c \in Ctx, Kicking(c), TypeOK
  PROVE  ~Line
<1>1. ~TA /\ (at[c] <= 3 => ctrl \cap IntBits = {}) /\ (at[c] > 3 => "DONE" \notin stat)
  BY DEF SeamInv, Programmed
<1>2. at[c] <= 3 \/ at[c] > 3
  BY DEF TypeOK, ProgType
<1>3. ~TXW /\ ~RXR
  BY <1>1 DEF TXW, RXR
<1> QED
  BY <1>1, <1>2, <1>3 DEF Line, IntBits

\* The handler is entered for a transfer whose caller still waits.
LEMMA EnterSeam ==
  ASSUME Careful, TypeOK, OwnInv, SeamInv, IsrEnter
  PROVE  SeamInv'
<1> USE DEF SeamInv
<1>1. /\ isr.pc = "idle" /\ Line /\ isr'.pc = "loop"
      /\ UNCHANGED <<bscVars, xfer, thread, prog, at, word, history>>
  BY DEF IsrEnter, Careful, TypeOK, ContextType
<1>2. \A d \in Ctx : ~Kicking(d) /\ ~Kicking(d)'
  <2>1. \A d \in Ctx : ~Kicking(d)
    BY <1>1, LineDown
  <2>2. \A d \in Ctx : Starter(d)' <=> Starter(d)
    BY <1>1 DEF Starter
  <2> QED
    BY <1>1, <2>1, <2>2 DEF Kicking
<1>3. /\ used > 0 /\ outcome[used] = "none"
      /\ thread.pc # "abort" => xfer.active /\ ~xfer.done
  <2>1. ctrl \cap IntBits # {}
    BY <1>1 DEF Line, IntBits
  <2>2. thread.pc # "abort" => xfer.active
    BY <1>1, <2>1 DEF Silent
  <2>3. xfer.active => used > 0 /\ outcome[used] = "none" /\ ~xfer.done
    BY <1>1 DEF Active
  <2>4. thread.pc = "abort" => used > 0 /\ outcome[used] = "none"
    BY DEF OwnInv, SyncOpen
  <2> QED
    BY <2>2, <2>3, <2>4
<1>4. Programs' /\ Words'
  BY <1>1, <1>2 DEF Programs, Words, Starter, StartName, Ctx, bscVars
<1>5. Clock' /\ Silent'
  BY <1>1 DEF Clock, Silent, TA, bscVars, history
<1>6. Active'
  BY <1>1, <1>2, <1>3 DEF Active, history, Ctx
<1>7. Programmed' /\ Truth'
  BY <1>1, <1>2 DEF Programmed, Truth, history
<1>8. Conserved'
  BY <1>1, <1>2 DEF Conserved, Clocked, Starting, TA, bscVars, history
<1> QED
  BY <1>4, <1>5, <1>6, <1>7, <1>8

\* What holds in the loop of handle_irq(), unless the thread aborts the transfer.
LEMMA LoopClocked ==
  ASSUME SeamInv, isr.pc = "loop"
  PROVE  /\ \A d \in Ctx : ~Kicking(d)
         /\ thread.pc # "abort" => Clocked /\ xfer.active /\ ~xfer.done
         /\ used > 0
  BY DEF SeamInv, Active, Clocked, Starting, Kicking, Starter, Ctx

\* What the conserved sums are made of.
LEMMA Counters ==
  ASSUME TypeOK
  PROVE  /\ wire.left \in Nat /\ fifo \in Seq(0 .. MaxXfers) /\ Len(fifo) \in Nat
         /\ xfer.i \in Nat /\ xfer.n \in Nat /\ xfer.i <= xfer.n
         /\ moved \in [Ids -> Nat] /\ used \in 0 .. MaxXfers /\ used \in Nat
         /\ (used > 0 => used \in Ids)
<1>1. wire.left \in 0 .. DlenMod - 1 /\ fifo \in Seq(0 .. MaxXfers)
  BY DEF TypeOK, BscTypeOK
<1>2. wire.left \in Nat /\ Len(fifo) \in Nat
  BY <1>1, BscAssumption
<1>3. xfer.i \in Nat /\ xfer.n \in Nat /\ xfer.i <= xfer.n
  BY DEF TypeOK, XferType
<1>4. moved \in [Ids -> Nat] /\ used \in 0 .. MaxXfers
  BY DEF TypeOK, HistoryType
<1>5. used \in Nat /\ (used > 0 => used \in Ids)
  BY <1>4, BscAssumption DEF Ids
<1> QED
  BY <1>1, <1>2, <1>3, <1>4, <1>5

\* A sequence of one transfer's bytes stays one when a byte of it is added, or
\* the first one is taken.
LEMMA OneOwner ==
  ASSUME NEW S, NEW q \in Seq(S), NEW e \in S, \A j \in 1 .. Len(q) : q[j] = e
  PROVE  /\ Append(q, e) \in Seq(S) /\ Len(Append(q, e)) = Len(q) + 1
         /\ \A j \in 1 .. Len(Append(q, e)) : Append(q, e)[j] = e
         /\ q # <<>> => /\ Head(q) = e /\ Len(Tail(q)) = Len(q) - 1
                        /\ \A j \in 1 .. Len(Tail(q)) : Tail(q)[j] = e
  OBVIOUS

\* A turn of the loop that moves a byte: what it leaves alone.
LEMMA TurnSeam ==
  ASSUME TypeOK, OwnInv, SeamInv, isr.pc = "loop",
         UNCHANGED <<ctrl, stat, dlen, wire, thread, isr, prog, at, word, used, want, outcome>>,
         xfer' = [xfer EXCEPT !.i = @ + 1],
         xfer.reading => \/ moved' = moved
                         \/ moved' = [moved EXCEPT ![used] = @ + 1],
         ~xfer.reading => moved' = moved
  PROVE  /\ Programs' /\ Words' /\ Clock' /\ Active' /\ Silent' /\ Programmed' /\ Truth'
         /\ Clocked' <=> Clocked
         /\ xfer'.reading = xfer.reading /\ xfer'.n = xfer.n /\ xfer'.i = xfer.i + 1
<1> USE DEF SeamInv
<1>1. /\ xfer'.id = xfer.id /\ xfer'.reading = xfer.reading /\ xfer'.n = xfer.n
      /\ xfer'.i = xfer.i + 1 /\ xfer'.done = xfer.done /\ xfer'.result = xfer.result
      /\ xfer'.async = xfer.async /\ xfer'.cb = xfer.cb /\ xfer'.active = xfer.active
  BY DEF TypeOK, XferType
<1>2. /\ \A d \in Ctx : (Starter(d)' <=> Starter(d)) /\ ~Kicking(d) /\ ~Kicking(d)'
      /\ ~Starting /\ ~Starting' /\ used > 0 /\ used \in Ids
  BY LoopClocked, Counters DEF Starter, Kicking, Starting
<1>3. /\ \A id \in Ids : id > used => moved'[id] = moved[id]
      /\ moved'[used] \in {moved[used], moved[used] + 1}
      /\ moved[used] \in Nat /\ xfer.i \in Nat
  BY <1>2, Counters
<1>4. Programs' /\ Words'
  BY <1>1, <1>2 DEF Programs, Words, StartName, Ctx
<1>5. Clock'
  <2>1. xfer.reading => moved'[used] <= xfer.i + 1
    BY <1>2, <1>3 DEF Clock
  <2> QED
    BY <1>1, <1>3, <2>1 DEF Clock, TA
<1>6. Active' /\ Silent'
  BY <1>1, <1>2 DEF Active, Silent, Ctx
<1>7. Programmed'
  BY <1>2 DEF Programmed
<1>8. Truth'
  <2>1. thread.pc # "abort" => ~xfer'.done
    BY <1>1, LoopClocked
  <2> QED
    BY <2>1 DEF Truth
<1> QED
  BY <1>1, <1>2, <1>4, <1>5, <1>6, <1>7, <1>8 DEF Clocked

\* A turn that takes a byte out of the FIFO, and one that puts one in.
LEMMA DrainSeam == ASSUME TypeOK, OwnInv, SeamInv, IsrDrain PROVE SeamInv'
<1> USE DEF SeamInv
<1>1. /\ isr.pc = "loop" /\ xfer.reading /\ fifo # <<>> /\ xfer.i < xfer.n
      /\ fifo' = Tail(fifo) /\ UNCHANGED <<ctrl, stat, dlen, wire>>
      /\ xfer' = [xfer EXCEPT !.i = @ + 1] /\ xfer.id = used
      /\ moved' = IF Head(fifo) = used THEN [moved EXCEPT ![used] = @ + 1] ELSE moved
      /\ UNCHANGED <<thread, isr, prog, at, word, used, want, outcome>>
  BY DEF IsrDrain, MayDrain, RXD, ReadByte, OwnInv, CurrentIsLast
<1>2. /\ Programs' /\ Words' /\ Clock' /\ Active' /\ Silent' /\ Programmed' /\ Truth'
      /\ Clocked' <=> Clocked
      /\ xfer'.reading = xfer.reading /\ xfer'.n = xfer.n /\ xfer'.i = xfer.i + 1
  BY <1>1, TurnSeam
<1>3. ASSUME Clocked PROVE Conserved'
  <2>1. /\ Head(fifo) = used /\ Len(fifo') = Len(fifo) - 1
        /\ \A j \in 1 .. Len(fifo') : fifo'[j] = used
    <3>1. /\ fifo \in Seq(0 .. MaxXfers) /\ used \in 0 .. MaxXfers
          /\ \A j \in 1 .. Len(fifo) : fifo[j] = used
      BY <1>3, Counters DEF Conserved
    <3>2. fifo # <<>> => /\ Head(fifo) = used /\ Len(Tail(fifo)) = Len(fifo) - 1
                         /\ \A j \in 1 .. Len(Tail(fifo)) : Tail(fifo)[j] = used
      BY <3>1, OneOwner
    <3> QED
      BY <1>1, <3>2
  <2>2. moved'[used] = moved[used] + 1
    BY <1>1, <2>1, LoopClocked, Counters
  <2>3. /\ moved[used] = xfer.i
        /\ TA => xfer.i + Len(fifo) + wire.left = xfer.n
        /\ ~TA /\ stat = {"DONE"} => xfer.i + Len(fifo) = xfer.n
    BY <1>1, <1>3 DEF Conserved
  <2>4. /\ moved'[used] = xfer.i + 1
        /\ TA => (xfer.i + 1) + Len(fifo') + wire.left = xfer.n
        /\ ~TA /\ stat = {"DONE"} => (xfer.i + 1) + Len(fifo') = xfer.n
    <3>1. /\ xfer.i \in Nat /\ Len(fifo) \in Nat /\ wire.left \in Nat /\ xfer.n \in Nat
      BY Counters
    <3>2. Len(fifo') = Len(fifo) - 1
      BY <2>1
    <3>3. (xfer.i + 1) + Len(fifo') = xfer.i + Len(fifo)
      BY <3>1, <3>2
    <3>4. (xfer.i + 1) + Len(fifo') + wire.left = xfer.i + Len(fifo) + wire.left
      BY <3>3
    <3>5. moved'[used] = xfer.i + 1
      BY <2>2, <2>3
    <3> QED
      BY <2>3, <3>3, <3>4, <3>5
  <2> QED
    BY <1>1, <1>2, <2>1, <2>4 DEF Conserved, TA
<1> QED
  BY <1>2, <1>3 DEF Conserved

\* A turn that puts a byte into the FIFO keeps the invariant.
LEMMA FillSeam == ASSUME TypeOK, OwnInv, SeamInv, IsrFill PROVE SeamInv'
<1> USE DEF SeamInv
<1>1. /\ isr.pc = "loop" /\ ~xfer.reading
      /\ fifo' \in {fifo, Append(fifo, used)} /\ UNCHANGED <<ctrl, stat, dlen, wire>>
      /\ xfer' = [xfer EXCEPT !.i = @ + 1]
      /\ UNCHANGED <<thread, isr, prog, at, word, used, want, outcome, moved>>
  BY DEF IsrFill, MayFill, WriteByte, OwnInv, CurrentIsLast, history
<1>2. /\ Programs' /\ Words' /\ Clock' /\ Active' /\ Silent' /\ Programmed' /\ Truth'
      /\ Clocked' <=> Clocked
      /\ xfer'.reading = xfer.reading /\ xfer'.n = xfer.n /\ xfer'.i = xfer.i + 1
  BY <1>1, TurnSeam
<1>3. ASSUME Clocked PROVE Conserved'
  <2>1. \A j \in 1 .. Len(fifo') : fifo'[j] = used
    BY <1>1, <1>3, Counters, OneOwner DEF Conserved
  <2> QED
    BY <1>1, <1>2, <1>3, <2>1 DEF Conserved, TA
<1> QED
  BY <1>2, <1>3 DEF Conserved

\* The handler decides how the transfer ended; only with DONE, so the controller is
\* idle, and with Ok only when every byte was moved.
LEMMA FinishSeam ==
  ASSUME Careful, TypeOK, OwnInv, SeamInv, IsrFail \/ IsrDone
  PROVE  SeamInv'
<1> USE DEF SeamInv
<1>1. PICK result \in Results :
        /\ isr.pc = "loop" /\ Finalize(result)
        /\ stat # {}
        /\ result = "Ok" => /\ stat \cap {"ERR", "CLKT"} = {} /\ "DONE" \in stat
                            /\ ~MayDrain /\ (xfer.reading => xfer.i = xfer.n)
  BY DEF IsrFail, IsrDone, Failing, Results
<1>2. /\ isr' = [pc |-> "finalize", result |-> result]
      /\ prog' = [prog EXCEPT !["isr"] = "finalize"] /\ at' = [at EXCEPT !["isr"] = 1]
      /\ word' = word /\ UNCHANGED <<bscVars, xfer, thread, history>>
  BY <1>1 DEF Finalize, Load
<1>3. isr'.pc = "finalize" /\ isr'.result = result
  BY <1>2
<1>4. /\ prog'["isr"] = "finalize" /\ at'["isr"] = 1 /\ word["isr"] = NoWord
      /\ prog'["thread"] = prog["thread"] /\ at'["thread"] = at["thread"]
  <2>1. prog \in [Ctx -> ProgNames] /\ at \in [Ctx -> Nat \ {0}]
    BY DEF TypeOK, ProgType
  <2> QED
    BY <1>1, <1>2, <2>1, LoopClocked DEF Words, Ctx
<1>5. \A d \in Ctx : /\ ~Kicking(d) /\ ~Kicking(d)'
                     /\ Starter(d)' <=> Starter(d)
  BY <1>1, <1>2, <1>3, <1>4, LoopClocked DEF Kicking, Starter, Ctx
<1>6. ~TA /\ used > 0
  BY <1>1, LoopClocked DEF Clock
<1>7. result = "Ok" /\ thread.pc # "abort" => moved[used] = want[used]
  <2> SUFFICES ASSUME result = "Ok", thread.pc # "abort" PROVE moved[used] = want[used]
    OBVIOUS
  <2>1. stat = {"DONE"}
    BY <1>1 DEF TypeOK, BscTypeOK, Latched
  <2>2. Clocked /\ want[used] = xfer.n
    BY <1>1, <1>6, LoopClocked DEF Clock
  <2>3. CASE xfer.reading
    BY <1>1, <2>2, <2>3 DEF Conserved
  <2>4. CASE ~xfer.reading
    BY <1>6, <2>1, <2>2, <2>4 DEF Conserved
  <2> QED
    BY <2>3, <2>4
<1>8. Programs' /\ Words'
  BY <1>1, <1>2, <1>3, <1>4, <1>5 DEF Programs, Words, Ctx
<1>9. Clock'
  BY <1>2, <1>6 DEF Clock, TA, bscVars, history
<1>10. Active' /\ Silent'
  BY <1>1, <1>2, <1>3, <1>4, <1>5 DEF Active, Silent, bscVars, history, Ctx
<1>11. Programmed' /\ Conserved'
  BY <1>3, <1>5 DEF Programmed, Conserved, Clocked
<1>12. Truth'
  BY <1>1, <1>2, <1>3, <1>7, LoopClocked DEF Truth, history
<1> QED
  BY <1>8, <1>9, <1>10, <1>11, <1>12

\* Nothing to move and not done: the handler returns.
LEMMA LeaveSeam ==
  ASSUME TypeOK, OwnInv, SeamInv, IsrReturn
  PROVE  SeamInv'
<1> USE DEF SeamInv
<1>1. /\ isr.pc = "loop" /\ isr'.pc = "idle"
      /\ UNCHANGED <<bscVars, xfer, thread, prog, at, word, history>>
  BY DEF IsrReturn, TypeOK, ContextType
<1>2. /\ \A d \in Ctx : ~Kicking(d) /\ ~Kicking(d)' /\ (Starter(d)' <=> Starter(d))
      /\ thread.pc # "abort" => xfer.active /\ ~xfer.done
  BY <1>1, LoopClocked DEF Kicking, Starter, Ctx
<1>3. Programs' /\ Words'
  BY <1>1, <1>2 DEF Programs, Words, StartName, Ctx, bscVars
<1>4. Clock' /\ Silent'
  BY <1>1, <1>2 DEF Clock, Silent, TA, bscVars, history
<1>5. Active'
  <2>1. ~(xfer.done /\ xfer.active)
    BY <1>1 DEF Active
  <2> QED
    BY <1>1, <1>2, <2>1 DEF Active, history, Ctx
<1>6. Programmed' /\ Truth'
  BY <1>1, <1>2 DEF Programmed, Truth, history
<1>7. Conserved'
  BY <1>1, <1>2 DEF Conserved, Clocked, Starting, TA, bscVars, history
<1> QED
  BY <1>3, <1>4, <1>5, <1>6, <1>7

\* The interrupts are off when finalize() publishes the result.
LEMMA PublishSeam ==
  ASSUME TypeOK, OwnInv, SeamInv, IsrPublish
  PROVE  SeamInv'
<1> USE DEF SeamInv
<1>1. /\ isr.pc = "finalize" /\ isr'.pc = "release" /\ isr'.result = isr.result
      /\ Ended("isr") /\ UNCHANGED <<bscVars, thread, history>> /\ word' = word
      /\ prog' = [prog EXCEPT !["isr"] = "none"] /\ at' = [at EXCEPT !["isr"] = 1]
  BY DEF IsrPublish, Unload, Load, TypeOK, ContextType
<1>2. /\ xfer'.done /\ xfer'.result = isr.result /\ xfer'.id = xfer.id
      /\ xfer'.reading = xfer.reading /\ xfer'.n = xfer.n /\ xfer'.i = xfer.i
      /\ xfer'.async = xfer.async /\ xfer'.active = xfer.active
  BY DEF IsrPublish, TypeOK, XferType
<1>3. /\ prog'["isr"] = "none" /\ prog'["thread"] = prog["thread"]
      /\ at'["thread"] = at["thread"] /\ at["isr"] \in Nat
  <2>1. prog \in [Ctx -> ProgNames] /\ at \in [Ctx -> Nat \ {0}]
    BY DEF TypeOK, ProgType
  <2> QED
    BY <1>1, <2>1 DEF Ctx
<1>4. at["isr"] > 6
  BY <1>1, <1>3, FinalizeSteps DEF Programs, Program, Ended
<1>5. \A d \in Ctx : /\ ~Kicking(d) /\ ~Kicking(d)'
                     /\ Starter(d)' <=> Starter(d)
  BY <1>1, <1>3 DEF Active, Kicking, Starter, Ctx
<1>6. ctrl \cap IntBits = {} /\ word["isr"] = NoWord
  <2>1. Off(ctrl, at["isr"] - 3)
    BY <1>1, <1>3, <1>4 DEF Silent
  <2>2. "INTD" \notin ctrl /\ "INTT" \notin ctrl /\ "INTR" \notin ctrl
    BY <1>3, <1>4, <2>1 DEF Off
  <2>3. ~(at["isr"] <= 6)
    BY <1>3, <1>4
  <2>4. word["isr"] = NoWord
    BY <1>5, <2>3 DEF Words, Ctx
  <2> QED
    BY <2>2, <2>4 DEF IntBits
<1>7. Programs' /\ Words'
  BY <1>1, <1>2, <1>3, <1>5, <1>6 DEF Programs, Words, Ctx, bscVars
<1>8. Clock'
  BY <1>1, <1>2 DEF Clock, TA, bscVars, history
<1>9. Active' /\ Silent'
  BY <1>1, <1>2, <1>3, <1>5, <1>6 DEF Active, Silent, bscVars, history, Ctx
<1>10. Programmed' /\ Conserved'
  BY <1>1, <1>5 DEF Programmed, Conserved, Clocked
<1>11. Truth'
  BY <1>1, <1>2 DEF Truth, history
<1> QED
  BY <1>7, <1>8, <1>9, <1>10, <1>11

\* What the handler does after that: it touches neither the controller nor the
\* register programs, and the transfer is over.
LEMMA TailSeam ==
  ASSUME TypeOK, OwnInv, SeamInv, IsrRelease \/ IsrNoCallback \/ IsrCallback \/ IsrCallbackReturn
  PROVE  SeamInv'
<1> USE DEF SeamInv
<1>1. /\ isr.pc \in {"release", "callback", "user"} /\ isr'.pc \in {"callback", "user", "idle"}
      /\ isr'.pc = "callback" => isr.pc = "release" /\ isr'.result = isr.result
      /\ UNCHANGED <<bscVars, thread, prog, at, word, used, want, moved>>
  BY DEF IsrRelease, IsrNoCallback, IsrCallback, IsrCallbackReturn, history, TypeOK, ContextType
<1>2. /\ xfer'.done = xfer.done /\ xfer'.result = xfer.result /\ xfer'.id = xfer.id
      /\ xfer'.reading = xfer.reading /\ xfer'.n = xfer.n /\ xfer'.i = xfer.i
      /\ xfer'.async = xfer.async /\ ~xfer'.active
  <2>1. CASE IsrRelease
    BY <2>1 DEF IsrRelease, TypeOK, XferType
  <2>2. CASE IsrNoCallback \/ IsrCallback \/ IsrCallbackReturn
    <3>1. ~xfer.active
      BY <2>2 DEF Active, IsrNoCallback, IsrCallback, IsrCallbackReturn
    <3> QED
      BY <2>2, <3>1 DEF IsrNoCallback, IsrCallback, IsrCallbackReturn, TypeOK, XferType
  <2> QED
    BY <2>1, <2>2
<1>3. \A d \in Ctx : ~Kicking(d) /\ ~Kicking(d)' /\ (Starter(d)' <=> Starter(d))
  BY <1>1 DEF Active, Kicking, Starter, Ctx
<1>4. ~TA /\ ctrl \cap IntBits = {}
  BY <1>1 DEF Clock, Silent
<1>5. Programs' /\ Words'
  BY <1>1, <1>2, <1>3 DEF Programs, Words, Ctx, bscVars
<1>6. Clock'
  BY <1>1, <1>2, <1>4 DEF Clock, TA, bscVars
<1>7. Active' /\ Silent'
  BY <1>1, <1>2, <1>3, <1>4 DEF Active, Silent, bscVars, Ctx
<1>8. Programmed' /\ Conserved'
  BY <1>2, <1>3 DEF Programmed, Conserved, Clocked
<1>9. Truth'
  BY <1>1, <1>2 DEF Truth
<1> QED
  BY <1>5, <1>6, <1>7, <1>8, <1>9

\* The handler's part of start().
LEMMA ChainedSeam ==
  ASSUME Careful, TypeOK, OwnInv, SeamInv, IsrChained \/ (isr.pc = "kick" /\ Access("isr"))
  PROVE  SeamInv'
<1> USE DEF SeamInv
<1>1. isr.pc = "kick" /\ "isr" \in Ctx /\ at["isr"] \in Nat /\ Len(Program(prog["isr"])) = 16
  <2>1. isr.pc = "kick"
    BY DEF IsrChained
  <2>2. "isr" \in Ctx /\ Starter("isr")
    BY <2>1 DEF Ctx, Starter
  <2>3. prog["isr"] = "startRead" \/ prog["isr"] = "startWrite"
    BY <2>2 DEF Programs
  <2>4. at["isr"] \in Nat
    BY <2>2 DEF TypeOK, ProgType
  <2> QED
    BY <2>1, <2>2, <2>3, <2>4, StartLength DEF Program
<1>2. CASE Access("isr")
  <2>1. Kicking("isr")
    BY <1>1, <1>2 DEF Access, Ended, Kicking, Starter, Last
  <2> QED
    BY <1>1, <1>2, <2>1, KickSeam
<1>3. CASE IsrChained
  <2>1. /\ isr'.pc = "idle" /\ Ended("isr") /\ UNCHANGED <<bscVars, xfer, thread, history>>
        /\ prog' = [prog EXCEPT !["isr"] = "none"] /\ at' = [at EXCEPT !["isr"] = 1]
        /\ word' = word
    BY <1>3 DEF IsrChained, Unload, Load, TypeOK, ContextType
  <2>2. /\ prog'["isr"] = "none" /\ prog'["thread"] = prog["thread"]
        /\ at'["thread"] = at["thread"]
    <3>1. prog \in [Ctx -> ProgNames] /\ at \in [Ctx -> Nat \ {0}]
      BY DEF TypeOK, ProgType
    <3> QED
      BY <2>1, <3>1 DEF Ctx
  <2>3. ~Kicking("isr") /\ ~Kicking("thread") /\ xfer.active
    BY <1>1, <2>1 DEF Active, Ended, Kicking, Last
  <2>4. \A d \in Ctx : ~Kicking(d) /\ ~Kicking(d)'
    BY <2>1, <2>2, <2>3 DEF Kicking, Starter, Ctx
  <2>5. (Starter("thread")' <=> Starter("thread")) /\ ~Starter("isr")'
    BY <2>1 DEF Starter
  <2>6. word["isr"] = NoWord
    BY <1>1, <2>3 DEF Words
  <2>7. Programs' /\ Words'
    BY <1>1, <2>1, <2>2, <2>4, <2>5, <2>6 DEF Programs, Words, Ctx, bscVars
  <2>8. Clock' /\ Silent'
    BY <1>1, <2>1, <2>2, <2>3 DEF Clock, Silent, TA, bscVars, history
  <2>9. Active'
    BY <1>1, <2>1, <2>3, <2>4 DEF Active, history, Ctx
  <2>10. Programmed' /\ Truth'
    BY <2>1, <2>4 DEF Programmed, Truth, history
  <2>11. Conserved'
    BY <1>1, <2>1, <2>4 DEF Conserved, Clocked, Starting, TA, bscVars, history
  <2> QED
    BY <2>7, <2>8, <2>9, <2>10, <2>11
<1> QED
  BY <1>2, <1>3

\* So does every other step of the handler.
LEMMA IsrSeam == ASSUME Careful, TypeOK, OwnInv, SeamInv, IsrStep PROVE SeamInv'
<1>1. CASE IsrAccess
  BY <1>1, FinalizeSeam, ChainedSeam DEF IsrAccess
<1> QED
  BY <1>1, EnterSeam, DrainSeam, FillSeam, FinishSeam, LeaveSeam, PublishSeam, TailSeam,
     ChainedSeam DEF IsrStep

-----------------------------------------------------------------------------
(* The controller *)

\* What holds while the controller clocks, unless a slave wedged the bus.
LEMMA WireClocked ==
  ASSUME SeamInv, TA, TypeOK, OwnInv
  PROVE  /\ ~wire.wedged => Clocked /\ xfer.active /\ thread.pc # "abort"
         /\ \A d \in Ctx : ~Kicking(d)
         /\ isr.pc \in {"idle", "loop", "kick"}
         /\ stat = {} /\ wire.id = used /\ wire.reading = xfer.reading /\ used > 0 /\ used \in Ids
<1> USE DEF SeamInv
<1>1. stat = {} /\ wire.id = used /\ wire.reading = xfer.reading /\ used > 0 /\ used \in Ids
  BY Counters DEF Clock, TA
<1>2. \A d \in Ctx : ~Kicking(d)
  BY DEF Programmed
<1>3. isr.pc \in {"idle", "loop", "kick"}
  BY DEF Clock, TypeOK, ContextType
<1>4. ~wire.wedged => xfer.active /\ thread.pc # "abort"
  BY DEF Clock
<1> QED
  BY <1>1, <1>2, <1>3, <1>4 DEF Clocked, Starting

\* A byte of the transfer is clocked.
LEMMA ByteSeam ==
  ASSUME TypeOK, OwnInv, SeamInv, WireByte,
         moved' = IF ~wire.reading /\ Head(fifo) = wire.id
                  THEN [moved EXCEPT ![wire.id] = @ + 1] ELSE moved,
         UNCHANGED <<driver, used, want, outcome, cbs>>
  PROVE  SeamInv'
<1> USE DEF SeamInv
<1>1. /\ TA /\ ~wire.wedged /\ wire.left > 0
      /\ wire' = [wire EXCEPT !.left = @ - 1] /\ UNCHANGED <<ctrl, stat, dlen>>
      /\ wire.reading => fifo' = Append(fifo, wire.id)
      /\ ~wire.reading => fifo # <<>> /\ fifo' = Tail(fifo)
      /\ UNCHANGED <<xfer, thread, isr, prog, at, word, used, want, outcome>>
  BY DEF WireByte, RXD, driver
<1>2. /\ Clocked /\ xfer.active /\ thread.pc # "abort" /\ \A d \in Ctx : ~Kicking(d)
      /\ isr.pc \in {"idle", "loop", "kick"} /\ stat = {} /\ wire.id = used
      /\ wire.reading = xfer.reading /\ used > 0 /\ used \in Ids
  BY <1>1, WireClocked
<1>3. /\ wire'.id = used /\ wire'.left = wire.left - 1 /\ ~wire'.wedged
      /\ wire'.reading = xfer.reading /\ TA'
  BY <1>1, <1>2 DEF TypeOK, BscTypeOK, TA
<1>4. /\ \A d \in Ctx : (Starter(d)' <=> Starter(d)) /\ (Kicking(d)' <=> Kicking(d))
      /\ Clocked'
  BY <1>1, <1>2 DEF Clocked, Starting, Kicking, Starter
<1>5. /\ moved \in [Ids -> Nat]
      /\ \A id \in Ids : id # used => moved'[id] = moved[id]
      /\ xfer.reading => moved' = moved
  BY <1>1, <1>2, Counters
<1>6. Programs' /\ Words'
  BY <1>1, <1>4 DEF Programs, Words, StartName, Ctx
<1>7. Clock'
  <2>1. ~xfer.done
    BY <1>1 DEF Clock
  <2>2. \A id \in Ids : id > used => moved'[id] = 0
    BY <1>2, <1>5, Counters DEF Clock
  <2>3. xfer.reading => moved'[used] <= xfer.i
    BY <1>2, <1>5 DEF Clock
  <2> QED
    BY <1>1, <1>2, <1>3, <2>1, <2>2, <2>3 DEF Clock
<1>8. Active' /\ Silent'
  BY <1>1, <1>2, <1>4 DEF Active, Silent, Ctx
<1>9. Programmed'
  BY <1>2, <1>4 DEF Programmed
<1>10. Truth'
  <2>1. ~xfer.done
    BY <1>1 DEF Clock
  <2> QED
    BY <1>1, <1>2, <2>1 DEF Truth
<1>11. Conserved'
  <2>1. fifo \in Seq(0 .. MaxXfers) /\ used \in 0 .. MaxXfers
        /\ \A j \in 1 .. Len(fifo) : fifo[j] = used
    BY <1>2, Counters DEF Conserved
  <2>2. CASE xfer.reading
    <3>1. /\ Len(fifo') = Len(fifo) + 1 /\ \A j \in 1 .. Len(fifo') : fifo'[j] = used
      BY <1>1, <1>2, <2>1, <2>2, OneOwner
    <3>2. moved[used] = xfer.i /\ xfer.i + Len(fifo) + wire.left = xfer.n
      BY <1>1, <1>2, <2>2 DEF Conserved
    <3>3. xfer.i \in Nat /\ Len(fifo) \in Nat /\ wire.left \in Nat
      BY Counters
    <3>4. xfer.i + (Len(fifo) + 1) + (wire.left - 1) = xfer.i + Len(fifo) + wire.left
      BY <3>3, SMTT(30)
    <3>5. xfer.i + Len(fifo') + wire'.left = xfer.n
      BY <1>3, <3>1, <3>2, <3>4
    <3> QED
      BY <1>1, <1>3, <1>5, <2>2, <3>1, <3>2, <3>5 DEF Conserved
  <2>3. CASE ~xfer.reading
    <3>1. /\ Head(fifo) = used /\ \A j \in 1 .. Len(fifo') : fifo'[j] = used
      <4>1. fifo # <<>> => /\ Head(fifo) = used
                           /\ \A j \in 1 .. Len(Tail(fifo)) : Tail(fifo)[j] = used
        BY <2>1, OneOwner
      <4> QED
        BY <1>1, <1>2, <2>3, <4>1
    <3>2. moved' = [moved EXCEPT ![used] = @ + 1]
      BY <1>2, <2>3, <3>1
    <3>3. moved'[used] = moved[used] + 1
      BY <1>2, <1>5, <3>2
    <3>4. moved[used] + wire.left = xfer.n
      BY <1>1, <1>2, <2>3 DEF Conserved
    <3>5. moved[used] \in Nat /\ wire.left \in Nat
      BY <1>2, Counters
    <3>6. moved'[used] + wire'.left = xfer.n
      BY <1>3, <3>3, <3>4, <3>5
    <3> QED
      BY <1>1, <1>3, <2>3, <3>1, <3>6 DEF Conserved
  <2> QED
    BY <2>2, <2>3
<1> QED
  BY <1>6, <1>7, <1>8, <1>9, <1>10, <1>11

\* The transfer ends, or a slave wedges the bus.
LEMMA EndSeam ==
  ASSUME TypeOK, OwnInv, SeamInv, NEW bits, WireEnd(bits), UNCHANGED <<driver, history>>
  PROVE  SeamInv'
<1> USE DEF SeamInv
<1>1. /\ TA /\ ~wire.wedged /\ (bits = {"DONE"} <=> wire.left = 0)
      /\ stat' = stat \cup bits /\ wire' = IdleWire /\ UNCHANGED <<ctrl, dlen, fifo>>
      /\ UNCHANGED <<xfer, thread, isr, prog, at, word, used, want, outcome, moved>>
  BY DEF WireEnd, driver, history
<1>2. /\ Clocked /\ xfer.active /\ thread.pc # "abort" /\ \A d \in Ctx : ~Kicking(d)
      /\ isr.pc \in {"idle", "loop", "kick"} /\ stat = {}
  BY <1>1, WireClocked
<1>3. ~TA' /\ ~wire'.wedged /\ stat' = bits
  BY <1>1, <1>2 DEF TA, IdleWire
<1>4. /\ \A d \in Ctx : (Starter(d)' <=> Starter(d)) /\ (Kicking(d)' <=> Kicking(d))
      /\ Clocked'
  BY <1>1, <1>2 DEF Clocked, Starting, Kicking, Starter
<1>5. Programs' /\ Words'
  BY <1>1, <1>4 DEF Programs, Words, StartName, Ctx
<1>6. Clock'
  BY <1>1, <1>3 DEF Clock
<1>7. Active' /\ Silent'
  BY <1>1, <1>2, <1>4 DEF Active, Silent, Ctx
<1>8. Programmed' /\ Truth'
  BY <1>1, <1>2, <1>4 DEF Programmed, Truth
<1>9. Conserved'
  <2>1. stat' = {"DONE"} => wire.left = 0
    BY <1>1, <1>3
  <2>2. xfer.i \in Nat /\ Len(fifo) \in Nat /\ wire.left \in Nat /\ moved[used] \in Nat
    BY <1>1, WireClocked, Counters
  <2>3. stat' = {"DONE"} => /\ xfer.reading => xfer.i + Len(fifo) = xfer.n
                            /\ ~xfer.reading => moved[used] = xfer.n
    BY <1>1, <1>2, <2>1, <2>2 DEF Conserved
  <2> QED
    BY <1>1, <1>2, <1>3, <2>3 DEF Conserved
<1> QED
  BY <1>5, <1>6, <1>7, <1>8, <1>9

\* A slave that wedges the bus keeps the invariant: the transfer is never done.
LEMMA WedgeSeam ==
  ASSUME TypeOK, OwnInv, SeamInv, WireWedge, UNCHANGED <<driver, history>>
  PROVE  SeamInv'
<1> USE DEF SeamInv
<1>1. /\ TA /\ wire' = [wire EXCEPT !.wedged = TRUE] /\ UNCHANGED <<ctrl, stat, dlen, fifo>>
      /\ UNCHANGED <<xfer, thread, isr, prog, at, word, used, want, outcome, moved>>
  BY DEF WireWedge, driver, history
<1>2. wire'.id = wire.id /\ wire'.reading = wire.reading /\ wire'.left = wire.left /\ wire'.wedged
  BY <1>1 DEF TypeOK, BscTypeOK
<1>3. TA' /\ \A d \in Ctx : (Starter(d)' <=> Starter(d)) /\ (Kicking(d)' <=> Kicking(d))
  BY <1>1, <1>2 DEF Kicking, Starter, TA
<1>4. Programs' /\ Words'
  BY <1>1, <1>3 DEF Programs, Words, StartName, Ctx
<1>5. Clock'
  BY <1>1, <1>2, <1>3 DEF Clock
<1>6. Active' /\ Silent' /\ Truth'
  BY <1>1, <1>3 DEF Active, Silent, Truth, Ctx
<1>7. Programmed'
  BY <1>1, <1>3, WireClocked DEF Programmed
<1>8. Conserved'
  BY <1>1, <1>2, <1>3 DEF Conserved, Clocked, Starting
<1> QED
  BY <1>4, <1>5, <1>6, <1>7, <1>8

\* So does every step of the controller and of the slave.
LEMMA WireSeam ==
  ASSUME TypeOK, OwnInv, SeamInv, WireStep \/ WireFault
  PROVE  SeamInv'
<1>1. CASE WireStep
  <2>1. CASE WireEnd({"DONE"}) /\ UNCHANGED moved
    BY <1>1, <2>1, EndSeam DEF WireStep, history
  <2> QED
    BY <1>1, <2>1, ByteSeam DEF WireStep
<1>2. CASE WireFault
  BY <1>2, EndSeam, WedgeSeam DEF WireFault
<1> QED
  BY <1>1, <1>2

-----------------------------------------------------------------------------
(* The theorems *)

\* Nothing that the invariant speaks of changes in a stuttering step.
LEMMA Stutter == ASSUME SeamInv, UNCHANGED vars PROVE SeamInv'
<1> USE DEF SeamInv
<1>1. UNCHANGED <<ctrl, stat, dlen, fifo, wire, xfer, thread, isr, prog, at, word, used, want,
                  moved, outcome>>
  BY DEF vars, bscVars, driver, history
<1>2. \A d \in Ctx : (Starter(d)' <=> Starter(d)) /\ (Kicking(d)' <=> Kicking(d))
  BY <1>1 DEF Starter, Kicking
<1>3. Programs' /\ Words'
  BY <1>1, <1>2 DEF Programs, Words, StartName, Ctx
<1>4. Clock' /\ Silent' /\ Truth'
  BY <1>1 DEF Clock, Silent, Truth, TA
<1>5. Active'
  BY <1>1, <1>2 DEF Active, Ctx
<1>6. Programmed'
  BY <1>1, <1>2 DEF Programmed, TA
<1>7. Conserved'
  BY <1>1, <1>2 DEF Conserved, Clocked, Starting, TA
<1> QED
  BY <1>3, <1>4, <1>5, <1>6, <1>7

LEMMA SeamInit == Init => SeamInv
<1> SUFFICES ASSUME Init PROVE SeamInv
  OBVIOUS
<1>1. /\ ctrl = {} /\ stat = {} /\ ~TA /\ ~wire.wedged
      /\ xfer = NoXfer /\ thread.pc = "off" /\ thread.second = 0 /\ isr.pc = "idle"
      /\ prog = [c \in Ctx |-> "none"] /\ word = [c \in Ctx |-> NoWord] /\ used = 0
      /\ \A id \in Ids : moved[id] = 0 /\ want[id] = 0
  BY DEF Init, BscInit, IdleWire, TA
<1>2. ~xfer.active /\ ~xfer.done
  BY <1>1 DEF NoXfer
<1>3. \A c \in Ctx : ~Starter(c) /\ ~Kicking(c)
  BY <1>1 DEF Starter, Kicking, Ctx
<1>4. Programs /\ Words
  BY <1>1, <1>3 DEF Programs, Words, Ctx
<1>5. Clock /\ Active /\ Silent
  BY <1>1, <1>2, <1>3 DEF Clock, Active, Silent
<1>6. Programmed /\ Conserved /\ Truth
  BY <1>1, <1>2, <1>3 DEF Programmed, Conserved, Clocked, Truth
<1> QED
  BY <1>4, <1>5, <1>6 DEF SeamInv

LEMMA SeamNext ==
  ASSUME Careful, TypeOK, OwnInv, SeamInv, [Next]_vars
  PROVE  SeamInv'
  BY Stutter, ThreadSeam, CallSeam, ChainSeam, IsrSeam, WireSeam DEF Next

\* The invariant holds in every reachable state.
THEOREM SeamInvariant == ASSUME Careful PROVE Spec => [](TypeOK /\ OwnInv /\ SeamInv)
<1>1. TypeOK /\ OwnInv /\ SeamInv /\ [Next]_vars => SeamInv'
  BY SeamNext
<1>2. OneCore /\ Disciplined
  BY DEF Careful
<1> QED
  BY <1>1, <1>2, SeamInit, TypeCorrect, Ownership, PTL DEF Spec

\* Between transfers the interrupts of the controller are off: the handler is not
\* entered for a transfer that nobody waits for.
THEOREM QuietBetween == ASSUME Careful PROVE Spec => []InterruptsQuiet
<1>1. SeamInv => InterruptsQuiet
  BY DEF SeamInv, Silent, InterruptsQuiet
<1> QED
  BY <1>1, SeamInvariant, PTL

\* The handler stores into a buffer only while its caller waits: a buffer on the
\* stack of a call that returned is never written.
THEOREM BufferSafe == ASSUME Careful PROVE Spec => BufferOwned
<1>1. OwnInv /\ SeamInv /\ [Next]_vars => [IsrDrain => outcome[xfer.id] = "none"]_vars
  BY DEF IsrDrain, SeamInv, Active, OwnInv, CurrentIsLast
<1> QED
  BY <1>1, SeamInvariant, PTL DEF Spec, BufferOwned

-----------------------------------------------------------------------------
(* The transport implements the seam. *)

\* What a state of the transport is to the seam.
StatusOf(id) == IF outcome[id] # "none" THEN outcome[id]
                ELSE IF id <= used THEN "open" ELSE "new"
SeamStatus == [id \in Ids |-> StatusOf(id)]

\* The start of a transfer is a Begin of the seam.
LEMMA SeamBegin ==
  ASSUME TypeOK, OwnInv, NEW c \in Ctx, NEW reading \in BOOLEAN, NEW n \in Lens,
         NEW async \in BOOLEAN, Start(c, reading, n, async), used > 0 => outcome[used] # "none"
  PROVE  Seam!Next
<1>1. /\ used' = used + 1 /\ used' \in Ids /\ UNCHANGED <<moved, outcome>> /\ used \in Nat
      /\ want' = [want EXCEPT ![used + 1] = n]
  <2>1. used' = used + 1 /\ used' \in Ids
    BY OwnStart
  <2> QED
    BY <2>1, Counters DEF Start
<1>2. \A id \in Ids : /\ id \in Nat
                      /\ id > used => outcome[id] = "none"
                      /\ id <= used => outcome[id] # "none"
  <2>1. \A id \in Ids : id \in Nat /\ id > 0
    BY DEF Ids
  <2> QED
    BY <1>1, <2>1 DEF OwnInv, Reports
<1>3. SeamStatus[used + 1] = "new" /\ \A y \in Ids : SeamStatus[y] # "open"
  <2>1. ~(used + 1 <= used) /\ used + 1 > used
    BY <1>1
  <2>2. StatusOf(used + 1) = "new"
    BY <1>1, <1>2, <2>1 DEF StatusOf
  <2>3. ASSUME NEW y \in Ids PROVE StatusOf(y) # "open"
    <3>1. CASE y <= used
      <4>1. outcome[y] \in Results
        BY <1>2, <3>1 DEF TypeOK, HistoryType
      <4> QED
        BY <4>1 DEF StatusOf, Results
    <3>2. CASE ~(y <= used)
      BY <1>1, <1>2, <3>2 DEF StatusOf
    <3> QED
      BY <3>1, <3>2
  <2> QED
    BY <1>1, <2>2, <2>3 DEF SeamStatus
<1>4. SeamStatus' = [SeamStatus EXCEPT ![used + 1] = "open"]
  <2>1. \A id \in Ids : StatusOf(id)' = IF id = used + 1 THEN "open" ELSE StatusOf(id)
    BY <1>1, <1>2 DEF StatusOf
  <2> QED
    BY <1>1, <2>1 DEF SeamStatus
<1>5. Seam!Begin(used + 1, n)
  BY <1>1, <1>3, <1>4 DEF Seam!Begin, SeamStatus, StatusOf
<1> QED
  BY <1>1, <1>5 DEF Seam!Next

\* A byte moved for the current transfer is a Move of the seam.
LEMMA SeamMove ==
  ASSUME used \in Ids, outcome[used] = "none", moved[used] < want[used],
         moved' = [moved EXCEPT ![used] = @ + 1], UNCHANGED <<used, want, outcome>>
  PROVE  Seam!Next
<1>1. SeamStatus[used] = "open" /\ SeamStatus' = SeamStatus
  BY DEF SeamStatus, StatusOf, Ids
<1>2. Seam!Move(used)
  BY <1>1 DEF Seam!Move, SeamStatus, StatusOf
<1> QED
  BY <1>2 DEF Seam!Next

\* A report of the current transfer is a Finish of the seam.
LEMMA SeamFinish ==
  ASSUME TypeOK, used \in Ids, outcome[used] = "none", NEW result \in Results,
         Report(used, result), UNCHANGED <<used, want, moved>>,
         result = "Ok" => moved[used] = want[used]
  PROVE  Seam!Next
<1>1. /\ outcome' = [outcome EXCEPT ![used] = result] /\ result # "none"
      /\ outcome \in [Ids -> Results \cup {"none"}]
  BY DEF Report, TypeOK, HistoryType, Results
<1>2. SeamStatus[used] = "open"
  BY DEF SeamStatus, StatusOf, Ids
<1>3. SeamStatus' = [SeamStatus EXCEPT ![used] = result]
  <2>1. \A id \in Ids : StatusOf(id)' = IF id = used THEN result ELSE StatusOf(id)
    BY <1>1 DEF StatusOf
  <2> QED
    BY <1>1, <2>1 DEF SeamStatus
<1>4. Seam!Finish(used, result)
  BY <1>1, <1>2, <1>3 DEF Seam!Finish, SeamStatus, StatusOf
<1>5. result \in Seam!I2cResult
  BY DEF Results, Seam!I2cResult
<1> QED
  BY <1>4, <1>5 DEF Seam!Next

\* A step of the thread: a blocking call that ends reports the truth.
LEMMA ThreadSeamStep ==
  ASSUME Careful, TypeOK, OwnInv, SeamInv, ThreadStep
  PROVE  [Seam!Next]_(Seam!vars)
<1>1. CASE UNCHANGED history
  BY <1>1 DEF history, Seam!vars
<1>2. CASE ThreadAccess \/ Started \/ CheckPending \/ WaitForIrq \/ GiveUp
  BY <1>1, <1>2 DEF ThreadAccess, Access, Started, CheckPending, WaitForIrq, GiveUp
<1>3. thread.pc \in {"check", "abort"} => /\ thread.id = used /\ used \in Ids
                                          /\ outcome[used] = "none"
  BY Counters DEF OwnInv, SyncOpen
<1>4. CASE CheckDone
  <2>1. /\ thread.pc = "check" /\ xfer.done /\ Report(thread.id, xfer.result)
        /\ UNCHANGED <<used, want, moved>>
    BY <1>4 DEF CheckDone
  <2>2. xfer.result \in Results /\ (xfer.result = "Ok" => moved[used] = want[used])
    BY <2>1 DEF TypeOK, XferType, SeamInv, Truth
  <2> QED
    BY <1>3, <2>1, <2>2, SeamFinish
<1>5. CASE Aborted
  <2>1. /\ thread.pc = "abort" /\ Report(thread.id, "Timeout") /\ UNCHANGED <<used, want, moved>>
        /\ "Timeout" \in Results
    BY <1>5 DEF Aborted, Results
  <2> QED
    BY <1>3, <2>1, SeamFinish
<1> QED
  BY <1>2, <1>4, <1>5 DEF ThreadStep

\* A call: the transfer before it was reported.
LEMMA CallSeamStep ==
  ASSUME Careful, TypeOK, OwnInv, SeamInv, Call \/ IsrCall
  PROVE  [Seam!Next]_(Seam!vars)
<1>1. CASE Call
  <2>1. isr.pc = "idle"
    BY <1>1 DEF Call, ThreadRuns, Careful
  <2>2. thread.pc \in {"idle", "second"} /\ ~xfer.active /\ used > 0 => outcome[used] # "none"
    BY <2>1 DEF OwnInv, SyncReported, AsyncOpen
  <2>3. CASE BusInit
    BY <2>3 DEF BusInit, history, Seam!vars
  <2>4. ASSUME NEW n \in Lens, NEW reading \in BOOLEAN, NEW m, Blocking(reading, n, m)
        PROVE  Seam!Next
    <3>1. thread.pc = "idle" /\ ~xfer.active /\ Start("thread", reading, n, FALSE)
      BY <2>4 DEF Blocking, Careful
    <3> QED
      BY <2>2, <3>1, SeamBegin DEF Ctx
  <2>5. ASSUME NEW n \in Lens, NEW reading \in BOOLEAN, Async(reading, n)
        PROVE  Seam!Next
    <3>1. thread.pc = "idle" /\ ~xfer.active /\ Start("thread", reading, n, TRUE)
      BY <2>5 DEF Async
    <3> QED
      BY <2>2, <3>1, SeamBegin DEF Ctx
  <2>6. CASE SecondHalf
    <3>1. thread.pc = "second" /\ Start("thread", TRUE, thread.second, FALSE)
      BY <2>6 DEF SecondHalf
    <3>2. ~xfer.active /\ thread.second \in Lens
      BY <2>1, <3>1 DEF SeamInv, Active
    <3> QED
      BY <2>2, <3>1, <3>2, SeamBegin DEF Ctx
  <2> QED
    BY <1>1, <2>3, <2>4, <2>5, <2>6 DEF Call
<1>2. CASE IsrCall
  <2>1. PICK n \in Lens, reading \in BOOLEAN : IsrChain(reading, n)
    BY <1>2 DEF IsrCall
  <2>2. isr.pc = "user" /\ Start("isr", reading, n, TRUE)
    BY <2>1 DEF IsrChain
  <2>3. outcome[used] # "none"
    BY <2>2 DEF OwnInv, AsyncOpen, CurrentIsLast, TypeOK, XferType
  <2> QED
    BY <2>2, <2>3, SeamBegin DEF Ctx
<1> QED
  BY <1>1, <1>2

\* A step of the handler.
LEMMA IsrSeamStep ==
  ASSUME Careful, TypeOK, OwnInv, SeamInv, IsrStep
  PROVE  [Seam!Next]_(Seam!vars)
<1>1. CASE UNCHANGED history
  BY <1>1 DEF history, Seam!vars
<1>2. CASE IsrEnter \/ IsrFill \/ IsrFail \/ IsrDone \/ IsrReturn \/ IsrAccess
           \/ IsrPublish \/ IsrRelease \/ IsrNoCallback \/ IsrCallbackReturn \/ IsrChained
  BY <1>1, <1>2 DEF IsrEnter, IsrFill, IsrFail, IsrDone, Finalize, IsrReturn, IsrAccess, Access,
     IsrPublish, IsrRelease, IsrNoCallback, IsrCallbackReturn, IsrChained
<1>3. CASE IsrDrain
  <2>1. /\ isr.pc = "loop" /\ xfer.reading /\ xfer.i < xfer.n /\ xfer.id = used
        /\ moved' = IF Head(fifo) = used THEN [moved EXCEPT ![used] = @ + 1] ELSE moved
        /\ UNCHANGED <<used, want, outcome>>
    BY <1>3 DEF IsrDrain, MayDrain, OwnInv, CurrentIsLast
  <2>2. used > 0 /\ outcome[used] = "none" /\ want[used] = xfer.n /\ moved[used] <= xfer.i
    BY <2>1 DEF SeamInv, Active, Clock
  <2>3. used \in Ids /\ moved[used] < want[used]
    BY <2>1, <2>2, Counters
  <2>4. CASE Head(fifo) = used
    BY <2>1, <2>2, <2>3, <2>4, SeamMove
  <2>5. CASE Head(fifo) # used
    BY <2>1, <2>5 DEF Seam!vars
  <2> QED
    BY <2>4, <2>5
<1>4. CASE IsrCallback
  <2>1. /\ isr.pc = "callback" /\ xfer.cb /\ Report(xfer.id, isr.result)
        /\ UNCHANGED <<used, want, moved>>
    BY <1>4 DEF IsrCallback
  <2>2. xfer.async /\ xfer.id = used /\ used \in Ids /\ outcome[used] = "none"
    BY <2>1, Counters DEF OwnInv, CurrentIsLast, AsyncOpen
  <2>3. thread.pc # "abort"
    BY <2>2 DEF OwnInv, SyncOpen
  <2>4. isr.result \in Results /\ (isr.result = "Ok" => moved[used] = want[used])
    BY <2>1, <2>3 DEF TypeOK, ContextType, SeamInv, Truth
  <2> QED
    BY <2>1, <2>2, <2>4, SeamFinish
<1> QED
  BY <1>2, <1>3, <1>4 DEF IsrStep

\* A step of the controller: it clocks no byte that was not asked for.
LEMMA WireSeamStep ==
  ASSUME TypeOK, OwnInv, SeamInv, WireStep \/ WireFault
  PROVE  [Seam!Next]_(Seam!vars)
<1>1. UNCHANGED <<used, want, outcome>>
  BY DEF WireStep, WireFault, history
<1>2. CASE moved' = moved
  BY <1>1, <1>2 DEF Seam!vars
<1>3. CASE moved' # moved
  <2>1. /\ WireByte /\ ~wire.reading
        /\ moved' = [moved EXCEPT ![wire.id] = @ + 1]
    BY <1>3 DEF WireStep, WireFault, history
  <2>2. TA /\ ~wire.wedged /\ wire.left > 0
    BY <2>1 DEF WireByte
  <2>3. /\ wire.id = used /\ used > 0 /\ used \in Ids /\ ~xfer.reading /\ Clocked /\ xfer.active
    BY <2>1, <2>2, WireClocked
  <2>4. /\ outcome[used] = "none" /\ want[used] = xfer.n /\ moved[used] + wire.left = xfer.n
    BY <2>2, <2>3 DEF SeamInv, Active, Clock, Conserved
  <2>5. moved[used] \in Nat /\ wire.left \in Nat
    BY <2>3, Counters
  <2>6. moved[used] < want[used]
    BY <2>2, <2>4, <2>5
  <2> QED
    BY <1>1, <2>1, <2>3, <2>4, <2>6, SeamMove
<1> QED
  BY <1>2, <1>3

\* Every step of the transport is a step of the seam, or none.
LEMMA SeamStep ==
  ASSUME Careful, TypeOK, OwnInv, SeamInv, [Next]_vars
  PROVE  [Seam!Next]_(Seam!vars)
<1>1. CASE UNCHANGED vars
  BY <1>1 DEF vars, history, Seam!vars
<1> QED
  BY <1>1, ThreadSeamStep, CallSeamStep, IsrSeamStep, WireSeamStep DEF Next

\* The interrupt-driven transport implements the seam: one transfer is open at a
\* time, whoever began it; its bytes move while it is open and never after, no more
\* of them than were asked for; Ok means that all of them moved.
THEOREM Implements == ASSUME Careful PROVE Spec => ImplementsSeam
<1>1. Init => Seam!Init
  <2> SUFFICES ASSUME Init PROVE Seam!Init
    OBVIOUS
  <2>1. \A id \in Ids : ~(id <= 0)
    BY DEF Ids
  <2>2. SeamStatus = [id \in Ids |-> "new"]
    BY <2>1 DEF Init, SeamStatus, StatusOf
  <2> QED
    BY <2>2 DEF Init, Seam!Init, SeamStatus, StatusOf
<1>2. TypeOK /\ OwnInv /\ SeamInv /\ [Next]_vars => [Seam!Next]_(Seam!vars)
  BY SeamStep
<1> QED
  BY <1>1, <1>2, SeamInvariant, PTL DEF Spec, ImplementsSeam, Seam!Spec

\* Ok means that every byte of the transfer moved: a transfer that ended early is
\* told of as such, and no byte of another one is counted for it.
THEOREM AllMoved == ASSUME Careful PROVE Spec => []OkMeansMoved
<1>1. Init => OkMeansMoved
  BY DEF Init, OkMeansMoved
<1>2. OkMeansMoved /\ TypeOK /\ OwnInv /\ SeamInv /\ [Next]_vars => OkMeansMoved'
  <2> SUFFICES ASSUME OkMeansMoved, TypeOK, OwnInv, SeamInv, [Next]_vars, NEW id \in Ids,
                      outcome'[id] = "Ok"
               PROVE  moved'[id] = want'[id]
    BY DEF OkMeansMoved
  <2>1. [Seam!Next]_(Seam!vars)
    BY SeamStep
  <2>2. ASSUME SeamStatus[id] = "Ok" PROVE moved[id] = want[id]
    <3>1. outcome[id] = "Ok"
      BY <2>2 DEF SeamStatus, StatusOf
    <3> QED
      BY <3>1 DEF OkMeansMoved
  <2>3. SeamStatus'[id] = "Ok"
    BY DEF SeamStatus, StatusOf
  <2> DEFINE old == SeamStatus
             new == SeamStatus'
  <2>4. CASE UNCHANGED Seam!vars
    <3>1. new = old /\ UNCHANGED <<want, moved>>
      BY <2>4 DEF Seam!vars, SeamStatus, StatusOf
    <3> QED
      BY <2>2, <2>3, <3>1
  <2>5. ASSUME NEW x \in Ids, NEW n \in Lens, Seam!Begin(x, n) PROVE moved'[id] = want'[id]
    <3>1. new = [old EXCEPT ![x] = "open"] /\ want' = [want EXCEPT ![x] = n] /\ moved' = moved
      BY <2>5 DEF Seam!Begin, SeamStatus, StatusOf
    <3>2. x # id
      BY <2>3, <3>1 DEF SeamStatus
    <3>3. new[id] = old[id] /\ want'[id] = want[id]
      BY <3>1, <3>2 DEF TypeOK, HistoryType, SeamStatus
    <3> QED
      BY <2>2, <2>3, <3>1, <3>3
  <2>6. ASSUME NEW x \in Ids, Seam!Move(x) PROVE moved'[id] = want'[id]
    <3>1. /\ new = old /\ moved' = [moved EXCEPT ![x] = @ + 1] /\ want' = want
          /\ old[x] = "open"
      BY <2>6 DEF Seam!Move, SeamStatus, StatusOf
    <3>2. x # id
      BY <2>3, <3>1
    <3>3. moved'[id] = moved[id]
      BY <3>1, <3>2 DEF TypeOK, HistoryType
    <3> QED
      BY <2>2, <2>3, <3>1, <3>3
  <2>7. ASSUME NEW x \in Ids, NEW res, Seam!Finish(x, res) PROVE moved'[id] = want'[id]
    <3>1. /\ new = [old EXCEPT ![x] = res] /\ UNCHANGED <<moved, want>>
          /\ res = "Ok" => moved[x] = want[x]
      BY <2>7 DEF Seam!Finish, SeamStatus, StatusOf
    <3>2. CASE x = id
      BY <2>3, <3>1, <3>2 DEF SeamStatus
    <3>3. CASE x # id
      BY <2>2, <2>3, <3>1, <3>3 DEF SeamStatus
    <3> QED
      BY <3>2, <3>3
  <2> QED
    BY <2>1, <2>4, <2>5, <2>6, <2>7 DEF Seam!Next
<1> QED
  BY <1>1, <1>2, SeamInvariant, PTL DEF Spec

-----------------------------------------------------------------------------
(* Neither the handler nor the controller waits for the other. *)

\* The interrupt that start() enables besides INTD.
Direction == IF xfer.reading THEN "INTR" ELSE "INTT"

\* start() has enabled the interrupts, as far as it went; they stay enabled, and
\* DONE latched, until the handler is called back or the thread aborts.
Armed ==
  /\ \A c \in Ctx : Kicking(c) => /\ at[c] > 8 => Direction \in ctrl
                                  /\ at[c] > 10 => "INTD" \in ctrl
  /\ Clocked => {"INTD", Direction} \subseteq ctrl /\ (TA \/ "DONE" \in stat)

\* The steps of start() that enable the interrupts.
LEMMA ArmSteps ==
  /\ StartProg(TRUE)[8] = Set("INTR") /\ StartProg(FALSE)[8] = Set("INTT")
  /\ \A r \in BOOLEAN : /\ StartProg(r)[9] = Clr("INTD") /\ StartProg(r)[10] = Set("INTD")
                        /\ StartProg(r)[11] = Clr("I2CEN") /\ StartProg(r)[12] = Set("I2CEN")
                        /\ StartProg(r)[13] = Clr("READ")
                        /\ StartProg(r)[14] \in {Set("READ"), RmwOp({}, {})}
                        /\ StartProg(r)[15] = Clr("ST") /\ StartProg(r)[16] = Set("ST")
  BY DEF StartProg

\* The steps after that leave them enabled; the last one starts the controller.
LEMMA KickArms ==
  ASSUME TypeOK, OwnInv, SeamInv, Armed, NEW c \in Ctx, Kicking(c), Access(c)
  PROVE  Armed'
<1> DEFINE p == StartProg(xfer.reading)
           k == at[c]
<1>1. xfer.reading \in BOOLEAN /\ k \in 1 .. 16 /\ (Reads(c) \/ (Steps(c) /\ Effect(c)))
  <2>1. xfer.reading \in BOOLEAN
    BY DEF TypeOK, XferType
  <2> QED
    BY <2>1, KickDoes
<1>2. Program(prog[c]) = p
  <2>1. prog[c] = StartName
    BY DEF SeamInv, Programs
  <2> QED
    BY <1>1, <2>1 DEF StartName, Program
<1>3. /\ UNCHANGED <<xfer, thread, isr, prog>>
      /\ \A d \in Ctx : Starter(d)' <=> Starter(d)
      /\ \A d \in Ctx : d # c => at'[d] = at[d] /\ ~Kicking(d)
      /\ word[c] # NoWord => word[c] = ctrl
  <2>1. UNCHANGED <<xfer, thread, isr, prog>> /\ \A d \in Ctx : d # c => at'[d] = at[d]
    BY <1>1 DEF Reads, Steps, TypeOK, ProgType
  <2>2. \A d \in Ctx : Starter(d)' <=> Starter(d)
    BY <2>1 DEF Starter
  <2> QED
    BY <2>1, <2>2, Alone
<1>4. Direction' = Direction /\ Direction \in {"INTR", "INTT"}
  BY <1>3 DEF Direction
<1>5. CASE Reads(c)
  BY <1>3, <1>4, <1>5 DEF Reads, Armed, Kicking, Clocked, Starting, TA, bscVars
<1>6. CASE Steps(c) /\ Effect(c)
  <2> DEFINE op == p[k]
             w == ctrl'
  <2>1. at'[c] = k + 1 /\ ~Reads(c)
    BY <1>1, <1>6 DEF Steps, Reads, TypeOK, ProgType
  <2>2. /\ \A f : op = Clr(f) => StoreC(ctrl \ {f}, xfer.id)
        /\ \A f : op = Set(f) => StoreC(ctrl \cup {f}, xfer.id)
        /\ op = RmwOp({}, {}) => StoreC(ctrl, xfer.id)
    BY <1>2, <1>3, <2>1, AccessOf
  <2>3. /\ \A f : op = Clr(f) => ctrl' = (ctrl \ {f}) \ Strobes
        /\ \A f : op = Set(f) => ctrl' = (ctrl \cup {f}) \ Strobes
        /\ op = RmwOp({}, {}) => ctrl' = ctrl \ Strobes
    BY <2>2 DEF StoreC
  <2>4. k = 8 => Direction \in w
    BY <1>1, <1>4, <2>3, ArmSteps DEF Direction, Strobes
  <2>5. k \in 9 .. 16 /\ Direction \in ctrl => Direction \in w
    BY <1>1, <1>4, <2>3, ArmSteps DEF Strobes
  <2>6. k = 10 => "INTD" \in w
    BY <1>1, <2>3, ArmSteps DEF Strobes
  <2>7. k \in 11 .. 16 /\ "INTD" \in ctrl => "INTD" \in w
    BY <1>1, <2>3, ArmSteps DEF Strobes
  <2>8. k = 16 => TA'
    <3>1. k = 16 => StoreC(ctrl \cup {"ST"}, xfer.id) /\ "I2CEN" \in ctrl /\ ~TA
      BY <1>6 DEF Effect, SeamInv, Programmed
    <3>2. xfer.id # 0
      BY DEF SeamInv, Programmed, Active, OwnInv, CurrentIsLast, TypeOK, XferType, HistoryType
    <3> QED
      BY <3>1, <3>2 DEF StoreC, TA
  <2>9. Clocked' => k = 16
    BY <1>1, <1>3, <2>1 DEF Clocked, Starting, Kicking, Last
  <2>10. \A d \in Ctx : Kicking(d)' => d = c
    BY <1>3 DEF Kicking
  <2>11. (k >= 8 => Direction \in w) /\ (k >= 10 => "INTD" \in w)
    <3>1. (k > 8 => Direction \in ctrl) /\ (k > 10 => "INTD" \in ctrl)
      BY DEF Armed
    <3>2. k \in Nat
      BY <1>1
    <3> QED
      BY <1>1, <2>4, <2>5, <2>6, <2>7, <3>1, <3>2
  <2>12. \A d \in Ctx : Kicking(d)' => /\ at'[d] > 8 => Direction' \in ctrl'
                                       /\ at'[d] > 10 => "INTD" \in ctrl'
    <3> SUFFICES ASSUME NEW d \in Ctx, Kicking(d)'
                 PROVE  /\ at'[d] > 8 => Direction' \in ctrl'
                        /\ at'[d] > 10 => "INTD" \in ctrl'
      OBVIOUS
    <3>1. at'[d] = k + 1 /\ k \in Nat
      BY <1>1, <2>1, <2>10
    <3>2. (at'[d] > 8 => k >= 8) /\ (at'[d] > 10 => k >= 10)
      BY <3>1
    <3> QED
      BY <3>2, <1>4, <2>11
  <2>13. Clocked' => {"INTD", Direction'} \subseteq ctrl' /\ TA'
    BY <1>1, <1>4, <2>8, <2>9, <2>11
  <2>14. Clocked' => {"INTD", Direction'} \subseteq ctrl' /\ (TA' \/ "DONE" \in stat')
    BY <2>13
  <2> HIDE DEF p, k, op, w
  <2> QED
    BY <2>12, <2>14 DEF Armed
<1> QED
  BY <1>1, <1>5, <1>6

\* A step that leaves the controller and the register programs alone, and lets
\* nobody in.
LEMMA ArmedFrame ==
  ASSUME Armed, UNCHANGED <<ctrl, stat, wire>>, xfer'.reading = xfer.reading,
         Clocked' => Clocked,
         \A c \in Ctx : Kicking(c)' => Kicking(c) /\ at'[c] = at[c]
  PROVE  Armed'
  BY DEF Armed, Direction, TA

\* So does the start of a transfer, until its eighth step.
LEMMA StartArmed ==
  ASSUME TypeOK, Armed, NEW c \in Ctx, NEW reading, NEW n, NEW async, Start(c, reading, n, async),
         \A d \in Ctx : d # c => ~Kicking(d)', Starter(c)'
  PROVE  Armed'
<1>1. at'[c] = 1 /\ \A d \in Ctx : Kicking(d)' => d = c
  BY DEF Start, Load, TypeOK, ProgType
<1>2. ~Clocked'
  BY <1>1 DEF Clocked, Starting, Kicking, Last
<1> QED
  BY <1>1, <1>2 DEF Armed

\* The thread's steps.
LEMMA ThreadArmed ==
  ASSUME Careful, TypeOK, OwnInv, SeamInv, Armed, ThreadStep
  PROVE  Armed'
<1>1. isr.pc = "idle" /\ ~Starter("isr") /\ "thread" \in Ctx /\ "isr" \in Ctx
      /\ \A c \in Ctx : c = "thread" \/ c = "isr"
  BY DEF ThreadStep, ThreadRuns, Careful, Starter, Ctx
<1>2. CASE ThreadAccess /\ thread.pc # "abort"
  <2>1. Starter("thread") /\ ~Ended("thread") /\ Access("thread")
    BY <1>2 DEF ThreadAccess, Starter, Access
  <2>2. Kicking("thread")
    <3>1. Len(Program(prog["thread"])) = 16
      BY <1>1, <2>1, StartLength DEF SeamInv, Programs, Program
    <3> QED
      BY <1>1, <2>1, <3>1 DEF Ended, Kicking, Last, TypeOK, ProgType
  <2> QED
    BY <1>1, <2>1, <2>2, KickArms
<1>3. CASE ThreadAccess /\ thread.pc = "abort"
  <2>1. UNCHANGED <<thread, isr>> /\ ~Clocked' /\ \A c \in Ctx : ~Kicking(c)'
    BY <1>1, <1>3 DEF ThreadAccess, Access, Clocked, Kicking, Starter
  <2> QED
    BY <2>1 DEF Armed
<1>4. CASE Started
  <2>1. thread'.pc \in {"check", "idle"} /\ isr' = isr /\ ~Kicking("thread") /\ ~Kicking("isr")
    <3>1. Len(Program(prog["thread"])) = 16 /\ at["thread"] > 16
      BY <1>1, <1>4, StartLength DEF Started, Ended, SeamInv, Programs, Program, Starter
    <3>2. ~(at["thread"] <= 16)
      BY <1>1, <3>1 DEF TypeOK, ProgType
    <3> QED
      BY <1>1, <1>4, <3>2 DEF Started, TypeOK, ContextType, Kicking, Last
  <2>2. \A c \in Ctx : ~Kicking(c)' /\ ~Kicking(c)
    BY <1>1, <2>1 DEF Kicking, Starter
  <2>3. UNCHANGED <<ctrl, stat, wire, xfer>> /\ thread.pc # "abort"
    BY <1>4 DEF Started, bscVars
  <2> QED
    BY <1>1, <2>1, <2>2, <2>3, ArmedFrame DEF Clocked, Starting
<1>5. CASE CheckPending \/ CheckDone \/ WaitForIrq
  <2>1. /\ thread.pc \in {"check", "wait"} /\ thread'.pc \in {"check", "wait", "second", "idle"}
        /\ UNCHANGED <<ctrl, stat, wire, xfer, isr, at>>
    BY <1>5 DEF CheckPending, CheckDone, WaitForIrq, bscVars, TypeOK, ContextType
  <2>2. \A c \in Ctx : ~Kicking(c)' /\ ~Kicking(c)
    BY <1>1, <2>1 DEF Kicking, Starter
  <2> QED
    BY <1>1, <2>1, <2>2, ArmedFrame DEF Clocked, Starting
<1>6. CASE GiveUp \/ Aborted
  <2>1. isr' = isr /\ (thread'.pc = "abort" \/ (thread'.pc = "idle" /\ ~xfer'.active))
    <3>1. CASE GiveUp
      BY <3>1 DEF GiveUp, TypeOK, ContextType
    <3>2. CASE Aborted
      BY <3>2 DEF Aborted, TypeOK, ContextType, XferType
    <3> QED
      BY <1>6, <3>1, <3>2
  <2>2. ~Clocked' /\ \A c \in Ctx : ~Kicking(c)'
    BY <1>1, <2>1 DEF Clocked, Kicking, Starter
  <2> QED
    BY <2>2 DEF Armed
<1> QED
  BY <1>2, <1>3, <1>4, <1>5, <1>6 DEF ThreadStep

\* Calls, and callbacks that start the next transfer.
LEMMA CallArmed ==
  ASSUME Careful, TypeOK, OwnInv, SeamInv, Armed, Call \/ IsrCall
  PROVE  Armed'
<1>0. "thread" \in Ctx /\ "isr" \in Ctx /\ \A c \in Ctx : c = "thread" \/ c = "isr"
  BY DEF Ctx
<1>1. CASE Call
  <2>1. isr.pc = "idle"
    BY <1>1 DEF Call, ThreadRuns, Careful
  <2>2. CASE BusInit
    <3>1. /\ thread'.pc = "idle" /\ thread.pc = "off" /\ ctrl \subseteq ctrl'
          /\ UNCHANGED <<stat, wire, xfer, isr, at>>
      BY <2>2 DEF BusInit, TypeOK, ContextType
    <3>2. \A c \in Ctx : ~Kicking(c)' /\ ~Kicking(c)
      BY <1>0, <2>1, <3>1 DEF Kicking, Starter
    <3> QED
      BY <2>1, <3>1, <3>2 DEF Armed, Clocked, Starting, Direction, TA
  <2>3. ASSUME NEW reading, NEW n, NEW async, Start("thread", reading, n, async),
               thread'.pc \in {"start", "kick"}, isr' = isr
        PROVE  Armed'
    <3>1. Starter("thread")' /\ ~Kicking("isr")'
      BY <2>1, <2>3 DEF Starter, Kicking
    <3> QED
      BY <1>0, <2>3, <3>1, StartArmed
  <2>4. CASE SecondHalf
    BY <2>3, <2>4 DEF SecondHalf
  <2>5. ASSUME NEW n, NEW reading, NEW m, Blocking(reading, n, m) PROVE Armed'
    BY <2>3, <2>5 DEF Blocking
  <2>6. ASSUME NEW n, NEW reading, Async(reading, n) PROVE Armed'
    BY <2>3, <2>6 DEF Async
  <2> QED
    BY <1>1, <2>2, <2>4, <2>5, <2>6 DEF Call
<1>2. CASE IsrCall
  <2>1. PICK n \in Lens, reading \in BOOLEAN : IsrChain(reading, n)
    BY <1>2 DEF IsrCall
  <2>2. isr.pc = "user" /\ isr'.pc = "kick" /\ thread' = thread /\ Start("isr", reading, n, TRUE)
    BY <2>1 DEF IsrChain, TypeOK, ContextType
  <2>3. ~Kicking("thread")'
    <3>1. ~Kicking("thread") /\ at'["thread"] = at["thread"]
      BY <1>0, <2>2 DEF SeamInv, Active, Start, Load, TypeOK, ProgType
    <3> QED
      BY <2>2, <3>1 DEF Kicking, Starter
  <2> QED
    <3>1. Starter("isr")'
      BY <2>2 DEF Starter
    <3> QED
      BY <1>0, <2>2, <2>3, <3>1, StartArmed
<1> QED
  BY <1>1, <1>2

\* The handler's steps.
LEMMA IsrArmed ==
  ASSUME Careful, TypeOK, OwnInv, SeamInv, Armed, IsrStep
  PROVE  Armed'
<1>0. "thread" \in Ctx /\ "isr" \in Ctx /\ \A c \in Ctx : c = "thread" \/ c = "isr"
  BY DEF Ctx
<1>1. CASE IsrEnter \/ IsrReturn
  <2>1. /\ isr.pc \in {"idle", "loop"} /\ isr'.pc \in {"idle", "loop"}
        /\ UNCHANGED <<ctrl, stat, wire, xfer, thread, at>>
    BY <1>1 DEF IsrEnter, IsrReturn, TypeOK, ContextType, bscVars
  <2>2. \A c \in Ctx : Kicking(c)' <=> Kicking(c)
    BY <1>0, <2>1 DEF Kicking, Starter
  <2> QED
    BY <2>1, <2>2, ArmedFrame DEF Clocked, Starting
<1>2. CASE IsrDrain \/ IsrFill
  <2>1. /\ UNCHANGED <<ctrl, stat, wire, thread, isr, at>>
        /\ xfer'.reading = xfer.reading /\ xfer'.active = xfer.active
    BY <1>2 DEF IsrDrain, IsrFill, ReadByte, WriteByte, TypeOK, XferType
  <2>2. \A c \in Ctx : Kicking(c)' <=> Kicking(c)
    BY <2>1 DEF Kicking, Starter
  <2> QED
    BY <2>1, <2>2, ArmedFrame DEF Clocked, Starting
<1>3. ASSUME isr.pc # "idle", thread' = thread, at'["thread"] = at["thread"],
             isr'.pc # "kick", ~Clocked'
      PROVE  Armed'
  <2>1. ~Kicking("isr")' /\ ~Kicking("thread")
    BY <1>3 DEF SeamInv, Active, Kicking, Starter
  <2>2. \A c \in Ctx : ~Kicking(c)'
    BY <1>0, <1>3, <2>1 DEF Kicking, Starter
  <2> QED
    BY <1>3, <2>2 DEF Armed
<1>4. CASE IsrFail \/ IsrDone
  <2>1. /\ isr.pc = "loop" /\ isr'.pc = "finalize" /\ thread' = thread
        /\ at'["thread"] = at["thread"]
    BY <1>0, <1>4 DEF IsrFail, IsrDone, Finalize, Load, TypeOK, ProgType
  <2> QED
    BY <1>3, <2>1 DEF Clocked
<1>5. CASE IsrAccess /\ isr.pc = "finalize"
  <2>1. UNCHANGED <<isr, thread>> /\ Access("isr") /\ at'["thread"] = at["thread"]
    BY <1>0, <1>5 DEF IsrAccess, Access, Advance, TypeOK, ProgType
  <2> QED
    BY <1>3, <1>5, <2>1 DEF Clocked
<1>6. CASE IsrAccess /\ isr.pc = "kick"
  <2>1. Starter("isr") /\ ~Ended("isr") /\ Access("isr")
    BY <1>6 DEF IsrAccess, Starter, Access
  <2>2. Kicking("isr")
    <3>1. Len(Program(prog["isr"])) = 16
      BY <1>0, <2>1, StartLength DEF SeamInv, Programs, Program
    <3> QED
      BY <1>0, <2>1, <3>1 DEF Ended, Kicking, Last, TypeOK, ProgType
  <2> QED
    BY <1>0, <2>1, <2>2, KickArms
<1>7. CASE IsrPublish \/ IsrRelease \/ IsrCallback
  <2>1. /\ isr.pc # "idle" /\ isr'.pc \in {"release", "callback", "user"} /\ thread' = thread
        /\ at'["thread"] = at["thread"]
    BY <1>0, <1>7 DEF IsrPublish, IsrRelease, IsrCallback, Unload, Load, TypeOK, ProgType,
       ContextType
  <2> QED
    BY <1>3, <2>1 DEF Clocked
<1>8. CASE IsrNoCallback \/ IsrCallbackReturn
  <2>1. /\ isr.pc \in {"callback", "user"} /\ isr'.pc = "idle" /\ UNCHANGED <<thread, at, xfer>>
    BY <1>8 DEF IsrNoCallback, IsrCallbackReturn, TypeOK, ContextType
  <2>2. ~xfer.active
    BY <2>1 DEF SeamInv, Active
  <2> QED
    BY <1>3, <2>1, <2>2 DEF Clocked
<1>9. CASE IsrChained
  <2>1. /\ isr.pc = "kick" /\ isr'.pc = "idle" /\ Ended("isr") /\ at'["thread"] = at["thread"]
        /\ UNCHANGED <<ctrl, stat, wire, xfer, thread>>
    BY <1>0, <1>9 DEF IsrChained, Unload, Load, TypeOK, ProgType, ContextType, bscVars
  <2>2. ~Kicking("thread") /\ ~Kicking("isr")
    <3>1. Len(Program(prog["isr"])) = 16
      BY <1>0, <2>1, StartLength DEF SeamInv, Programs, Program, Starter
    <3>2. ~(at["isr"] <= 16)
      BY <1>0, <2>1, <3>1 DEF Ended, TypeOK, ProgType
    <3> QED
      BY <2>1, <3>2 DEF SeamInv, Active, Kicking, Last
  <2>3. ~Kicking("thread")' /\ ~Kicking("isr")'
    BY <2>1, <2>2 DEF Kicking, Starter
  <2> QED
    BY <1>0, <2>1, <2>2, <2>3, ArmedFrame DEF Clocked, Starting
<1> QED
  BY <1>1, <1>2, <1>4, <1>5, <1>6, <1>7, <1>8, <1>9 DEF IsrStep, IsrAccess

\* The controller's steps: it leaves the control register alone, and leaves DONE
\* behind when it ends.
LEMMA WireArmed ==
  ASSUME TypeOK, Armed, WireStep \/ WireFault
  PROVE  Armed'
<1>1. UNCHANGED <<ctrl, xfer, thread, isr, at>>
  BY DEF WireStep, WireFault, WireByte, WireEnd, WireWedge, driver, history
<1>2. TA' \/ "DONE" \in stat' \/ ~TA
  BY DEF WireStep, WireFault, WireByte, WireEnd, WireWedge, TA, TypeOK, BscTypeOK
<1>3. "DONE" \in stat => "DONE" \in stat'
  BY DEF WireStep, WireFault, WireByte, WireEnd, WireWedge
<1>4. (Clocked' <=> Clocked) /\ \A c \in Ctx : Kicking(c)' <=> Kicking(c)
  BY <1>1 DEF Clocked, Starting, Kicking, Starter
<1> QED
  BY <1>1, <1>2, <1>3, <1>4 DEF Armed, Direction

\* From the end of start() until the handler finalizes or the thread aborts, the
\* interrupts of the transfer are enabled, and DONE stays latched.
LEMMA ArmedNext ==
  ASSUME Careful, TypeOK, OwnInv, SeamInv, Armed, [Next]_vars
  PROVE  Armed'
<1>1. CASE UNCHANGED vars
  BY <1>1 DEF vars, bscVars, driver, Armed, Direction, Clocked, Starting, Kicking, Starter, TA
<1> QED
  BY <1>1, ThreadArmed, CallArmed, IsrArmed, WireArmed DEF Next

LEMMA ArmedInit == Init => Armed
  BY DEF Init, NoXfer, Armed, Clocked, Kicking, Starter, Ctx

LEMMA NeverStuck ==
  TypeOK /\ OwnInv /\ SeamInv /\ Armed => NoLostInterrupt
<1> SUFFICES ASSUME TypeOK, SeamInv, Armed, xfer.active, isr.pc = "idle",
                    thread.pc \notin {"start", "kick", "abort"}, ~Line, ~wire.wedged
             PROVE  TA /\ (wire.left = 0 \/ IF wire.reading THEN TXD ELSE RXD)
  BY DEF NoLostInterrupt
<1>1. Clocked
  BY DEF Clocked, Starting, Kicking, Starter
<1>2. {"INTD", Direction} \subseteq ctrl /\ TA
  BY <1>1 DEF Armed, Line
<1>3. wire.reading = xfer.reading /\ wire.left \in Nat
  BY <1>2, Counters DEF SeamInv, Clock
<1>4. CASE wire.reading
  <2>1. ~RXR
    BY <1>2, <1>3, <1>4 DEF Direction, Line
  <2>2. TXD
    BY <1>2, <1>4, <2>1, BscAssumption DEF RXR, TXD, TypeOK, BscTypeOK
  <2> QED
    BY <1>2, <1>4, <2>2
<1>5. CASE ~wire.reading
  <2>1. ~TXW
    BY <1>2, <1>3, <1>5 DEF Direction, Line
  <2>2. wire.left = 0 \/ fifo # <<>>
    BY <1>2, <1>3, <1>5, <2>1, BscAssumption DEF TXW
  <2> QED
    BY <1>2, <1>5, <2>2 DEF RXD
<1> QED
  BY <1>4, <1>5

\* While a transfer is active and nobody starts, handles or aborts it, the
\* controller can go on by itself or the line is up: with INTD alone a transfer
\* longer than the FIFO would stop for good.
THEOREM HandlerComesBack == ASSUME Careful PROVE Spec => []NoLostInterrupt
  BY NeverStuck, ArmedInit, ArmedNext, SeamInvariant, PTL DEF Spec
=============================================================================
