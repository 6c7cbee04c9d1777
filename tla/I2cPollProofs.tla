--------------------------- MODULE I2cPollProofs ---------------------------
(***************************************************************************)
(* Theorems about module I2cPoll: type correctness for every value of its  *)
(* constants; and, for callers with a patient budget and lengths that DLEN *)
(* can hold, that the bus is released, that Timeout is for a wedged bus,   *)
(* that Ok means moved, and that the transport implements the seam.        *)
(***************************************************************************)
EXTENDS I2cPoll, TLAPS

-----------------------------------------------------------------------------
(* Type correctness *)

\* The program of prime() and start_read() or start_write(), step by step.
LEMMA PrimeSteps ==
  ASSUME NEW r \in BOOLEAN
  PROVE  /\ Len(Prime(r)) = 8
         /\ Prime(r)[1] = SetC("CLEAR") /\ Prime(r)[2] = W1cOp("DONE")
         /\ Prime(r)[3] = W1cOp("ERR") /\ Prime(r)[4] = W1cOp("CLKT")
         /\ Prime(r)[5] = DlenOp /\ Prime(r)[6] = SetC("I2CEN")
         /\ Prime(r)[7] = IF r THEN SetC("READ") ELSE RmwOp({"READ"}, {})
         /\ Prime(r)[8] = SetC("ST")
  BY DEF Prime

\* What each step of the program does to the controller.
LEMMA PrimeStepDoes ==
  ASSUME TypeOK, PrimeStep
  PROVE  /\ call.k \in 1 .. 8
         /\ call.k = 1 => StoreC(ctrl \cup {"CLEAR"}, call.id)
         /\ call.k = 2 => ClrStatus({"DONE"})
         /\ call.k = 3 => ClrStatus({"ERR"})
         /\ call.k = 4 => ClrStatus({"CLKT"})
         /\ call.k = 5 => DataLength(call.n)
         /\ call.k = 6 => StoreC(ctrl \cup {"I2CEN"}, call.id)
         /\ call.k = 7 => IF call.reading THEN StoreC(ctrl \cup {"READ"}, call.id)
                                          ELSE StoreC(ctrl \ {"READ"}, call.id)
         /\ call.k = 8 => StoreC(ctrl \cup {"ST"}, call.id)
<1> DEFINE op == Prime(call.reading)[call.k]
<1>1. call.reading \in BOOLEAN /\ call.k \in Nat \ {0}
  BY DEF TypeOK
<1>2. call.k \in 1 .. 8
  BY <1>1, PrimeSteps DEF PrimeStep
<1>3. \/ op.k = "rmw" /\ StoreC((ctrl \ op.off) \cup op.on, call.id)
      \/ op.k = "w1c" /\ ClrStatus(op.off)
      \/ op.k = "dlen" /\ DataLength(call.n)
  BY DEF PrimeStep
<1>4. ASSUME NEW f PROVE (ctrl \ {f}) \cup {f} = ctrl \cup {f}
  OBVIOUS
<1>5. ASSUME NEW f PROVE /\ SetC(f).k = "rmw" /\ SetC(f).off = {f} /\ SetC(f).on = {f}
                         /\ W1cOp(f).k = "w1c" /\ W1cOp(f).off = {f}
                         /\ DlenOp.k = "dlen"
                         /\ RmwOp({f}, {}).k = "rmw" /\ RmwOp({f}, {}).off = {f}
                         /\ RmwOp({f}, {}).on = {}
  BY DEF SetC, RmwOp, W1cOp, DlenOp
<1>6. ASSUME NEW f, op = SetC(f) PROVE StoreC(ctrl \cup {f}, call.id)
  <2>1. op.k = "rmw" /\ op.off = {f} /\ op.on = {f}
    BY <1>5, <1>6
  <2> QED
    BY <1>3, <1>4, <2>1
<1>7. ASSUME NEW f, op = W1cOp(f) PROVE ClrStatus({f})
  <2>1. op.k = "w1c" /\ op.off = {f}
    BY <1>5, <1>7
  <2> QED
    BY <1>3, <2>1
<1>8. ASSUME op = DlenOp PROVE DataLength(call.n)
  <2>1. op.k = "dlen"
    BY <1>5, <1>8
  <2> QED
    BY <1>3, <2>1
<1>9. ASSUME op = RmwOp({"READ"}, {}) PROVE StoreC(ctrl \ {"READ"}, call.id)
  <2>1. op.k = "rmw" /\ op.off = {"READ"} /\ op.on = {}
    BY <1>5, <1>9
  <2>2. (ctrl \ {"READ"}) \cup {} = ctrl \ {"READ"}
    OBVIOUS
  <2> QED
    BY <1>3, <2>1, <2>2
<1>10. /\ call.k = 1 => op = SetC("CLEAR")
       /\ call.k = 2 => op = W1cOp("DONE")
       /\ call.k = 3 => op = W1cOp("ERR")
       /\ call.k = 4 => op = W1cOp("CLKT")
       /\ call.k = 5 => op = DlenOp
       /\ call.k = 6 => op = SetC("I2CEN")
       /\ call.k = 7 => op = IF call.reading THEN SetC("READ") ELSE RmwOp({"READ"}, {})
       /\ call.k = 8 => op = SetC("ST")
  BY <1>1, PrimeSteps
<1> HIDE DEF op
<1> QED
  BY <1>2, <1>6, <1>7, <1>8, <1>9, <1>10

\* The type of the call, as in TypeOK.
CallType == [pc : {"idle", "prime", "poll", "act", "second"},
             id : 0 .. MaxXfers, reading : BOOLEAN, n : Nat, i : Nat,
             k : Nat \ {0}, spin : Nat, second : Nat]

\* The next turn of the loop, with one more byte handled, is well typed.
LEMMA SpinTypes ==
  ASSUME call \in CallType, call.i + 1 <= call.n, call.spin <= MaxSpins, SpinMoved
  PROVE  call' \in CallType /\ call'.i <= call'.n /\ call'.spin <= MaxSpins
<1> DEFINE sp == IF call.spin < MaxSpins THEN call.spin + 1 ELSE call.spin
<1>1. /\ call.spin \in Nat /\ call.i \in Nat /\ call.n \in Nat /\ MaxSpins \in Nat
      /\ sp \in Nat /\ sp <= MaxSpins
  BY PollAssumption DEF CallType
<1>2. call' = [call EXCEPT !.pc = "poll", !.i = call.i + 1, !.spin = sp]
  BY DEF SpinMoved
<1> HIDE DEF sp
<1>3. /\ call'.pc = "poll" /\ call'.id = call.id /\ call'.reading = call.reading
      /\ call'.n = call.n /\ call'.i = call.i + 1 /\ call'.k = call.k
      /\ call'.spin = sp /\ call'.second = call.second
  BY <1>2 DEF CallType
<1>4. call' \in CallType
  <2>1. call' = [pc |-> "poll", id |-> call.id, reading |-> call.reading,
                 n |-> call.n, i |-> call.i + 1, k |-> call.k, spin |-> sp,
                 second |-> call.second]
    BY <1>2 DEF CallType
  <2>2. /\ call.id \in 0 .. MaxXfers /\ call.reading \in BOOLEAN
        /\ call.n \in Nat /\ call.i + 1 \in Nat /\ call.k \in Nat \ {0}
        /\ sp \in Nat /\ call.second \in Nat
    BY <1>1 DEF CallType
  <2> QED
    BY <2>1, <2>2 DEF CallType
<1> QED
  BY <1>1, <1>3, <1>4

\* What is left of a length in DLEN is a DLEN value.
LEMMA DlenTypes == ASSUME NEW n \in Nat PROVE n % DlenMod \in 0 .. DlenMod - 1
  BY BscAssumption

\* Counting one more byte of a transfer keeps the counters.
LEMMA BumpTypes ==
  ASSUME NEW f \in [Ids -> Nat], NEW x
  PROVE  [f EXCEPT ![x] = @ + 1] \in [Ids -> Nat]
<1>1. CASE x \in Ids
  BY <1>1
<1>2. CASE x \notin Ids
  BY <1>2
<1> QED
  BY <1>1, <1>2

\* Append and Tail keep a sequence in its set.
LEMMA QueueTypes ==
  ASSUME NEW S, NEW q \in Seq(S)
  PROVE  /\ \A e \in S : Append(q, e) \in Seq(S)
         /\ q # <<>> => Tail(q) \in Seq(S)
  OBVIOUS

\* A store to C keeps the controller well typed.
LEMMA StoreTypes ==
  ASSUME BscTypeOK, NEW w \in SUBSET (CtrlBits \cup Strobes),
         NEW id \in 0 .. MaxXfers, StoreC(w, id)
  PROVE  BscTypeOK'
<1>1. ctrl' \in SUBSET CtrlBits
  BY DEF StoreC
<1>2. fifo' \in Seq(0 .. MaxXfers)
  <2>1. <<>> \in Seq(0 .. MaxXfers)
    OBVIOUS
  <2>2. fifo' = <<>> \/ fifo' = fifo
    BY DEF StoreC
  <2> QED
    BY <2>1, <2>2 DEF BscTypeOK
<1>3. wire' \in [id : 0 .. MaxXfers, reading : BOOLEAN,
                 left : 0 .. DlenMod - 1, wedged : BOOLEAN]
  <2>1. PICK r \in BOOLEAN : \/ wire' = [id |-> id, reading |-> r, left |-> dlen,
                                        wedged |-> FALSE]
                             \/ wire' = wire
    <3>1. ("READ" \in w) \in BOOLEAN
      OBVIOUS
    <3>2. \/ wire' = [id |-> id, reading |-> "READ" \in w, left |-> dlen,
                       wedged |-> FALSE]
          \/ wire' = wire
      BY DEF StoreC
    <3> QED
      BY <3>1, <3>2, Zenon
  <2>2. [id |-> id, reading |-> r, left |-> dlen, wedged |-> FALSE]
          \in [id : 0 .. MaxXfers, reading : BOOLEAN,
              left : 0 .. DlenMod - 1, wedged : BOOLEAN]
    BY DEF BscTypeOK
  <2>3. wire \in [id : 0 .. MaxXfers, reading : BOOLEAN,
                  left : 0 .. DlenMod - 1, wedged : BOOLEAN]
    BY DEF BscTypeOK
  <2> QED
    BY <2>1, <2>2, <2>3
<1>4. stat' \in SUBSET Latched /\ dlen' \in 0 .. DlenMod - 1
  BY DEF StoreC, BscTypeOK
<1> QED
  BY <1>1, <1>2, <1>3, <1>4 DEF BscTypeOK

\* One step of prime() keeps every type.
LEMMA PrimeTypes == ASSUME TypeOK, PrimeStep PROVE TypeOK'
<1> USE DEF TypeOK
<1>1. BscTypeOK'
  <2>1. /\ ctrl \cup {"CLEAR"} \in SUBSET (CtrlBits \cup Strobes)
        /\ ctrl \cup {"I2CEN"} \in SUBSET (CtrlBits \cup Strobes)
        /\ ctrl \cup {"READ"} \in SUBSET (CtrlBits \cup Strobes)
        /\ ctrl \ {"READ"} \in SUBSET (CtrlBits \cup Strobes)
        /\ ctrl \cup {"ST"} \in SUBSET (CtrlBits \cup Strobes)
    BY DEF BscTypeOK, CtrlBits, Strobes
  <2>2. CASE \E f : ClrStatus(f)
    BY <2>2 DEF ClrStatus, BscTypeOK
  <2>3. CASE DataLength(call.n)
    BY <2>3, DlenTypes DEF DataLength, BscTypeOK
  <2>4. CASE \E w \in SUBSET (CtrlBits \cup Strobes) : StoreC(w, call.id)
    BY <2>4, StoreTypes
  <2>5. \/ \E f : ClrStatus(f)
        \/ DataLength(call.n)
        \/ \E w \in SUBSET (CtrlBits \cup Strobes) : StoreC(w, call.id)
    <3>1. call.k \in 1 .. 8
      BY PrimeStepDoes
    <3>2. CASE call.k \in 2 .. 5
      BY <3>2, PrimeStepDoes
    <3>3. CASE call.k \in {1, 6, 8}
      BY <2>1, <3>3, PrimeStepDoes, Zenon
    <3>4. CASE call.k = 7
      BY <2>1, <3>4, PrimeStepDoes
    <3> QED
      BY <3>1, <3>2, <3>3, <3>4
  <2> QED
    BY <2>2, <2>3, <2>4, <2>5
<1>2. call' = [call EXCEPT !.k = @ + 1] /\ UNCHANGED <<snap, history>>
  BY DEF PrimeStep
<1> QED
  BY <1>1, <1>2 DEF history

\* So does a step of the controller.
LEMMA WireTypes == ASSUME TypeOK, WireStep PROVE TypeOK'
<1> USE DEF TypeOK
<1>1. UNCHANGED <<call, snap, used, want, outcome>>
  BY DEF WireStep
<1>2. moved' \in [Ids -> Nat]
  BY BumpTypes DEF WireStep
<1>3. BscTypeOK'
  <2>1. CASE WireByte
    <3>1. wire.left \in 0 .. DlenMod - 1 /\ wire.left > 0 /\ DlenMod \in Nat
      BY <2>1, BscAssumption DEF WireByte, BscTypeOK
    <3>2. wire.left - 1 \in 0 .. DlenMod - 1
      BY <3>1
    <3>3. wire' \in [id : 0 .. MaxXfers, reading : BOOLEAN,
                     left : 0 .. DlenMod - 1, wedged : BOOLEAN]
      BY <2>1, <3>2 DEF WireByte, BscTypeOK
    <3>4. fifo' \in Seq(0 .. MaxXfers)
      <4>1. fifo \in Seq(0 .. MaxXfers) /\ wire.id \in 0 .. MaxXfers
        BY DEF BscTypeOK
      <4>2. fifo' = Append(fifo, wire.id) \/ (fifo # <<>> /\ fifo' = Tail(fifo))
        BY <2>1 DEF WireByte, RXD
      <4>3. /\ Append(fifo, wire.id) \in Seq(0 .. MaxXfers)
            /\ fifo # <<>> => Tail(fifo) \in Seq(0 .. MaxXfers)
        BY <4>1, QueueTypes, Zenon
      <4> QED
        BY <4>2, <4>3
    <3> QED
      BY <2>1, <3>3, <3>4 DEF WireByte, BscTypeOK
  <2>2. CASE \E b \in SUBSET Latched : WireEnd(b)
    <3>1. IdleWire \in [id : 0 .. MaxXfers, reading : BOOLEAN,
                        left : 0 .. DlenMod - 1, wedged : BOOLEAN]
      BY BscAssumption DEF IdleWire
    <3> QED
      BY <2>2, <3>1 DEF WireEnd, BscTypeOK
  <2>3. CASE WireWedge
    BY <2>3 DEF WireWedge, BscTypeOK
  <2> QED
    BY <2>1, <2>2, <2>3 DEF WireStep, Latched
<1> QED
  BY <1>1, <1>2, <1>3

\* So does the beginning of a call.
LEMMA BeginTypes ==
  ASSUME TypeOK, NEW r \in BOOLEAN, NEW n \in Nat, NEW m \in Nat, Begin(r, n, m)
  PROVE  TypeOK'
<1> USE DEF TypeOK
<1>1. used' = used + 1 /\ used + 1 \in 0 .. MaxXfers
  BY BscAssumption DEF Begin
<1>2. call' = [pc |-> "prime", id |-> used + 1, reading |-> r, n |-> n, i |-> 0,
               k |-> 1, spin |-> 0, second |-> m]
  BY DEF Begin, NoCall
<1>3. BscTypeOK'
  BY DEF Begin, bscVars, BscTypeOK
<1>4. want' \in [Ids -> Nat]
  BY DEF Begin
<1>5. used + 1 \in 0 .. MaxXfers /\ 0 <= MaxSpins
  BY <1>1, PollAssumption
<1>6. call'.i <= call'.n /\ call'.spin <= MaxSpins
  BY <1>2, <1>5
<1>7. call' \in CallType
  BY <1>2, <1>5 DEF CallType
<1> QED
  BY <1>1, <1>3, <1>4, <1>6, <1>7 DEF Begin, CallType

\* So does every step of the loop ...
LEMMA LoopTypes ==
  ASSUME TypeOK, \/ Primed \/ PollStatus \/ Fail \/ Feed \/ Drain
                 \/ Done \/ Nothing \/ GiveUp
  PROVE  TypeOK'
<1> USE DEF TypeOK
<1>1. CASE Primed
  BY <1>1 DEF Primed, bscVars, BscTypeOK, history
<1>2. CASE PollStatus
  BY <1>2 DEF PollStatus, Status, bscVars, BscTypeOK, history
<1>3. ASSUME NEW r \in Results, Return(r) PROVE TypeOK'
  BY <1>3 DEF Return, bscVars, BscTypeOK
<1>4. CASE Feed
  <2>1. BscTypeOK'
    BY <1>4, QueueTypes DEF Feed, WriteByte, BscTypeOK
  <2>2. call.i + 1 <= call.n
    BY <1>4 DEF Feed, MayFeed
  <2>3. call' \in CallType /\ call'.i <= call'.n /\ call'.spin <= MaxSpins
    BY <1>4, <2>2, SpinTypes DEF Feed, CallType
  <2> QED
    BY <1>4, <2>1, <2>3 DEF Feed, history, CallType
<1>5. CASE Drain
  <2>1. BscTypeOK'
    <3>1. CASE fifo # <<>>
      <4>1. Tail(fifo) \in Seq(0 .. MaxXfers)
        BY <3>1, QueueTypes DEF BscTypeOK
      <4> QED
        BY <1>5, <3>1, <4>1 DEF Drain, ReadByte, BscTypeOK, RXD
    <3>2. CASE fifo = <<>>
      BY <1>5, <3>2 DEF Drain, BscTypeOK, RXD, bscVars
    <3> QED
      BY <3>1, <3>2
  <2>2. call.i + 1 <= call.n
    BY <1>5 DEF Drain, MayDrain
  <2>3. moved' \in [Ids -> Nat]
    <3>1. moved' = [moved EXCEPT ![call.id] = @ + 1] \/ moved' = moved
      BY <1>5 DEF Drain
    <3> QED
      BY <3>1, BumpTypes
  <2>4. call' \in CallType /\ call'.i <= call'.n /\ call'.spin <= MaxSpins
    BY <1>5, <2>2, SpinTypes DEF Drain, CallType
  <2>5. UNCHANGED <<snap, used, want, outcome>>
    BY <1>5 DEF Drain
  <2>6. /\ snap' \subseteq Latched \cup {"TXD", "RXD"} /\ used' \in 0 .. MaxXfers
        /\ want' \in [Ids -> Nat] /\ outcome' \in [Ids -> Results \cup {"none"}]
    BY <2>5
  <2> QED
    BY <2>1, <2>3, <2>4, <2>6, Zenon DEF CallType
<1>6. CASE Nothing
  <2>1. UNCHANGED <<bscVars, snap, history>>
    BY <1>6 DEF Nothing
  <2> DEFINE sp == IF call.spin < MaxSpins THEN call.spin + 1 ELSE call.spin
  <2>2. sp \in Nat /\ sp <= MaxSpins
    BY PollAssumption
  <2>3. call' = [call EXCEPT !.pc = "poll", !.spin = sp]
    BY <1>6 DEF Nothing, Spin
  <2> HIDE DEF sp
  <2>4. call' \in CallType /\ call'.i <= call'.n /\ call'.spin <= MaxSpins
    BY <2>2, <2>3 DEF CallType
  <2> QED
    BY <2>1, <2>4 DEF bscVars, BscTypeOK, history, CallType
<1>7. ASSUME Fail \/ Done \/ GiveUp PROVE \E r \in Results : Return(r)
  BY <1>7 DEF Fail, Done, GiveUp, Results
<1> QED
  BY <1>1, <1>2, <1>3, <1>4, <1>5, <1>6, <1>7

\* Every reachable state of the polling transport is well typed, whatever the
\* callers and the slave do: among others write() and read() never move an index
\* past the end of the buffer, and no call spends more than its budget.
THEOREM TypeCorrect == Spec => []TypeOK
<1>1. Init => TypeOK
  <2> SUFFICES ASSUME Init PROVE TypeOK
    OBVIOUS
  <2>1. BscTypeOK
    <3>1. <<>> \in Seq(0 .. MaxXfers)
      OBVIOUS
    <3> QED
      BY <3>1, BscAssumption DEF Init, BscTypeOK, IdleWire, CtrlBits
  <2> QED
    BY <2>1, BscAssumption, PollAssumption DEF Init, TypeOK, NoCall
<1>2. TypeOK /\ [Next]_vars => TypeOK'
  <2> SUFFICES ASSUME TypeOK, [Next]_vars PROVE TypeOK'
    OBVIOUS
  <2>1. CASE Call
    <3>1. PICK r \in BOOLEAN, n \in Lens, m \in Lens \cup {0} : Begin(r, n, m)
      BY <2>1 DEF Call
    <3>2. n \in Nat /\ m \in Nat
      BY PollAssumption
    <3> QED
      BY <3>1, <3>2, BeginTypes
  <2>2. CASE SecondHalf
    <3>1. call.second \in Nat /\ Begin(TRUE, call.second, 0)
      BY <2>2 DEF SecondHalf, TypeOK
    <3> QED
      BY <3>1, BeginTypes
  <2>3. CASE CallStep
    BY <2>3, PrimeTypes, LoopTypes DEF CallStep
  <2>4. CASE WireStep
    BY <2>4, WireTypes
  <2>5. CASE UNCHANGED vars
    BY <2>5 DEF vars, bscVars, history, TypeOK, BscTypeOK
  <2> QED
    BY <2>1, <2>2, <2>3, <2>4, <2>5 DEF Next
<1> QED
  BY <1>1, <1>2, PTL DEF Spec

-----------------------------------------------------------------------------
(* The inductive invariant *)

\* The program of prime() and start_read() or start_write() has Last steps, and
\* its last one starts the controller.
Last    == 8
InCall  == call.pc \in {"prime", "poll", "act"}
Priming == call.pc = "prime" /\ call.k <= Last
Clocked == InCall /\ ~Priming

\* Transfers are begun one at a time, and only the one of the call is open.
Order ==
  /\ InCall => /\ call.id = used /\ used \in Ids
               /\ call.n \in Lens /\ want[used] = call.n
               /\ outcome[used] = "none"
  /\ call.second \in Lens \cup {0}
  /\ call.pc = "second" => call.second \in Lens
  /\ \A id \in Ids : /\ id > used => outcome[id] = "none" /\ moved[id] = 0
                                     /\ want[id] = 0
                     /\ id <= used /\ outcome[id] = "none" => InCall /\ id = used

\* Between two calls the controller is idle, or wedged for good.
Between ==
  /\ wire.wedged => TA
  /\ ~InCall => ~TA \/ wire.wedged
  /\ \A id \in Ids : outcome[id] = "Timeout" => wire.wedged
  /\ ~InCall /\ used > 0 /\ outcome[used] # "Timeout" => ~TA

\* What prime() has done so far, on an idle controller.
Programmed ==
  Priming =>
    /\ ~TA /\ ~wire.wedged /\ call.i = 0 /\ moved[used] = 0
    /\ call.k > 1 => fifo = <<>>
    /\ call.k > 2 => "DONE" \notin stat
    /\ call.k > 3 => "ERR" \notin stat
    /\ call.k > 4 => stat = {}
    /\ call.k > 5 => dlen = call.n
    /\ call.k > 7 => ("READ" \in ctrl <=> call.reading)

\* The controller clocks the transfer of the call, and no byte is lost: those
\* still to be clocked, those in the FIFO and those handled add up.
Conserved ==
  Clocked =>
    /\ TA => wire.id = used /\ wire.reading = call.reading /\ stat = {}
    /\ \A j \in 1 .. Len(fifo) : fifo[j] = used
    /\ call.reading =>
         /\ moved[used] = call.i
         /\ TA => call.i + Len(fifo) + wire.left = call.n
         /\ ~TA /\ stat = {"DONE"} => call.i + Len(fifo) = call.n
    /\ ~call.reading =>
         /\ TA => moved[used] + wire.left = call.n
         /\ ~TA /\ stat = {"DONE"} => moved[used] = call.n

\* What poll_status() returned still holds when it is acted on: a bit of S that
\* was set is set, and with DONE nothing changes any more.
Fresh ==
  call.pc = "act" =>
    /\ snap \cap Latched \subseteq stat
    /\ "DONE" \in snap => stat = snap \cap Latched
    /\ call.reading /\ "RXD" \in snap => fifo # <<>>
    /\ call.reading /\ "DONE" \in snap /\ "RXD" \notin snap => fifo = <<>>

Core == "I2CEN" \in ctrl /\ Order /\ Between /\ Programmed /\ Conserved /\ Fresh

PollInv == TypeOK /\ Core

\* The callers that the theorems below are about: with a patient budget, and with
\* lengths that DLEN can hold.
Careful == Patient /\ \A n \in Lens : n < DlenMod

-----------------------------------------------------------------------------
(* The invariant, action by action *)

\* A call, or the second half of one, begins on an idle controller.
LEMMA BeginCore ==
  ASSUME Careful, PollInv, ~InCall,
         NEW r \in BOOLEAN, NEW n \in Lens, NEW m \in Lens \cup {0}, Begin(r, n, m)
  PROVE  Core'
<1> USE DEF PollInv, Core, InCall, TA
<1>1. /\ used \in Nat /\ used' = used + 1 /\ used + 1 \in Ids /\ n \in Nat
      /\ UNCHANGED <<bscVars, snap, moved, outcome>>
      /\ want' = [want EXCEPT ![used + 1] = n] /\ want \in [Ids -> Nat]
  BY BscAssumption, PollAssumption, SMTT(30) DEF Begin, TypeOK, Ids
<1>2. ~wire.wedged /\ wire.id = 0 /\ UNCHANGED <<ctrl, stat, dlen, fifo, wire>>
  BY <1>1 DEF Careful, Begin, Between, bscVars
<1>3. call' = [pc |-> "prime", id |-> used + 1, reading |-> r, n |-> n, i |-> 0,
               k |-> 1, spin |-> 0, second |-> m]
  BY DEF Begin, NoCall
<1>4. /\ call'.pc = "prime" /\ call'.id = used' /\ call'.n = n /\ call'.i = 0
      /\ call'.k = 1 /\ call'.second = m
  BY <1>1, <1>3
<1>5. Order'
  <2>1. InCall' /\ call'.pc # "second" /\ call'.second \in Lens \cup {0}
    BY <1>4
  <2>2. call'.id = used' /\ used' \in Ids /\ call'.n \in Lens /\ want'[used'] = call'.n
    BY <1>1, <1>4
  <2>3. used + 1 > used
    BY <1>1
  <2>4. outcome'[used'] = "none"
    BY <1>1, <2>3 DEF Order
  <2>5. ASSUME NEW id \in Ids
        PROVE  /\ id > used' => outcome'[id] = "none" /\ moved'[id] = 0 /\ want'[id] = 0
               /\ id <= used' /\ outcome'[id] = "none" => id = used'
    <3>1. id \in Nat /\ (id > used => outcome[id] = "none" /\ moved[id] = 0 /\ want[id] = 0)
          /\ (id <= used => outcome[id] # "none")
      BY DEF Order, Ids
    <3>2. id # used + 1 => want'[id] = want[id]
      BY <1>1
    <3> QED
      BY <1>1, <3>1, <3>2
  <2> QED
    BY <2>1, <2>2, <2>4, <2>5 DEF Order
<1>6. Between'
  BY <1>1, <1>2, <1>4 DEF Between
<1>7. Programmed'
  <2>1. moved[used + 1] = 0
    BY <1>1 DEF Order
  <2> QED
    BY <1>1, <1>2, <1>4, <2>1 DEF Programmed, Priming, Last
<1>8. Conserved' /\ Fresh'
  BY <1>4 DEF Conserved, Fresh, Clocked, Priming, Last
<1> QED
  BY <1>2, <1>5, <1>6, <1>7, <1>8

\* DLEN keeps a length that it can hold.
LEMMA DlenKeeps ==
  ASSUME NEW n \in Nat, n < DlenMod PROVE n % DlenMod = n
  BY BscAssumption

\* The steps of prime() before the last one: the controller stays idle.
LEMMA PrimeCore ==
  ASSUME Careful, PollInv, PrimeStep, call.k < Last
  PROVE  Core'
<1> USE DEF PollInv, Core, InCall, TA, Priming, Last
<1>1. /\ call.pc = "prime" /\ call.k \in 1 .. 7
      /\ call' = [call EXCEPT !.k = @ + 1] /\ UNCHANGED <<snap, history>>
  BY PrimeStepDoes DEF PrimeStep
<1>2. /\ call'.pc = "prime" /\ call'.k = call.k + 1 /\ call'.id = call.id
      /\ call'.n = call.n /\ call'.i = call.i /\ call'.reading = call.reading
      /\ call'.second = call.second
  BY <1>1 DEF TypeOK
<1>3. "ST" \notin ctrl /\ "CLEAR" \notin ctrl /\ stat \subseteq {"DONE", "ERR", "CLKT"}
      /\ call.n \in Nat /\ call.n < DlenMod /\ wire.id = 0 /\ ~wire.wedged
  <2>1. "ST" \notin ctrl /\ "CLEAR" \notin ctrl /\ stat \subseteq {"DONE", "ERR", "CLKT"}
    BY DEF TypeOK, BscTypeOK, CtrlBits, IntBits, Latched
  <2>2. call.n \in Lens /\ wire.id = 0 /\ ~wire.wedged
    BY <1>1 DEF Programmed, Order
  <2> QED
    BY <2>1, <2>2, PollAssumption DEF Careful
<1>4. wire' = wire /\ "I2CEN" \in ctrl'
  <2>1. CASE call.k \in 2 .. 5
    BY <1>1, <2>1, PrimeStepDoes DEF ClrStatus, DataLength
  <2>2. CASE call.k = 1
    BY <1>3, <2>2, PrimeStepDoes DEF StoreC, Strobes
  <2>3. CASE call.k = 6
    BY <1>3, <2>3, PrimeStepDoes DEF StoreC, Strobes
  <2>4. CASE call.k = 7
    <3>1. CASE call.reading
      BY <1>3, <2>4, <3>1, PrimeStepDoes DEF StoreC, Strobes
    <3>2. CASE ~call.reading
      BY <1>3, <2>4, <3>2, PrimeStepDoes DEF StoreC, Strobes
    <3> QED
      BY <3>1, <3>2
  <2> QED
    BY <1>1, <2>1, <2>2, <2>3, <2>4
<1>5. Order'
  BY <1>1, <1>2 DEF Order, history
<1>6. Between'
  BY <1>1, <1>2, <1>4 DEF Between, history
<1>7. Conserved' /\ Fresh'
  BY <1>1, <1>2 DEF Conserved, Fresh, Clocked
<1>8. Programmed'
  <2>1. call'.i = 0 /\ moved'[used'] = 0
    BY <1>1, <1>2 DEF Programmed, history
  <2>2. CASE call.k = 1
    <3>1. fifo' = <<>>
      BY <2>2, PrimeStepDoes DEF StoreC
    <3> QED
      BY <1>2, <1>3, <1>4, <2>1, <2>2, <3>1 DEF Programmed
  <2>3. CASE call.k = 2
    BY <1>1, <1>2, <1>3, <1>4, <2>1, <2>3, PrimeStepDoes DEF Programmed, ClrStatus
  <2>4. CASE call.k = 3
    BY <1>1, <1>2, <1>3, <1>4, <2>1, <2>4, PrimeStepDoes DEF Programmed, ClrStatus
  <2>5. CASE call.k = 4
    BY <1>1, <1>2, <1>3, <1>4, <2>1, <2>5, PrimeStepDoes DEF Programmed, ClrStatus
  <2>6. CASE call.k = 5
    <3>1. dlen' = call.n /\ UNCHANGED <<stat, fifo>>
      BY <1>3, <2>6, PrimeStepDoes, DlenKeeps DEF DataLength
    <3> QED
      BY <1>1, <1>2, <1>3, <1>4, <2>1, <2>6, <3>1 DEF Programmed
  <2>7. CASE call.k = 6
    <3>1. UNCHANGED <<stat, fifo, dlen>>
      BY <1>3, <2>7, PrimeStepDoes DEF StoreC
    <3> QED
      BY <1>1, <1>2, <1>3, <1>4, <2>1, <2>7, <3>1 DEF Programmed
  <2>8. CASE call.k = 7
    <3>1. CASE call.reading
      <4>1. UNCHANGED <<stat, fifo, dlen>> /\ "READ" \in ctrl'
        BY <1>3, <2>8, <3>1, PrimeStepDoes DEF StoreC, Strobes
      <4> QED
        BY <1>1, <1>2, <1>3, <1>4, <2>1, <2>8, <3>1, <4>1 DEF Programmed
    <3>2. CASE ~call.reading
      <4>1. UNCHANGED <<stat, fifo, dlen>> /\ "READ" \notin ctrl'
        BY <1>3, <2>8, <3>2, PrimeStepDoes DEF StoreC
      <4> QED
        BY <1>1, <1>2, <1>3, <1>4, <2>1, <2>8, <3>2, <4>1 DEF Programmed
    <3> QED
      BY <3>1, <3>2
  <2> QED
    BY <1>1, <2>2, <2>3, <2>4, <2>5, <2>6, <2>7, <2>8
<1> QED
  BY <1>4, <1>5, <1>6, <1>7, <1>8

\* The last one starts the transfer of the call, with nothing left of others.
LEMMA StartCore ==
  ASSUME Careful, PollInv, PrimeStep, call.k = Last
  PROVE  Core'
<1> USE DEF PollInv, Core, InCall, TA, Priming, Last
<1>1. /\ call.pc = "prime" /\ call' = [call EXCEPT !.k = @ + 1]
      /\ UNCHANGED <<snap, history>> /\ StoreC(ctrl \cup {"ST"}, call.id)
  BY PrimeStepDoes DEF PrimeStep
<1>2. /\ call'.pc = "prime" /\ call'.k = 9 /\ call'.id = call.id
      /\ call'.n = call.n /\ call'.i = call.i /\ call'.reading = call.reading
      /\ call'.second = call.second
  BY <1>1 DEF TypeOK
<1>3. /\ fifo = <<>> /\ stat = {} /\ dlen = call.n /\ wire.id = 0 /\ ~wire.wedged
      /\ "READ" \in ctrl <=> call.reading
      /\ call.id = used /\ used \in Ids /\ used # 0
  BY <1>1 DEF Programmed, Order, Ids
<1>4. "CLEAR" \notin ctrl /\ call.reading \in BOOLEAN /\ call.n \in Nat
  BY DEF TypeOK, BscTypeOK, CtrlBits, IntBits
<1>5. /\ wire' = [id |-> used, reading |-> "READ" \in ctrl \cup {"ST"}, left |-> call.n,
                  wedged |-> FALSE]
      /\ fifo' = <<>> /\ stat' = {} /\ "I2CEN" \in ctrl'
  BY <1>1, <1>3, <1>4 DEF StoreC, Strobes
<1>6. wire'.id = used /\ wire'.left = call.n /\ ~wire'.wedged /\ wire'.reading = call.reading
  BY <1>3, <1>4, <1>5
<1>7. Order'
  BY <1>1, <1>2 DEF Order, history
<1>8. Between'
  BY <1>1, <1>2, <1>3, <1>6 DEF Between, history
<1>9. Programmed' /\ Fresh'
  BY <1>2 DEF Programmed, Fresh
<1>10. Conserved'
  <2>1. call'.i = 0 /\ moved'[used'] = 0 /\ used' = used
    BY <1>1, <1>2 DEF Programmed, history
  <2>2. Len(fifo') = 0 /\ 0 + 0 + call.n = call.n /\ 0 + call.n = call.n
    BY <1>4, <1>5
  <2> QED
    BY <1>2, <1>3, <1>5, <1>6, <2>1, <2>2 DEF Conserved
<1> QED
  BY <1>5, <1>7, <1>8, <1>9, <1>10

\* The loop is entered.
LEMMA PrimedCore == ASSUME Careful, PollInv, Primed PROVE Core'
<1> USE DEF PollInv, Core, InCall, TA, Priming, Last
<1>1. /\ call.pc = "prime" /\ call.k > 8 /\ call' = [call EXCEPT !.pc = "poll"]
      /\ UNCHANGED <<bscVars, snap, history>>
  BY PrimeSteps DEF Primed, TypeOK
<1>2. /\ call'.pc = "poll" /\ call'.k = call.k /\ call'.id = call.id
      /\ call'.n = call.n /\ call'.i = call.i /\ call'.reading = call.reading
      /\ call'.second = call.second /\ call.k \in Nat
  BY <1>1 DEF TypeOK
<1>3. Clocked
  BY <1>1, <1>2 DEF Clocked
<1>4. Order'
  BY <1>1, <1>2 DEF Order, history
<1>5. Between'
  BY <1>1, <1>2 DEF Between, history, bscVars
<1>6. Programmed' /\ Fresh'
  BY <1>2 DEF Programmed, Fresh
<1>7. Conserved'
  BY <1>1, <1>2, <1>3 DEF Conserved, Clocked, history, bscVars
<1> QED
  BY <1>1, <1>4, <1>5, <1>6, <1>7 DEF bscVars

\* poll_status() takes a snapshot.
LEMMA PollCore == ASSUME Careful, PollInv, PollStatus PROVE Core'
<1> USE DEF PollInv, Core, InCall, TA, Priming, Last
<1>1. /\ call.pc = "poll" /\ call' = [call EXCEPT !.pc = "act"]
      /\ snap' = Status /\ UNCHANGED <<bscVars, history>>
  BY DEF PollStatus
<1>2. /\ call'.pc = "act" /\ call'.k = call.k /\ call'.id = call.id
      /\ call'.n = call.n /\ call'.i = call.i /\ call'.reading = call.reading
      /\ call'.second = call.second
  BY <1>1 DEF TypeOK
<1>3. Clocked
  BY <1>1 DEF Clocked
<1>4. Order'
  BY <1>1, <1>2 DEF Order, history
<1>5. Between'
  BY <1>1, <1>2 DEF Between, history, bscVars
<1>6. Programmed'
  BY <1>2 DEF Programmed
<1>7. Conserved'
  BY <1>1, <1>2, <1>3 DEF Conserved, Clocked, history, bscVars
<1>8. Fresh'
  <2>1. stat \subseteq Latched /\ "DONE" \in Latched /\ "TXD" \notin Latched
        /\ "RXD" \notin Latched
    BY DEF TypeOK, BscTypeOK, Latched
  <2>2. snap' \cap Latched = stat /\ ("RXD" \in snap' <=> fifo # <<>>)
    BY <1>1, <2>1 DEF Status, RXD
  <2> QED
    BY <1>1, <2>1, <2>2 DEF Fresh, bscVars
<1> QED
  BY <1>1, <1>4, <1>5, <1>6, <1>7, <1>8 DEF bscVars

\* A call returns: Ok with all its bytes moved, and Timeout on a wedged bus.
LEMMA ReturnCore ==
  ASSUME PollInv, Clocked, NEW result \in Results, Return(result),
         result = "Timeout" => wire.wedged, result # "Timeout" => ~TA
  PROVE  Core'
<1> USE DEF PollInv, Core, InCall, Priming, Last
<1>1. /\ outcome' = [outcome EXCEPT ![call.id] = result]
      /\ UNCHANGED <<bscVars, snap, used, want, moved>>
      /\ call.id = used /\ used \in Ids /\ call.second \in Nat
      /\ outcome \in [Ids -> Results \cup {"none"}] /\ result # "none"
  BY PollAssumption DEF Return, Clocked, Order, TypeOK, Results
<1>2. PICK pc \in {"idle", "second"} :
        call' = [call EXCEPT !.pc = pc] /\ (pc = "second" => call.second > 0)
  BY DEF Return
<1>3. call'.pc = pc /\ call'.second = call.second /\ ~InCall'
  BY <1>2 DEF TypeOK
<1>4. Order'
  <2>1. ASSUME NEW id \in Ids
        PROVE  /\ id > used => outcome'[id] = "none" /\ moved[id] = 0 /\ want[id] = 0
               /\ id <= used => outcome'[id] # "none"
    <3>1. id \in Nat /\ used \in Nat
      BY DEF Ids, TypeOK
    <3>2. CASE id = used
      BY <1>1, <3>1, <3>2
    <3>3. CASE id # used
      BY <1>1, <3>1, <3>3 DEF Order
    <3> QED
      BY <3>2, <3>3
  <2>2. call.second \in Lens \cup {0} /\ (call'.pc = "second" => call.second \in Lens)
    BY <1>1, <1>2, <1>3 DEF Order
  <2> QED
    BY <1>1, <1>3, <2>1, <2>2 DEF Order
<1>5. Between'
  BY <1>1, <1>3 DEF Between, bscVars, TA
<1>6. Programmed' /\ Conserved' /\ Fresh'
  BY <1>3 DEF Programmed, Conserved, Fresh, Clocked
<1> QED
  BY <1>1, <1>4, <1>5, <1>6 DEF bscVars

\* What a call returns: Ok only with all its bytes moved, Timeout only when the
\* bus is wedged, and anything else only when the controller is idle again.
LEMMA Returns ==
  ASSUME Careful, PollInv, Fail \/ Done \/ GiveUp
  PROVE  \E result \in Results :
           /\ Return(result)
           /\ result = "Timeout" => wire.wedged
           /\ result # "Timeout" => ~TA
           /\ result = "Ok" => moved[used] = want[used]
<1> USE DEF PollInv, Core
<1>1. Clocked /\ call.id = used /\ used \in Ids /\ want[used] = call.n
      /\ call.i \in Nat /\ call.n \in Nat /\ call.i <= call.n
  BY DEF Fail, Done, GiveUp, Clocked, InCall, Priming, Order, TypeOK
<1>2. CASE GiveUp
  <2>1. Return("Timeout") /\ wire.wedged
    BY <1>2 DEF GiveUp, Spent, Careful
  <2> QED
    BY <2>1 DEF Results
<1>3. CASE Fail
  <2>1. call.pc = "act" /\ ~TA
    BY <1>1, <1>3 DEF Fail, Failing, Fresh, Conserved, Latched
  <2>2. Return("Nack") \/ Return("ClockTimeout")
    BY <1>3 DEF Fail
  <2> QED
    BY <2>1, <2>2 DEF Results
<1>4. CASE Done
  <2>1. call.pc = "act" /\ "DONE" \in snap /\ "ERR" \notin snap /\ "CLKT" \notin snap
        /\ ~MayFeed /\ ~MayDrain
    BY <1>4 DEF Done, Failing
  <2>2. snap \cap Latched = {"DONE"}
    BY <2>1 DEF Latched
  <2>3. stat = {"DONE"} /\ ~TA
    BY <1>1, <2>1, <2>2 DEF Fresh, Conserved
  <2>4. CASE call.reading
    <3>1. moved[used] = call.i /\ call.i + Len(fifo) = call.n
      BY <1>1, <2>3, <2>4 DEF Conserved
    <3>2. CASE "RXD" \in snap
      <4>1. ~(call.i < call.n)
        BY <2>1, <2>4, <3>2 DEF MayDrain
      <4>2. Return("Ok")
        BY <1>4, <4>1 DEF Done
      <4>3. moved[used] = want[used]
        BY <1>1, <3>1, <4>1
      <4> QED
        BY <2>3, <4>2, <4>3 DEF Results
    <3>3. CASE "RXD" \notin snap
      <4>1. fifo = <<>>
        BY <2>1, <2>4, <3>3 DEF Fresh
      <4>2. call.i = call.n
        BY <1>1, <3>1, <4>1
      <4>3. Return("Ok")
        BY <1>1, <1>4, <4>2 DEF Done
      <4>4. moved[used] = want[used]
        BY <1>1, <3>1, <4>2
      <4> QED
        BY <2>3, <4>3, <4>4 DEF Results
    <3> QED
      BY <3>2, <3>3
  <2>5. CASE ~call.reading
    <3>1. moved[used] = call.n
      BY <1>1, <2>3, <2>5 DEF Conserved
    <3>2. Return("Ok")
      BY <1>4, <2>5 DEF Done
    <3> QED
      BY <1>1, <2>3, <3>1, <3>2 DEF Results
  <2> QED
    BY <2>4, <2>5
<1> QED
  BY <1>2, <1>3, <1>4

\* What the conserved sums are made of.
LEMMA Counters ==
  ASSUME TypeOK
  PROVE  /\ wire.left \in Nat /\ fifo \in Seq(0 .. MaxXfers) /\ Len(fifo) \in Nat
         /\ call.i \in Nat /\ call.n \in Nat /\ moved \in [Ids -> Nat]
         /\ used \in 0 .. MaxXfers
<1>1. wire.left \in 0 .. DlenMod - 1 /\ fifo \in Seq(0 .. MaxXfers)
  BY DEF TypeOK, BscTypeOK
<1>2. wire.left \in Nat
  BY <1>1, BscAssumption
<1>3. Len(fifo) \in Nat
  BY <1>1
<1>4. call.i \in Nat /\ call.n \in Nat /\ moved \in [Ids -> Nat]
      /\ used \in 0 .. MaxXfers
  BY DEF TypeOK
<1> QED
  BY <1>1, <1>2, <1>3, <1>4

\* A turn of the loop that handles no byte.
LEMMA NothingCore == ASSUME Careful, PollInv, Nothing PROVE Core'
<1> USE DEF PollInv, Core, InCall, TA, Priming, Last
<1>1. /\ call.pc = "act" /\ UNCHANGED <<bscVars, snap, history>> /\ Spin
  BY DEF Nothing
<1>2. /\ call'.pc = "poll" /\ call'.k = call.k /\ call'.id = call.id
      /\ call'.n = call.n /\ call'.i = call.i /\ call'.reading = call.reading
      /\ call'.second = call.second
  BY <1>1 DEF TypeOK, Spin
<1>3. Clocked
  BY <1>1 DEF Clocked
<1>4. Order'
  BY <1>1, <1>2 DEF Order, history
<1>5. Between'
  BY <1>1, <1>2 DEF Between, history, bscVars
<1>6. Programmed' /\ Fresh'
  BY <1>2 DEF Programmed, Fresh
<1>7. Conserved'
  BY <1>1, <1>2, <1>3 DEF Conserved, Clocked, history, bscVars
<1> QED
  BY <1>1, <1>4, <1>5, <1>6, <1>7 DEF bscVars

\* A sequence of one transfer's bytes stays one when a byte of it is added, or
\* the first one is taken.
LEMMA Own ==
  ASSUME NEW S, NEW q \in Seq(S), NEW e \in S, \A j \in 1 .. Len(q) : q[j] = e
  PROVE  /\ Append(q, e) \in Seq(S) /\ Len(Append(q, e)) = Len(q) + 1
         /\ \A j \in 1 .. Len(Append(q, e)) : Append(q, e)[j] = e
         /\ q # <<>> => /\ Head(q) = e /\ Len(Tail(q)) = Len(q) - 1
                        /\ \A j \in 1 .. Len(Tail(q)) : Tail(q)[j] = e
  OBVIOUS

\* A turn that fills the FIFO: it only ever holds bytes of the call.
LEMMA FeedCore == ASSUME Careful, PollInv, Feed PROVE Core'
<1> USE DEF PollInv, Core, InCall, TA, Priming, Last
<1>1. /\ call.pc = "act" /\ UNCHANGED <<snap, history, ctrl, stat, dlen, wire>> /\ SpinMoved
      /\ ~call.reading /\ WriteByte(call.id)
  BY DEF Feed, MayFeed, WriteByte
<1>2. /\ call'.pc = "poll" /\ call'.k = call.k /\ call'.id = call.id
      /\ call'.n = call.n /\ call'.reading = call.reading
      /\ call'.second = call.second
  BY <1>1 DEF TypeOK, SpinMoved
<1>3. Clocked
  BY <1>1 DEF Clocked
<1>4. Order'
  BY <1>1, <1>2 DEF Order, history
<1>5. Between'
  BY <1>1, <1>2 DEF Between, history
<1>6. Programmed' /\ Fresh'
  BY <1>2 DEF Programmed, Fresh
<1>7. \A j \in 1 .. Len(fifo') : fifo'[j] = used
  <2>1. fifo \in Seq(0 .. MaxXfers) /\ used \in 0 .. MaxXfers /\ call.id = used
        /\ \A j \in 1 .. Len(fifo) : fifo[j] = used
    BY <1>1, <1>3 DEF TypeOK, BscTypeOK, Order, Conserved
  <2>2. \A j \in 1 .. Len(Append(fifo, used)) : Append(fifo, used)[j] = used
    BY <2>1, Own
  <2> QED
    BY <1>1, <2>1, <2>2 DEF WriteByte
<1>8. Conserved'
  BY <1>1, <1>2, <1>3, <1>7 DEF Conserved, Clocked, history
<1> QED
  BY <1>1, <1>4, <1>5, <1>6, <1>8

\* A turn that takes a byte out of the FIFO: it is there, and of the call.
LEMMA DrainTakes ==
  ASSUME Careful, PollInv, Drain
  PROVE  /\ call.pc = "act" /\ call.reading /\ call.i < call.n
         /\ used \in Ids /\ fifo # <<>> /\ Head(fifo) = used
         /\ fifo' = Tail(fifo) /\ Len(fifo') = Len(fifo) - 1
         /\ \A j \in 1 .. Len(fifo') : fifo'[j] = used
         /\ moved' = [moved EXCEPT ![used] = @ + 1]
         /\ UNCHANGED <<snap, used, want, outcome, ctrl, stat, dlen, wire>>
<1> USE DEF PollInv, Core, InCall, TA, Priming, Last
<1>1. /\ call.pc = "act" /\ call.reading /\ "RXD" \in snap /\ call.i < call.n
      /\ UNCHANGED <<snap, used, want, outcome>>
  BY DEF Drain, MayDrain
<1>2. /\ fifo # <<>> /\ fifo \in Seq(0 .. MaxXfers) /\ used \in Ids
      /\ used \in 0 .. MaxXfers /\ call.id = used
      /\ \A j \in 1 .. Len(fifo) : fifo[j] = used
  BY <1>1 DEF TypeOK, BscTypeOK, Order, Conserved, Clocked, Fresh
<1>3. /\ Head(fifo) = used /\ Len(Tail(fifo)) = Len(fifo) - 1
      /\ \A j \in 1 .. Len(Tail(fifo)) : Tail(fifo)[j] = used
  BY <1>2, Own
<1>4. /\ fifo' = Tail(fifo) /\ UNCHANGED <<ctrl, stat, dlen, wire>>
      /\ moved' = [moved EXCEPT ![used] = @ + 1]
  BY <1>2, <1>3 DEF Drain, ReadByte, RXD
<1> QED
  BY <1>1, <1>2, <1>3, <1>4

LEMMA DrainCore == ASSUME Careful, PollInv, Drain PROVE Core'
<1> USE DEF PollInv, Core, InCall, TA, Priming, Last
<1>1. SpinMoved
  BY DEF Drain
<1>2. /\ call'.pc = "poll" /\ call'.k = call.k /\ call'.id = call.id
      /\ call'.n = call.n /\ call'.i = call.i + 1 /\ call'.reading = call.reading
      /\ call'.second = call.second
  BY <1>1 DEF TypeOK, SpinMoved
<1>3. Clocked
  BY DrainTakes DEF Clocked
<1>4. \A id \in Ids : id # used => moved'[id] = moved[id]
  BY DrainTakes DEF TypeOK
<1>5. Order'
  <2>1. \A id \in Ids : id > used => id # used
    BY DEF Ids, TypeOK
  <2> QED
    BY <1>2, <1>4, <2>1, DrainTakes DEF Order
<1>6. Between'
  BY <1>2, DrainTakes DEF Between
<1>7. Programmed' /\ Fresh'
  BY <1>2 DEF Programmed, Fresh
<1>8. Conserved'
  <2>1. moved'[used] = moved[used] + 1 /\ moved[used] \in Nat /\ call.i \in Nat
        /\ call.n \in Nat /\ Len(fifo) \in Nat /\ wire.left \in Nat
    BY DrainTakes, Counters
  <2>2. Clocked' /\ moved[used] = call.i /\ moved'[used] = call'.i
    BY <1>2, <1>3, <2>1, DrainTakes DEF Conserved, Clocked
  <2>3. TA => /\ wire.id = used /\ wire.reading = call.reading /\ stat = {}
              /\ call.i + Len(fifo) + wire.left = call.n
    BY <1>3, DrainTakes DEF Conserved
  <2>4. ~TA /\ stat = {"DONE"} => call.i + Len(fifo) = call.n
    BY <1>3, DrainTakes DEF Conserved
  <2>5. Len(fifo') = Len(fifo) - 1
    BY DrainTakes
  <2>6. call'.i + Len(fifo') = call.i + Len(fifo)
    BY <1>2, <2>1, <2>5
  <2> QED
    BY <1>2, <2>2, <2>3, <2>4, <2>6, DrainTakes DEF Conserved
<1> QED
  BY <1>5, <1>6, <1>7, <1>8, DrainTakes

-----------------------------------------------------------------------------
(* The controller clocks only the transfer of a call that is in the loop. *)

LEMMA WireBusy ==
  ASSUME Careful, PollInv, WireStep
  PROVE  /\ TA /\ ~wire.wedged /\ Clocked /\ wire.id = used /\ used \in Ids
         /\ wire.reading = call.reading /\ stat = {}
         /\ UNCHANGED <<call, snap, used, want, outcome>>
         /\ call.pc = "act" => snap \cap Latched = {}
<1> USE DEF PollInv, Core
<1>1. TA /\ ~wire.wedged /\ UNCHANGED <<call, snap, used, want, outcome>>
  BY DEF WireStep, WireByte, WireEnd, WireWedge
<1>2. InCall /\ ~Priming
  BY <1>1 DEF Between, Programmed
<1> QED
  BY <1>1, <1>2 DEF Clocked, Conserved, Order, Fresh

\* It clocks one byte of that transfer.
LEMMA ByteCore ==
  ASSUME Careful, PollInv, WireStep, WireByte,
         moved' = IF ~wire.reading /\ Head(fifo) = wire.id
                  THEN [moved EXCEPT ![wire.id] = @ + 1] ELSE moved
  PROVE  Core'
<1> USE DEF PollInv, Core, InCall, Priming, Last
<1>1. /\ UNCHANGED <<ctrl, stat, dlen, call, snap, used, want, outcome>>
      /\ wire' = [wire EXCEPT !.left = @ - 1] /\ wire.left > 0
  BY WireBusy DEF WireByte
<1>2. /\ wire'.id = used /\ wire'.reading = call.reading /\ ~wire'.wedged
      /\ wire'.left = wire.left - 1 /\ TA'
  BY <1>1, WireBusy DEF TypeOK, BscTypeOK, TA
<1>3. /\ fifo \in Seq(0 .. MaxXfers) /\ used \in 0 .. MaxXfers
      /\ \A j \in 1 .. Len(fifo) : fifo[j] = used
      /\ wire.left \in Nat /\ call.i \in Nat /\ call.n \in Nat /\ Len(fifo) \in Nat
      /\ moved \in [Ids -> Nat]
  BY WireBusy, Counters DEF Conserved
<1>4. /\ "DONE" \notin snap \/ call.pc # "act"
      /\ "DONE" \in Latched
  BY WireBusy DEF Latched
<1>5. CASE call.reading
  <2>1. moved' = moved /\ fifo' = Append(fifo, used)
    BY <1>5, WireBusy DEF WireByte
  <2>2. /\ Len(fifo') = Len(fifo) + 1 /\ fifo' # <<>>
        /\ \A j \in 1 .. Len(fifo') : fifo'[j] = used
    BY <1>3, <2>1, Own
  <2>3. Order' /\ Between' /\ Programmed'
    BY <1>1, <1>2, <2>1, WireBusy DEF Order, Between, Programmed, Clocked, TA
  <2>4. Conserved'
    <3>1. moved[used] = call.i /\ call.i + Len(fifo) + wire.left = call.n
      BY <1>5, WireBusy DEF Conserved
    <3>2. call.i + Len(fifo') + wire'.left = call.n
      BY <1>2, <1>3, <2>2, <3>1
    <3> QED
      BY <1>1, <1>2, <1>5, <2>1, <2>2, <3>1, <3>2, WireBusy DEF Conserved, Clocked
  <2>5. Fresh'
    BY <1>1, <1>4, <2>2, WireBusy DEF Fresh
  <2> QED
    BY <1>1, <2>3, <2>4, <2>5
<1>6. CASE ~call.reading
  <2>1. fifo # <<>> /\ fifo' = Tail(fifo)
    BY <1>6, WireBusy DEF WireByte, RXD
  <2>2. /\ Head(fifo) = used
        /\ \A j \in 1 .. Len(fifo') : fifo'[j] = used
    BY <1>3, <2>1, Own
  <2>3. moved' = [moved EXCEPT ![used] = @ + 1]
    BY <1>6, <2>2, WireBusy
  <2>4. moved'[used] = moved[used] + 1 /\ \A id \in Ids : id # used => moved'[id] = moved[id]
    BY <1>3, <2>3, WireBusy
  <2>5. Order'
    <3>1. \A id \in Ids : id > used => id # used
      BY DEF Ids, TypeOK
    <3> QED
      BY <1>1, <2>4, <3>1, WireBusy DEF Order
  <2>6. Between' /\ Programmed'
    BY <1>1, <1>2, WireBusy DEF Between, Programmed, Clocked, TA
  <2>7. Conserved'
    <3>1. moved[used] + wire.left = call.n /\ moved[used] \in Nat
      BY <1>3, <1>6, WireBusy DEF Conserved
    <3>2. moved'[used] + wire'.left = call.n
      BY <1>2, <1>3, <2>4, <3>1
    <3> QED
      BY <1>1, <1>2, <1>6, <2>2, <3>2, WireBusy DEF Conserved, Clocked
  <2>8. Fresh'
    BY <1>1, <1>4, <1>6, WireBusy DEF Fresh
  <2> QED
    BY <1>1, <2>5, <2>6, <2>7, <2>8
<1> QED
  BY <1>5, <1>6

\* It ends that transfer.
LEMMA EndCore ==
  ASSUME Careful, PollInv, WireStep, UNCHANGED moved,
         NEW bits \in {{"DONE"}, {"ERR", "DONE"}, {"CLKT", "DONE"}}, WireEnd(bits)
  PROVE  Core'
<1> USE DEF PollInv, Core, InCall, Priming, Last
<1>1. /\ UNCHANGED <<ctrl, dlen, fifo, call, snap, used, want, outcome, moved>>
      /\ stat' = bits /\ wire' = IdleWire /\ ~TA' /\ ~wire'.wedged
  BY WireBusy DEF WireEnd, IdleWire, TA
<1>2. Order' /\ Between' /\ Programmed'
  BY <1>1, WireBusy DEF Order, Between, Programmed, Clocked
<1>3. Conserved'
  <2>1. bits = {"DONE"} => wire.left = 0
    BY DEF WireEnd
  <2>2. /\ \A j \in 1 .. Len(fifo) : fifo[j] = used
        /\ call.reading => moved[used] = call.i /\ call.i + Len(fifo) + wire.left = call.n
        /\ ~call.reading => moved[used] + wire.left = call.n
    BY WireBusy DEF Conserved
  <2>3. call.i \in Nat /\ Len(fifo) \in Nat /\ moved[used] \in Nat
    BY WireBusy DEF TypeOK, BscTypeOK
  <2> QED
    BY <1>1, <2>1, <2>2, <2>3 DEF Conserved
<1>4. Fresh'
  BY <1>1, WireBusy DEF Fresh, Latched
<1> QED
  BY <1>1, <1>2, <1>3, <1>4

\* A slave wedges it.
LEMMA WedgeCore ==
  ASSUME Careful, PollInv, WireStep, UNCHANGED moved, WireWedge
  PROVE  Core'
<1> USE DEF PollInv, Core, InCall, Priming, Last
<1>1. /\ UNCHANGED <<ctrl, stat, dlen, fifo, call, snap, used, want, outcome, moved>>
      /\ wire' = [wire EXCEPT !.wedged = TRUE]
  BY WireBusy DEF WireWedge
<1>2. wire'.id = wire.id /\ wire'.reading = wire.reading /\ wire'.left = wire.left
      /\ wire'.wedged
  BY <1>1 DEF TypeOK, BscTypeOK
<1>3. Order' /\ Between' /\ Programmed'
  BY <1>1, <1>2, WireBusy DEF Order, Between, Programmed, Clocked, TA
<1>4. Conserved' /\ Fresh'
  BY <1>1, <1>2, WireBusy DEF Conserved, Fresh, Clocked, TA
<1> QED
  BY <1>1, <1>3, <1>4

LEMMA WireCore == ASSUME Careful, PollInv, WireStep PROVE Core'
  BY ByteCore, EndCore, WedgeCore DEF WireStep

-----------------------------------------------------------------------------
(* Theorems *)

LEMMA InitCore == ASSUME Init PROVE Core
<1> USE DEF Init, NoCall, IdleWire
<1>1. Order
  BY DEF Order, InCall, Ids
<1>2. Between /\ Programmed /\ Conserved /\ Fresh
  BY DEF Between, Programmed, Conserved, Fresh, Clocked, Priming, InCall, TA, Ids
<1> QED
  BY <1>1, <1>2 DEF Core

\* A call begins, for the first time or for the second.
LEMMA Begins ==
  ASSUME PollInv, Call \/ SecondHalf
  PROVE  ~InCall /\ \E r \in BOOLEAN, n \in Lens, m \in Lens \cup {0} : Begin(r, n, m)
<1>1. CASE Call
  BY <1>1 DEF Call, InCall
<1>2. CASE SecondHalf
  BY <1>2 DEF SecondHalf, InCall, PollInv, Core, Order
<1> QED
  BY <1>1, <1>2

LEMMA StepCore == ASSUME Careful, PollInv, [Next]_vars PROVE Core'
<1>1. CASE Call \/ SecondHalf
  BY <1>1, Begins, BeginCore
<1>2. CASE PrimeStep
  <2>1. call.k < Last \/ call.k = Last
    BY <1>2, PrimeStepDoes DEF PollInv, Last
  <2> QED
    BY <1>2, <2>1, PrimeCore, StartCore
<1>3. CASE Fail \/ Done \/ GiveUp
  <2>1. Clocked
    BY <1>3 DEF Fail, Done, GiveUp, Clocked, InCall, Priming
  <2> QED
    BY <1>3, <2>1, Returns, ReturnCore
<1>4. CASE Primed \/ PollStatus \/ Feed \/ Drain \/ Nothing
  BY <1>4, PrimedCore, PollCore, FeedCore, DrainCore, NothingCore
<1>5. CASE WireStep
  BY <1>5, WireCore
<1>6. CASE UNCHANGED vars
  BY <1>6 DEF PollInv, Core, Order, Between, Programmed, Conserved, Fresh, Clocked,
              Priming, InCall, TA, vars, bscVars, history
<1> QED
  BY <1>1, <1>2, <1>3, <1>4, <1>5, <1>6 DEF Next, CallStep

\* With careful callers, PollInv is an invariant.
THEOREM InvCorrect == ASSUME Careful PROVE Spec => []PollInv
<1>1. Init => Core
  BY InitCore
<1>2. Core /\ TypeOK /\ [Next]_vars => Core'
  BY StepCore DEF PollInv
<1> QED
  BY <1>1, <1>2, TypeCorrect, PTL DEF Spec, PollInv

\* With careful callers, a call that returns anything but Timeout leaves the bus
\* free: no call meets a controller that still clocks the transfer before it.
THEOREM Released == ASSUME Careful PROVE Spec => []BusReleased
<1>1. PollInv => BusReleased
  BY DEF PollInv, Core, Between, BusReleased, InCall
<1> QED
  BY <1>1, InvCorrect, PTL

\* With careful callers, Timeout is for a wedged bus: no read is cut short by a
\* DONE that comes before the FIFO is empty, and no completed transfer given up.
THEOREM TimeoutHonest == ASSUME Careful PROVE Spec => []TimeoutMeansWedged
<1>1. PollInv => TimeoutMeansWedged
  BY DEF PollInv, Core, Between, TimeoutMeansWedged
<1> QED
  BY <1>1, InvCorrect, PTL

-----------------------------------------------------------------------------
(* The transport implements the seam. *)

\* What a state of the transport is to the seam.
StatusOf(id) == IF outcome[id] # "none" THEN outcome[id]
               ELSE IF id <= used THEN "open" ELSE "new"
SeamStatus == [id \in Ids |-> StatusOf(id)]

LEMMA SeamBegin ==
  ASSUME PollInv, ~InCall, NEW r \in BOOLEAN, NEW n \in Lens, NEW m, Begin(r, n, m)
  PROVE  Seam!Next
<1> USE DEF PollInv, Core
<1>1. /\ used \in Nat /\ used + 1 \in Ids /\ used' = used + 1
      /\ want' = [want EXCEPT ![used + 1] = n] /\ UNCHANGED <<moved, outcome>>
  BY BscAssumption DEF Begin, TypeOK, Ids
<1>2. \A id \in Ids : /\ id \in Nat
                      /\ id > used => outcome[id] = "none"
                      /\ id <= used => outcome[id] # "none"
  BY DEF Order, Ids
<1>3. SeamStatus[used + 1] = "new" /\ \A y \in Ids : SeamStatus[y] # "open"
  <2>1. ~(used + 1 <= used) /\ used + 1 > used
    BY <1>1
  <2>2. StatusOf(used + 1) = "new"
    BY <1>1, <1>2, <2>1 DEF StatusOf
  <2>3. ASSUME NEW y \in Ids PROVE StatusOf(y) # "open"
    <3>1. CASE y <= used
      <4>1. outcome[y] \in Results
        BY <1>2, <3>1 DEF TypeOK
      <4> QED
        BY <4>1 DEF StatusOf, Results
    <3>2. CASE ~(y <= used)
      BY <1>1, <1>2, <3>2 DEF StatusOf
    <3> QED
      BY <3>1, <3>2
  <2> QED
    BY <1>1, <2>2, <2>3 DEF SeamStatus
<1>4. SeamStatus' = [SeamStatus EXCEPT ![used + 1] = "open"]
  <2>1. \A id \in Ids : StatusOf(id)' = IF id = used + 1 THEN "open" ELSE StatusOf(id)
    BY <1>1, <1>2 DEF StatusOf
  <2> QED
    BY <1>1, <2>1 DEF SeamStatus
<1>5. Seam!Begin(used + 1, n)
  BY <1>1, <1>3, <1>4 DEF Seam!Begin, SeamStatus, StatusOf
<1> QED
  BY <1>1, <1>5 DEF Seam!Next

LEMMA SeamMove ==
  ASSUME PollInv, used \in Ids, outcome[used] = "none", moved[used] < want[used],
         moved' = [moved EXCEPT ![used] = @ + 1], UNCHANGED <<used, want, outcome>>
  PROVE  Seam!Next
<1>1. SeamStatus[used] = "open" /\ SeamStatus' = SeamStatus
  BY DEF SeamStatus, StatusOf, Ids
<1>2. Seam!Move(used)
  BY <1>1 DEF Seam!Move, SeamStatus, StatusOf
<1> QED
  BY <1>2 DEF Seam!Next

LEMMA SeamFinish ==
  ASSUME PollInv, Clocked, NEW result \in Results, Return(result),
         result = "Ok" => moved[used] = want[used]
  PROVE  Seam!Next
<1> USE DEF PollInv, Core
<1>1. /\ used \in Ids /\ call.id = used /\ outcome[used] = "none"
      /\ outcome' = [outcome EXCEPT ![used] = result]
      /\ UNCHANGED <<used, want, moved>> /\ result # "none"
      /\ outcome \in [Ids -> Results \cup {"none"}]
  BY DEF Return, Clocked, Order, TypeOK, Results
<1>2. SeamStatus[used] = "open"
  BY <1>1 DEF SeamStatus, StatusOf, Ids
<1>3. SeamStatus' = [SeamStatus EXCEPT ![used] = result]
  <2>1. \A id \in Ids : StatusOf(id)' = IF id = used THEN result ELSE StatusOf(id)
    BY <1>1 DEF StatusOf
  <2> QED
    BY <1>1, <2>1 DEF SeamStatus
<1>4. Seam!Finish(used, result)
  BY <1>1, <1>2, <1>3 DEF Seam!Finish, SeamStatus, StatusOf
<1>5. result \in Seam!I2cResult
  BY DEF Results, Seam!I2cResult
<1> QED
  BY <1>1, <1>4, <1>5 DEF Seam!Next

\* Every step of the transport is a step of the seam, or nothing to it.
LEMMA SeamStep ==
  ASSUME Careful, PollInv, [Next]_vars PROVE [Seam!Next]_(Seam!vars)
<1>1. CASE Call \/ SecondHalf
  BY <1>1, Begins, SeamBegin
<1>2. CASE UNCHANGED history
  BY <1>2 DEF history, Seam!vars
<1>3. CASE PrimeStep \/ Primed \/ PollStatus \/ Feed \/ Nothing \/ UNCHANGED vars
  BY <1>2, <1>3 DEF PrimeStep, Primed, PollStatus, Feed, Nothing, vars
<1>4. CASE Fail \/ Done \/ GiveUp
  <2>1. Clocked
    BY <1>4 DEF Fail, Done, GiveUp, Clocked, InCall, Priming
  <2> QED
    BY <1>4, <2>1, Returns, SeamFinish
<1>5. CASE Drain
  <2>1. moved[used] < want[used] /\ outcome[used] = "none"
    <3>1. Clocked
      BY <1>5, DrainTakes DEF Clocked, InCall, Priming
    <3> QED
      BY <1>5, <3>1, DrainTakes DEF PollInv, Core, Conserved, Order, Clocked
  <2> QED
    BY <1>5, <2>1, DrainTakes, SeamMove
<1>6. CASE WireStep
  <2>1. CASE moved' = moved
    BY <1>2, <1>6, <2>1, WireBusy DEF history
  <2>2. CASE moved' # moved
    <3>1. WireByte /\ ~wire.reading /\ moved' = [moved EXCEPT ![used] = @ + 1]
      BY <1>6, <2>2, WireBusy DEF WireStep
    <3>2. moved[used] + wire.left = want[used] /\ outcome[used] = "none" /\ wire.left > 0
      BY <1>6, <3>1, WireBusy DEF PollInv, Core, Conserved, Order, Clocked, WireByte
    <3>3. moved[used] \in Nat /\ wire.left \in Nat
      BY <1>6, WireBusy, Counters DEF PollInv
    <3>4. moved[used] < want[used]
      BY <3>2, <3>3
    <3> QED
      BY <1>6, <3>1, <3>2, <3>4, WireBusy, SeamMove
  <2> QED
    BY <2>1, <2>2
<1> QED
  BY <1>1, <1>3, <1>4, <1>5, <1>6 DEF Next, CallStep

\* With careful callers, the polling transport implements the seam: one transfer
\* is open at a time, its bytes move while it is open and never after, no more of
\* them than were asked for, and Ok means that all of them moved.
THEOREM Implements == ASSUME Careful PROVE Spec => ImplementsSeam
<1>1. Init => Seam!Init
  <2> SUFFICES ASSUME Init PROVE Seam!Init
    OBVIOUS
  <2>1. \A id \in Ids : ~(id <= 0)
    BY DEF Ids
  <2>2. SeamStatus = [id \in Ids |-> "new"]
    BY <2>1 DEF Init, SeamStatus, StatusOf
  <2> QED
    BY <2>2 DEF Init, Seam!Init, SeamStatus, StatusOf
<1>2. PollInv /\ [Next]_vars => [Seam!Next]_(Seam!vars)
  BY SeamStep
<1> QED
  BY <1>1, <1>2, InvCorrect, PTL DEF Spec, ImplementsSeam, Seam!Spec

\* With careful callers, Ok means that every byte of the transfer moved, whatever
\* the transfers before it left in the FIFO: what the seam promises, of the code.
THEOREM AllMoved == ASSUME Careful PROVE Spec => []OkMeansMoved
<1>1. Init => OkMeansMoved
  BY DEF Init, OkMeansMoved
<1>2. OkMeansMoved /\ PollInv /\ [Next]_vars => OkMeansMoved'
  <2> SUFFICES ASSUME OkMeansMoved, PollInv, [Next]_vars, NEW id \in Ids, outcome'[id] = "Ok"
               PROVE  moved'[id] = want'[id]
    BY DEF OkMeansMoved
  <2>1. [Seam!Next]_(Seam!vars)
    BY SeamStep
  <2>2. ASSUME SeamStatus[id] = "Ok" PROVE moved[id] = want[id]
    <3>1. outcome[id] = "Ok"
      BY <2>2 DEF SeamStatus, StatusOf
    <3> QED
      BY <3>1 DEF OkMeansMoved
  <2>3. SeamStatus'[id] = "Ok"
    BY DEF SeamStatus, StatusOf
  <2> DEFINE old == SeamStatus
             new == SeamStatus'
  <2>4. CASE UNCHANGED Seam!vars
    <3>1. new = old /\ UNCHANGED <<want, moved>>
      BY <2>4 DEF Seam!vars, SeamStatus, StatusOf
    <3> QED
      BY <2>2, <2>3, <3>1
  <2>5. ASSUME NEW x \in Ids, NEW n \in Lens, Seam!Begin(x, n) PROVE moved'[id] = want'[id]
    <3>1. new = [old EXCEPT ![x] = "open"] /\ want' = [want EXCEPT ![x] = n] /\ moved' = moved
      BY <2>5 DEF Seam!Begin, SeamStatus, StatusOf
    <3>2. x # id
      BY <2>3, <3>1 DEF SeamStatus
    <3>3. new[id] = old[id] /\ want'[id] = want[id]
      BY <3>1, <3>2 DEF PollInv, TypeOK, SeamStatus
    <3> QED
      BY <2>2, <2>3, <3>1, <3>3
  <2>6. ASSUME NEW x \in Ids, Seam!Move(x) PROVE moved'[id] = want'[id]
    <3>1. /\ new = old /\ moved' = [moved EXCEPT ![x] = @ + 1] /\ want' = want
          /\ old[x] = "open"
      BY <2>6 DEF Seam!Move, SeamStatus, StatusOf
    <3>2. x # id
      BY <2>3, <3>1
    <3>3. moved'[id] = moved[id]
      BY <3>1, <3>2 DEF PollInv, TypeOK
    <3> QED
      BY <2>2, <2>3, <3>1, <3>3
  <2>7. ASSUME NEW x \in Ids, NEW res, Seam!Finish(x, res) PROVE moved'[id] = want'[id]
    <3>1. /\ new = [old EXCEPT ![x] = res] /\ UNCHANGED <<moved, want>>
          /\ res = "Ok" => moved[x] = want[x]
      BY <2>7 DEF Seam!Finish, SeamStatus, StatusOf
    <3>2. CASE x = id
      BY <2>3, <3>1, <3>2 DEF SeamStatus
    <3>3. CASE x # id
      BY <2>2, <2>3, <3>1, <3>3 DEF SeamStatus
    <3> QED
      BY <3>2, <3>3
  <2> QED
    BY <2>1, <2>4, <2>5, <2>6, <2>7 DEF Seam!Next
<1> QED
  BY <1>1, <1>2, InvCorrect, PTL DEF Spec

=============================================================================
