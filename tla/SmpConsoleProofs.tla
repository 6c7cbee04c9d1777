-------------------------- MODULE SmpConsoleProofs --------------------------
(***************************************************************************)
(* For any number of cores and timers that fire at any time: the console   *)
(* carries one line at a time, a core takes interrupts only when all that  *)
(* its handler needs is there, the lock is used only with the MMU on, and  *)
(* no wake-up is lost.                                                     *)
(***************************************************************************)
EXTENDS SmpConsole, TLAPS

-----------------------------------------------------------------------------
(* The inductive invariant *)

PosType ==
  /\ pos \in [Cores -> [Ctx -> Nat]]
  /\ \A c \in Cores :
       /\ pos[c]["thread"] \in 1 .. (IF c = 0 THEN 17 ELSE 10)
       /\ pos[c]["isr"] \in 0 .. 6

BitsType ==
  /\ asleep \in [Cores -> [Ctx -> BOOLEAN]]
  /\ event \in [Cores -> BOOLEAN]
  /\ released \in SUBSET Cores
  /\ mmu \in SUBSET Cores /\ vbar \in SUBSET Cores /\ unmasked \in SUBSET Cores
  /\ timer \in [Cores -> {"off", "armed", "fired"}]
  /\ ready \in SUBSET AllReady
  /\ g_lock \in BOOLEAN /\ g_locking \in BOOLEAN

\* The thread of core c is past step k of kmain(), or of ksecondary().
Past(c, kmain, ksecondary) ==
  pos[c]["thread"] > (IF c = 0 THEN kmain ELSE ksecondary)

\* What a core has set up for itself, and that its handler runs only then.
CoreInv == \A c \in Cores :
  /\ Past(c, 4, 2) => c \in mmu
  /\ Past(c, 6, 3) => c \in vbar
  /\ c \in unmasked => Past(c, 12, 5)
  /\ pos[c]["isr"] > 0 => c \in unmasked

\* What core 0 has set up for all of them before it releases them.
BootInv ==
  /\ Past(0, 3, 0) => "tables" \in ready
  /\ Past(0, 5, 0) => "active" \in ready
  /\ Past(0, 7, 0) => "handler" \in ready
  /\ Past(0, 9, 0) => g_locking
  /\ \A c \in Cores : c # 0 /\ c \in released => Past(0, 9, 0)
  /\ \A c \in Cores : c # 0 /\ Past(c, 0, 1) => c \in released

\* A context that has the lock.
Holds(c, x) == InAt(c, x, "print") \/ InAt(c, x, "unlock")

LockInv == Past(0, 9, 0) =>
  \A c, d \in Cores, x, y \in Ctx :
    Holds(c, x) => g_lock /\ (Holds(d, y) => c = d /\ x = y)

\* Only a context that is at the lock sleeps.
SleepInv == \A c \in Cores, x \in Ctx : asleep[c][x] => InAt(c, x, "lock")

Inv == PosType /\ BitsType /\ CoreInv /\ BootInv /\ LockInv /\ SleepInv
       /\ NoLostWakeup

-----------------------------------------------------------------------------
(* The programs *)

LEMMA CoreZero == 0 \in Cores /\ Cores \subseteq Nat
  BY CoresAssumption DEF Cores

\* Where each step is.
LEMMA KmainSteps ==
  ASSUME NEW i \in 1 .. 17
  PROVE  /\ Len(Kmain) = 17
         /\ Kmain[i] = "bss" <=> i = 1
         /\ Kmain[i] = "print" <=> i \in {2, 8, 14}
         /\ Kmain[i] = "tables" <=> i = 3
         /\ Kmain[i] = "mmu" <=> i = 4
         /\ Kmain[i] = "active" <=> i = 5
         /\ Kmain[i] = "vector" <=> i = 6
         /\ Kmain[i] = "handler" <=> i = 7
         /\ Kmain[i] = "locking" <=> i = 9
         /\ Kmain[i] = "release" <=> i = 10
         /\ Kmain[i] = "timer" <=> i = 11
         /\ Kmain[i] = "unmask" <=> i = 12
         /\ Kmain[i] = "lock" <=> i = 13
         /\ Kmain[i] = "unlock" <=> i = 15
         /\ Kmain[i] = "sev" <=> i = 16
         /\ Kmain[i] = "online" <=> i = 17
         /\ Kmain[i] \notin {"parked", "rearm", "return"}
<1>1. \/ i = 1 \/ i = 2 \/ i = 3 \/ i = 4 \/ i = 5 \/ i = 6 \/ i = 7 \/ i = 8
      \/ i = 9 \/ i = 10 \/ i = 11 \/ i = 12 \/ i = 13 \/ i = 14 \/ i = 15
      \/ i = 16 \/ i = 17
  OBVIOUS
<1> QED
  BY <1>1, SMTT(60) DEF Kmain

LEMMA KsecondarySteps ==
  ASSUME NEW i \in 1 .. 10
  PROVE  /\ Len(Ksecondary) = 10
         /\ Ksecondary[i] = "parked" <=> i = 1
         /\ Ksecondary[i] = "mmu" <=> i = 2
         /\ Ksecondary[i] = "vector" <=> i = 3
         /\ Ksecondary[i] = "timer" <=> i = 4
         /\ Ksecondary[i] = "unmask" <=> i = 5
         /\ Ksecondary[i] = "lock" <=> i = 6
         /\ Ksecondary[i] = "print" <=> i = 7
         /\ Ksecondary[i] = "unlock" <=> i = 8
         /\ Ksecondary[i] = "sev" <=> i = 9
         /\ Ksecondary[i] = "online" <=> i = 10
         /\ Ksecondary[i] \notin {"bss", "tables", "active", "handler",
                                  "locking", "release", "rearm", "return"}
<1>1. \/ i = 1 \/ i = 2 \/ i = 3 \/ i = 4 \/ i = 5 \/ i = 6 \/ i = 7 \/ i = 8
      \/ i = 9 \/ i = 10
  OBVIOUS
<1> QED
  BY <1>1, SMTT(60) DEF Ksecondary

LEMMA TimerIsrSteps ==
  ASSUME NEW i \in 1 .. 6
  PROVE  /\ Len(TimerIsr) = 6
         /\ TimerIsr[i] = "lock" <=> i = 1
         /\ TimerIsr[i] = "print" <=> i = 2
         /\ TimerIsr[i] = "unlock" <=> i = 3
         /\ TimerIsr[i] = "sev" <=> i = 4
         /\ TimerIsr[i] = "rearm" <=> i = 5
         /\ TimerIsr[i] = "return" <=> i = 6
         /\ TimerIsr[i] \notin {"bss", "tables", "active", "handler", "locking",
                                "release", "parked", "mmu", "vector", "timer",
                                "unmask", "online"}
<1>1. i = 1 \/ i = 2 \/ i = 3 \/ i = 4 \/ i = 5 \/ i = 6
  OBVIOUS
<1> QED
  BY <1>1 DEF TimerIsr

\* The steps, by core and context.
AtTable(c, x) ==
  LET p == pos[c][x]
      Thread(kmain, ksecondary) ==
        x = "thread" /\ p = (IF c = 0 THEN kmain ELSE ksecondary)
  IN /\ InAt(c, x, "bss") <=> c = 0 /\ x = "thread" /\ p = 1
     /\ InAt(c, x, "tables") <=> c = 0 /\ x = "thread" /\ p = 3
     /\ InAt(c, x, "active") <=> c = 0 /\ x = "thread" /\ p = 5
     /\ InAt(c, x, "handler") <=> c = 0 /\ x = "thread" /\ p = 7
     /\ InAt(c, x, "locking") <=> c = 0 /\ x = "thread" /\ p = 9
     /\ InAt(c, x, "release") <=> c = 0 /\ x = "thread" /\ p = 10
     /\ InAt(c, x, "parked") <=> c # 0 /\ x = "thread" /\ p = 1
     /\ InAt(c, x, "mmu") <=> Thread(4, 2)
     /\ InAt(c, x, "vector") <=> Thread(6, 3)
     /\ InAt(c, x, "timer") <=> Thread(11, 4)
     /\ InAt(c, x, "unmask") <=> Thread(12, 5)
     /\ InAt(c, x, "online") <=> Thread(17, 10)
     /\ InAt(c, x, "lock") <=> Thread(13, 6) \/ (x = "isr" /\ p = 1)
     /\ InAt(c, x, "print") <=>
          \/ Thread(14, 7) \/ (x = "isr" /\ p = 2)
          \/ c = 0 /\ x = "thread" /\ p \in {2, 8}
     /\ InAt(c, x, "unlock") <=> Thread(15, 8) \/ (x = "isr" /\ p = 3)
     /\ InAt(c, x, "sev") <=> Thread(16, 9) \/ (x = "isr" /\ p = 4)
     /\ InAt(c, x, "rearm") <=> x = "isr" /\ p = 5
     /\ InAt(c, x, "return") <=> x = "isr" /\ p = 6

LEMMA StepFacts == PosType => \A c \in Cores, x \in Ctx : AtTable(c, x)
<1> SUFFICES ASSUME PosType, NEW c \in Cores, NEW x \in Ctx PROVE AtTable(c, x)
  OBVIOUS
<1> USE DEF AtTable
<1>1. CASE x = "isr"
  <2>1. CASE pos[c][x] = 0
    BY <1>1, <2>1 DEF InAt
  <2>2. CASE pos[c][x] \in 1 .. 6
    BY <1>1, <2>2, TimerIsrSteps DEF InAt, Program
  <2> QED
    BY <1>1, <2>1, <2>2 DEF PosType
<1>2. CASE x = "thread" /\ c = 0
  <2>1. pos[c][x] \in 1 .. 17
    BY <1>2, CoreZero DEF PosType
  <2> QED
    BY <1>2, <2>1, KmainSteps DEF InAt, Program
<1>3. CASE x = "thread" /\ c # 0
  <2>1. pos[c][x] \in 1 .. 10
    BY <1>3 DEF PosType
  <2> QED
    BY <1>3, <2>1, KsecondarySteps DEF InAt, Program
<1> QED
  BY <1>1, <1>2, <1>3 DEF Ctx

LEMMA StepFactsNext ==
  (PosType => \A c \in Cores, x \in Ctx : AtTable(c, x))'
  BY StepFacts, PTL

LEMMA RunningFacts ==
  ASSUME PosType, NEW c \in Cores
  PROVE  /\ Running(c) \in Ctx
         /\ Running(c) = "isr" <=> pos[c]["isr"] > 0
  BY DEF Running, Ctx

\* A context goes on to the step after the one it is at.
LEMMA GoOnFacts ==
  ASSUME PosType, NEW c \in Cores, NEW step, At(c, step), GoOn(c),
         step \notin {"online", "return"}
  PROVE  /\ PosType'
         /\ pos'[c][Running(c)] = pos[c][Running(c)] + 1
         /\ \A d \in Cores, y \in Ctx :
              d # c \/ y # Running(c) => pos'[d][y] = pos[d][y]
         /\ InAt(c, Running(c), step)
<1>1. pos' = [pos EXCEPT ![c][Running(c)] = @ + 1] /\ InAt(c, Running(c), step)
  BY DEF GoOn, At
<1>2. Running(c) \in Ctx
  BY RunningFacts
<1>3. pos'[c][Running(c)] = pos[c][Running(c)] + 1
  BY <1>1, <1>2 DEF PosType
<1>4. ASSUME NEW d \in Cores, NEW y \in Ctx, d # c \/ y # Running(c)
      PROVE  pos'[d][y] = pos[d][y]
  BY <1>1, <1>2, <1>4 DEF PosType
<1>5. pos' \in [Cores -> [Ctx -> Nat]]
  BY <1>1, <1>2 DEF PosType
<1>6. ~InAt(c, Running(c), "online") /\ ~InAt(c, Running(c), "return")
  BY <1>1 DEF InAt
<1>7. /\ Running(c) = "isr" => pos[c]["isr"] \in 0 .. 5
      /\ Running(c) = "thread" => pos[c]["thread"] # (IF c = 0 THEN 17 ELSE 10)
  BY <1>2, <1>6, StepFacts DEF AtTable, PosType
<1>8. PosType'
  BY <1>2, <1>3, <1>4, <1>5, <1>7 DEF PosType, Ctx
<1> QED
  BY <1>1, <1>3, <1>4, <1>8

-----------------------------------------------------------------------------
(* The initial states *)

LEMMA InitInv == Init => Inv
<1> SUFFICES ASSUME Init PROVE Inv
  OBVIOUS
<1>1. PosType
  BY DEF Init, PosType, Ctx
<1>2. BitsType
  BY CoreZero DEF Init, BitsType, Ctx
<1>3. CoreInv
  BY DEF Init, CoreInv, Past, Ctx
<1>4. BootInv
  BY CoreZero DEF Init, BootInv, Past, Ctx
<1>5. LockInv
  BY CoreZero DEF Init, LockInv, Past, Ctx
<1>6. SleepInv /\ NoLostWakeup
  BY <1>1, RunningFacts DEF Init, SleepInv, NoLostWakeup
<1> QED
  BY <1>1, <1>2, <1>3, <1>4, <1>5, <1>6 DEF Inv

-----------------------------------------------------------------------------
(* The steps of the boot and the handler that leave the lock alone *)

\* Until core 0 enables the lock the other cores are parked, no handler runs and
\* nobody is at the lock.
LEMMA Early ==
  ASSUME Inv, ~Past(0, 9, 0), NEW c \in Cores
  PROVE  /\ c # 0 => pos[c]["thread"] = 1
         /\ pos[c]["isr"] = 0 /\ Running(c) = "thread"
         /\ \A x \in Ctx : ~InAt(c, x, "lock") /\ ~asleep[c][x]
<1>1. c # 0 => pos[c]["thread"] = 1
  BY CoreZero DEF Inv, BootInv, Past, PosType
<1>2. pos[c]["isr"] = 0
  BY <1>1, CoreZero DEF Inv, CoreInv, Past, PosType
<1>3. \A x \in Ctx : ~InAt(c, x, "lock")
  BY <1>1, <1>2, CoreZero, StepFacts DEF Inv, AtTable, Past, Ctx, PosType
<1> QED
  BY <1>1, <1>2, <1>3 DEF Inv, SleepInv, Running

LEMMA LockFrame ==
  ASSUME Inv, NEW c \in Cores, NEW step, At(c, step), GoOn(c),
         step \notin {"lock", "print", "unlock", "sev", "online", "return"},
         asleep' = asleep, g_lock' = g_lock \/ ~Past(0, 9, 0),
         \A d \in Cores : event'[d] = event[d] \/ event'[d]
  PROVE  PosType' /\ LockInv' /\ SleepInv' /\ NoLostWakeup'
<1> PICK x \in Ctx : x = Running(c)
  BY RunningFacts DEF Inv
<1>1. /\ PosType' /\ x \in Ctx /\ PosType
      /\ pos'[c][x] = pos[c][x] + 1
      /\ \A d \in Cores, y \in Ctx : d # c \/ y # x => pos'[d][y] = pos[d][y]
  BY GoOnFacts, RunningFacts DEF Inv
<1>2. /\ ~InAt(c, x, "lock") /\ ~InAt(c, x, "print") /\ ~InAt(c, x, "unlock")
      /\ ~InAt(c, x, "sev")
  BY DEF At, InAt
<1>3. \A d \in Cores, y \in Ctx : d # c \/ y # x => \A s :
        InAt(d, y, s)' <=> InAt(d, y, s)
  BY <1>1 DEF InAt
<1>4. \A d \in Cores : Running(d)' = Running(d)
  BY <1>1 DEF Running, Ctx, PosType
<1>5. SleepInv'
  BY <1>2, <1>3 DEF Inv, SleepInv
<1>6. NoLostWakeup'
  <2> SUFFICES ASSUME ~g_lock', NEW d \in Cores, asleep'[d][Running(d)']
               PROVE  event'[d] \/ \E e \in Cores, y \in Ctx : InAt(e, y, "sev")'
    BY DEF NoLostWakeup
  <2>1. asleep[d][Running(d)] /\ Running(d) \in Ctx
    BY <1>1, <1>4, RunningFacts
  <2>2. ~g_lock
    BY <2>1, Early
  <2>3. event[d] \/ \E e \in Cores, y \in Ctx : InAt(e, y, "sev")
    BY <2>1, <2>2 DEF Inv, NoLostWakeup
  <2> QED
    BY <2>3, <1>2, <1>3
<1>7. LockInv'
  <2>1. CASE Past(0, 9, 0)
    <3>1. \A d \in Cores, y \in Ctx : Holds(d, y)' => Holds(d, y)
      <4>1. ~Holds(c, x)'
        <5>1. AtTable(c, x) /\ AtTable(c, x)'
          BY <1>1, StepFacts, StepFactsNext
        <5>2. CASE x = "isr"
          BY <5>1, <5>2, <1>1, <1>2 DEF AtTable, Holds, PosType
        <5>3. CASE x = "thread"
          BY <5>1, <5>3, <1>1, <1>2, <2>1 DEF AtTable, Holds, Past, PosType
        <5> QED
          BY <5>2, <5>3, <1>1 DEF Ctx
      <4> QED
        BY <4>1, <1>3 DEF Holds
    <3> QED
      BY <3>1, <2>1 DEF Inv, LockInv
  <2>2. CASE ~Past(0, 9, 0)
    <3> SUFFICES ASSUME Past(0, 9, 0)', NEW d \in Cores, NEW y \in Ctx
                 PROVE  ~Holds(d, y)'
      BY DEF LockInv
    <3>1. pos[0]["thread"] < 10
      BY <2>2, <1>1, CoreZero DEF Past, PosType
    <3>2. c = 0 /\ x = "thread" /\ pos'[0]["thread"] = 10
      BY <3>1, <1>1, CoreZero DEF Past, Ctx, PosType
    <3>3. pos'[d]["isr"] = 0 /\ (d # 0 => pos'[d]["thread"] = 1)
      BY <3>2, <2>2, <1>1, Early DEF Ctx
    <3>4. AtTable(d, y)'
      BY <1>1, StepFactsNext
    <3> QED
      BY <3>2, <3>3, <3>4 DEF AtTable, Holds, Ctx
  <2> QED
    BY <2>1, <2>2
<1> QED
  BY <1>1, <1>5, <1>6, <1>7

BootSteps == AllReady \cup {"bss", "mmu", "vector", "locking", "release",
                            "parked", "timer", "unmask"}

\* Those steps are the thread's.
LEMMA BootFrame ==
  ASSUME Inv, NEW c \in Cores, NEW step \in BootSteps, At(c, step)
  PROVE  /\ Running(c) = "thread" /\ pos[c]["isr"] = 0
         /\ InAt(c, "thread", step)
         /\ GoOn(c) => /\ PosType'
                       /\ pos'[c]["thread"] = pos[c]["thread"] + 1
                       /\ \A d \in Cores : pos'[d]["isr"] = pos[d]["isr"]
                       /\ \A d \in Cores : d # c =>
                            pos'[d]["thread"] = pos[d]["thread"]
<1>1. PosType /\ Running(c) \in Ctx /\ InAt(c, Running(c), step)
  BY RunningFacts DEF Inv, At
<1>2. Running(c) = "thread"
  BY <1>1, StepFacts DEF AtTable, BootSteps, AllReady, Ctx
<1>3. pos[c]["isr"] = 0
  BY <1>1, <1>2, RunningFacts DEF PosType
<1> QED
  BY <1>1, <1>2, <1>3, GoOnFacts DEF BootSteps, AllReady, Ctx

LEMMA BootInvariant ==
  ASSUME Inv, NEW c \in Cores, Boot(c)
  PROVE  Inv'
<1> USE CoreZero DEF Inv
<1>0. PosType /\ BitsType /\ AtTable(c, "thread")
  BY StepFacts DEF Ctx
<1>1. CASE ClearBss(c)
  <2>1. At(c, "bss") /\ GoOn(c)
    BY <1>1 DEF ClearBss
  <2>2. c = 0 /\ pos[0]["thread"] = 1
    BY <2>1, <1>0, BootFrame DEF AtTable, BootSteps
  <2>3. PosType' /\ LockInv' /\ SleepInv' /\ NoLostWakeup'
    BY <2>1, <2>2, <1>1, LockFrame DEF ClearBss, Past
  <2>4. BitsType'
    BY <1>1, <1>0 DEF ClearBss, perCore, BitsType
  <2>5. CoreInv'
    BY <2>1, <2>2, <1>1, BootFrame DEF ClearBss, perCore, BootSteps, CoreInv, Past
  <2>6. BootInv'
    BY <2>1, <2>2, <1>1, BootFrame DEF ClearBss, perCore, BootSteps, BootInv, Past
  <2> QED
    BY <2>3, <2>4, <2>5, <2>6
<1>2. ASSUME NEW s \in AllReady, Prepare(c, s) PROVE Inv'
  <2>1. At(c, s) /\ GoOn(c) /\ s \in BootSteps
    BY <1>2 DEF Prepare, BootSteps
  <2>2. /\ s = "tables" => c = 0 /\ pos[0]["thread"] = 3
        /\ s = "active" => c = 0 /\ pos[0]["thread"] = 5
        /\ s = "handler" => c = 0 /\ pos[0]["thread"] = 7
    BY <2>1, <1>0, BootFrame DEF AtTable
  <2>3. PosType' /\ LockInv' /\ SleepInv' /\ NoLostWakeup'
    BY <2>1, <1>2, LockFrame DEF Prepare, AllReady
  <2>4. BitsType'
    BY <1>2, <1>0 DEF Prepare, perCore, BitsType
  <2>5. CoreInv'
    BY <2>1, <2>2, <1>2, BootFrame DEF Prepare, perCore, AllReady, CoreInv, Past
  <2>6. BootInv'
    BY <2>1, <2>2, <1>2, BootFrame DEF Prepare, perCore, AllReady, BootInv, Past
  <2> QED
    BY <2>3, <2>4, <2>5, <2>6
<1>3. CASE MmuEnable(c)
  <2>1. At(c, "mmu") /\ GoOn(c)
    BY <1>3 DEF MmuEnable
  <2>2. pos[c]["thread"] = (IF c = 0 THEN 4 ELSE 2)
    BY <2>1, <1>0, BootFrame DEF AtTable, BootSteps
  <2>3. PosType' /\ LockInv' /\ SleepInv' /\ NoLostWakeup'
    BY <2>1, <1>3, LockFrame DEF MmuEnable, bss
  <2>4. BitsType'
    BY <1>3, <1>0 DEF MmuEnable, bss, BitsType
  <2>5. CoreInv'
    BY <2>1, <2>2, <1>3, BootFrame DEF MmuEnable, BootSteps, CoreInv, Past
  <2>6. BootInv'
    BY <2>1, <2>2, <1>3, BootFrame DEF MmuEnable, bss, BootSteps, BootInv, Past
  <2> QED
    BY <2>3, <2>4, <2>5, <2>6
<1>4. CASE InstallVectors(c)
  <2>1. At(c, "vector") /\ GoOn(c)
    BY <1>4 DEF InstallVectors
  <2>2. pos[c]["thread"] = (IF c = 0 THEN 6 ELSE 3)
    BY <2>1, <1>0, BootFrame DEF AtTable, BootSteps
  <2>3. PosType' /\ LockInv' /\ SleepInv' /\ NoLostWakeup'
    BY <2>1, <1>4, LockFrame DEF InstallVectors, bss
  <2>4. BitsType'
    BY <1>4, <1>0 DEF InstallVectors, bss, BitsType
  <2>5. CoreInv'
    BY <2>1, <2>2, <1>4, BootFrame DEF InstallVectors, BootSteps, CoreInv, Past
  <2>6. BootInv'
    BY <2>1, <2>2, <1>4, BootFrame DEF InstallVectors, bss, BootSteps, BootInv, Past
  <2> QED
    BY <2>3, <2>4, <2>5, <2>6
<1>5. CASE EnableLock(c)
  <2>1. At(c, "locking") /\ GoOn(c)
    BY <1>5 DEF EnableLock
  <2>2. c = 0 /\ pos[0]["thread"] = 9
    BY <2>1, <1>0, BootFrame DEF AtTable, BootSteps
  <2>3. PosType' /\ LockInv' /\ SleepInv' /\ NoLostWakeup'
    BY <2>1, <1>5, LockFrame DEF EnableLock
  <2>4. BitsType'
    BY <1>5, <1>0 DEF EnableLock, perCore, BitsType
  <2>5. CoreInv'
    BY <2>1, <2>2, <1>5, BootFrame DEF EnableLock, perCore, BootSteps, CoreInv, Past
  <2>6. BootInv'
    BY <2>1, <2>2, <1>5, BootFrame DEF EnableLock, perCore, BootSteps, BootInv, Past
  <2> QED
    BY <2>3, <2>4, <2>5, <2>6
<1>6. ASSUME NEW d \in Cores, ReleaseSlot(c, d) PROVE Inv'
  <2>1. At(c, "release") /\ UNCHANGED <<pos, asleep, event, perCore, bss>>
    BY <1>6 DEF ReleaseSlot
  <2>2. c = 0 /\ pos[0]["thread"] = 10
    BY <2>1, <1>0, BootFrame DEF AtTable, BootSteps
  <2>3. PosType' /\ LockInv' /\ SleepInv' /\ NoLostWakeup'
    BY <2>1 DEF bss, PosType, LockInv, SleepInv, NoLostWakeup, Holds, InAt, Past,
                Running
  <2>4. BitsType'
    BY <1>6, <1>0 DEF ReleaseSlot, perCore, bss, BitsType
  <2>5. CoreInv'
    BY <2>1 DEF perCore, CoreInv, Past
  <2>6. BootInv'
    BY <2>1, <2>2, <1>6 DEF ReleaseSlot, bss, BootInv, Past
  <2> QED
    BY <2>3, <2>4, <2>5, <2>6
<1>7. CASE ReleaseDone(c)
  <2>1. At(c, "release") /\ GoOn(c)
    BY <1>7 DEF ReleaseDone
  <2>2. c = 0 /\ pos[0]["thread"] = 10
    BY <2>1, <1>0, BootFrame DEF AtTable, BootSteps
  <2>3. PosType' /\ LockInv' /\ SleepInv' /\ NoLostWakeup'
    BY <2>1, <1>7, LockFrame DEF ReleaseDone, bss
  <2>4. BitsType'
    BY <1>7, <1>0 DEF ReleaseDone, perCore, bss, BitsType
  <2>5. CoreInv'
    BY <2>1, <2>2, <1>7, BootFrame DEF ReleaseDone, perCore, BootSteps, CoreInv, Past
  <2>6. BootInv'
    BY <2>1, <2>2, <1>7, BootFrame DEF ReleaseDone, bss, BootSteps, BootInv, Past
  <2> QED
    BY <2>3, <2>4, <2>5, <2>6
<1>8. CASE Leave(c)
  <2>1. At(c, "parked") /\ GoOn(c)
    BY <1>8 DEF Leave
  <2>2. c # 0 /\ pos[c]["thread"] = 1
    BY <2>1, <1>0, BootFrame DEF AtTable, BootSteps
  <2>3. PosType' /\ LockInv' /\ SleepInv' /\ NoLostWakeup'
    BY <2>1, <1>8, LockFrame DEF Leave, bss
  <2>4. BitsType'
    BY <1>8, <1>0 DEF Leave, perCore, bss, BitsType
  <2>5. CoreInv'
    BY <2>1, <2>2, <1>8, BootFrame DEF Leave, perCore, BootSteps, CoreInv, Past
  <2>6. BootInv'
    BY <2>1, <2>2, <1>8, BootFrame DEF Leave, bss, BootSteps, BootInv, Past
  <2> QED
    BY <2>3, <2>4, <2>5, <2>6
<1>9. CASE StartTimer(c)
  <2>1. At(c, "timer") /\ GoOn(c)
    BY <1>9 DEF StartTimer
  <2>2. pos[c]["thread"] = (IF c = 0 THEN 11 ELSE 4)
    BY <2>1, <1>0, BootFrame DEF AtTable, BootSteps
  <2>3. PosType' /\ LockInv' /\ SleepInv' /\ NoLostWakeup'
    BY <2>1, <1>9, LockFrame DEF StartTimer, bss
  <2>4. BitsType'
    BY <1>9, <1>0 DEF StartTimer, bss, BitsType
  <2>5. CoreInv'
    BY <2>1, <2>2, <1>9, BootFrame DEF StartTimer, BootSteps, CoreInv, Past
  <2>6. BootInv'
    BY <2>1, <2>2, <1>9, BootFrame DEF StartTimer, bss, BootSteps, BootInv, Past
  <2> QED
    BY <2>3, <2>4, <2>5, <2>6
<1>10. CASE Unmask(c)
  <2>1. At(c, "unmask") /\ GoOn(c)
    BY <1>10 DEF Unmask
  <2>2. pos[c]["thread"] = (IF c = 0 THEN 12 ELSE 5)
    BY <2>1, <1>0, BootFrame DEF AtTable, BootSteps
  <2>3. PosType' /\ LockInv' /\ SleepInv' /\ NoLostWakeup'
    BY <2>1, <1>10, LockFrame DEF Unmask, bss
  <2>4. BitsType'
    BY <1>10, <1>0 DEF Unmask, bss, BitsType
  <2>5. CoreInv'
    BY <2>1, <2>2, <1>10, BootFrame DEF Unmask, BootSteps, CoreInv, Past
  <2>6. BootInv'
    BY <2>1, <2>2, <1>10, BootFrame DEF Unmask, bss, BootSteps, BootInv, Past
  <2> QED
    BY <2>3, <2>4, <2>5, <2>6
<1> QED
  BY <1>1, <1>2, <1>3, <1>4, <1>5, <1>6, <1>7, <1>8, <1>9, <1>10 DEF Boot

-----------------------------------------------------------------------------
(* The console and the interrupt *)

\* A step of the console or the handler changes nothing that a core sets up.
LEMMA SetupFrame ==
  ASSUME Inv, NEW c \in Cores, NEW step, At(c, step), GoOn(c),
         step \in {"lock", "print", "unlock", "sev", "rearm"},
         UNCHANGED <<released, mmu, vbar, unmasked, ready, g_locking>>
  PROVE  PosType' /\ CoreInv' /\ BootInv'
<1> PICK x \in Ctx : x = Running(c)
  BY RunningFacts DEF Inv
<1>1. /\ PosType' /\ PosType /\ InAt(c, x, step)
      /\ pos'[c][x] = pos[c][x] + 1
      /\ \A d \in Cores, y \in Ctx : d # c \/ y # x => pos'[d][y] = pos[d][y]
  BY GoOnFacts DEF Inv
<1>2. AtTable(c, x)
  BY <1>1, StepFacts
<1>3. \A d \in Cores : pos[d]["isr"] = 0 => pos'[d]["isr"] = 0
  BY <1>1, RunningFacts DEF Ctx, PosType
<1>4. x = "thread" => pos[c]["thread"] \in
        (IF c = 0 THEN {2, 8, 13, 14, 15, 16} ELSE {6, 7, 8, 9})
  BY <1>1, <1>2 DEF AtTable
<1>5. CoreInv'
  <2> SUFFICES ASSUME NEW d \in Cores
               PROVE /\ Past(d, 4, 2)' => d \in mmu
                     /\ Past(d, 6, 3)' => d \in vbar
                     /\ d \in unmasked => Past(d, 12, 5)'
                     /\ pos'[d]["isr"] > 0 => d \in unmasked
    BY DEF CoreInv
  <2>1. /\ pos[d]["thread"] \in Nat
        /\ pos[d]["isr"] \in Nat /\ pos'[d]["isr"] \in Nat
    BY <1>1 DEF PosType, Ctx
  <2>2. \/ pos'[d]["thread"] = pos[d]["thread"]
        \/ /\ d = c /\ pos'[d]["thread"] = pos[d]["thread"] + 1
           /\ pos[d]["thread"] \in
                (IF d = 0 THEN {2, 8, 13, 14, 15, 16} ELSE {6, 7, 8, 9})
    BY <1>1, <1>4 DEF Ctx
  <2>3. /\ Past(d, 4, 2)' => Past(d, 4, 2)
        /\ Past(d, 6, 3)' => Past(d, 6, 3)
        /\ Past(d, 12, 5) => Past(d, 12, 5)'
    BY <2>1, <2>2 DEF Past
  <2>4. pos'[d]["isr"] > 0 => pos[d]["isr"] > 0
    BY <1>3, <2>1
  <2> QED
    BY <2>3, <2>4 DEF Inv, CoreInv
<1>6. BootInv'
  BY <1>1, <1>4, CoreZero DEF Inv, BootInv, Past, Ctx, PosType
<1> QED
  BY <1>1, <1>5, <1>6

\* Whoever uses the lock finds it enabled.
LEMMA Late ==
  ASSUME Inv, NEW c \in Cores, NEW x \in Ctx,
         InAt(c, x, "lock") \/ InAt(c, x, "unlock") \/ InAt(c, x, "sev")
  PROVE  Past(0, 9, 0) /\ g_locking
<1>1. SUFFICES ASSUME ~Past(0, 9, 0) PROVE FALSE
  BY DEF Inv, BootInv
<1>2. /\ c # 0 => pos[c]["thread"] = 1
      /\ pos[c]["isr"] = 0
  BY <1>1, Early
<1>3. c = 0 => pos[c]["thread"] < 10
  BY <1>1, CoreZero DEF Inv, Past, PosType
<1>4. AtTable(c, x)
  BY StepFacts DEF Inv
<1> QED
  BY <1>2, <1>3, <1>4 DEF AtTable, Ctx

LEMMA ConsoleInvariant ==
  ASSUME Inv, NEW c \in Cores, Console(c)
  PROVE  Inv'
<1> PICK x \in Ctx : x = Running(c)
  BY RunningFacts DEF Inv
<1>1. PosType /\ BitsType /\ AtTable(c, x)
  BY StepFacts DEF Inv
<1>2. ASSUME NEW step \in {"lock", "print", "unlock", "sev"},
             At(c, step), GoOn(c)
      PROVE  /\ PosType' /\ AtTable(c, x)' /\ InAt(c, x, step)
             /\ pos'[c][x] = pos[c][x] + 1
             /\ \A d \in Cores, y \in Ctx : d # c \/ y # x => \A s :
                  InAt(d, y, s)' <=> InAt(d, y, s)
             /\ \A d \in Cores : Running(d)' = Running(d)
             /\ Past(0, 9, 0) => Past(0, 9, 0)'
  <2>1. /\ PosType' /\ InAt(c, x, step)
        /\ pos'[c][x] = pos[c][x] + 1
        /\ \A d \in Cores, y \in Ctx : d # c \/ y # x => pos'[d][y] = pos[d][y]
    BY <1>1, <1>2, GoOnFacts
  <2>2. \A d \in Cores : Running(d)' = Running(d)
    BY <1>1, <2>1 DEF Running, Ctx, PosType
  <2>3. Past(0, 9, 0) => Past(0, 9, 0)'
    BY <1>1, <2>1, CoreZero DEF Past, Ctx, PosType
  <2>4. AtTable(c, x)'
    BY <2>1, StepFactsNext
  <2> QED
    BY <2>1, <2>2, <2>3, <2>4 DEF InAt
<1>3. CASE Lock(c)
  <2>1. At(c, "lock") /\ GoOn(c) /\ InAt(c, x, "lock")
    BY <1>2, <1>3 DEF Lock
  <2>2. Past(0, 9, 0) /\ ~g_lock /\ g_lock'
    BY <2>1, <1>3, Late DEF Lock
  <2>3. InAt(c, x, "print")'
    BY <2>1, <2>2, <1>1, <1>2 DEF AtTable, PosType
  <2>4. \A d \in Cores, y \in Ctx : Holds(d, y)' => d = c /\ y = x
    <3>1. \A d \in Cores, y \in Ctx : ~Holds(d, y)
      BY <2>2 DEF Inv, LockInv
    <3> QED
      BY <3>1, <2>1, <1>2 DEF Holds
  <2>5. LockInv' /\ NoLostWakeup'
    BY <2>2, <2>4 DEF LockInv, NoLostWakeup
  <2>6. SleepInv'
    BY <2>1, <1>2, <1>3 DEF Inv, SleepInv, Lock
  <2>7. BitsType'
    BY <1>1, <1>3 DEF Lock, perCore, BitsType
  <2>8. PosType' /\ CoreInv' /\ BootInv'
    BY <2>1, <1>3, SetupFrame DEF Lock, perCore
  <2> QED
    BY <2>5, <2>6, <2>7, <2>8 DEF Inv
<1>4. CASE Printed(c)
  <2>1. At(c, "print") /\ GoOn(c) /\ InAt(c, x, "print")
    BY <1>2, <1>4 DEF Printed
  <2>2. ~InAt(c, x, "sev") /\ ~InAt(c, x, "lock")
    BY <2>1 DEF InAt
  <2>3. LockInv'
    <3>1. CASE Past(0, 9, 0)
      <4>1. \A d \in Cores, y \in Ctx : Holds(d, y)' => Holds(d, y)
        BY <2>1, <1>2 DEF Holds
      <4> QED
        BY <4>1, <3>1, <1>4 DEF Inv, LockInv, Printed, bss
    <3>2. CASE ~Past(0, 9, 0)
      <4>1. pos[0]["thread"] < 10 /\ 0 \in Cores
        BY <3>2, <1>1, CoreZero DEF Past, PosType
      <4>2. c = 0 /\ x = "thread"
        BY <2>1, <3>2, <1>1, Early DEF AtTable, Ctx
      <4>3. pos[0]["thread"] \in {2, 8}
        BY <2>1, <4>1, <4>2, <1>1 DEF AtTable
      <4>4. pos'[0]["thread"] \in {3, 9}
        BY <2>1, <4>2, <4>3, <1>2
      <4> QED
        BY <4>4 DEF LockInv, Past
    <3> QED
      BY <3>1, <3>2
  <2>4. SleepInv'
    BY <2>1, <2>2, <1>2, <1>4 DEF Inv, SleepInv, Printed
  <2>5. NoLostWakeup'
    <3>1. \A d \in Cores, y \in Ctx : InAt(d, y, "sev") => InAt(d, y, "sev")'
      BY <2>1, <2>2, <1>2
    <3> QED
      BY <3>1, <2>1, <1>1, <1>2, <1>4, RunningFacts DEF Inv, NoLostWakeup, Printed, bss
  <2>6. BitsType'
    BY <1>1, <1>4 DEF Printed, perCore, bss, BitsType
  <2>7. PosType' /\ CoreInv' /\ BootInv'
    BY <2>1, <1>4, SetupFrame DEF Printed, perCore, bss
  <2> QED
    BY <2>3, <2>4, <2>5, <2>6, <2>7 DEF Inv
<1>5. CASE Unlock(c)
  <2>1. At(c, "unlock") /\ GoOn(c) /\ InAt(c, x, "unlock")
    BY <1>2, <1>5 DEF Unlock
  <2>2. ~InAt(c, x, "lock") /\ Past(0, 9, 0) /\ ~g_lock'
    BY <2>1, <1>5, Late DEF Unlock, InAt
  <2>3. InAt(c, x, "sev")'
    BY <2>1, <2>2, <1>1, <1>2 DEF AtTable, PosType
  <2>4. \A d \in Cores, y \in Ctx : ~Holds(d, y)'
    <3>1. ~Holds(c, x)'
      BY <2>3 DEF Holds, InAt
    <3>2. \A d \in Cores, y \in Ctx : Holds(d, y) => d = c /\ y = x
      BY <2>1, <2>2 DEF Holds, Inv, LockInv
    <3> QED
      BY <3>1, <3>2, <2>1, <1>2 DEF Holds
  <2>5. LockInv' /\ NoLostWakeup'
    BY <2>3, <2>4 DEF LockInv, NoLostWakeup
  <2>6. SleepInv'
    BY <2>1, <2>2, <1>2, <1>5 DEF Inv, SleepInv, Unlock
  <2>7. BitsType'
    BY <1>1, <1>5 DEF Unlock, perCore, BitsType
  <2>8. PosType' /\ CoreInv' /\ BootInv'
    BY <2>1, <1>5, SetupFrame DEF Unlock, perCore
  <2> QED
    BY <2>5, <2>6, <2>7, <2>8 DEF Inv
<1>6. CASE Sev(c)
  <2>1. At(c, "sev") /\ GoOn(c) /\ InAt(c, x, "sev")
    BY <1>2, <1>6 DEF Sev
  <2>2. /\ ~InAt(c, x, "lock") /\ Past(0, 9, 0)
        /\ event' = [d \in Cores |-> TRUE] /\ UNCHANGED <<asleep, bss>>
    BY <2>1, <1>6, Late DEF Sev, InAt
  <2>3. \A d \in Cores, y \in Ctx : Holds(d, y)' => Holds(d, y)
    <3>1. ~Holds(c, x)'
      BY <2>1, <2>2, <1>1, <1>2 DEF Holds, AtTable, PosType
    <3> QED
      BY <3>1, <2>1, <1>2 DEF Holds
  <2>4. LockInv' /\ NoLostWakeup'
    BY <2>2, <2>3 DEF Inv, LockInv, NoLostWakeup, bss
  <2>5. SleepInv'
    BY <2>1, <2>2, <1>2 DEF Inv, SleepInv
  <2>6. BitsType'
    BY <2>2, <1>1, <1>6 DEF Sev, perCore, bss, BitsType
  <2>7. PosType' /\ CoreInv' /\ BootInv'
    BY <2>1, <1>6, SetupFrame DEF Sev, perCore, bss
  <2> QED
    BY <2>4, <2>5, <2>6, <2>7 DEF Inv
<1>7. CASE Wfe(c)
  <2>1. /\ UNCHANGED <<pos, released, perCore, bss>> /\ g_lock
        /\ asleep' = [asleep EXCEPT ![c][x] = TRUE] /\ InAt(c, x, "lock")
    BY <1>7 DEF Wfe, At, bss
  <2>2. SleepInv'
    BY <2>1, <1>1 DEF Inv, SleepInv, BitsType, InAt
  <2>3. BitsType'
    BY <2>1, <1>1, <1>7 DEF Wfe, perCore, bss, BitsType
  <2>4. PosType' /\ CoreInv' /\ BootInv' /\ LockInv' /\ NoLostWakeup'
    BY <2>1 DEF Inv, PosType, CoreInv, BootInv, LockInv, Past, Holds, InAt,
                perCore, bss, NoLostWakeup
  <2> QED
    BY <2>2, <2>3, <2>4 DEF Inv
<1>8. CASE Wake(c)
  <2>1. /\ UNCHANGED <<pos, released, perCore, bss>>
        /\ asleep' = [asleep EXCEPT ![c][x] = FALSE]
        /\ event' = [event EXCEPT ![c] = FALSE]
    BY <1>8 DEF Wake
  <2>2. SleepInv'
    BY <2>1, <1>1 DEF Inv, SleepInv, BitsType, InAt
  <2>3. BitsType'
    BY <2>1, <1>1 DEF perCore, bss, BitsType
  <2>4. PosType' /\ CoreInv' /\ BootInv' /\ LockInv'
    BY <2>1 DEF Inv, PosType, CoreInv, BootInv, LockInv, Past, Holds, InAt,
                perCore, bss
  <2>5. NoLostWakeup'
    BY <2>1, <1>1, RunningFacts DEF Inv, NoLostWakeup, BitsType, Running, InAt, bss
  <2> QED
    BY <2>2, <2>3, <2>4, <2>5 DEF Inv
<1> QED
  BY <1>3, <1>4, <1>5, <1>6, <1>7, <1>8 DEF Console

LEMMA InterruptInvariant ==
  ASSUME Inv, NEW c \in Cores,
         IsrEnter(c) \/ Rearm(c) \/ IsrReturn(c) \/ TimerFires(c)
  PROVE  Inv'
<1>1. PosType /\ BitsType /\ AtTable(c, "isr")
  BY StepFacts DEF Inv, Ctx
<1>2. ASSUME NEW p \in 0 .. 1, pos' = [pos EXCEPT ![c]["isr"] = p],
             p = 1 => c \in unmasked /\ pos[c]["isr"] = 0,
             UNCHANGED <<asleep, released, perCore, bss>>,
             p = 0 => InAt(c, "isr", "return") /\ event' = [event EXCEPT ![c] = TRUE],
             p = 1 => event' = event
      PROVE  Inv'
  <2>1. /\ PosType' /\ pos'[c]["isr"] = p
        /\ \A d \in Cores, y \in Ctx :
             d # c \/ y # "isr" => pos'[d][y] = pos[d][y]
        /\ \A d \in Cores : pos'[d]["thread"] = pos[d]["thread"]
    BY <1>1, <1>2 DEF PosType, Ctx
  <2>2. BitsType'
    <3>1. p = 0 \/ p = 1
      OBVIOUS
    <3>2. event' \in [Cores -> BOOLEAN]
      BY <3>1, <1>1, <1>2 DEF BitsType
    <3> QED
      BY <3>2, <1>1, <1>2 DEF BitsType, perCore, bss
  <2>3. CoreInv' /\ BootInv'
    BY <2>1, <1>2, CoreZero DEF Inv, CoreInv, BootInv, Past, perCore, bss
  <2>4. AtTable(c, "isr")'
    BY <2>1, StepFactsNext DEF Ctx
  <2>5. \A d \in Cores, y \in Ctx : d # c \/ y # "isr" => \A s :
          InAt(d, y, s)' <=> InAt(d, y, s)
    BY <2>1 DEF InAt
  <2>6. /\ ~Holds(c, "isr")'
        /\ ~InAt(c, "isr", "lock") /\ ~InAt(c, "isr", "sev")
    BY <1>1, <1>2, <2>1, <2>4 DEF AtTable, Holds
  <2>7. LockInv'
    <3>1. \A d \in Cores, y \in Ctx : Holds(d, y)' => Holds(d, y)
      BY <2>5, <2>6 DEF Holds
    <3> QED
      BY <3>1, <2>1, <1>2, CoreZero DEF Inv, LockInv, Past, bss
  <2>8. SleepInv'
    BY <2>5, <2>6, <1>2 DEF Inv, SleepInv
  <2>9. NoLostWakeup'
    <3> SUFFICES ASSUME ~g_lock', NEW d \in Cores, asleep'[d][Running(d)']
                 PROVE  event'[d] \/ \E e \in Cores, y \in Ctx : InAt(e, y, "sev")'
      BY DEF NoLostWakeup
    <3>1. CASE d = c
      <4>1. p = 0 \/ Running(c)' = "isr"
        BY <2>1 DEF Running
      <4>2. ~asleep[c]["isr"]
        BY <2>6 DEF Inv, SleepInv, Ctx
      <4> QED
        BY <3>1, <4>1, <4>2, <1>1, <1>2 DEF BitsType
    <3>2. CASE d # c
      <4>1. Running(d)' = Running(d)
        BY <3>2, <2>1 DEF Running, Ctx
      <4>2. event[d] \/ \E e \in Cores, y \in Ctx : InAt(e, y, "sev")
        BY <4>1, <1>2 DEF Inv, NoLostWakeup, bss
      <4>3. event'[d] = event[d]
        BY <3>2, <1>1, <1>2 DEF BitsType
      <4> QED
        BY <4>2, <4>3, <2>5, <2>6
    <3> QED
      BY <3>1, <3>2
  <2> QED
    BY <2>1, <2>2, <2>3, <2>7, <2>8, <2>9 DEF Inv
<1>3. CASE IsrEnter(c)
  BY <1>2, <1>3 DEF IsrEnter
<1>4. CASE IsrReturn(c)
  <2>1. InAt(c, "isr", "return")
    BY <1>4, <1>1, StepFacts, RunningFacts DEF IsrReturn, At, AtTable
  <2> QED
    BY <2>1, <1>2, <1>4 DEF IsrReturn
<1>5. CASE Rearm(c)
  <2>1. At(c, "rearm") /\ GoOn(c)
    BY <1>5 DEF Rearm
  <2>2. PosType' /\ CoreInv' /\ BootInv'
    BY <2>1, <1>5, SetupFrame DEF Rearm, bss
  <2>3. LockInv' /\ SleepInv' /\ NoLostWakeup'
    BY <2>1, <1>5, LockFrame DEF Rearm, bss
  <2>4. BitsType'
    BY <1>1, <1>5 DEF Rearm, bss, BitsType
  <2> QED
    BY <2>2, <2>3, <2>4 DEF Inv
<1>6. CASE TimerFires(c)
  <2>1. BitsType'
    BY <1>1, <1>6 DEF TimerFires, bss, BitsType
  <2> QED
    BY <2>1, <1>6 DEF TimerFires, Inv, PosType, CoreInv, BootInv, LockInv, SleepInv,
                      NoLostWakeup, Past, Holds, InAt, Running, bss
<1> QED
  BY <1>3, <1>4, <1>5, <1>6

LEMMA NextInv == Inv /\ [Next]_vars => Inv'
<1> SUFFICES ASSUME Inv, [Next]_vars PROVE Inv'
  OBVIOUS
<1>1. ASSUME NEW c \in Cores, Step(c) PROVE Inv'
  BY <1>1, BootInvariant, ConsoleInvariant, InterruptInvariant DEF Step
<1>2. ASSUME NEW c \in Cores, TimerFires(c) PROVE Inv'
  BY <1>2, InterruptInvariant
<1>3. CASE UNCHANGED vars
  BY <1>3 DEF vars, perCore, bss, Inv, PosType, BitsType, CoreInv, BootInv, LockInv,
              SleepInv, NoLostWakeup, Past, Holds, InAt, Running
<1> QED
  BY <1>1, <1>2, <1>3 DEF Next

LEMMA Invariance == Spec => []Inv
  BY InitInv, NextInv, PTL DEF Spec

-----------------------------------------------------------------------------
\* Every reachable state of the image is well typed; in particular no core runs
\* past the end of its program or of its handler.
THEOREM TypeCorrect == Spec => []TypeOK
<1>1. Inv => TypeOK
  <2> SUFFICES ASSUME Inv, NEW c \in Cores, NEW x \in Ctx
               PROVE  pos[c][x] <= Len(Program(c, x))
    BY DEF Inv, PosType, BitsType, TypeOK
  <2>1. CASE x = "isr"
    <3>1. Program(c, x) = TimerIsr /\ Len(TimerIsr) = 6
      BY <2>1 DEF Program, TimerIsr
    <3>2. Len(Program(c, x)) = 6 /\ pos[c][x] <= 6
      BY <2>1, <3>1 DEF Inv, PosType
    <3> QED
      BY <3>2
  <2>2. CASE x = "thread" /\ c = 0
    <3>1. Program(c, x) = Kmain /\ Len(Kmain) = 17
      BY <2>2 DEF Program, Kmain
    <3>2. Len(Program(c, x)) = 17 /\ pos[c][x] <= 17
      BY <2>2, <3>1 DEF Inv, PosType
    <3> QED
      BY <3>2
  <2>3. CASE x = "thread" /\ c # 0
    <3>1. Program(c, x) = Ksecondary /\ Len(Ksecondary) = 10
      BY <2>3 DEF Program, Ksecondary
    <3>2. Len(Program(c, x)) = 10 /\ pos[c][x] <= 10
      BY <2>3, <3>1 DEF Inv, PosType
    <3> QED
      BY <3>2
  <2> QED
    BY <2>1, <2>2, <2>3 DEF Ctx
<1> QED
  BY <1>1, Invariance, PTL

\* However many cores and handlers print, and whenever their timers fire, the
\* console carries one line at a time, those that kmain() prints before it
\* enables the lock included.
THEOREM OneLineAtATime == Spec => []LinesWhole
<1>1. Inv => LinesWhole
  <2> SUFFICES ASSUME Inv, NEW c \in Cores, NEW d \in Cores,
                      NEW x \in Ctx, NEW y \in Ctx,
                      InAt(c, x, "print"), InAt(d, y, "print")
               PROVE  c = d /\ x = y
    BY DEF LinesWhole
  <2>1. CASE Past(0, 9, 0)
    BY <2>1 DEF Inv, LockInv, Holds
  <2>2. CASE ~Past(0, 9, 0)
    BY <2>2, Early, StepFacts DEF Inv, AtTable, Ctx
  <2> QED
    BY <2>1, <2>2
<1> QED
  BY <1>1, Invariance, PTL

\* A core takes interrupts only when its own MMU and vectors and all that core 0
\* prepares for the handlers are there.
THEOREM HandlersFindAll == Spec => []InterruptReady
<1>1. Inv => InterruptReady
  <2> SUFFICES ASSUME Inv, NEW c \in unmasked
               PROVE  c \in mmu /\ c \in vbar /\ ready = AllReady /\ g_locking
    BY DEF InterruptReady
  <2>1. c \in Cores /\ Past(c, 12, 5)
    BY DEF Inv, BitsType, CoreInv
  <2>2. c \in mmu /\ c \in vbar
    BY <2>1 DEF Inv, CoreInv, Past, PosType
  <2>3. Past(0, 9, 0)
    BY <2>1, CoreZero DEF Inv, BootInv, Past, PosType
  <2>4. AllReady \subseteq ready /\ g_locking
    BY <2>3, CoreZero DEF Inv, BootInv, Past, PosType, AllReady
  <2>5. ready \subseteq AllReady
    BY DEF Inv, BitsType
  <2> QED
    BY <2>2, <2>4, <2>5
<1> QED
  BY <1>1, Invariance, PTL

\* When the lock is free, a core that sleeps for it has an event pending, or
\* somebody is about to send one.
THEOREM WakeupsKept == Spec => []NoLostWakeup
<1>1. Inv => NoLostWakeup
  BY DEF Inv
<1> QED
  BY <1>1, Invariance, PTL

\* No core exchanges on the lock before its own MMU is on.
THEOREM ExclusiveExchange == Spec => LockNeedsMmu
<1>1. ASSUME Inv, NEW c \in Cores, Lock(c) PROVE c \in mmu
  <2> PICK x \in Ctx : InAt(c, x, "lock")
    BY <1>1, RunningFacts DEF Inv, Lock, At
  <2>1. Past(c, 4, 2)
    BY <1>1, StepFacts DEF Inv, AtTable, CoreInv, Past, Ctx, PosType
  <2> QED
    BY <1>1, <2>1 DEF Inv, CoreInv
<1>2. Inv => [\A c \in Cores : Lock(c) /\ g_locking => c \in mmu]_vars
  BY <1>1
<1> QED
  BY <1>2, Invariance, PTL DEF LockNeedsMmu
=============================================================================
