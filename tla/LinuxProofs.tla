---------------------------- MODULE LinuxProofs ----------------------------
(***************************************************************************)
(* For any boards, pages, blocks and numbers of objects: no descriptor and *)
(* no mapping is lost, shared or used after it was given up, get() is the  *)
(* address of the block, a call reaches the device that was opened last.   *)
(***************************************************************************)
EXTENDS Linux, TLAPS

-----------------------------------------------------------------------------
(* The inductive invariant *)

\* A file is held by an object, a transport or the rest of the process, by one.
FilesInv ==
  /\ \A fd \in Fds : file[fd] # "none" =>
       \/ \E o \in Objects : mmio[o].m_fd = fd
       \/ \E t \in Transports : bus[t].m_fd = fd
       \/ fd \in held
  /\ \A fd \in held : file[fd] # "none"
  /\ \A o, p \in Objects :
       o # p /\ mmio[o].m_fd # NoFd => mmio[o].m_fd # mmio[p].m_fd
  /\ \A t, u \in Transports :
       t # u /\ bus[t].m_fd # NoFd => bus[t].m_fd # bus[u].m_fd
  /\ \A o \in Objects, t \in Transports :
       mmio[o].m_fd # NoFd => mmio[o].m_fd # bus[t].m_fd
  /\ \A o \in Objects : mmio[o].m_fd \notin held
  /\ \A t \in Transports : bus[t].m_fd \notin held

\* The device is open while the constructor maps it.
Opening == \A o \in Objects : mmio[o].pc = "open" => mmio[o].m_fd # NoFd

\* An object's descriptor is open; under construction it is for the block.
ObjectInv == \A o \in Objects :
  /\ mmio[o].m_fd # NoFd => file[mmio[o].m_fd] # "none"
  /\ mmio[o].pc = "none" => mmio[o] = NoObject
  /\ mmio[o].pc = "open" =>
       /\ mmio[o].block.dev # "none" /\ mmio[o].block.dev = file[mmio[o].m_fd]
       /\ mmio[o].block.true = mmio[o].block.phys
  /\ mmio[o].pc \in {"open", "unmapped"} => mmio[o].m_map = "MAP_FAILED"

\* A mapping is held by one object, which knows what it covers.
MapsInv ==
  /\ \A m \in Maps : mapping[m] # Unmapped =>
       \E o \in Objects : mmio[o].m_map = m
  /\ \A o, p \in Objects :
       o # p /\ mmio[o].m_map # "MAP_FAILED" => mmio[o].m_map # mmio[p].m_map
  /\ \A o \in Objects : mmio[o].m_map # "MAP_FAILED" =>
       LET r == mmio[o]  m == mapping[r.m_map] IN
       /\ m.file # "none" /\ m.file = r.block.dev
       /\ m.page + r.m_offset = r.block.true
       /\ m.length = r.m_length
       /\ r.m_offset + r.block.length <= m.length

BaseInv == origin = "tree" => base = SocPeriphBase[board]

\* A transport's descriptor is that of the device last opened.
BusInv == \A t \in Transports :
  /\ bus[t].m_fd # NoFd => file[bus[t].m_fd] = bus[t].dev /\ bus[t].dev # "none"
  /\ bus[t].pc = "open" => bus[t].m_fd = NoFd /\ bus[t].dev \in Adapters
  /\ bus[t].pc = "ioctl" => bus[t].to = bus[t].dev

-----------------------------------------------------------------------------
LEMMA DeviceFacts ==
  /\ "none" \notin Devices /\ "other" \notin Devices
  /\ "/dev/mem" \in Devices /\ "/dev/gpiomem" \in Devices
  /\ Adapters \subseteq Devices
  /\ Fds \subseteq Nat /\ NoFd \notin Fds
BY ProcessAssumption, MmioAssumption, I2cDevAssumption DEF NoFd

LEMMA Asks ==
  ASSUME NEW lens \in Calls
  PROVE  Ends(lens) \in SUBSET Nat /\ Asked(lens) \in Nat
<1>1. \A n \in Lens : n \in Nat /\ n % LenMod \in Nat
  BY I2cDevAssumption
<1>2. CASE \E n \in Lens : lens = <<n>>
  BY <1>1, <1>2 DEF Ends, Asked
<1>3. CASE \E n, m \in Lens : lens = <<n, m>>
  BY <1>1, <1>3 DEF Ends, Asked
<1> QED
  BY <1>2, <1>3 DEF Calls

LEMMA Detected ==
  ASSUME board \in Boards, NEW words \in 0 .. 4
  PROVE  /\ detect_periph_base(words) \in Nat
         /\ words >= Slot => detect_periph_base(words) = SocPeriphBase[board]
<1>1. \A b \in Boards : SocPeriphBase[b] \in Nat \ {0}
  BY MmioAssumption
<1>2. Page \in Nat \ {0}
  BY MmioAssumption
<1>3. "BCM2836_7" \in Boards
  BY DEF Boards
<1>4. CASE board = "BCM2711"
  BY <1>1, <1>3, <1>4 DEF detect_periph_base, Ranges, Slot
<1>5. CASE board # "BCM2711"
  BY <1>1, <1>2, <1>3, <1>5 DEF detect_periph_base, Ranges, Slot
<1> QED
  BY <1>4, <1>5

-----------------------------------------------------------------------------
(* Types *)

LEMMA RecordUpdates ==
  /\ \A r \in Object, m \in Maps, n, k \in Nat :
       [r EXCEPT !.pc = "live", !.m_map = m, !.m_offset = n, !.m_length = k] \in Object
  /\ \A r \in Transport, fd \in Fds :
       [r EXCEPT !.pc = "idle", !.m_fd = fd] \in Transport
  /\ \A r \in Transport : /\ [r EXCEPT !.pc = "idle"] \in Transport
                          /\ [r EXCEPT !.moved = r.moved + 1] \in Transport
  /\ \A r \in Transport, to \in Devices \cup {"none", "other"},
        ends \in SUBSET Nat, n \in Nat :
       [r EXCEPT !.pc = "ioctl", !.to = to, !.ends = ends, !.want = n, !.moved = 0,
                 !.result = "none"] \in Transport
<1>1. \A r \in Object, m \in Maps, n, k \in Nat :
       [r EXCEPT !.pc = "live", !.m_map = m, !.m_offset = n, !.m_length = k] \in Object
  BY DEF Object
<1>2. \A r \in Transport, fd \in Fds :
       [r EXCEPT !.pc = "idle", !.m_fd = fd] \in Transport
  BY DEF Transport
<1>3. \A r \in Transport : /\ [r EXCEPT !.pc = "idle"] \in Transport
                          /\ [r EXCEPT !.moved = r.moved + 1] \in Transport
  BY DEF Transport
<1>4. \A r \in Transport, to \in Devices \cup {"none", "other"},
        ends \in SUBSET Nat, n \in Nat :
       [r EXCEPT !.pc = "ioctl", !.to = to, !.ends = ends, !.want = n, !.moved = 0,
                 !.result = "none"] \in Transport
  BY ZenonT(30) DEF Transport
<1> QED
  BY <1>1, <1>2, <1>3, <1>4

LEMMA TypeInit == Init => TypeOK
BY DeviceFacts DEF Init, ProcessInit, MmioInit, DevInit, TypeOK, NoObject, Empty, NoBlock,
  Unmapped, Closed, Mapping, Block, Object, Transport

LEMMA TypeMmio ==
  ASSUME TypeOK, Opening, MmioNext, UNCHANGED bus
  PROVE  TypeOK'
<1> USE DEF TypeOK, processVars
<1>1. CASE DetectBase
  BY <1>1, Detected DEF DetectBase
<1>2. CASE ForceBase
  BY <1>2, MmioAssumption DEF ForceBase
<1>3. ASSUME NEW o \in Objects, NEW block \in Block, block.dev \in Devices,
             OpenDevice(o, block)
      PROVE  TypeOK'
  <2>1. PICK fd \in Fds :
          /\ Opens(block.dev, fd)
          /\ mmio' = [mmio EXCEPT ![o] =
               [Empty EXCEPT !.pc = "open", !.m_fd = fd, !.block = block]]
    BY <1>3 DEF OpenDevice
  <2>2. [Empty EXCEPT !.pc = "open", !.m_fd = fd, !.block = block] \in Object
    BY DEF Empty, Object
  <2>3. mmio' \in [Objects -> Object]
    BY <2>1, <2>2
  <2>4. file' \in [Fds -> Devices \cup {"none", "other"}]
    BY <1>3, <2>1 DEF Opens
  <2> QED
    BY <1>3, <2>3, <2>4 DEF OpenDevice
<1>4. ASSUME NEW o \in Objects, MapBlock(o) PROVE TypeOK'
  <2>1. PICK b \in DOMAIN Offset :
          OpenDevice(o, [dev |-> "/dev/mem", phys |-> base + Offset[b],
                         length |-> Size[b], true |-> TrueBase + Offset[b]])
    BY <1>4 DEF MapBlock
  <2>2. Offset[b] \in Nat /\ Size[b] \in Nat /\ TrueBase \in Nat
    BY MmioAssumption DEF TrueBase
  <2>3. [dev |-> "/dev/mem", phys |-> base + Offset[b],
         length |-> Size[b], true |-> TrueBase + Offset[b]] \in Block
    BY <2>2, DeviceFacts DEF Block
  <2> QED
    BY <1>3, <2>1, <2>3, DeviceFacts
<1>5. ASSUME NEW o \in Objects, map_gpiomem(o) PROVE TypeOK'
  <2>1. Size["GPIO"] \in Nat
    BY MmioAssumption
  <2> QED
    BY <1>3, <1>5, <2>1, DeviceFacts DEF map_gpiomem, Block
<1>6. ASSUME NEW o \in Objects, Map(o) PROVE TypeOK'
  <2>1. mmio[o].block.phys \in Nat /\ mmio[o].block.length \in Nat
        /\ mmio[o].m_fd \in Fds \cup {NoFd}
    BY DEF Object, Block
  <2>2. mmio[o].block.phys % Page \in Nat
    BY <2>1, MmioAssumption
  <2>4. mmio[o].m_fd \in Fds
    BY <1>6, <2>1 DEF Map, Opening
  <2>3. PICK m \in Maps :
          /\ mapping' = [mapping EXCEPT ![m] =
               [file |-> file[mmio[o].m_fd],
                page |-> mmio[o].block.phys - (mmio[o].block.phys % Page),
                length |-> (mmio[o].block.phys % Page) + mmio[o].block.length]]
          /\ mmio' = [mmio EXCEPT ![o] =
               [mmio[o] EXCEPT !.pc = "live", !.m_map = m,
                  !.m_offset = mmio[o].block.phys % Page,
                  !.m_length = (mmio[o].block.phys % Page)
                                 + mmio[o].block.length]]
    BY <1>6 DEF Map
  <2> QED
    <3>1. mapping' \in [Maps -> Mapping]
      <4>1. [file |-> file[mmio[o].m_fd],
             page |-> mmio[o].block.phys - (mmio[o].block.phys % Page),
             length |-> (mmio[o].block.phys % Page) + mmio[o].block.length] \in Mapping
        BY <1>6, <2>1, <2>2, <2>4 DEF Mapping
      <4> QED
        BY <2>3, <4>1
    <3>2. mmio' \in [Objects -> Object]
      <4>1. [mmio[o] EXCEPT !.pc = "live", !.m_map = m,
                !.m_offset = mmio[o].block.phys % Page,
                !.m_length = (mmio[o].block.phys % Page)
                               + mmio[o].block.length] \in Object
        <5>1. (mmio[o].block.phys % Page) + mmio[o].block.length \in Nat
          BY <2>1, <2>2
        <5>2. mmio[o] \in Object
          OBVIOUS
        <5> QED
          BY <2>2, <5>1, <5>2, RecordUpdates, Zenon
      <4> QED
        BY <2>3, <4>1
    <3> QED
      BY <1>6, <3>1, <3>2 DEF Map
<1>7. ASSUME NEW o \in Objects, MapFails(o) \/ CloseDevice(o) PROVE TypeOK'
  <2>1. NoObject \in Object
    BY DEF NoObject, Empty, NoBlock, Object, Block
  <2>2. mmio' \in [Objects -> Object]
    BY <1>7, <2>1 DEF MapFails, CloseDevice
  <2>3. file' \in [Fds -> Devices \cup {"none", "other"}]
    BY <1>7 DEF MapFails, CloseDevice, Closes
  <2> QED
    BY <1>7, <2>2, <2>3 DEF MapFails, CloseDevice
<1>8. ASSUME NEW o \in Objects, Unmap(o) PROVE TypeOK'
  <2>1. Unmapped \in Mapping
    BY DEF Unmapped, Mapping
  <2>2. mapping' \in [Maps -> Mapping]
    BY <1>8, <2>1 DEF Unmap
  <2>3. mmio' \in [Objects -> Object]
    BY <1>8, ZenonT(60) DEF Unmap, Object
  <2> QED
    BY <1>8, <2>2, <2>3 DEF Unmap
<1>9. ASSUME NEW o \in Objects, NEW p \in Objects, Move(o, p) PROVE TypeOK'
  BY <1>9 DEF Move, Object, Empty, Block, NoBlock
<1> QED
  BY <1>1, <1>2, <1>4, <1>5, <1>6, <1>7, <1>8, <1>9 DEF MmioNext

LEMMA TypeDev ==
  ASSUME TypeOK, DevNext, UNCHANGED mmioVars
  PROVE  TypeOK'
<1> USE DEF TypeOK, processVars, mmioVars
<1>1. PICK t \in Transports :
        \/ open(t) \/ Opened(t) \/ close(t)
        \/ \E lens \in Calls : Ioctl(t, lens)
        \/ Transfer(t) \/ Return(t)
  BY DEF DevNext
<1>2. CASE open(t) \/ close(t)
  <2>1. Closed \in Transport
        /\ \A dev \in Adapters : [Closed EXCEPT !.pc = "open", !.dev = dev] \in Transport
    BY DeviceFacts DEF Closed, Transport
  <2>2. bus' \in [Transports -> Transport]
    BY <1>2, <2>1 DEF open, close
  <2>3. file' \in [Fds -> Devices \cup {"none", "other"}]
    BY <1>2 DEF open, close, Closes
  <2> QED
    BY <1>2, <2>2, <2>3 DEF open, close
<1>3. CASE Opened(t)
  <2>1. bus' \in [Transports -> Transport]
    <3>1. PICK r \in Transport : bus' = [bus EXCEPT ![t] = r]
      <4>1. CASE \E fd \in Fds :
                   bus' = [bus EXCEPT ![t] = [bus[t] EXCEPT !.pc = "idle", !.m_fd = fd]]
        BY <4>1, RecordUpdates
      <4>2. CASE bus' = [bus EXCEPT ![t] = [bus[t] EXCEPT !.pc = "idle"]]
        BY <4>2, RecordUpdates
      <4> QED
        BY <1>3, <4>1, <4>2 DEF Opened
    <3> QED
      BY <3>1
  <2>2. file' \in [Fds -> Devices \cup {"none", "other"}]
    BY <1>3, ZenonT(60) DEF Opened, Opens, Transport
  <2> QED
    BY <1>3, <2>1, <2>2 DEF Opened
<1>4. ASSUME NEW lens \in Calls, Ioctl(t, lens) PROVE TypeOK'
  <2>1. file[bus[t].m_fd] \in Devices \cup {"none", "other"}
    BY <1>4 DEF Ioctl, Transport
  <2>2. bus' \in [Transports -> Transport]
    <3>1. [bus[t] EXCEPT !.pc = "ioctl", !.to = file[bus[t].m_fd],
              !.ends = Ends(lens), !.want = Asked(lens), !.moved = 0,
              !.result = "none"] \in Transport
      BY <2>1, Asks, RecordUpdates
    <3> QED
      BY <1>4, <3>1 DEF Ioctl
  <2> QED
    BY <1>4, <2>2 DEF Ioctl
<1>5. CASE Transfer(t)
  <2>1. bus[t] \in Transport
    OBVIOUS
  <2>2. [bus[t] EXCEPT !.moved = bus[t].moved + 1] \in Transport
    BY <2>1, RecordUpdates, Zenon
  <2>3. bus' = [bus EXCEPT ![t] = [bus[t] EXCEPT !.moved = bus[t].moved + 1]]
    BY <1>5 DEF Transfer
  <2>4. bus' \in [Transports -> Transport]
    BY <2>2, <2>3
  <2> QED
    BY <1>5, <2>4 DEF Transfer
<1>6. CASE Return(t)
  <2>1. \A result \in {"Ok", "Nack", "Timeout"} :
          [bus[t] EXCEPT !.pc = "idle", !.to = "none", !.ends = {},
                         !.result = result] \in Transport
    BY ZenonT(60) DEF Transport
  <2> QED
    BY <1>6, <2>1 DEF Return
<1> QED
  BY <1>1, <1>2, <1>3, <1>4, <1>5, <1>6

LEMMA TypeOther ==
  ASSUME TypeOK, OtherOpens \/ OtherCloses, UNCHANGED <<mmioVars, bus>>
  PROVE  TypeOK'
BY DEF OtherOpens, OtherCloses, Opens, Closes, TypeOK, mmioVars

LEMMA OpeningStep ==
  ASSUME TypeOK, Opening, Next
  PROVE  Opening'
<1> USE DEF Opening
<1>1. CASE MmioNext
  <2>1. ASSUME NEW o \in Objects, NEW block, OpenDevice(o, block) PROVE Opening'
    BY <2>1, DeviceFacts DEF OpenDevice, Empty, TypeOK
  <2>2. ASSUME NEW o \in Objects, Map(o) PROVE Opening'
    BY <2>2 DEF Map, TypeOK, Object
  <2>3. ASSUME NEW o \in Objects, MapFails(o) \/ CloseDevice(o) \/ Unmap(o)
        PROVE  Opening'
    BY <2>3 DEF MapFails, CloseDevice, Unmap, NoObject, Empty, TypeOK, Object
  <2>4. ASSUME NEW o \in Objects, NEW p \in Objects, Move(o, p) PROVE Opening'
    BY <2>4 DEF Move, Empty, TypeOK, Object
  <2> QED
    BY <1>1, <2>1, <2>2, <2>3, <2>4
       DEF MmioNext, DetectBase, ForceBase, MapBlock, map_gpiomem
<1>2. CASE UNCHANGED mmioVars
  BY <1>2 DEF mmioVars
<1> QED
  BY <1>1, <1>2 DEF Next

\* Every step keeps file, held, board, base, origin, mapping, mmio and bus within
\* their types.
THEOREM TypeCorrect == Spec => []TypeOK
<1>1. Init => TypeOK /\ Opening
  BY TypeInit DEF Init, MmioInit, Opening, NoObject, Empty
<1>2. TypeOK /\ Opening /\ [Next]_vars => (TypeOK /\ Opening)'
  <2> SUFFICES ASSUME TypeOK, Opening, [Next]_vars
               PROVE  TypeOK' /\ Opening'
    OBVIOUS
  <2>1. CASE UNCHANGED vars
    BY <2>1 DEF vars, processVars, mmioVars, TypeOK, Opening
  <2>2. CASE Next
    BY <2>2, TypeMmio, TypeDev, TypeOther, OpeningStep DEF Next
  <2> QED
    BY <2>1, <2>2
<1> QED
  BY <1>1, <1>2, PTL DEF Spec

-----------------------------------------------------------------------------
(* The invariant holds *)

Inv ==
  /\ TypeOK /\ Opening
  /\ FilesInv /\ ObjectInv /\ MapsInv /\ BaseInv /\ BusInv

\* Whoever has a descriptor has it open.
LEMMA HeldOpen ==
  ASSUME Inv
  PROVE  /\ \A o \in Objects : mmio[o].m_fd # NoFd =>
              mmio[o].m_fd \in Fds /\ file[mmio[o].m_fd] # "none"
         /\ \A t \in Transports : bus[t].m_fd # NoFd =>
              bus[t].m_fd \in Fds /\ file[bus[t].m_fd] # "none"
         /\ \A fd \in held : fd \in Fds /\ file[fd] # "none"
<1>1. \A o \in Objects : mmio[o].m_fd \in Fds \cup {NoFd}
  BY DEF Inv, TypeOK, Object
<1>2. \A t \in Transports : bus[t].m_fd \in Fds \cup {NoFd}
  BY DEF Inv, TypeOK, Transport
<1> QED
  BY <1>1, <1>2 DEF Inv, TypeOK, FilesInv, ObjectInv, BusInv

LEMMA OpenDeviceStep ==
  ASSUME Inv, NEW o \in Objects, NEW block, block.dev \in Devices,
         block.true = block.phys, OpenDevice(o, block), UNCHANGED bus
  PROVE  (FilesInv /\ ObjectInv /\ MapsInv /\ BaseInv /\ BusInv)'
<1> USE DeviceFacts
<1>1. PICK fd \in Fds :
        /\ Opens(block.dev, fd)
        /\ mmio' = [mmio EXCEPT ![o] =
             [Empty EXCEPT !.pc = "open", !.m_fd = fd, !.block = block]]
  BY DEF OpenDevice
<1>2. mmio \in [Objects -> Object] /\ file \in [Fds -> Devices \cup {"none", "other"}]
  BY DEF Inv, TypeOK
<1>3. /\ file[fd] = "none" /\ file' = [file EXCEPT ![fd] = block.dev]
      /\ UNCHANGED <<held, mapping, board, base, origin, bus>>
      /\ mmio[o] = NoObject
  BY <1>1 DEF Opens, OpenDevice, Inv, ObjectInv
<1>4. /\ \A p \in Objects : p # o => mmio'[p] = mmio[p]
      /\ mmio'[o].pc = "open" /\ mmio'[o].m_fd = fd /\ mmio'[o].block = block
      /\ mmio'[o].m_map = "MAP_FAILED"
  BY <1>1, <1>2 DEF Empty
<1>5. mmio[o].m_fd = NoFd /\ mmio[o].m_map = "MAP_FAILED"
  BY <1>3 DEF NoObject, Empty
<1>6. FilesInv'
  BY <1>2, <1>3, <1>4, <1>5, HeldOpen DEF Inv, FilesInv
<1>7. ObjectInv'
  BY <1>2, <1>3, <1>4, HeldOpen DEF Inv, ObjectInv
<1>8. MapsInv'
  BY <1>3, <1>4, <1>5 DEF Inv, MapsInv
<1>9. BaseInv' /\ BusInv'
  BY <1>2, <1>3, HeldOpen DEF Inv, BaseInv, BusInv
<1> QED
  BY <1>6, <1>7, <1>8, <1>9

LEMMA GiveUpStep ==
  ASSUME Inv, NEW o \in Objects, MapFails(o) \/ CloseDevice(o), UNCHANGED bus
  PROVE  (FilesInv /\ ObjectInv /\ MapsInv /\ BaseInv /\ BusInv)'
<1> USE DeviceFacts
<1>1. mmio \in [Objects -> Object] /\ file \in [Fds -> Devices \cup {"none", "other"}]
  BY DEF Inv, TypeOK
<1>2. /\ file' = [f \in Fds |-> IF f = mmio[o].m_fd THEN "none" ELSE file[f]]
      /\ mmio' = [mmio EXCEPT ![o] = NoObject]
      /\ UNCHANGED <<held, mapping, board, base, origin, bus>>
      /\ mmio[o].m_map = "MAP_FAILED"
  BY DEF MapFails, CloseDevice, Closes, Inv, ObjectInv
<1>3. /\ \A p \in Objects : p # o => mmio'[p] = mmio[p]
      /\ mmio'[o] = NoObject /\ mmio'[o].m_fd = NoFd
      /\ mmio'[o].pc = "none" /\ mmio'[o].m_map = "MAP_FAILED"
  BY <1>1, <1>2 DEF NoObject, Empty
<1>4. FilesInv'
  BY <1>1, <1>2, <1>3, HeldOpen DEF Inv, FilesInv
<1>5. ObjectInv'
  BY <1>1, <1>2, <1>3, HeldOpen DEF Inv, Opening, ObjectInv, FilesInv
<1>6. MapsInv'
  BY <1>2, <1>3 DEF Inv, MapsInv
<1>7. BaseInv' /\ BusInv'
  BY <1>1, <1>2, HeldOpen DEF Inv, BaseInv, BusInv, FilesInv
<1> QED
  BY <1>4, <1>5, <1>6, <1>7

LEMMA MoveStep ==
  ASSUME Inv, NEW o \in Objects, NEW p \in Objects, Move(o, p), UNCHANGED bus
  PROVE  (FilesInv /\ ObjectInv /\ MapsInv /\ BaseInv /\ BusInv)'
<1>1. mmio \in [Objects -> Object]
  BY DEF Inv, TypeOK
<1>2. /\ mmio[p].pc = "live" /\ mmio[o].pc \in {"none", "live"}
      /\ UNCHANGED <<file, held, mapping, board, base, origin, bus>>
      /\ \A q \in Objects : q # o /\ q # p => mmio'[q] = mmio[q]
      /\ o # p => mmio'[o] = mmio[p]
      /\ mmio'[p] = IF mmio[o].pc = "none" THEN Empty ELSE mmio[o]
  BY <1>1 DEF Move, processVars
<1>3. CASE mmio[o].pc = "none"
  <2>1. /\ mmio'[p] = Empty /\ mmio'[p].m_fd = NoFd /\ mmio'[p].m_map = "MAP_FAILED"
        /\ mmio'[p].pc = "live" /\ o # p
        /\ mmio[o].m_fd = NoFd /\ mmio[o].m_map = "MAP_FAILED"
    BY <1>2, <1>3 DEF Empty, Inv, ObjectInv, NoObject
  <2>2. FilesInv'
    BY <1>2, <2>1 DEF Inv, FilesInv
  <2>3. ObjectInv'
    BY <1>2, <2>1 DEF Inv, ObjectInv
  <2>4. MapsInv'
    BY <1>2, <2>1 DEF Inv, MapsInv
  <2> QED
    BY <1>2, <2>2, <2>3, <2>4 DEF Inv, BaseInv, BusInv
<1>4. CASE mmio[o].pc = "live"
  <2>1. mmio'[p] = mmio[o] /\ mmio'[o] = mmio[p]
    BY <1>1, <1>2, <1>4 DEF Move
  <2>2. FilesInv'
    BY <1>2, <2>1 DEF Inv, FilesInv
  <2>3. ObjectInv'
    BY <1>2, <2>1, <1>4 DEF Inv, ObjectInv
  <2>4. MapsInv'
    BY <1>2, <2>1 DEF Inv, MapsInv
  <2> QED
    BY <1>2, <2>2, <2>3, <2>4 DEF Inv, BaseInv, BusInv
<1> QED
  BY <1>2, <1>3, <1>4

LEMMA MapStep ==
  ASSUME Inv, NEW o \in Objects, Map(o), UNCHANGED bus
  PROVE  (FilesInv /\ ObjectInv /\ MapsInv /\ BaseInv /\ BusInv)'
<1> DEFINE phys   == mmio[o].block.phys
           length == mmio[o].block.length
<1>1. /\ mmio \in [Objects -> Object] /\ mapping \in [Maps -> Mapping]
      /\ phys \in Nat /\ length \in Nat
  BY DEF Inv, TypeOK, Object, Block
<1>2. PICK offset : offset = phys % Page
  OBVIOUS
<1>3. offset \in Nat
  BY <1>1, <1>2, MmioAssumption
<1>4. PICK m \in Maps :
        /\ mapping[m] = Unmapped
        /\ mapping' = [mapping EXCEPT ![m] =
             [file |-> file[mmio[o].m_fd], page |-> phys - offset,
              length |-> offset + length]]
        /\ mmio' = [mmio EXCEPT ![o] =
             [mmio[o] EXCEPT !.pc = "live", !.m_map = m, !.m_offset = offset,
                             !.m_length = offset + length]]
  BY <1>2, Zenon DEF Map
<1>5. /\ UNCHANGED <<file, held, board, base, origin, bus>>
      /\ mmio[o].pc = "open" /\ mmio[o].m_fd # NoFd /\ mmio[o].m_map = "MAP_FAILED"
      /\ file[mmio[o].m_fd] = mmio[o].block.dev /\ mmio[o].block.dev # "none"
      /\ mmio[o].block.true = phys
      /\ m # "MAP_FAILED"
  BY MmioAssumption DEF Map, processVars, Inv, Opening, ObjectInv
<1>6. /\ \A q \in Objects : q # o => mmio'[q] = mmio[q]
      /\ mmio'[o].pc = "live" /\ mmio'[o].m_map = m /\ mmio'[o].m_offset = offset
      /\ mmio'[o].m_length = offset + length
      /\ mmio'[o].m_fd = mmio[o].m_fd /\ mmio'[o].block = mmio[o].block
  BY <1>1, <1>4 DEF Object
<1>7. /\ \A n \in Maps : n # m => mapping'[n] = mapping[n]
      /\ mapping'[m].file = mmio[o].block.dev
      /\ mapping'[m].page = phys - offset
      /\ mapping'[m].length = offset + length
  BY <1>1, <1>4, <1>5
<1>8. \A q \in Objects : mmio[q].m_map # "MAP_FAILED" =>
        mmio[q].m_map \in Maps /\ mmio[q].m_map # m
  <2>1. \A q \in Objects : mmio[q].m_map \in Maps \cup {"MAP_FAILED"}
    BY <1>1 DEF Object
  <2> QED
    BY <2>1, <1>4 DEF Unmapped, Inv, MapsInv
<1>9. MapsInv'
  <2>1. (phys - offset) + offset = phys /\ offset + length <= offset + length
    BY <1>1, <1>3
  <2>2. \A n \in Maps : mapping'[n] # Unmapped => \E q \in Objects : mmio'[q].m_map = n
    BY <1>5, <1>6, <1>7, MmioAssumption DEF Inv, MapsInv
  <2>3. \A q, r \in Objects : q # r /\ mmio'[q].m_map # "MAP_FAILED"
          => mmio'[q].m_map # mmio'[r].m_map
    BY <1>6, <1>8 DEF Inv, MapsInv
  <2>4. ASSUME NEW q \in Objects, mmio'[q].m_map # "MAP_FAILED"
        PROVE  LET r == mmio'[q]  n == mapping'[r.m_map] IN
               /\ n.file # "none" /\ n.file = r.block.dev
               /\ n.page + r.m_offset = r.block.true
               /\ n.length = r.m_length
               /\ r.m_offset + r.block.length <= n.length
    <3>1. CASE q = o
      BY <3>1, <1>5, <1>6, <1>7, <2>1
    <3>2. CASE q # o
      BY <3>2, <2>4, <1>6, <1>7, <1>8 DEF Inv, MapsInv
    <3> QED
      BY <3>1, <3>2
  <2> QED
    BY <2>2, <2>3, <2>4 DEF MapsInv
<1> HIDE DEF phys, length
<1>10. FilesInv' /\ BaseInv' /\ BusInv'
  <2>1. \A q \in Objects : mmio'[q].m_fd = mmio[q].m_fd
    BY <1>6
  <2> QED
    BY <2>1, <1>5 DEF Inv, FilesInv, BaseInv, BusInv
<1>11. ObjectInv'
  BY <1>5, <1>6 DEF Inv, ObjectInv
<1> QED
  BY <1>9, <1>10, <1>11

LEMMA UnmapStep ==
  ASSUME Inv, NEW o \in Objects, Unmap(o), UNCHANGED bus
  PROVE  (FilesInv /\ ObjectInv /\ MapsInv /\ BaseInv /\ BusInv)'
<1>1. /\ mmio \in [Objects -> Object] /\ mapping \in [Maps -> Mapping]
  BY DEF Inv, TypeOK
<1>2. /\ UNCHANGED <<file, held, board, base, origin, bus>>
      /\ mmio[o].pc = "live"
  BY DEF Unmap, processVars
<1>3. /\ \A q \in Objects : q # o => mmio'[q] = mmio[q]
      /\ mmio'[o].pc = "unmapped" /\ mmio'[o].m_map = "MAP_FAILED"
      /\ mmio'[o].m_fd = mmio[o].m_fd /\ mmio'[o].block = mmio[o].block
  BY <1>1 DEF Unmap, Object
<1>4. \A m \in Maps : mapping'[m] = IF m = mmio[o].m_map THEN Unmapped ELSE mapping[m]
  <2>1. ASSUME NEW m \in Maps, m = mmio[o].m_map
        PROVE  Pages(mapping[m].length) <= Pages(mmio[o].m_length)
    <3>1. m # "MAP_FAILED"
      BY MmioAssumption
    <3>2. mapping[m].length = mmio[o].m_length /\ mapping[m].length \in Nat
      BY <1>1, <2>1, <3>1 DEF Inv, MapsInv, Mapping
    <3>3. Pages(mapping[m].length) \in Int
      BY <3>2, MmioAssumption DEF Pages
    <3> QED
      BY <3>2, <3>3
  <2> QED
    BY <2>1 DEF Unmap
<1>5. \A q \in Objects : mmio[q].m_map \in Maps \cup {"MAP_FAILED"}
  BY <1>1 DEF Object
<1>6. MapsInv'
  BY <1>3, <1>4, <1>5 DEF Inv, MapsInv
<1>7. FilesInv' /\ BaseInv' /\ BusInv'
  <2>1. \A q \in Objects : mmio'[q].m_fd = mmio[q].m_fd
    BY <1>3
  <2> QED
    BY <2>1, <1>2 DEF Inv, FilesInv, BaseInv, BusInv
<1>8. ObjectInv'
  BY <1>2, <1>3 DEF Inv, ObjectInv
<1> QED
  BY <1>6, <1>7, <1>8

LEMMA BaseStep ==
  ASSUME Inv, DetectBase \/ ForceBase, UNCHANGED bus
  PROVE  (FilesInv /\ ObjectInv /\ MapsInv /\ BaseInv /\ BusInv)'
<1>1. UNCHANGED <<file, held, mapping, mmio, bus, board>>
  BY DEF DetectBase, ForceBase, processVars
<1>2. BaseInv'
  BY <1>1, Detected DEF DetectBase, ForceBase, BaseInv, Inv, TypeOK
<1> QED
  BY <1>1, <1>2 DEF Inv, FilesInv, ObjectInv, MapsInv, BusInv

LEMMA MmioStep ==
  ASSUME Inv, MmioNext, UNCHANGED bus
  PROVE  (FilesInv /\ ObjectInv /\ MapsInv /\ BaseInv /\ BusInv)'
<1>1. CASE DetectBase \/ ForceBase
  BY <1>1, BaseStep
<1>2. ASSUME NEW o \in Objects, MapBlock(o) \/ map_gpiomem(o)
      PROVE  (FilesInv /\ ObjectInv /\ MapsInv /\ BaseInv /\ BusInv)'
  <2>1. PICK block : /\ block.dev \in Devices /\ block.true = block.phys
                     /\ OpenDevice(o, block)
    <3>1. CASE MapBlock(o)
      <4>1. TrueBase = base
        BY DEF TrueBase, Inv, BaseInv
      <4> QED
        BY <3>1, <4>1, DeviceFacts DEF MapBlock
    <3>2. CASE map_gpiomem(o)
      BY <3>2, DeviceFacts DEF map_gpiomem
    <3> QED
      BY <1>2, <3>1, <3>2
  <2> QED
    BY <2>1, OpenDeviceStep
<1>3. ASSUME NEW o \in Objects,
             Map(o) \/ MapFails(o) \/ Unmap(o) \/ CloseDevice(o)
      PROVE  (FilesInv /\ ObjectInv /\ MapsInv /\ BaseInv /\ BusInv)'
  BY <1>3, MapStep, GiveUpStep, UnmapStep
<1>4. ASSUME NEW o \in Objects, NEW p \in Objects, Move(o, p)
      PROVE  (FilesInv /\ ObjectInv /\ MapsInv /\ BaseInv /\ BusInv)'
  BY <1>4, MoveStep
<1> QED
  BY <1>1, <1>2, <1>3, <1>4 DEF MmioNext

LEMMA CloseStep ==
  ASSUME Inv, NEW t \in Transports, open(t) \/ close(t), UNCHANGED mmioVars
  PROVE  (FilesInv /\ ObjectInv /\ MapsInv /\ BaseInv /\ BusInv)'
<1> USE DeviceFacts
<1>1. bus \in [Transports -> Transport] /\ file \in [Fds -> Devices \cup {"none", "other"}]
  BY DEF Inv, TypeOK
<1>2. /\ file' = [f \in Fds |-> IF f = bus[t].m_fd THEN "none" ELSE file[f]]
      /\ UNCHANGED <<held, mapping, board, base, origin, mmio>>
  BY DEF open, close, Closes, mmioVars
<1>3. /\ \A u \in Transports : u # t => bus'[u] = bus[u]
      /\ bus'[t].m_fd = NoFd /\ bus'[t].pc # "ioctl"
      /\ bus'[t].pc = "open" => bus'[t].dev \in Adapters
  <2>1. CASE close(t)
    BY <1>1, <2>1 DEF close, Closed
  <2>2. CASE open(t)
    <3>1. PICK dev \in Adapters :
            bus' = [bus EXCEPT ![t] = [Closed EXCEPT !.pc = "open", !.dev = dev]]
      BY <2>2 DEF open
    <3> QED
      BY <1>1, <3>1 DEF Closed
  <2> QED
    BY <2>1, <2>2
<1>4. FilesInv'
  <2>1. \A f \in Fds : file'[f] = IF f = bus[t].m_fd THEN "none" ELSE file[f]
    BY <1>2
  <2>2. /\ \A o \in Objects : mmio'[o].m_fd = mmio[o].m_fd
        /\ \A u \in Transports : bus'[u].m_fd = IF u = t THEN NoFd ELSE bus[u].m_fd
        /\ held' = held
    BY <1>2, <1>3
  <2>3. ASSUME NEW f \in Fds, file'[f] # "none"
        PROVE  \/ \E o \in Objects : mmio'[o].m_fd = f
               \/ \E u \in Transports : bus'[u].m_fd = f
               \/ f \in held'
    <3>1. f # bus[t].m_fd /\ file[f] # "none"
      BY <2>1, <2>3
    <3> QED
      BY <2>2, <3>1 DEF Inv, FilesInv
  <2>4. \A f \in held' : file'[f] # "none"
    <3>1. \A f \in held : f \in Fds /\ file[f] # "none"
      BY HeldOpen
    <3>2. bus[t].m_fd \notin held
      BY DEF Inv, FilesInv
    <3> QED
      BY <2>1, <2>2, <3>1, <3>2
  <2>5. /\ \A o, p \in Objects :
             o # p /\ mmio'[o].m_fd # NoFd => mmio'[o].m_fd # mmio'[p].m_fd
        /\ \A s, u \in Transports :
             s # u /\ bus'[s].m_fd # NoFd => bus'[s].m_fd # bus'[u].m_fd
        /\ \A o \in Objects, u \in Transports :
             mmio'[o].m_fd # NoFd => mmio'[o].m_fd # bus'[u].m_fd
    BY <2>2 DEF Inv, FilesInv
  <2>6. /\ \A o \in Objects : mmio'[o].m_fd \notin held'
        /\ \A u \in Transports : bus'[u].m_fd \notin held'
    <3>1. NoFd \notin held
      BY HeldOpen
    <3>2. /\ \A o \in Objects : mmio[o].m_fd \notin held
          /\ \A u \in Transports : bus[u].m_fd \notin held
      BY DEF Inv, FilesInv
    <3> QED
      BY <2>2, <3>1, <3>2
  <2> QED
    BY <2>3, <2>4, <2>5, <2>6 DEF FilesInv
<1>5. ObjectInv'
  <2>1. ASSUME NEW o \in Objects, mmio[o].m_fd # NoFd
        PROVE  file'[mmio[o].m_fd] = file[mmio[o].m_fd]
    <3>1. mmio[o].m_fd \in Fds
      BY <2>1, HeldOpen
    <3>2. mmio[o].m_fd # bus[t].m_fd
      BY <2>1 DEF Inv, FilesInv
    <3> QED
      BY <1>2, <3>1, <3>2
  <2>2. mmio' = mmio
    BY <1>2
  <2> QED
    BY <2>1, <2>2 DEF Inv, Opening, ObjectInv
<1>6. BusInv'
  <2>1. ASSUME NEW u \in Transports, u # t, bus[u].m_fd # NoFd
        PROVE  file'[bus[u].m_fd] = file[bus[u].m_fd]
    <3>1. bus[u].m_fd \in Fds /\ bus[u].m_fd # bus[t].m_fd
      BY <2>1, HeldOpen DEF Inv, FilesInv
    <3> QED
      BY <1>2, <3>1
  <2> QED
    BY <1>3, <2>1 DEF Inv, BusInv
<1> QED
  BY <1>2, <1>4, <1>5, <1>6 DEF Inv, MapsInv, BaseInv

LEMMA OpenedStep ==
  ASSUME Inv, NEW t \in Transports, Opened(t), UNCHANGED mmioVars
  PROVE  (FilesInv /\ ObjectInv /\ MapsInv /\ BaseInv /\ BusInv)'
<1> USE DeviceFacts
<1>1. bus \in [Transports -> Transport] /\ file \in [Fds -> Devices \cup {"none", "other"}]
  BY DEF Inv, TypeOK
<1>2. /\ bus[t].pc = "open" /\ bus[t].m_fd = NoFd /\ bus[t].dev \in Adapters
      /\ UNCHANGED <<held, mapping, board, base, origin, mmio>>
  BY DEF Opened, Inv, BusInv, mmioVars
<1>3. CASE UNCHANGED file /\ bus' = [bus EXCEPT ![t] = [bus[t] EXCEPT !.pc = "idle"]]
  <2>1. /\ \A u \in Transports : u # t => bus'[u] = bus[u]
        /\ bus'[t].m_fd = NoFd /\ bus'[t].pc = "idle"
    BY <1>1, <1>2, <1>3 DEF Transport
  <2>2. FilesInv'
    BY <1>2, <1>3, <2>1 DEF Inv, FilesInv
  <2>3. BusInv'
    BY <1>2, <1>3, <2>1 DEF Inv, BusInv
  <2> QED
    BY <1>2, <1>3, <2>2, <2>3 DEF Inv, ObjectInv, MapsInv, BaseInv
<1>4. ASSUME NEW fd \in Fds, Opens(bus[t].dev, fd),
             bus' = [bus EXCEPT ![t] = [bus[t] EXCEPT !.pc = "idle", !.m_fd = fd]]
      PROVE  (FilesInv /\ ObjectInv /\ MapsInv /\ BaseInv /\ BusInv)'
  <2>1. /\ \A u \in Transports : u # t => bus'[u] = bus[u]
        /\ bus'[t].m_fd = fd /\ bus'[t].dev = bus[t].dev /\ bus'[t].pc = "idle"
    BY <1>1, <1>2, <1>4 DEF Transport
  <2>2. file[fd] = "none" /\ file' = [file EXCEPT ![fd] = bus[t].dev]
    BY <1>4 DEF Opens
  <2>3. FilesInv'
    BY <1>1, <1>2, <2>1, <2>2, HeldOpen DEF Inv, FilesInv
  <2>4. ObjectInv'
    BY <1>1, <1>2, <2>2, HeldOpen DEF Inv, Opening, ObjectInv
  <2>5. BusInv'
    BY <1>1, <1>2, <2>1, <2>2, HeldOpen DEF Inv, BusInv
  <2> QED
    BY <1>2, <2>3, <2>4, <2>5 DEF Inv, MapsInv, BaseInv
<1> QED
  BY <1>3, <1>4 DEF Opened

LEMMA CallStep ==
  ASSUME Inv, NEW t \in Transports, UNCHANGED mmioVars,
         (\E lens \in Calls : Ioctl(t, lens)) \/ Transfer(t) \/ Return(t)
  PROVE  (FilesInv /\ ObjectInv /\ MapsInv /\ BaseInv /\ BusInv)'
<1>1. bus \in [Transports -> Transport]
  BY DEF Inv, TypeOK
<1>2. UNCHANGED <<file, held, mapping, board, base, origin, mmio>>
  BY DEF Ioctl, Transfer, Return, processVars, mmioVars
<1>3. /\ \A u \in Transports : u # t => bus'[u] = bus[u]
      /\ bus'[t].m_fd = bus[t].m_fd /\ bus'[t].dev = bus[t].dev
      /\ bus'[t].pc # "open"
  <2>1. ASSUME NEW lens \in Calls, Ioctl(t, lens)
        PROVE  /\ \A u \in Transports : u # t => bus'[u] = bus[u]
               /\ bus'[t].m_fd = bus[t].m_fd /\ bus'[t].dev = bus[t].dev
               /\ bus'[t].pc = "ioctl"
    BY <1>1, <2>1 DEF Ioctl, Transport
  <2>2. CASE Transfer(t)
    BY <1>1, <2>2 DEF Transfer, Transport
  <2>3. CASE Return(t)
    BY <1>1, <2>3 DEF Return, Transport
  <2> QED
    BY <2>1, <2>2, <2>3
<1>4. bus'[t].pc = "ioctl" => bus'[t].to = bus[t].dev
  <2>1. ASSUME NEW lens \in Calls, Ioctl(t, lens)
        PROVE  bus'[t].to = bus[t].dev
    BY <1>1, <2>1, ZenonT(60) DEF Ioctl, Transport, Inv, BusInv
  <2>2. CASE Transfer(t)
    BY <1>1, <2>2 DEF Transfer, Transport, Inv, BusInv
  <2>3. CASE Return(t)
    BY <1>1, <2>3 DEF Return, Transport, Inv, BusInv
  <2> QED
    BY <2>1, <2>2, <2>3
<1>5. BusInv'
  BY <1>2, <1>3, <1>4 DEF Inv, BusInv
<1>6. FilesInv'
  BY <1>2, <1>3 DEF Inv, FilesInv
<1> QED
  BY <1>2, <1>5, <1>6 DEF Inv, ObjectInv, MapsInv, BaseInv

LEMMA OtherStep ==
  ASSUME Inv, OtherOpens \/ OtherCloses, UNCHANGED <<mmioVars, bus>>
  PROVE  (FilesInv /\ ObjectInv /\ MapsInv /\ BaseInv /\ BusInv)'
<1> USE DeviceFacts
<1>1. /\ file \in [Fds -> Devices \cup {"none", "other"}] /\ held \subseteq Fds
      /\ UNCHANGED <<mapping, board, base, origin, mmio, bus>>
  BY DEF Inv, TypeOK, mmioVars
<1>2. ASSUME NEW fd \in Fds, Opens("other", fd), held' = held \cup {fd}
      PROVE  FilesInv' /\ ObjectInv' /\ BusInv'
  <2>1. file[fd] = "none" /\ file' = [file EXCEPT ![fd] = "other"]
    BY <1>2 DEF Opens
  <2>2. FilesInv'
    <3>1. /\ \A o \in Objects : mmio'[o].m_fd = mmio[o].m_fd /\ mmio[o].m_fd # fd
          /\ \A t \in Transports : bus'[t].m_fd = bus[t].m_fd /\ bus[t].m_fd # fd
      BY <1>1, <2>1, HeldOpen
    <3>2. \A f \in Fds : file'[f] = IF f = fd THEN "other" ELSE file[f]
      BY <1>1, <2>1
    <3>3. held' = held \cup {fd}
      BY <1>2
    <3>4. \A f \in Fds : file'[f] # "none" =>
            \/ \E o \in Objects : mmio'[o].m_fd = f
            \/ \E t \in Transports : bus'[t].m_fd = f
            \/ f \in held'
      BY <3>1, <3>2, <3>3 DEF Inv, FilesInv
    <3>5. \A f \in held' : file'[f] # "none"
      BY <1>1, <3>2, <3>3 DEF Inv, FilesInv
    <3>6. /\ \A o, p \in Objects :
               o # p /\ mmio'[o].m_fd # NoFd => mmio'[o].m_fd # mmio'[p].m_fd
          /\ \A t, u \in Transports :
               t # u /\ bus'[t].m_fd # NoFd => bus'[t].m_fd # bus'[u].m_fd
          /\ \A o \in Objects, t \in Transports :
               mmio'[o].m_fd # NoFd => mmio'[o].m_fd # bus'[t].m_fd
      BY <3>1 DEF Inv, FilesInv
    <3>7. /\ \A o \in Objects : mmio'[o].m_fd \notin held'
          /\ \A t \in Transports : bus'[t].m_fd \notin held'
      BY <3>1, <3>3 DEF Inv, FilesInv
    <3> QED
      BY <3>4, <3>5, <3>6, <3>7 DEF FilesInv
  <2>3. ObjectInv'
    BY <1>1, <2>1, HeldOpen DEF Inv, Opening, ObjectInv
  <2>4. BusInv'
    BY <1>1, <2>1, HeldOpen DEF Inv, BusInv
  <2> QED
    BY <2>2, <2>3, <2>4
<1>3. ASSUME NEW fd \in held, Closes(fd), held' = held \ {fd}
      PROVE  FilesInv' /\ ObjectInv' /\ BusInv'
  <2>1. file' = [f \in Fds |-> IF f = fd THEN "none" ELSE file[f]]
    BY <1>3 DEF Closes
  <2>2. FilesInv'
    <3>1. /\ \A o \in Objects : mmio'[o].m_fd = mmio[o].m_fd /\ mmio[o].m_fd # fd
          /\ \A t \in Transports : bus'[t].m_fd = bus[t].m_fd /\ bus[t].m_fd # fd
      BY <1>1, <1>3 DEF Inv, FilesInv
    <3>2. \A f \in Fds : file'[f] # "none" =>
            \/ \E o \in Objects : mmio'[o].m_fd = f
            \/ \E t \in Transports : bus'[t].m_fd = f
            \/ f \in held'
      BY <1>3, <2>1, <3>1 DEF Inv, FilesInv
    <3>3. \A f \in held' : file'[f] # "none"
      BY <1>1, <1>3, <2>1 DEF Inv, FilesInv
    <3>4. /\ \A o, p \in Objects :
               o # p /\ mmio'[o].m_fd # NoFd => mmio'[o].m_fd # mmio'[p].m_fd
          /\ \A t, u \in Transports :
               t # u /\ bus'[t].m_fd # NoFd => bus'[t].m_fd # bus'[u].m_fd
          /\ \A o \in Objects, t \in Transports :
               mmio'[o].m_fd # NoFd => mmio'[o].m_fd # bus'[t].m_fd
      BY <3>1 DEF Inv, FilesInv
    <3>5. /\ \A o \in Objects : mmio'[o].m_fd \notin held'
          /\ \A t \in Transports : bus'[t].m_fd \notin held'
      BY <1>3, <3>1 DEF Inv, FilesInv
    <3> QED
      BY <3>2, <3>3, <3>4, <3>5 DEF FilesInv
  <2>3. ObjectInv'
    BY <1>1, <1>3, <2>1, HeldOpen DEF Inv, Opening, ObjectInv, FilesInv
  <2>4. BusInv'
    BY <1>1, <1>3, <2>1, HeldOpen DEF Inv, BusInv, FilesInv
  <2> QED
    BY <2>2, <2>3, <2>4
<1> QED
  BY <1>1, <1>2, <1>3 DEF OtherOpens, OtherCloses, Inv, MapsInv, BaseInv

-----------------------------------------------------------------------------
THEOREM InvCorrect == Spec => []Inv
<1>1. Init => Inv
  <2> SUFFICES ASSUME Init PROVE Inv
    OBVIOUS
  <2>1. TypeOK
    BY TypeInit
  <2>2. /\ \A fd \in Fds : file[fd] = "none"
        /\ held = {} /\ origin = "none"
        /\ \A m \in Maps : mapping[m] = Unmapped
        /\ \A o \in Objects : /\ mmio[o] = NoObject /\ mmio[o].pc = "none"
                              /\ mmio[o].m_fd = NoFd /\ mmio[o].m_map = "MAP_FAILED"
        /\ \A t \in Transports : bus[t].m_fd = NoFd /\ bus[t].pc = "idle"
    BY DEF Init, ProcessInit, MmioInit, DevInit, NoObject, Empty, Closed
  <2> QED
    BY <2>1, <2>2 DEF Inv, Opening, FilesInv, ObjectInv, MapsInv, BaseInv, BusInv
<1>2. Inv /\ [Next]_vars => Inv'
  <2> SUFFICES ASSUME Inv, [Next]_vars PROVE Inv'
    OBVIOUS
  <2>1. CASE UNCHANGED vars
    BY <2>1 DEF vars, processVars, mmioVars, Inv, TypeOK, Opening, FilesInv, ObjectInv,
      MapsInv, BaseInv, BusInv
  <2>2. CASE Next
    <3>1. TypeOK' /\ Opening'
      BY <2>2, TypeMmio, TypeDev, TypeOther, OpeningStep DEF Next, Inv
    <3>2. CASE MmioNext /\ UNCHANGED bus
      BY <3>1, <3>2, MmioStep DEF Inv
    <3>3. CASE DevNext /\ UNCHANGED mmioVars
      BY <3>1, <3>3, CloseStep, OpenedStep, CallStep DEF Inv, DevNext
    <3>4. CASE (OtherOpens \/ OtherCloses) /\ UNCHANGED <<mmioVars, bus>>
      BY <3>1, <3>4, OtherStep DEF Inv
    <3> QED
      BY <2>2, <3>2, <3>3, <3>4 DEF Next
  <2> QED
    BY <2>1, <2>2
<1> QED
  BY <1>1, <1>2, PTL DEF Spec

\* No descriptor and no mapping leaks, is closed twice or is used after it was
\* given up, through failed constructors, moves, destructors and re-opens.
THEOREM Ownership == Spec => []Owned
<1>1. Inv => Owned
  <2> SUFFICES ASSUME Inv PROVE Owned
    OBVIOUS
  <2>1. ASSUME NEW fd \in Fds
        PROVE  /\ file[fd] # "none" <=> Holders(fd) # {}
               /\ One(Holders(fd))
    <3>1. file[fd] # "none" => Holders(fd) # {}
      <4>1. /\ \A o \in Objects : mmio[o].m_fd = fd => <<"mmio", o>> \in Holders(fd)
            /\ \A t \in Transports : bus[t].m_fd = fd => <<"bus", t>> \in Holders(fd)
            /\ fd \in held => <<"rest", fd>> \in Holders(fd)
        BY DEF Holders
      <4> QED
        BY <4>1 DEF Inv, FilesInv
    <3>2. Holders(fd) # {} => file[fd] # "none"
      BY HeldOpen, DeviceFacts DEF Holders
    <3>3. One(Holders(fd))
      BY DeviceFacts DEF Inv, FilesInv, Holders, One
    <3> QED
      BY <3>1, <3>2, <3>3
  <2>2. ASSUME NEW m \in Maps
        PROVE  /\ mapping[m] # Unmapped <=> MapHolders(m) # {}
               /\ One(MapHolders(m))
    BY MmioAssumption DEF Inv, MapsInv, MapHolders, One, Unmapped
  <2> QED
    BY <2>1, <2>2 DEF Owned
<1> QED
  BY <1>1, InvCorrect, PTL

\* get() is the address of the block on this board, inside the mapping.
THEOREM Blocks == Spec => []RightBlock
<1>1. Inv => RightBlock
  BY DEF Inv, MapsInv, RightBlock
<1> QED
  BY <1>1, InvCorrect, PTL

\* A call reaches the device that open() was last given.
THEOREM Reach == Spec => []RightDevice
<1>1. Inv => RightDevice
  BY DEF Inv, BusInv, RightDevice
<1> QED
  BY <1>1, InvCorrect, PTL
=============================================================================
