-------------------------------- MODULE Mmio --------------------------------
(***************************************************************************)
(* Register blocks mapped through /dev/mem or /dev/gpiomem                 *)
(* (inc/mmio.hpp): the base of the board, found once and kept; MMIO, which *)
(* owns a descriptor and a mapping and hands both on when it is moved; the *)
(* factories map_gpio() and the like.                                      *)
(*                                                                         *)
(* Every system call is a step.  Addresses are scaled down: the CONSTANTS  *)
(* give the size of a page and the layout of the boards.                   *)
(***************************************************************************)
EXTENDS Process

CONSTANTS
  Objects,        \* the places an MMIO object can be in
  Maps,           \* the places a mapping can be in
  Page,           \* _SC_PAGESIZE
  SocPeriphBase,  \* per board: its peripheral base
  Forced,         \* the boards whose base the program may force
  Offset, Size    \* per block: its offset from the base, its size

Boards == {"BCM2835", "BCM2836_7", "BCM2711"}

ASSUME MmioAssumption ==
  /\ {"/dev/mem", "/dev/gpiomem"} \subseteq Devices
  /\ Page \in Nat \ {0}
  /\ SocPeriphBase \in [Boards -> Nat \ {0}]
  /\ Forced \subseteq Boards
  /\ "GPIO" \in DOMAIN Offset /\ DOMAIN Size = DOMAIN Offset
  /\ \A block \in DOMAIN Offset : Offset[block] \in Nat /\ Size[block] \in Nat \ {0}
  /\ "MAP_FAILED" \notin Maps

VARIABLES
  board,    \* the board the process runs on
  base,     \* the static of periph_base(); 0 before its first call
  origin,   \* where base comes from (history)
  mapping,  \* per mapping: its file, first address and length
  mmio      \* per object: how far its life has come, its members, and the
            \* block it is for: device, address, length, and the address that
            \* the block has on this board (history)

mmioVars == <<board, base, origin, mapping, mmio>>

NoBlock  == [dev |-> "none", phys |-> 0, length |-> 0, true |-> 0]
Unmapped == [file |-> "none", page |-> 0, length |-> 0]
Empty    == [pc |-> "live", m_fd |-> NoFd, m_map |-> "MAP_FAILED",
             m_offset |-> 0, m_length |-> 0, block |-> NoBlock]
NoObject == [Empty EXCEPT !.pc = "none"]

-----------------------------------------------------------------------------
(* The peripheral base *)

\* /proc/device-tree/soc/ranges (external): the word with the base.
Slot   == IF board = "BCM2711" THEN 3 ELSE 2
Ranges == [w \in 2 .. 3 |-> IF w = Slot THEN SocPeriphBase[board]
                            ELSE IF w < Slot THEN 0 ELSE Page]

\* Mutant: the third word is not looked at.
detect_second_word(words) ==
  IF words >= 2 /\ Ranges[2] # 0 THEN Ranges[2] ELSE SocPeriphBase["BCM2836_7"]

\* words: how many could be read, none if the file did not open.
detect_periph_base(words) ==
  LET found == IF words < 2 THEN 0
               ELSE IF Ranges[2] = 0 /\ words >= 3 THEN Ranges[3] ELSE Ranges[2]
  IN  IF found # 0 THEN found ELSE SocPeriphBase["BCM2836_7"]

\* periph_base() for the first time.
DetectBase ==
  /\ base = 0
  /\ \E words \in 0 .. 4 :
       /\ base' = detect_periph_base(words)
       /\ origin' = IF words >= Slot THEN "tree" ELSE "fallback"
  /\ UNCHANGED <<processVars, board, mapping, mmio>>

\* periph_base(force_base)
ForceBase ==
  /\ \E forced \in Forced : base' = SocPeriphBase[forced]
  /\ origin' = "forced"
  /\ UNCHANGED <<processVars, board, mapping, mmio>>

-----------------------------------------------------------------------------
(* MMIO() and the factories.  The first step opens the device; if that     *)
(* fails, nothing has changed and the constructor throws.                  *)

OpenDevice(o, block) ==
  /\ mmio[o].pc = "none"
  /\ \E fd \in Fds :
       /\ Opens(block.dev, fd)
       /\ mmio' = [mmio EXCEPT ![o] =
            [Empty EXCEPT !.pc = "open", !.m_fd = fd, !.block = block]]
  /\ UNCHANGED <<held, board, base, origin, mapping>>

TrueBase == IF origin = "tree" THEN SocPeriphBase[board] ELSE base

\* map_gpio(), map_clock(), map_i2c(), map_spi()
MapBlock(o) ==
  /\ base # 0
  /\ \E b \in DOMAIN Offset :
       OpenDevice(o, [dev |-> "/dev/mem", phys |-> base + Offset[b],
                length |-> Size[b], true |-> TrueBase + Offset[b]])

map_gpiomem(o) ==
  OpenDevice(o, [dev |-> "/dev/gpiomem", phys |-> 0, length |-> Size["GPIO"], true |-> 0])

\* ::mmap() of the pages of the block.
Map(o) ==
  LET b == mmio[o].block  offset == b.phys % Page IN
  /\ mmio[o].pc = "open"
  /\ \E m \in Maps :
       /\ mapping[m] = Unmapped
       /\ mapping' = [mapping EXCEPT ![m] =
            [file |-> file[mmio[o].m_fd], page |-> b.phys - offset,
             length |-> offset + b.length]]
       /\ mmio' = [mmio EXCEPT ![o] =
            [@ EXCEPT !.pc = "live", !.m_map = m,
                      !.m_offset = offset, !.m_length = offset + b.length]]
  /\ UNCHANGED <<processVars, board, base, origin>>

\* Mutant: ::mmap() fails and the descriptor stays open.
MapFailsOpen(o) ==
  /\ mmio[o].pc = "open"
  /\ mmio' = [mmio EXCEPT ![o] = NoObject]
  /\ UNCHANGED <<processVars, board, base, origin, mapping>>

\* ::mmap() fails, the descriptor is closed, the constructor throws.
MapFails(o) ==
  /\ mmio[o].pc = "open"
  /\ Closes(mmio[o].m_fd)
  /\ mmio' = [mmio EXCEPT ![o] = NoObject]
  /\ UNCHANGED <<held, board, base, origin, mapping>>

-----------------------------------------------------------------------------
(* Moves and the destructor *)

\* MMIO(MMIO&&), operator=(MMIO&&): swap() with an empty, or with a live object.
Move(o, p) ==
  /\ mmio[p].pc = "live" /\ mmio[o].pc \in {"none", "live"}
  /\ mmio' = [mmio EXCEPT
       ![o] = mmio[p],
       ![p] = IF mmio[o].pc = "none" THEN Empty ELSE mmio[o]]
  /\ UNCHANGED <<processVars, board, base, origin, mapping>>

Pages(length) == (length + Page - 1) \div Page

\* ~MMIO(): ::munmap() of m_length bytes, if anything is mapped ...
Unmap(o) ==
  /\ mmio[o].pc = "live"
  /\ mapping' = [m \in Maps |->
       IF m = mmio[o].m_map /\ Pages(mapping[m].length) <= Pages(mmio[o].m_length)
       THEN Unmapped ELSE mapping[m]]
  /\ mmio' = [mmio EXCEPT ![o] =
       [@ EXCEPT !.pc = "unmapped", !.m_map = "MAP_FAILED"]]
  /\ UNCHANGED <<processVars, board, base, origin>>

\* ... and ::close(), if anything is open.
CloseDevice(o) ==
  /\ mmio[o].pc = "unmapped"
  /\ Closes(mmio[o].m_fd)
  /\ mmio' = [mmio EXCEPT ![o] = NoObject]
  /\ UNCHANGED <<held, board, base, origin, mapping>>

-----------------------------------------------------------------------------
MmioInit ==
  /\ board \in Boards
  /\ base = 0 /\ origin = "none"
  /\ mapping = [m \in Maps |-> Unmapped]
  /\ mmio = [o \in Objects |-> NoObject]

MmioNext ==
  \/ DetectBase \/ ForceBase
  \/ \E o \in Objects :
       \/ MapBlock(o) \/ map_gpiomem(o) \/ Map(o) \/ MapFails(o)
       \/ Unmap(o) \/ CloseDevice(o)
       \/ \E p \in Objects : Move(o, p)
=============================================================================
