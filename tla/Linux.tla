------------------------------- MODULE Linux -------------------------------
(***************************************************************************)
(* The two Linux back ends in one process: mapped register blocks (Mmio)   *)
(* and i2c-dev transports (I2cDev) beside whatever else the process has    *)
(* open.  They meet in the descriptors: the one that a failed constructor, *)
(* a destructor or open() gives up is the next that anybody gets.          *)
(***************************************************************************)
EXTENDS Mmio, I2cDev

vars == <<processVars, mmioVars, bus>>

Init == ProcessInit /\ MmioInit /\ DevInit

Next ==
  \/ MmioNext /\ UNCHANGED bus
  \/ DevNext /\ UNCHANGED mmioVars
  \/ (OtherOpens \/ OtherCloses) /\ UNCHANGED <<mmioVars, bus>>

Spec == Init /\ [][Next]_vars

-----------------------------------------------------------------------------
(* Properties *)

Mapping == [file : Devices \cup {"none", "other"}, page : Int, length : Nat]
Block   == [dev : Devices \cup {"none"}, phys : Nat, length : Nat, true : Nat]
Object  == [pc : {"none", "open", "live", "unmapped"}, m_fd : Fds \cup {NoFd},
            m_map : Maps \cup {"MAP_FAILED"}, m_offset : Nat, m_length : Nat,
            block : Block]
Transport == [pc : {"idle", "open", "ioctl"}, m_fd : Fds \cup {NoFd},
              dev : Devices \cup {"none"}, to : Devices \cup {"none", "other"},
              ends : SUBSET Nat, want : Nat, moved : Nat,
              result : {"none", "Ok", "Nack", "Timeout"}]

TypeOK ==
  /\ file \in [Fds -> Devices \cup {"none", "other"}] /\ held \subseteq Fds
  /\ board \in Boards /\ base \in Nat
  /\ origin \in {"none", "tree", "fallback", "forced"}
  /\ mapping \in [Maps -> Mapping] /\ mmio \in [Objects -> Object]
  /\ bus \in [Transports -> Transport]

Holders(fd) ==
  {<<"mmio", o>> : o \in {o \in Objects : mmio[o].m_fd = fd}} \cup
  {<<"bus", t>> : t \in {t \in Transports : bus[t].m_fd = fd}} \cup
  {<<"rest", f>> : f \in held \cap {fd}}

MapHolders(m) == {o \in Objects : mmio[o].m_map = m}

One(S) == \A x, y \in S : x = y

\* Through every failed constructor, move, destructor and re-open, an open
\* descriptor has one holder, who will close it, and a closed one has none, who
\* could use or close what somebody else has opened meanwhile; so has a mapping.
Owned ==
  /\ \A fd \in Fds : /\ file[fd] # "none" <=> Holders(fd) # {}
                     /\ One(Holders(fd))
  /\ \A m \in Maps : /\ mapping[m] # Unmapped <=> MapHolders(m) # {}
                     /\ One(MapHolders(m))

\* get() of a mapped object is the address of its block on this board, all of
\* it inside the mapping, whatever was moved where; the base is that of the
\* board unless the device tree could not be read or a base was forced.
RightBlock == \A o \in Objects : mmio[o].m_map # "MAP_FAILED" =>
  LET r == mmio[o]  m == mapping[r.m_map] IN
  /\ m.file = r.block.dev
  /\ m.page + r.m_offset = r.block.true
  /\ r.m_offset + r.block.length <= m.length

\* A call reaches the device that open() was last given, no earlier one and no
\* other file of the process; when that open() failed, it reaches none.
RightDevice == \A t \in Transports :
  bus[t].pc = "ioctl" => bus[t].to = bus[t].dev

\* inc/i2c_bus.hpp: Ok is "Transfer completed", and write() is to "Write `len`
\* bytes".  xfer() has the length cut to 16 bits, and reports Ok for any number of
\* messages that the adapter carried out.
OkMeansMoved == \A t \in Transports :
  bus[t].result = "Ok" => bus[t].moved = bus[t].want
=============================================================================
