------------------------------- MODULE I2cDev -------------------------------
(***************************************************************************)
(* I2cDevTransport (inc/i2c_dev.hpp): the I2C transport over a device node *)
(* of the kernel.  open() closes what was open, then opens the node; a     *)
(* call is one ioctl(I2C_RDWR) with one message, or two for write_read().  *)
(* A call with invalid arguments, or without a descriptor, returns at once *)
(* (BadArg, Timeout) and is no action.                                     *)
(*                                                                         *)
(* The adapter is external: it serves one ioctl at a time, moves the bytes *)
(* of the messages one after the other and answers how many messages it    *)
(* carried out, or an error.                                               *)
(***************************************************************************)
EXTENDS Process, Sequences

CONSTANTS
  Transports,  \* the I2cDevTransport objects
  Adapters,    \* the nodes /dev/i2c-N
  Lens,        \* the lengths callers pass
  LenMod       \* 2^16, the range of i2c_msg.len

ASSUME I2cDevAssumption ==
  /\ Adapters \subseteq Devices
  /\ Lens \subseteq Nat \ {0}
  /\ LenMod \in Nat \ {0}

\* Per transport: where its call is; m_fd; the node that open() was last given
\* (history); the file that the ioctl goes to; how many bytes were moved at the end
\* of each message; of the last call the bytes asked for and moved (history) and
\* the result.
VARIABLE bus

Closed == [pc |-> "idle", m_fd |-> NoFd, dev |-> "none", to |-> "none", ends |-> {},
           want |-> 0, moved |-> 0, result |-> "none"]

-----------------------------------------------------------------------------
(* open() and close() *)

close(t) ==
  /\ bus[t].pc = "idle"
  /\ Closes(bus[t].m_fd)
  /\ bus' = [bus EXCEPT ![t] = Closed]
  /\ UNCHANGED held

\* Mutant: the old device stays open until the new one is.
OpenKeepsOld(t) ==
  /\ bus[t].pc = "idle"
  /\ \E dev \in Adapters :
       bus' = [bus EXCEPT ![t] = [@ EXCEPT !.pc = "open", !.dev = dev]]
  /\ UNCHANGED processVars

open(t) ==
  /\ bus[t].pc = "idle"
  /\ Closes(bus[t].m_fd)
  /\ \E dev \in Adapters :
       bus' = [bus EXCEPT ![t] = [Closed EXCEPT !.pc = "open", !.dev = dev]]
  /\ UNCHANGED held

\* The device is opened, or not.
Opened(t) ==
  /\ bus[t].pc = "open"
  /\ \/ \E fd \in Fds :
          /\ Opens(bus[t].dev, fd)
          /\ bus' = [bus EXCEPT ![t] = [@ EXCEPT !.pc = "idle", !.m_fd = fd]]
     \/ bus' = [bus EXCEPT ![t] = [@ EXCEPT !.pc = "idle"]] /\ UNCHANGED file
  /\ UNCHANGED held

-----------------------------------------------------------------------------
(* write(), read(), write_read() *)

\* The lengths of the buffers of a call: two for write_read().
Calls == {<<n>> : n \in Lens} \cup {<<n, m>> : n, m \in Lens}

\* The ends of the messages of a call, whose lengths are cut to i2c_msg.len.
Ends(lens) ==
  LET first == lens[1] % LenMod IN
  {first} \cup (IF Len(lens) = 1 THEN {} ELSE {first + (lens[2] % LenMod)})

Asked(lens) == IF Len(lens) = 1 THEN lens[1] ELSE lens[1] + lens[2]

\* ioctl(): the adapter behind the descriptor gets to it.
Ioctl(t, lens) ==
  LET to == file[bus[t].m_fd] IN
  /\ bus[t].pc = "idle" /\ bus[t].m_fd # NoFd
  /\ \A u \in Transports : bus[u].to # to
  /\ bus' = [bus EXCEPT ![t] =
       [@ EXCEPT !.pc = "ioctl", !.to = to, !.ends = Ends(lens),
                 !.want = Asked(lens), !.moved = 0, !.result = "none"]]
  /\ UNCHANGED processVars

\* A byte reaches the slave or the buffer (external).
Transfer(t) ==
  /\ bus[t].pc = "ioctl" /\ \E n \in bus[t].ends : bus[t].moved < n
  /\ bus' = [bus EXCEPT ![t].moved = @ + 1]
  /\ UNCHANGED processVars

\* ioctl() returns: after a message, of which xfer() does not ask whether it was
\* the last; or with an error at any time, which the errno makes Nack or Timeout.
Return(t) ==
  /\ bus[t].pc = "ioctl"
  /\ \E result \in {"Ok", "Nack", "Timeout"} :
       /\ result = "Ok" => bus[t].moved \in bus[t].ends
       /\ bus' = [bus EXCEPT ![t] = [@ EXCEPT !.pc = "idle", !.to = "none",
                                       !.ends = {}, !.result = result]]
  /\ UNCHANGED processVars

-----------------------------------------------------------------------------
DevInit == bus = [t \in Transports |-> Closed]

DevNext == \E t \in Transports :
  \/ open(t) \/ Opened(t) \/ close(t)
  \/ \E lens \in Calls : Ioctl(t, lens)
  \/ Transfer(t) \/ Return(t)
=============================================================================
