------------------------------ MODULE Process ------------------------------
(***************************************************************************)
(* The descriptors of a Linux process: what MMIO (inc/mmio.hpp) and        *)
(* I2cDevTransport (inc/i2c_dev.hpp) share, with each other and with the   *)
(* rest of the process, which opens and closes files of its own at any     *)
(* time.  The kernel is external: open() takes the lowest free descriptor, *)
(* so a closed one soon means another file.                                *)
(***************************************************************************)
EXTENDS Integers

CONSTANTS
  Fds,     \* the descriptors the process may have
  Devices  \* the device nodes

ASSUME ProcessAssumption ==
  /\ Fds \subseteq Nat
  /\ Devices \cap {"none", "other"} = {}

VARIABLES
  file,  \* per descriptor: the file it is open on, or "none"
  held   \* the descriptors of the rest of the process

processVars == <<file, held>>

NoFd == -1

\* ::open() succeeds.
Opens(path, fd) ==
  /\ file[fd] = "none"
  /\ \A lower \in Fds : lower < fd => file[lower] # "none"
  /\ file' = [file EXCEPT ![fd] = path]

\* if (fd >= 0) ::close(fd)
Closes(fd) ==
  file' = [f \in Fds |-> IF f = fd THEN "none" ELSE file[f]]

OtherOpens ==
  \E fd \in Fds : Opens("other", fd) /\ held' = held \cup {fd}

OtherCloses ==
  \E fd \in held : Closes(fd) /\ held' = held \ {fd}

ProcessInit == file = [fd \in Fds |-> "none"] /\ held = {}
=============================================================================
