---------------------------- MODULE I2cTransport ----------------------------
(***************************************************************************)
(* What the I2cTransport seam (inc/i2c_bus.hpp) promises to the sensor     *)
(* drivers above it: a transfer is opened, its bytes move while it is open *)
(* and never after, and it ends with a result.  Ok means that every byte   *)
(* asked for moved.  There is one bus, so one transfer is open at a time.  *)
(***************************************************************************)
EXTENDS Integers

CONSTANTS
  Xfers,  \* the transfers
  Sizes   \* the lengths a transfer may have

VARIABLES
  status,  \* per transfer: new, open, or its result
  size,    \* per transfer: the bytes asked for
  count    \* per transfer: the bytes moved

vars == <<status, size, count>>

I2cResult == {"Ok", "Nack", "ClockTimeout", "Timeout"}

Init ==
  /\ status = [x \in Xfers |-> "new"]
  /\ size = [x \in Xfers |-> 0]
  /\ count = [x \in Xfers |-> 0]

Begin(x, n) ==
  /\ status[x] = "new"
  /\ \A y \in Xfers : status[y] # "open"
  /\ status' = [status EXCEPT ![x] = "open"]
  /\ size' = [size EXCEPT ![x] = n]
  /\ UNCHANGED count

Move(x) ==
  /\ status[x] = "open" /\ count[x] < size[x]
  /\ count' = [count EXCEPT ![x] = @ + 1]
  /\ UNCHANGED <<status, size>>

Finish(x, result) ==
  /\ status[x] = "open"
  /\ result = "Ok" => count[x] = size[x]
  /\ status' = [status EXCEPT ![x] = result]
  /\ UNCHANGED <<size, count>>

Next == \E x \in Xfers :
  \/ \E n \in Sizes : Begin(x, n)
  \/ Move(x)
  \/ \E result \in I2cResult : Finish(x, result)

Spec == Init /\ [][Next]_vars
=============================================================================
