--------------------------- MODULE MCIrqDispatch ---------------------------
(***************************************************************************)
(* IrqDispatch for TLC: the driver of the first device runs on core 0,     *)
(* that of the second on core 1; their lines share a bank.                 *)
(***************************************************************************)
EXTENDS IrqDispatch

MCOwner == [n \in Devices |-> IF n = 0 THEN 0 ELSE 1]
=============================================================================
