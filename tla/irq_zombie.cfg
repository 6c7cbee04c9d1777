SPECIFICATION Spec
CONSTANTS
  MaxXfers = 2
  Depth = 2
  TxLow = 1
  RxHigh = 2
  DlenMod = 8
  Lens = {1, 3}
  MaxWaits = 2
  OneCore = TRUE
  SharedLine = FALSE
  Disciplined = TRUE
  Patient = FALSE
  MayWedge = FALSE
INVARIANT OkMeansMoved
CHECK_DEADLOCK FALSE
