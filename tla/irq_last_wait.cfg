SPECIFICATION Spec
CONSTANTS
  MaxXfers = 1
  Depth = 2
  TxLow = 1
  RxHigh = 2
  DlenMod = 8
  Lens = {1, 3}
  MaxWaits = 2
  OneCore = TRUE
  SharedLine = FALSE
  Disciplined = TRUE
  Patient = TRUE
  MayWedge = TRUE
PROPERTY TimeoutHonest
CHECK_DEADLOCK FALSE
