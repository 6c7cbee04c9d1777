SPECIFICATION FairBoard
CONSTANTS
  MaxXfers = 2
  Depth = 2
  TxLow = 1
  RxHigh = 2
  DlenMod = 8
  Lens = {3}
  MaxWaits = 1
  OneCore = TRUE
  SharedLine = FALSE
  Disciplined = TRUE
  Patient = TRUE
  MayWedge = TRUE
  Width = 2
  kBsc1Irq = 3
INVARIANT Heard
PROPERTY ImplementsTransport
PROPERTY ImplementsDispatch
PROPERTY AsyncServed
PROPERTY ThreadNotStarved
CHECK_DEADLOCK FALSE
