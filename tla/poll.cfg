SPECIFICATION FairSpec
CONSTANTS
  MaxXfers = 3
  Depth = 2
  TxLow = 1
  RxHigh = 2
  DlenMod = 8
  Lens = {1, 3}
  MaxSpins = 2
  Patient = TRUE
  MayWedge = TRUE
INVARIANT BusReleased
INVARIANT TimeoutMeansWedged
PROPERTY CallReturns
PROPERTY ImplementsSeam
CHECK_DEADLOCK FALSE
