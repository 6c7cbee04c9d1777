SPECIFICATION FairSpec
CONSTANTS
  MaxXfers = 2
  Depth = 2
  TxLow = 1
  RxHigh = 2
  DlenMod = 8
  Lens = {1, 3}
  MaxWaits = 2
  OneCore = TRUE
  SharedLine = FALSE
  Disciplined = TRUE
  Patient = TRUE
  MayWedge = TRUE
INVARIANT NoLostInterrupt
INVARIANT NoneForgotten
INVARIANT CallbackOnce
INVARIANT InterruptsQuiet
PROPERTY BufferOwned
PROPERTY ImplementsSeam
PROPERTY SyncReturns
PROPERTY AsyncCompletes
CHECK_DEADLOCK FALSE
