SPECIFICATION FairSpec
CONSTANTS
  LastCore = 2
  EarlyTick = FALSE
INVARIANT LinesWhole
INVARIANT InterruptReady
INVARIANT NoLostWakeup
PROPERTY LockNeedsMmu
PROPERTY WaiterWakes
PROPERTY TicksGoOn
