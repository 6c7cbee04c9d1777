SPECIFICATION FairSpec
CONSTANTS
  Cores = {0, 1}
  GpuCore = 0
  Width = 2
  Devices = {0, 1}
  Owner <- MCOwner
INVARIANT NoStorm
INVARIANT CalledIsPending
INVARIANT AsRequested
PROPERTY LineServed
