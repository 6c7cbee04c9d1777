SPECIFICATION Spec
CONSTANTS
  Fds = {3, 4}
  Devices <- MCDevices
  Objects = {o1, o2}
  Maps = {m1, m2}
  Page = 4
  SocPeriphBase <- MCSocPeriphBase
  Forced = {"BCM2711"}
  Offset <- MCOffset
  Size <- MCSize
  Transports = {t1, t2}
  Adapters = {"/dev/i2c-0", "/dev/i2c-1"}
  Lens = {5}
  LenMod = 4
SYMMETRY MCSymmetry
INVARIANT OkMeansMoved
