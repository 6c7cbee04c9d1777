SPECIFICATION RegSpec
CONSTANTS
  Pins = {8, 9, 41}
  Functions <- MCFunctions
  Words <- MCWords
  Pulls <- MCPulls
  Detectors = {"GPREN", "GPHEN"}
  Typed = {"CM_GP0CTL"}
  Generic = {"CM_GP1CTL"}
  Divisors = {"CM_GP1DIV"}
  Values <- MCValues
  Slaves <- MCSlaves
  Modes <- MCModes
  Bytes = {1, 2}
  Dividers = {256, 65538}
  Depth = 2
INVARIANT FunctionKept
INVARIANT PadsApart
INVARIANT FieldKept
INVARIANT ReplyOwn
