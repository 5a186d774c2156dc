\* An edef whose bit 1<<edef is wrong.
CONSTANTS
  Edefs = {0, 32}
  ShiftMask <- WideMask
  Capacity = 3
  MinFill = 1
  NumChannels = 1
  NumInpBufs = 1
  Shapes <- WithWide
  MaxPulse = 3
  StartTimes = {0}
  RebaseLimit = 0
SPECIFICATION TimelySpec
INVARIANTS
  ItemFindsPattern
CHECK_DEADLOCK FALSE
