\* Two channels on two input threads, two edefs, timeouts in time.
CONSTANTS
  Edefs = {0, 1}
  ShiftMask <- NarrowMask
  Capacity = 2
  MinFill = 0
  NumChannels = 2
  NumInpBufs = 2
  Shapes <- TwoEdefs
  MaxPulse = 2
  StartTimes = {0}
  RebaseLimit = 0
SPECIFICATION TimelySpec
INVARIANTS
  LockDiscipline
PROPERTIES
  ExactAccount
  DeferredFrozen
