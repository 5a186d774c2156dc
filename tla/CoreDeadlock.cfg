\* Any timing, two channels on one input thread: the core thread and the input thread wait for each other.
CONSTANTS
  Edefs = {0}
  ShiftMask <- NarrowMask
  Capacity = 3
  MinFill = 1
  NumChannels = 2
  NumInpBufs = 1
  Shapes <- ActiveOnly
  MaxPulse = 3
  StartTimes = {0}
  RebaseLimit = 0
SPECIFICATION Spec
INVARIANTS
  NoRetireDeadlock
CHECK_DEADLOCK FALSE
