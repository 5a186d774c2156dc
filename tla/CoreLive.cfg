\* Two channels on one fairly scheduled input thread, timeouts in time.
CONSTANTS
  Edefs = {0}
  ShiftMask <- NarrowMask
  Capacity = 2
  MinFill = 0
  NumChannels = 2
  NumInpBufs = 1
  Shapes <- ActiveOnly
  MaxPulse = 3
  StartTimes = {0, 2}
  RebaseLimit = 3
SPECIFICATION LiveSpec
INVARIANTS
  NoRetireDeadlock
PROPERTIES
  
  CatchesUp
