\* Any timing: a pattern is accounted for twice.
CONSTANTS
  Edefs = {0}
  ShiftMask <- NarrowMask
  Capacity = 3
  MinFill = 1
  NumChannels = 1
  NumInpBufs = 1
  Shapes <- ActiveOnly
  MaxPulse = 3
  StartTimes = {0}
  RebaseLimit = 0
SPECIFICATION Spec
INVARIANTS
  AcctOnce
