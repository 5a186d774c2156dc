\* One channel, two edefs, a pattern more than the buffer holds, any timing.
CONSTANTS
  Edefs = {0, 1}
  ShiftMask <- NarrowMask
  Capacity = 2
  MinFill = 0
  NumChannels = 1
  NumInpBufs = 1
  Shapes <- Mixed
  MaxPulse = 3
  StartTimes = {0, 2}
  RebaseLimit = 0
SPECIFICATION Spec
INVARIANTS
  TypeOK
  RefsExact
  AtLeastOnce
  SlotUpToDate
  InOrder
  ItemFindsPattern
  NoDangling
PROPERTIES
  SlotForward
