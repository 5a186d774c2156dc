\* Two sinks, one edef; the blocks are reused.
CONSTANTS
  Edefs = {0}
  ShiftMask <- NarrowMask
  Sinks = {s1, s2}
  Capacity = 2
  ResultsMax = 2
  MaxProduce = 3
  MaxConnect = 2
  MaxBlks = 4
SPECIFICATION LiveSpec
INVARIANTS
  TypeOK
  BlocksExact
  CountExact
  WithinLimit
PROPERTY
  Settles
CHECK_DEADLOCK FALSE
