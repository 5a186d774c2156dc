\* A ring of four: positions are cut to the width of the ring, counters of the
\* ring are twice as wide; nine time stamps let both wrap around.
CONSTANTS
  Edefs = {0, 1}
  ShiftMask <- NarrowMask
  Capacity = 4
  IdxMod = 8
  PatMod = 4
  MinFill = 1
  Shapes <- Masks
  MaxTs = 9
  MaxRefs = 2
SPECIFICATION Spec
INVARIANTS
  TypeOK
  LookupsAgree
  NoOverwrite
  ActiveExact
CHECK_DEADLOCK FALSE
