\* As InputBuffers.cfg, for what the comment at checkMinFilled says.
CONSTANTS
  MaxPool = 2
  DefaultPool = 1
  IbufSize = 2
  MaxChannels = 2
  MaxStamp = 2
  MaxStore = 2
SPECIFICATION Spec
INVARIANTS
  HeldUntilPattern
CHECK_DEADLOCK FALSE
