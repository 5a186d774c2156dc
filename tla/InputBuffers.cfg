\* Up to two threads, two channels that may share one.
CONSTANTS
  MaxPool = 2
  DefaultPool = 1
  IbufSize = 2
  MaxChannels = 2
  MaxStamp = 2
  MaxStore = 2
SPECIFICATION LiveSpec
INVARIANTS
  TypeOK
  Prepared
  ItemWakes
  Accounted
  ItemInTime
PROPERTIES
  Served
