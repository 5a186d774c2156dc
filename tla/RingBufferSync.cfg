\* Three producers; the counters wrap around.
CONSTANTS
  Capacity = 4
  IdxMod = 8
  Producers = {p1, p2, p3}
  MinFill = 1
  MaxPush = 9
SPECIFICATION LiveSpec
INVARIANTS
  TypeOK
  PopFinds
  ConsumerWakes
  ProducersWake
PROPERTIES
  QueueSpec
  Serves
