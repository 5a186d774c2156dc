\* Two severities, of which some pulses reject the worse; buffers of two.
CONSTANTS
  ResultsMax = 2
  Severities = {0, 1}
  Invalid = 2
  Shapes <- Flags
  Garbage <- Memory
  MaxPulse = 4
SPECIFICATION Spec
INVARIANTS
  TypeOK
  AllAverages
  InPlace
  DirtyMarks
CHECK_DEADLOCK FALSE
