SPECIFICATION FramingSpec
CONSTANTS
  LengthValues = 32
  Bodies = {0, 1, 20, 21, 27, 34}
  ReadSize = 48
  MaxPackets = 3
INVARIANTS
  AlignedHanded
  DamageExplained
CHECK_DEADLOCK FALSE
