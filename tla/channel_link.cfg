SPECIFICATION FairSpec
CONSTANTS
  SendCap = 4
  Cap = 1
  MaxFaults = 2
INVARIANTS
  OneController
PROPERTIES
  MainMoves
  Registered
  SilentEnds
CHECK_DEADLOCK FALSE
