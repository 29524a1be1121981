SPECIFICATION FairSpec
CONSTANTS
 SendCap = 1
 MaxConns = 2
 MaxPackets = 3
 MaxTimeouts = 1
 Silent = {2}
INVARIANTS OneConnectionServed ReconnectsOwed WrittenInOrder
PROPERTY BreakHandled
CHECK_DEADLOCK FALSE
