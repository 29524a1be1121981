SPECIFICATION Spec
CONSTANTS
 Cap = 1
 ReceiveCap = 1
 MaxRead = 1
 MaxQueryExec = 1
 MaxLogs = 2
 MaxSettings = 2
 MaxFailures = 0
 MaxQueue = 0
INVARIANTS TypeOK  WrittenInOrder OneQueryAtATime
CHECK_DEADLOCK FALSE
