SPECIFICATION FairSpec
CONSTANTS
 SendCap = 1
 WireCap = 1
 MaxTraffic = 0
 Talkers = {}
 MaxBreaks = 1
 MaxRedials = 1
PROPERTIES PhasesSpec IdWaitEnds HalfOpenDetected
CHECK_DEADLOCK FALSE
