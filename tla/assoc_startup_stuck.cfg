SPECIFICATION FairSpec
CONSTANTS
 SendCap = 2
 WireCap = 1
 MaxTraffic = 0
 Talkers = {}
 MaxBreaks = 0
 MaxRedials = 1
PROPERTY AssPendingEnds
CHECK_DEADLOCK FALSE
