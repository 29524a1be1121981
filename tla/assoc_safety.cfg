SPECIFICATION Spec
CONSTANTS
 SendCap = 1
 WireCap = 1
 MaxTraffic = 2
 Talkers = {"client"}
 MaxBreaks = 1
 MaxRedials = 1
INVARIANTS TypeOK MutualRecognition WaitsAreTimed 
CHECK_DEADLOCK FALSE
