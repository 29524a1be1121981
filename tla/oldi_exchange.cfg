SPECIFICATION FairSpec
CONSTANTS
 Providers = {p1}
 Cap = 1
 MaxMsgToSend = 1
 MaxUp = 3
 Calls = {c1, c2}
 MaxLocated = 2
INVARIANTS TypeOK UpAccounted DownAccounted
PROPERTIES PathsSpec UpReachesQueue DownReachesChannel SilentProviderReported
CHECK_DEADLOCK FALSE
