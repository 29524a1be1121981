SPECIFICATION FairSpec
CONSTANTS
  MaxVersion = 2
  MaxPosts = 1
  MaxFaults = 1
  WithDocker = TRUE
  MaxServers = 2
  LogCap = 1
  QueueCap = 2
  MaxSendCount = 2
  MaxLogs = 4
  MaxRedisSetts = 2
  Cap = 1

  
  
PROPERTIES
  Settled
CHECK_DEADLOCK FALSE
