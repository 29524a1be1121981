SPECIFICATION FairSpec
CONSTANTS
 Ids = {1, 2}
 Versions = {"v1"}
 MaxSettings = 2
 MaxExits = 1
 MaxFailures = 1
 MaxStarts = 5
INVARIANTS EntriesMatchProcesses NoPanic
PROPERTIES WantedRuns UnwantedEnds DeadNotReportedOk
CHECK_DEADLOCK FALSE
