SPECIFICATION FairSpec
CONSTANTS
  Caller = {c1, c2}
  Nobody = Nobody
  Account = {home, other}
  MaxServers = 3
  MaxCalls = 3
  MaxFaults = 2
INVARIANTS TypeOK OneServer
PROPERTIES RecordedKept ReportTrue LockIsFreed
CHECK_DEADLOCK FALSE
