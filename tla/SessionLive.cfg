SPECIFICATION FairSpec
CONSTANTS
  Owner = {o1, o2}
  None = None
  Cmd = {c1}
  MaxProc = 2
  MaxCommands = 2
  NickAttempts = 2
  MaxFaults = 1
INVARIANTS NoOrphan
PROPERTIES NoneOutlivesOwners
CHECK_DEADLOCK FALSE
