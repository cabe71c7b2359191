SPECIFICATION Spec
CONSTANTS
  Owner = {o1, o2}
  None = None
  Cmd = {c1, c2}
  MaxProc = 3
  MaxCommands = 3
  NickAttempts = 2
  MaxFaults = 0
SYMMETRY Symmetry
INVARIANTS GcSparesLiveOwners
CHECK_DEADLOCK FALSE
