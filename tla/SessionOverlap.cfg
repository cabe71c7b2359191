SPECIFICATION Spec
CONSTANTS
  Owner = {o1, o2}
  None = None
  Cmd = {c1, c2}
  MaxProc = 3
  MaxCommands = 2
  NickAttempts = 1
  MaxFaults = 0
SYMMETRY Symmetry
INVARIANTS TypeOK OneServer 
PROPERTIES StartIsMine LiveOwnerKept
CHECK_DEADLOCK FALSE
