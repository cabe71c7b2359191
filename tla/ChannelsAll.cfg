SPECIFICATION Spec
CONSTANTS
  Channel = {lobby, feat}
  Nick = {peer}
  Waiter = {w1, w2, sup}
  None = None
  Abandoned = Abandoned
  NameLines = 2
  MaxDrops = 1
  Home = lobby
  Sup = sup
  MaxCommands = 2
INVARIANTS TypeOK JoinConfirmed NamesWhole  StatusIsMembership HomeHeld
PROPERTIES RejectionMine
SYMMETRY Symmetry
CHECK_DEADLOCK FALSE
