SPECIFICATION FairSpec
CONSTANTS
  Channel = {lobby, feat}
  Nick = {peer}
  Waiter = {w1, w2, sup}
  None = None
  Abandoned = Abandoned
  NameLines = 1
  MaxDrops = 2
  Home = lobby
  Sup = sup
  MaxCommands = 1
PROPERTIES Recovers
CHECK_DEADLOCK FALSE
