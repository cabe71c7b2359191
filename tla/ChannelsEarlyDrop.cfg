SPECIFICATION FairSpec
CONSTANTS
  Channel = {lobby, feat}
  Nick = {peer}
  Waiter = {w1, w2, sup}
  None = None
  Abandoned = Abandoned
  NameLines = 2
  MaxDrops = 1
  Home = lobby
  Sup = sup
  MaxCommands = 0
PROPERTIES RecoversAlways
CHECK_DEADLOCK FALSE
