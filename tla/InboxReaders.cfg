SPECIFICATION FairSpec
CONSTANTS
  Invoker = {i1, i2}
  NoInvoker = NoInvoker
  Poll = {p1, p2}
  MaxMessages = 2
  MaxPolls = 3
  MaxWatches = 2
INVARIANTS TypeOK NothingSkipped GapCovered
PROPERTIES WatchEmits
CHECK_DEADLOCK FALSE
