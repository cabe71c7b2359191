SPECIFICATION Spec
CONSTANTS
  MaxLinks = 5
  MaxReplaced = 2
  MaxWatches = 2
INVARIANTS TypeOK
PROPERTIES LinkLossAnnounced
CHECK_DEADLOCK FALSE
