CONSTANTS
  Session = {"s1", "s2"}
  Routes <- MentionRoutes
  Kinds = {"mention", "channel", "legacy", "corrupt"}
  MaxLog = 2
  MaxBind = 2
  MaxFaults = 2
SPECIFICATION Spec
INVARIANTS TypeOK NoLoss PoisonHolds InOrder BoundedCopies ReuseIsTruthful
PROPERTIES CursorMonotone DispatchIsHead NoStartWhileFlagged Promise
