CONSTANTS
  Session = {"s1"}
  Routes <- MentionRoutes
  Kinds = {"mention", "corrupt"}
  MaxLog = 2
  MaxBind = 2
  MaxFaults = 1
SPECIFICATION FairSpec
PROPERTIES PendingIsDelivered FailureIsVisible
