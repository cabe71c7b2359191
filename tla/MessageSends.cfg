SPECIFICATION Spec
CONSTANTS
  Texts <- ShortTexts
  Limit = 3
  Sends = {1, 2}
  MaxFaults = 2
INVARIANTS ReceivedInOrder TextsAreWhole
CHECK_DEADLOCK FALSE
