SPECIFICATION FairSpec
CONSTANTS
  Word = 2
  RingSize = 8
  Plans <- ZeroPlans
  MaxSends = 2
  HasSequence = TRUE
  GarbageSizes = {0, 3}
PROPERTIES EveryMessageReceived
CHECK_DEADLOCK FALSE
