SPECIFICATION FairSpec
CONSTANTS
  Word = 2
  RingSize = 8
  Plans <- StalePlans
  MaxSends = 2
  HasSequence = TRUE
  GarbageSizes = {0, 3}
INVARIANTS ReaderSeesWholeMessages
CHECK_DEADLOCK FALSE
