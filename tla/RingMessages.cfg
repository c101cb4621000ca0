SPECIFICATION FairSpec
CONSTANTS
  Word = 2
  RingSize = 8
  Plans <- MCPlans
  MaxSends = 5
  HasSequence = TRUE
  GarbageSizes = {0, 3}
INVARIANTS TypeOK StoresHitClearedBytes ReaderSeesWholeMessages OffsetsAgree
PROPERTIES ImplementsChannel EveryMessageReceived
CHECK_DEADLOCK FALSE
