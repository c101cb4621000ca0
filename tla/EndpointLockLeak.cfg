SPECIFICATION FairSpec
CONSTANTS
  Configs <- LockedManual
PROPERTIES PostReturns
CHECK_DEADLOCK FALSE
