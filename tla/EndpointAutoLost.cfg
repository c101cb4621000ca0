SPECIFICATION FairSpec
CONSTANTS
  Configs <- UnlockedAuto
PROPERTIES EveryPostCompletes
CHECK_DEADLOCK FALSE
