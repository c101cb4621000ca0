SPECIFICATION FairSpec
CONSTANTS
  t1 = t1
  t2 = t2
  Apps = {t1, t2}
  Configs <- MCConfigs
  FreeSize = 1
  MaxEvents = 3
INVARIANTS TypeOK ListsWellFormed EventsInOrder
PROPERTIES SleeperWakes RequestsTaken
CHECK_DEADLOCK FALSE
