SPECIFICATION FairSpec
CONSTANTS
  a1 = a1
  a2 = a2
  c1 = c1
  c2 = c2
  Apps = {a1, a2}
  Callbacks = {c1, c2}
  Configs <- MCConfigs
  Counts = {1, 2}
  Thresholds = {1, 3}
  FreeSize = 1
  IntMax = 1
  MaxCompletions = 2
  MaxSignals = 2
INVARIANTS TypeOK DeliveredInOrder  SpinnerNotStranded
PROPERTIES WaitResultIsTrue SleeperWakes
CHECK_DEADLOCK FALSE
