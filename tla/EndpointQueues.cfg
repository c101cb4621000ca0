SPECIFICATION FairSpec
CONSTANTS
  Configs <- MCConfigs
INVARIANTS TypeOK CompletionsInOrder EveryPostAccounted
PROPERTIES PolledPostsComplete WaitingReaderWakes
CHECK_DEADLOCK FALSE
