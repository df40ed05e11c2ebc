CONSTANTS
  MaxFd <- MCMaxFd
  Batch <- MCBatch
  Commands <- MCCommandsAttached
SPECIFICATION FairSpec
CHECK_DEADLOCK FALSE
PROPERTY ExecuteReturns
