CONSTANTS
  MaxFd <- MCMaxFd
  Batch <- MCBatch
  Commands <- MCCommandsAll
SPECIFICATION Spec
CHECK_DEADLOCK FALSE
INVARIANT NoPipeLeak
