CONSTANTS
  MaxFd <- MCMaxFd
  Batch <- MCBatch
  Commands <- MCCommandsDetached
SPECIFICATION FairSpec
\* A captured background command that calls back over RPC: it deadlocks the
\* client when close_all_fds closes nothing, and the stop is reported by
\* ExecuteReturns.
CHECK_DEADLOCK FALSE
PROPERTY ExecuteReturns
