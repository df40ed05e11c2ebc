CONSTANTS
  MaxFd <- MCMaxFd
  Batch <- MCBatch
  Commands <- MCCommandsNoCapturedCallback
SPECIFICATION FairSpec
\* Captured commands that call back are left out: they deadlock the client
\* (runs exec_capture_deadlock and exec_emfile_deadlock).  With the other
\* six, outside execute() the main loop can always poll, so every stop is one inside
\* execute() and is reported as a violation of ExecuteReturns.
CHECK_DEADLOCK FALSE
INVARIANT TypeOK
INVARIANT LockHeldByMainCode
PROPERTY ExecuteReturns
INVARIANT CommandInheritsOnlyStdio
