CONSTANTS
  th1 = th1
  th2 = th2
  execute = execute
  view = view
  missing = missing
  Threads <- MCThreads
  Commands <- MCCommands
  Untrusted <- MCUntrusted
  MaxCalls = 2
SPECIFICATION Spec
SYMMETRY MCSymmetry
INVARIANT TrustRestoredAfterDispatch
