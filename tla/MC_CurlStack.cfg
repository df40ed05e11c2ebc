CONSTANTS
  t1 = t1
  t2 = t2
  t3 = t3
  t4 = t4
  Transfers <- MCTransfers
  MaxActive <- MCMaxActive
  FirstResults <- MCFirstResultsSmall
  RetryResults <- MCRetryResultsSmall

SPECIFICATION FairSpec

INVARIANT TypeOK
INVARIANT AdmissionAccounting
INVARIANT AdmissionOrder
INVARIANT NoPendingCompletion
INVARIANT TimerArmedWhileBusy

PROPERTY NoCallbackAfterEnd
PROPERTY EveryTransferEnds
PROPERTY ImplementsRegistry
