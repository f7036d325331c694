CONSTANTS
  l1 = l1
  l2 = l2
  Lists = {l1, l2}
  NoList = NoList
  MaxRequests <- MCMaxRequests
  NumSpeculative = 2
  CMDREQ_QUEUE_LENGTH = 4
  QUEUE_LENGTH = 3
  QUEUE_HIGH_WATERMARK = 1
SPECIFICATION FairSpec
INVARIANTS
  TypeOK
  InFlightIsExact
  RunningIsExact
PROPERTIES
  StopIsObeyed
  WaitReturns
  FinalizeReturns
  VSyncReturns
\* After Finalize nothing is left to do, and a Finalize while a list runs
\* never returns.
CHECK_DEADLOCK FALSE
