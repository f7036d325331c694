CONSTANTS
  t1 = t1
  t2 = t2
  t3 = t3
  t4 = t4
  Threads <- MCThreads
  InitialCount = 1
  MaxCount = 3
  ReleaseCounts <- MCReleaseCounts
SPECIFICATION FairSpec
INVARIANTS
  TypeOK
  NumWaitingIsExact
  NoPermitStranded
PROPERTY
  SleepersWakeOrPermitsRunOut
\* Every thread may be asleep in Acquire with no permit left: the system really stops.
CHECK_DEADLOCK FALSE
