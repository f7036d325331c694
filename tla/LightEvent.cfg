CONSTANTS
  t1 = t1
  t2 = t2
  t3 = t3
  t4 = t4
  NoThread = NoThread
  Threads <- MCThreads
SPECIFICATION FairSpec
INVARIANTS
  NoLostSignal
PROPERTIES
  WaitReturnsOnASignal
  SleepersAreWoken
\* Every thread may be asleep in Wait with nobody left to signal.
CHECK_DEADLOCK FALSE
