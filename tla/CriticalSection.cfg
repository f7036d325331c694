CONSTANTS
  t1 = t1
  t2 = t2
  t3 = t3
  t4 = t4
  Threads <- MCThreads
  Invalid = Invalid
  Nobody = Nobody
  MaxDepth = 2
SPECIFICATION SectionFairSpec
INVARIANTS
  InsideHoldsLock
  CountIsDepth
  AssertionsHold
PROPERTIES
  ImplementsReentrantMutex
  SectionIsPassedOn
