CONSTANTS
  a = a
  b = b
  c = c
  v1 = v1
  v2 = v2
  None = None
  Threads <- MCThreads
  Values = {v1}
  Size = 2
  MaxTokens = 2
  Calls <- MCBlockingCalls
SPECIFICATION FairSpec
INVARIANTS
  NoItemStranded
PROPERTIES
  WaitersAreServed
\* Threads that all wait for an item, or all for a slot, really stop.
CHECK_DEADLOCK FALSE
