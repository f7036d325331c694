CONSTANTS
  Ids = {m1, m2}
  MaxNum = 2
  MaxFaults = 1
SPECIFICATION Spec
INVARIANTS
  CacheIsFresh
  InfoIsCommitted
  IndexIsKept
SYMMETRY MCSymmetry
