CONSTANTS
  Ids = {m1, m2, m3}
  MaxNum = 2
  MaxFaults = 0
SPECIFICATION Spec
INVARIANTS
  OutBoxIndexFits
SYMMETRY MCSymmetry
