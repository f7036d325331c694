CONSTANTS
  NUM = 4
  Words = 2
  Lengths = {0, 1, 2, 4}
  MaxEntries = 10
SPECIFICATION Spec
INVARIANTS
  ReadsAreConsistent
  ReadsContinue
  AssertionsHold
