CONSTANTS
  Assembler = {p1, p2}
  Candidate = {c1, c2}
  Nothing = Nothing
  Foreign = Foreign
  Free = Free
  MaxFaults = 2
  MaxLosses = 1
SYMMETRY Symmetry
SPECIFICATION OutputSpec
INVARIANTS
  PublishedIsWhole
  ReportedIsDurable
PROPERTIES
  NeverReplaced
CHECK_DEADLOCK FALSE
