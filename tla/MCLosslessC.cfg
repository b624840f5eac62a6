\* Two slots, two laps; iterators of up to two items; every change of language when an
\* endpoint restarts.
CONSTANTS
  N = 2
  Values = {v1, v2}
  Junk = Junk
  MaxPos = 4
  MaxItems = 2
SYMMETRY ValueSymmetry
SPECIFICATION CSpec
INVARIANTS
  CIInv
  WritesInOrder
PROPERTIES
  StopsWhenDone
