\* A machine on which the second load of the tail may pass the slot read.
CONSTANTS
  N = 4
  Interval = 1
  Values = {v1, v2}
  Junk = Junk
  Ordered = FALSE
  StoresOrdered = TRUE
  MaxPos = 6
SPECIFICATION Spec
INVARIANTS
  PopsPushed
