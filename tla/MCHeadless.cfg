\* Four slots, burst_amount 1, shared out to two consumers that poll forever, one
\* lap and a quarter of the ring.
CONSTANTS
  N = 4
  Interval = 2
  Values = {v1, v2}
  Junk = Junk
  Ordered = TRUE
  StoresOrdered = TRUE
  MaxPos = 5
SPECIFICATION FairSpec
INVARIANTS
  IInv
  WindowUntouched
PROPERTIES
  NoDuplicate
  SkipsOnlyOverrun
  PopIsBounded
  ImplementsLog
  EveryPositionIsPassed
