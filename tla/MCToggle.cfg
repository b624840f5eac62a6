\* Two slots; sessions of up to three elements, one and a half laps; a producer
\* that pushes without waiting for a consumer to join.
CONSTANTS
  N = 2
  Values = {v1, v2}
  Junk = Junk
  MaxPos = 7
  MaxSession = 3
  Width = 5
  WaitForConsumer = FALSE
SYMMETRY ValueSymmetry
SPECIFICATION ToggleSpec
INVARIANTS
  Fifo
