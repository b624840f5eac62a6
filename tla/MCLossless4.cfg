\* Four slots, burst_amount 1, one and a half times around the ring.
CONSTANTS
  N = 4
  Values = {v1, v2}
  Junk = Junk
  MaxPos = 6
SYMMETRY ValueSymmetry
SPECIFICATION Spec
INVARIANTS
  IInv
  Fifo
  SpaceAccounting
  NoSlotRace
PROPERTIES
  PublishedStable
  ImplementsFifo
