\* Programs of both languages built for two capacities, one element published,
\* two beats a side; C stores in the order of the text.
CONSTANTS
  Capacities = {1, 2}
  MaxTail = 1
  MaxBeats = 2
  ProgramOrder = TRUE
SPECIFICATION MixedSpec
INVARIANTS
  MixedIInv
  HeaderComplete
  CapacityErrorIsTrue
  BeatsAddUp
PROPERTIES
  HeaderStable
  ImplementsHandshake
