\* lossless_pair with two slots, four elements that own something, and three
\* more joins.
CONSTANTS
  producer = producer
  Consumers = {c1}
  MaxJoins = 3
  N = 2
  MaxElements = 4
SPECIFICATION ElementsSpec
CHECK_DEADLOCK FALSE
INVARIANTS
  NoUseAfterFree
  FreedExactlyOnce
  CountExact
  Custody
