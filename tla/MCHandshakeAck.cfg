\* A consumer announces that it has joined; the producer waits for it.
CONSTANTS
  Capacities = {1}
  MaxTail = 0
  MaxBeats = 1
SPECIFICATION FairSpec
PROPERTIES
  JoinIsNoticed
