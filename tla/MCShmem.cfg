\* Programs built for one of two capacities, whose segments differ in size.
CONSTANTS
  STANDARD = 128
  HUGE = 256
  GIGANTIC = 512
  ALIGN = 16
  HEADER = 80
  ELEMENT = 64
  Producers = {p1}
  Consumers = {c1}
  Capacities = {1, 4}
  MaxFaults = 2
  MaxCleanups = 2
CHECK_DEADLOCK FALSE
SPECIFICATION FairSpec
INVARIANTS
  Backed
  CapacityAgreed
PROPERTIES
  Meet
