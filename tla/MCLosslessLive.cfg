\* Eight slots: burst_amount 2, so that publication and release lag behind.
\* The consumer polls forever.
CONSTANTS
  N = 8
  Values = {v1}
  Junk = Junk
  MaxPos = 5
SPECIFICATION FairSpec
PROPERTIES
  PublishedIsConsumed
  SpaceComesBack
