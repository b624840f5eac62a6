\* The capacity of the programs, room for the run before and for this one.
\* A header of five lines of 16 bytes, pages of 8, 16 and 32 lines.
CONSTANTS
  N = 4
  Values = {v42, v420}
  Junk = Junk
  MaxPos = 10
  value = v42
  last = v420
  StartAfter = "constructor"
  STANDARD = 128
  HUGE = 256
  GIGANTIC = 512
  ALIGN = 16
  HEADER = 80
  ELEMENT = 2
  BitAnd <- MCBitAnd
  UsizeBits = 10
  WORD = 2
  MaxCapacity = 16
  MaxElement = 24
CHECK_DEADLOCK FALSE
SPECIFICATION MainSpec
INVARIANTS
  AssertionsHold
  AcksMeanRead
  LayoutsAgree
  SlotsInOrder
PROPERTIES
  BothEnd
