\* Eight slots: a burst has two elements, so that a commit may leave one behind.
CONSTANTS
  N = 8
  Values = {v1}
  Junk = Junk
  MaxPos = 3
SPECIFICATION Spec
PROPERTIES
  CommitPublishes
