SPECIFICATION Spec
CONSTANTS
  MaxFile = 1
  MaxLineOctets = 3
  Again = 0
  MaxList = 6
  IntSize = 512
INVARIANTS
  ExpandsAnyNumber
