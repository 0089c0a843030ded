SPECIFICATION Spec
CONSTANTS
  MaxFile = 5
  MaxLineOctets = 3
  Again = 1
  MaxList = 6
  IntSize = 512
INVARIANTS
  StoredAsFiled
  LoadsWhatCanBeSent
  ExpandsAsNamed
