SPECIFICATION LiveSpec
CONSTANTS
  append = append
  fetch = fetch
  login = login
  Commands <- MCCommands
  MaxSamples = 3
  HeaderEvery = 2
SYMMETRY Symmetry
INVARIANTS
  HeaderNamesColumns
  LastLinePrinted
PROPERTIES
  LineCatchesUp
