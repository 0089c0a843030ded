SPECIFICATION LiveSpec
CONSTANTS
  append = append
  fetch = fetch
  login = login
  Commands <- MCCommands
  MaxSamples = 2
  HeaderEvery = 2
SYMMETRY Symmetry
INVARIANTS
  TableAgreesAtExit
