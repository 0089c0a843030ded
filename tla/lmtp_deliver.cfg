SPECIFICATION Spec
CONSTANTS
  c1 = c1
  c2 = c2
  r1 = r1
  r2 = r2
  r3 = r3
  Clients <- TwoClients
  Recipients <- NamedTwice
  PerMessages = {2, 5}
  Deliveries = 2
  MaxLines = 2
  Refuses = TRUE
  Drops = TRUE
SYMMETRY Symmetry
INVARIANTS
  InStep
  NoSilentRefusal
  DrawnEvenly
  NamedOnce
