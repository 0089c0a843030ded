SPECIFICATION Spec
CONSTANTS
  c1 = c1
  c2 = c2
  r1 = r1
  r2 = r2
  r3 = r3
  Clients <- TwoClients
  Recipients <- ThreeRecipients
  PerMessages = {1}
  Deliveries = 2
  MaxLines = 1
  Refuses = FALSE
  Drops = FALSE
INVARIANTS
  CorpusIsSeeded
