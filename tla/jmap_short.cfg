SPECIFICATION Spec
CONSTANTS
  u1 = u1
  u2 = u2
  None = None
  Users <- TwoUsers
  MaxClients = 2
  Threads = {TRUE, FALSE}
  Hosts = {base, other}
  Base = base
  Paths = {path}
  Shortens = TRUE
INVARIANTS
  EveryMethodAnswered
