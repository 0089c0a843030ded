SPECIFICATION Spec
CONSTANTS
  u1 = u1
  u2 = u2
  Users <- TwoUsers
  Sessions = 3
  ClientNums = {2}
  Retrs = {1}
  Deletes = {FALSE}
  Mail = 1
  Arrivals = 0
  Refuses = FALSE
  Drops = FALSE
INVARIANTS
  NoSelfContention
