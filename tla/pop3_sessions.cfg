SPECIFICATION Spec
CONSTANTS
  u1 = u1
  u2 = u2
  Users <- OneUser
  Sessions = 2
  ClientNums = {1, 2}
  Retrs = {0, 1, 2}
  Deletes = {TRUE, FALSE}
  Mail = 2
  Arrivals = 1
  Refuses = TRUE
  Drops = TRUE
INVARIANTS
  InStep
  NothingLost
  FailureKeepsMail
  SessionComplete
  SoloUncontended
PROPERTIES
  LockReleased
