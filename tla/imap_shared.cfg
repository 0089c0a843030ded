SPECIFICATION Safety
CONSTANTS
  Clients = {"c1", "c2"}
  Mailboxes <- Inbox
  Profiles <- MixedOrChurn
  TargetMessages = 1
  Window = 2
  Initially = 0
  Iterations = 0
  Durations = {TRUE}
  Refuses = FALSE
  Servers <- HonestOnly
INVARIANTS
  ViewIsSession
