SPECIFICATION Spec
CONSTANTS
  Clients = {"c1"}
  Mailboxes <- Inbox
  Profiles <- Churn
  TargetMessages = 2
  Window = 2
  Initially = 0
  Iterations = 1
  Durations = {FALSE}
  Refuses = FALSE
  Servers <- HonestOnly
PROPERTIES
  RunEnds
