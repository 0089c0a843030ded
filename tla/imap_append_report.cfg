SPECIFICATION Safety
CONSTANTS
  Clients = {"c1"}
  Mailboxes <- Inbox
  Profiles <- Churn
  TargetMessages = 2
  Window = 2
  Initially = 0
  Iterations = 0
  Durations = {TRUE}
  Refuses = FALSE
  Servers <- ReportingOnly
INVARIANTS
  HonestNeverAccused
