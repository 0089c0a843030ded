SPECIFICATION Spec
CONSTANTS
  Clients = {"c1"}
  Mailboxes <- TwoMailboxes
  Profiles <- Varied
  TargetMessages = 2
  Window = 2
  Initially = 0
  Iterations = 2
  Durations = {FALSE, TRUE}
  Refuses = TRUE
  Servers <- AnyServer
INVARIANTS
  TypeOK
  NoFalseAlarm
  HeldIsReal
  GrowthBounded
PROPERTIES
  MailboxKeptNear
  HollowFoundOut
  TimedRunEnds
