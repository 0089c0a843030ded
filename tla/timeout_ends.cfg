SPECIFICATION Spec
CONSTANTS
  Drivers = {"imap", "jmap", "lmtp", "pop3", "pop3s"}
  Durations = {0, 5}
  Timeout = 3
  Latency = 2
  PerSession = 3
  Horizon = 12
  Wedges = TRUE
INVARIANTS
  WedgeEnds
