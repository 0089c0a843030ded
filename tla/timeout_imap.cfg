SPECIFICATION Spec
CONSTANTS
  Drivers = {"imap"}
  Durations = {0, 8}
  Timeout = 3
  Latency = 2
  PerSession = 3
  Horizon = 10
  Wedges = FALSE
INVARIANTS
  FullTimeoutGiven
