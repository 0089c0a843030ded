SPECIFICATION Spec
CONSTANTS
  Drivers = {"lmtp"}
  Durations = {5, 8}
  Timeout = 3
  Latency = 2
  PerSession = 3
  Horizon = 10
  Wedges = TRUE
INVARIANTS
  WedgeBounded
