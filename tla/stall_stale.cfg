SPECIFICATION Spec
CONSTANTS
  BackendNums = {0, 2}
  Pprofs = {TRUE}
  Cooldown = 2
  Longest = {2}
  PollPeriod = 1
  PollDeadline = 2
  SinceSeconds = 1
  MaxLines = 3
  Horizon = 4
INVARIANTS
  FreshSinceOpened
