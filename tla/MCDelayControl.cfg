CONSTANTS
  Runtime = runtime
  Controls = {hotkey}
  Delays = {1, 2, 4}
  Cap = 3
  MinBuffer = 1
  Slack = 1
  Overlap = FALSE
  MaxSessions = 2
SPECIFICATION FairSpec
INVARIANTS
  ActiveDelayIsTheArmedOne
  MarkBelongsToTheDelayOnAir
PROPERTIES
  PlainArmWaits
  PromiseKept
