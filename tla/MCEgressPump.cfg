CONSTANTS
  Delays = {0, 2, 3}
  Gop = 2
  Cap = 4
  Buffer = 3
  Slack = 2
  Jitter = 1
  Floor = 2
  Search = 2
  Margin = 2
  Grace = 2
  FreezeAfter = 2
  FirstVideo = 3
  HoldFor = 3
  Protected = TRUE
  Quiet = 2
  Lag = 1
  Events = 2
  MaxPublishers = 2
  MaxTime = 6
SPECIFICATION Spec
INVARIANTS
  OverMeansOff
PROPERTIES
  ClockNeverGoesBack
  DecodeChain
  NoJumpBehindTheFreeze
  ScreenKeepsTheDelay
  OnlyARaiseReplays
CHECK_DEADLOCK FALSE
