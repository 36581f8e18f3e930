CONSTANTS
  Delays = {0, 3}
  Gop = 2
  Cap = 8
  Buffer = 3
  Slack = 2
  Jitter = 1
  Floor = 2
  Search = 2
  Margin = 2
  Grace = 2
  FreezeAfter = 2
  FirstVideo = 3
  HoldFor = 3
  Protected = TRUE
  Quiet = 2
  Lag = 0
  Events = 0
  MaxPublishers = 2
  MaxTime = 7
SPECIFICATION Spec
PROPERTY NewStreamAirsDelayed
CHECK_DEADLOCK FALSE
