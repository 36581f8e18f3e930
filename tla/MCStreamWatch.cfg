CONSTANTS
  Conns = {c1, c2}
  Dests = {d1}
  Nobody = nobody
  Plans <- NoPlans
  Coverable = {d1}
  Controls = {}
  Protections <- MCOffEvery
  Freezes = TRUE
  EarlyAsks = FALSE
  MaxToken = 2
  MaxSession = 0
  QueueCap = 2
SPECIFICATION FairWatchSpec
INVARIANTS
  SendingIsAStreamUnlessAstray
PROPERTIES
  ResumeIsNoSecondStream
  StreamEnds
