CONSTANTS
  Conns = {c1, c2}
  Dests = {d1}
  Nobody = nobody
  Plans <- NoPlans
  Coverable = {d1}
  Controls = {}
  Protections <- MCCrash
  Freezes = TRUE
  EarlyAsks = FALSE
  MaxToken = 2
  MaxSession = 0
  QueueCap = 8
SPECIFICATION WatchSpec
INVARIANTS
  SendingIsAStream
