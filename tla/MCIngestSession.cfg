CONSTANTS
  Conns = {c1, c2}
  Dests = {d1}
  Nobody = nobody
  Plans <- NoPlans
  Coverable = {d1}
  Controls = {hotkey}
  Protections <- MCAll
  Freezes = TRUE
  EarlyAsks = TRUE
  MaxToken = 2
  MaxSession = 0
SPECIFICATION FairSpec
INVARIANTS
  SlotHasItsPublisher
  HoldMeansObsIsGone
PROPERTIES
  CrashIsProtected
  StopEndsTheStream
  HoldEnds
