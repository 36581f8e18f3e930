CONSTANTS
  Conns = {c1, c2}
  Dests = {d1}
  Nobody = nobody
  Plans <- EbOrVod
  Coverable = {d1}
  Controls = {}
  Protections <- MCCrash
  Freezes = TRUE
  EarlyAsks = TRUE
  MaxToken = 3
  MaxSession = 2
SPECIFICATION Spec
INVARIANTS
  EbSessionIsThePublishersUnlessAstray
  SingleFlight
  VodSessionIsOfThisStream
PROPERTIES
  HeldDestinationKeepsItsSession
SYMMETRY OneAsGoodAsAnother
