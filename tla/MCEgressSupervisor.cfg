CONSTANTS
  a = a
  Dests = {d1, d2}
  Vertical = {d2}
  Urls = {a}
  Saved <- BothOn
  Watched = {d2}
  BadUrl = bad
  Off = off
  Session = session
  Prebuilds = TRUE
  Nobody = nobody
  Events = 2
SPECIFICATION FairSpec
INVARIANTS
  LiveMeansOnAir
  RetryShortensItsWait
PROPERTIES
  HeldPumpsStay
  PumpsFollowSettings
  ScreenIsServed
CHECK_DEADLOCK FALSE
