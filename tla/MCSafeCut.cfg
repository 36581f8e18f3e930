CONSTANTS
  Runtime = runtime
  Controls = {hotkey}
  Delays = {1}
  Cap = 2
  MinBuffer = 1
  Slack = 1
  Overlap = TRUE
  MaxSessions = 1
  Dests = {twitch, kick}
  MaxSeq = 4
SPECIFICATION AllSpec
SYMMETRY Destinations
VIEW State
INVARIANTS
  CutSticksUnlessOvertaken
PROPERTIES
  SafeCutAirsTheMoment

