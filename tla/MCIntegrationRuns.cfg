CONSTANTS
  Runs = {r1, r2, r3}
  Integrations = {a}
  All = all
  PerIntegration = 2
  GlobalRuns = 1
  PerIntegrationRuns = 3
  GlobalStarted = 3
  MaxAsked = 2
SPECIFICATION FairSpec
INVARIANTS
  OneAtATime
  LastEditIsSaid
PROPERTIES
  NobodyWaitsForEver
