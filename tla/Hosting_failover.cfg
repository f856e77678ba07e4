SPECIFICATION HostingSpec
CONSTANTS
  NumNodes = 2
  p1 = p1
  Pids = {p1}
  Replicas <- OneEach
  ServeNodes <- BothNodes
  Flaky <- FlakyOnFirst
  Reliable <- SecondNode
  Slow <- BothNodes
  MaxStartAttempts = 2
  MaxEntries = 2
  MaxCrashes = 2
  MaxLosses = 2
INVARIANTS
  StartedOnce
PROPERTIES
  GoneAppsStop
  AppsComeUp
