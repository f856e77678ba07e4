SPECIFICATION LBSpec
CONSTANTS
  NumNodes = 2
  p1 = p1
  r1 = r1
  r2 = r2
  Pids = {p1}
  Replicas <- TwoEach
  ServeNodes <- BothNodes
  Flaky <- NothingFlaky
  Reliable <- TheSecond
  Slow <- NoNodes
  MaxStartAttempts = 1
  MaxEntries = 1
  MaxCrashes = 1
  MaxLosses = 1
  Requests = {r1, r2}
  PidOf <- SameApp
  NoRequest = NoRequest
INVARIANTS
  LossesAreAccounted
PROPERTIES
  RequestsRunOnce
  PatientCallersAnswered
