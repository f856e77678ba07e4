SPECIFICATION Spec
CONSTANTS
  c1 = c1
  Commands = {c1}
  MaxPid = 3
  MaxNodes = 3
  MaxEnds = 2
  MaxStrangers = 2
  MaxFails = 2
  MaxCuts = 1
INVARIANTS OneNode NodesAreTracked StoppedMeansStopped KeyFitsIdentity
