SPECIFICATION Spec
CONSTANTS
  c1 = c1
  c2 = c2
  r1 = r1
  Commands = {c1, c2}
  Requests = {r1}
  Machines <- Either
  MaxSessions = 2
  MaxKeys = 1
  MaxFaults = 1
SYMMETRY Alike
INVARIANTS SessionRevoked LoggedOutStaysOut
