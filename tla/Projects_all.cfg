SPECIFICATION MCSpec
CONSTANTS
  t1 = t1  t2 = t2  h1 = h1  h2 = h2
  Functions = {t1, t2, h1, h2}
  Tasks = {t1, t2}
  MaxEdges = 4
  s1 = s1  s2 = s2  t = t  u = u  c1 = c1  c2 = c2
  Shells = {s1, s2}
  TaskNames = {t, u}
  Sources = {c1, c2}
  Exports <- MCExports
  Rejected = {c2}
  None = None
  MaxEdits = 1
  MaxCrashes = 1
  m1 = m1  m2 = m2  m3 = m3  a = a  b = b
  Machines = {m1, m2, m3}
  Users = {a, b}
  UserOf <- MCUserOf
  Nobody = Nobody
  MaxKeys = 3
  MaxPids = 2
  MaxLogins = 3
INVARIANTS
  CleanIsClosed
  VerdictsAreRight
  BuildsGetTheirOwn
  TornHasAWriter
  ManifestFits
  DeploymentsStayTheirMakers
  HostedAppsHaveRows
SYMMETRY Symmetry
CHECK_DEADLOCK FALSE
