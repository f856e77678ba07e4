SPECIFICATION Spec
CONSTANTS
  NumNodes = 2
  t1 = t1
  w1 = w1
  w2 = w2
  s1 = s1
  s2 = s2
  Tasks = {t1}
  Workers = {w1}
  Sweepers = {s1}
  Mortal = {1}
  Impatient = {}
  NoTask = NoTask
  Overruns = FALSE
  MaxCrashes = 0
  MaxRequeues = 2
SYMMETRY Alike
PROPERTY FinishedStaysPut
