SPECIFICATION Spec
CONSTANTS
  NumNodes = 2
  t1 = t1
  w1 = w1
  w2 = w2
  s1 = s1
  s2 = s2
  Tasks = {t1}
  Workers = {w1, w2}
  Sweepers = {s1, s2}
  Mortal = {1}
  Impatient = {1}
  NoTask = NoTask
  Overruns = FALSE
  MaxCrashes = 1
  MaxRequeues = 2
SYMMETRY Alike
INVARIANTS NoTaskLost HandledOnce OneSweeper
PROPERTY PromiseUnlessRaced
