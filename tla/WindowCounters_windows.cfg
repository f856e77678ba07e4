SPECIFICATION CountersFairSpec
CONSTANTS
  login = login
  key = key
  p1 = p1
  p2 = p2
  NoCounter = NoCounter
  Threads = {p1, p2}
  Window = 3
  MaxAttempts = 2
  Limit = 2
  Cost = 2
  MaxCount = 4
  MaxOwed = 2
  Limiters = {login}
  Budgets = {key}
  MaxCrashes = 1
INVARIANTS BurstsAreBounded
PROPERTY WindowsReset
