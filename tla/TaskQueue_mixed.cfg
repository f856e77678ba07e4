SPECIFICATION Spec
CONSTANTS
  NumNodes = 2
  t1 = t1
  t2 = t2
  j1 = j1
  j2 = j2
  Jobs = {j1, j2}
  Tasks = {t1, t2}
  JobOf <- TwoJobs
  RuntimeOf <- Mixed
  Wasm = Wasm
  Cloudpickle = Cloudpickle
  WasmNodes <- FirstNode
  KeyNodes <- FirstNode
  MayExpire = {t1}
  NoTask = NoTask
  BadReceiptThreshold = 2
  MaxClaims = 3
INVARIANTS
  TypeOK
  QueuedIsReachable
  NoStrayEntry
  ActiveIsTracked
  TokensAreLive
  PlacedWhereRunnable
PROPERTIES
  PromiseSpec
