SPECIFICATION ComputeSpec
CONSTANTS
  NumNodes = 2
  t1 = t1
  t2 = t2
  j1 = j1
  Jobs = {j1}
  Tasks = {t1, t2}
  JobOf <- OneJob
  RuntimeOf <- AllWasm
  Wasm = Wasm
  Cloudpickle = Cloudpickle
  WasmNodes <- BothNodes
  KeyNodes <- BothNodes
  MayExpire = {t1}
  NoTask = NoTask
  BadReceiptThreshold = 1
  MaxClaims = 5
  Reliable <- SecondNode
  Slow <- FirstNode
  BadSigners <- SecondNode
  Faulty = {t2}
  MaxCrashes = 1
  MaxLosses = 1
INVARIANTS
  ClaimsAreOwn
  CompletedHonestly
  JobVerdictIsFinal
PROPERTIES
  TasksAreDecided
