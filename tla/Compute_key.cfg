SPECIFICATION ComputeSpec
CONSTANTS
  NumNodes = 2
  t1 = t1
  t2 = t2
  j1 = j1
  Jobs = {j1}
  Tasks = {t1, t2}
  JobOf <- OneJob
  RuntimeOf <- AllWasm
  Wasm = Wasm
  Cloudpickle = Cloudpickle
  WasmNodes <- BothNodes
  KeyNodes <- BothNodes
  MayExpire = {}
  NoTask = NoTask
  BadReceiptThreshold = 1
  MaxClaims = 5
  Reliable <- SecondNode
  Slow <- NoNodes
  BadSigners <- NoNodes
  Faulty = {}
  MaxCrashes = 1
  MaxLosses = 0
INVARIANT
  OnlyProgramsFail
