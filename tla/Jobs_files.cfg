SPECIFICATION FairSpec
CONSTANTS
  NumShards = 2
  Retention = 0
  Lifetime = 2
  Faulty = {2}
INVARIANTS PayloadsAreKept ValuesAreComputed
PROPERTIES FuturesResolve FilesAreReclaimed
