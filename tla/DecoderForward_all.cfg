SPECIFICATION Spec
CONSTANTS
  t1 = t1
  t2 = t2
  t3 = t3
  Token = {t1, t2, t3}
  NoToken = NoToken
  NumLayers = 2
  NumHeads = 4
  NumKvHeads = 2
  HeadLanes = 4
  VecLanes = 2
  Launches <- MCLaunches
SYMMETRY Symmetric
INVARIANTS
  LogitsAreReference
  ImplementsKVExecutor
  ResidualKept
  BatchOneNeverRefused
