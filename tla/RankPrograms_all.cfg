SPECIFICATION FairSpec
CONSTANTS
  Token <- MCToken
  Launches <- MCLaunches
INVARIANTS
  PrefixesAgree
  VerifiesDraftText
  NothingCrossesABarrier
  SamplesPaired
  WorkerFits
PROPERTIES
  BothEnd
CHECK_DEADLOCK FALSE
