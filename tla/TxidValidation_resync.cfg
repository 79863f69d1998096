SPECIFICATION FairSpec
CONSTANTS
  A = A
  P = P
  Node = {A, P}
  Provider = P
  NodeConfigs <- BothPoll
  Misreads = {A}
  Faulty = {A}
  AnswersRoots = {P}
  TreeMaxItems = 2
  MaxTxid = 2
  MaxMisreads = 1
  MaxFaults = 1
INVARIANTS TypeOK ValidatedRootIsOnChain
PROPERTIES ValidatedIndexCatchesUp InvalidTreeIsResynced
