SPECIFICATION FairSpec
CONSTANTS
  A = A
  P = P
  Node = {A, P}
  Provider = P
  NodeConfigs <- BothPoll
  Misreads = {A}
  Faulty = {A}
  AnswersRoots = {}
  TreeMaxItems = 3
  MaxTxid = 3
  MaxMisreads = 1
  MaxFaults = 0
PROPERTY InvalidTreeIsResynced
