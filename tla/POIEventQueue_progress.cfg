CONSTANTS
  Commitment = {c1, c2, c3}
  Shield = {c1}
  Job = {j1, j2}
  Syncer = Syncer
  None = None
  FailingStep <- RecoverableStep
  MaxFailures = 2
  MaxCrashes = 1
  DatabaseLoss = {TRUE, FALSE}
  PeersAnswer = {TRUE}
SPECIFICATION FairSpec
PROPERTIES
   ProviderCatchesUp
