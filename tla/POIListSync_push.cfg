SPECIFICATION FairSpec
CONSTANTS
  f1 = f1
  Follower = {f1}
  Provider = Provider
  NodeConfigs <- PollProvider
  Handler = {h1, h2}
  Syncer = Syncer
  None = None
  MaxRange = 2
  FailingStep <- RecoverableStep
  MaxEvents = 3
  MaxFailures = 1
  MaxCrashes = 1
INVARIANTS
  TypeOK CopyIsPrefix MissingEventIsCarried EventsHaveRoots

   
