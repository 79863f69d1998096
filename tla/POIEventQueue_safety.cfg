CONSTANTS
  Commitment = {c1, c2, c3}
  Shield = {c1}
  Job = {j1, j2}
  Syncer = Syncer
  None = None
  FailingStep <- AnyStep
  MaxFailures = 2
  MaxCrashes = 2
  DatabaseLoss = {TRUE, FALSE}
  PeersAnswer = {TRUE}
SYMMETRY Symmetry
SPECIFICATION Spec
INVARIANTS
  TypeOK
  EventsFollowTree
  NoDuplicateEvents
  AgreesWithPeers
  OneAdderAtATime
  AddedShieldsHaveEvents
PROPERTIES
  NoQueuedEventDropped
  ImplementsPOIList
