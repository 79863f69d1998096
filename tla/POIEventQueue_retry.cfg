CONSTANTS
  Commitment = {c1, c2}
  Shield = {c1}
  Job = {j1, j2}
  Syncer = Syncer
  None = None
  FailingStep = {"event"}
  MaxFailures = 1
  MaxCrashes = 0
  DatabaseLoss = {FALSE}
  PeersAnswer = {TRUE}
SYMMETRY Symmetry
SPECIFICATION Spec
PROPERTIES
  ExistingLeafIsSkipped
