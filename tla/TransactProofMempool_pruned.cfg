SPECIFICATION FairSpec
CONSTANTS
  A = A
  P = P
  p1 = p1
  p2 = p2
  c1 = c1
  c2 = c2
  c3 = c3
  Node = {A, P}
  Provider = P
  Proof = {p1, p2}
  Commitments <- TwoProofs
  Valid = {p1}
  Task <- Polled
  Restarting = {P}
  Rejecting = {"answer", "delete", "remove"}
  MaxSubmits = 1
  MaxFaults = 1
INVARIANTS OnlyValidProofsGetEvents
PROPERTIES   AddedProofIsPruned
CHECK_DEADLOCK FALSE
