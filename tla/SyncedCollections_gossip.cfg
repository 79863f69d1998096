SPECIFICATION FairSpec
CONSTANTS
  p = p
  a = a
  b1 = b1
  l1 = l1
  l2 = l2
  s1 = s1
  Node = {p, a}
  Provider = p
  Peers <- TwoPeers
  Blocked = {b1}
  Legacy = {l1, l2}
  Single = {s1}
  Late <- LateProof
  SyncedItems = 2
  SyncPeriod = 2
  Restarting = {p}
  Rejecting <- Awaits
  MaxSubmits = 2
  MaxFaults = 1
INVARIANTS OfferedIsStored
PROPERTIES  LegacyProofsSpread 
