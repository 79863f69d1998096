-------------------------- MODULE MCSyncedCollections --------------------------
(* SyncedCollections for TLC. *)
EXTENDS SyncedCollections, TLC

CONSTANTS p, a, b1, l1, l2, s1

\* Two nodes that poll each other.
TwoPeers == p :> <<a>> @@ a :> <<p>>
\* The provider scans one transaction only after a proof of it may be there.
LateProof == {<<p, l1>>}
Awaits == {"status", "request", "exists", "insert", "push"}
=============================================================================
