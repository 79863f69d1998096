---------------------------- MODULE MCPOIEventQueue ----------------------------
(* Model checking of POIEventQueue on small instances. *)
EXTENDS POIEventQueue, FiniteSets, TLC

\* Executions of addPOIEventsFromQueue are interchangeable.
Symmetry == Permutations(Job)

\* Every await of the queue and the syncer that can reject.
AnyStep == Step \ {"idle", "sign"}

\* The awaits after whose rejection the list can still grow: a rejected read of
\* insertLeaf keeps the tree locked, and an event whose leaf is stored but whose
\* own insertion was rejected is refused by the tree from then on.
RecoverableStep == AnyStep \ {"tree", "event"}
================================================================================
