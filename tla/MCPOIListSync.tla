----------------------------- MODULE MCPOIListSync -----------------------------
(* POIListSync for TLC: one follower, which polls the provider. *)
EXTENDS POIListSync

CONSTANT f1

PollProvider == [f \in {f1} |-> <<Provider>>]

\* The awaits after whose rejection the code can go on without another push.
RecoverableStep == Step \ {"event"}
================================================================================
