-------------------------------- MODULE POIList --------------------------------
(*****************************************************************************)
(* What a POI list promises: one list provider owns the list; it appends     *)
(* each blinded commitment at most once, at the next free index, and what    *)
(* other nodes have received is a prefix of the list that is never revised.  *)
(* A provider that loses its database may forget only what nobody received.  *)
(*****************************************************************************)
EXTENDS IndexedList

CONSTANT Commitment   \* blinded commitments

VARIABLES
  list,        \* index -> blinded commitment, indices 0 .. n-1
  published    \* number of leading entries that some other node holds

vars == <<list, published>>

Init ==
  /\ list = Empty
  /\ published = 0

\* The provider appends a commitment the list does not hold.
Append(c) ==
  /\ c \notin Entries(list)
  /\ list' = Put(list, NextIndex(list), c)
  /\ UNCHANGED published

\* Another node receives the first entry that no other node has.
Publish ==
  /\ published \in DOMAIN list
  /\ published' = published + 1
  /\ UNCHANGED list

\* The provider loses its database; what was published survives elsewhere.
Forget ==
  /\ list' = Prefix(list, published)
  /\ UNCHANGED published

Next ==
  \/ \E c \in Commitment : Append(c)
  \/ Publish
  \/ Forget

Spec == Init /\ [][Next]_vars
================================================================================
