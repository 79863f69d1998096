------------------------------ MODULE IndexedList ------------------------------
(*****************************************************************************)
(* Collections keyed by an index, as the node's MongoDB collections of POI   *)
(* events and merkletree leaves are: a function from the indices present to  *)
(* the values stored there.                                                  *)
(*****************************************************************************)
EXTENDS Integers

Empty == [i \in {} |-> i]

\* Insertion under a unique key: the duplicate-key error of a taken index is
\* swallowed and the stored value stays.
Put(f, i, v) ==
  IF i \in DOMAIN f
    THEN f
    ELSE [j \in DOMAIN f \cup {i} |-> IF j = i THEN v ELSE f[j]]

Entries(f) == {f[i] : i \in DOMAIN f}

\* Indices are compared with the highest one stored, as a sorted query does.
IsHighest(f, i) == i \in DOMAIN f /\ \A j \in DOMAIN f : j <= i

\* Mutant: the last index instead of the one after it.
NextIndexIsLast(f) ==
  IF DOMAIN f = {} THEN -1 ELSE CHOOSE i \in DOMAIN f : IsHighest(f, i)

NextIndex(f) ==
  IF DOMAIN f = {} THEN 0 ELSE 1 + CHOOSE i \in DOMAIN f : IsHighest(f, i)

\* The indices present are 0 .. n-1 for some n.
Contiguous(f) ==
  \E n \in {0} \cup {i + 1 : i \in DOMAIN f} : DOMAIN f = 0 .. n - 1

Prefix(f, n) == [i \in 0 .. n - 1 |-> f[i]]
================================================================================
