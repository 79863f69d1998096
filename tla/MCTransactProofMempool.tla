------------------------ MODULE MCTransactProofMempool ------------------------
(* TransactProofMempool for TLC. *)
EXTENDS TransactProofMempool, TLC

CONSTANTS A, P, p1, p2, c1, c2, c3

\* A proof of two commitments and one of a single commitment.
TwoProofs == (p1 :> {c1, c2}) @@ (p2 :> {c3})

\* The aggregator's client; the provider polls it, and pushes.
Polled == {<<A, "client">>, <<A, "event">>}
    \union {<<P, "poll">>, <<P, "push">>, <<P, "event">>, <<P, "start">>}
===============================================================================
