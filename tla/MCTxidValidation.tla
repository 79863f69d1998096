---- MODULE MCTxidValidation ----
EXTENDS TxidValidation

CONSTANTS A, P

\* The provider and one aggregator poll each other.
BothPoll == (A :> {P}) @@ (P :> {A})
====
