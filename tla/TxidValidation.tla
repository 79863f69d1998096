---------------------------- MODULE TxidValidation ----------------------------
(***************************************************************************)
(* RailgunTxidMerkletreeManager: a node marks an index of its own txid     *)
(* tree as validated once a peer has the same merkleroot at this index,    *)
(* and resyncs its tree from the validated index when the peer has not.    *)
(* The trees belong to the engine, which scans the txids of the chain in   *)
(* order and may misread one.                                              *)
(***************************************************************************)
EXTENDS Integers, Sequences, SequencesExt, FiniteSetsExt

CONSTANTS
    Node,            \* the nodes
    Provider,        \* the list provider among them: it signs what it validated
    NodeConfigs,     \* NodeConfigs[n]: the peers n polls and sends to
    Misreads,        \* the nodes whose engine may misread a txid
    Faulty,          \* the nodes that restart and whose awaits may reject
    AnswersRoots,    \* the peers that answer a request without a chain: none of this release
    TreeMaxItems,    \* TREE_MAX_ITEMS
    MaxTxid,         \* bound: txids on the chain
    MaxMisreads,     \* bound: misread txids
    MaxFaults        \* bound: rejected awaits and restarts

ASSUME NodesAssumption ==
    /\ Provider \in Node
    /\ NodeConfigs \in [Node -> SUBSET Node]
    /\ \A n \in Node : n \notin NodeConfigs[n]
    /\ Misreads \subseteq Node
    /\ Faulty \subseteq Node
    /\ AnswersRoots \subseteq Node

ASSUME BoundsAssumption ==
    /\ TreeMaxItems \in Nat \ {0}
    /\ {MaxTxid, MaxMisreads, MaxFaults} \subseteq Nat

VARIABLES
    txids,      \* txids[n]: the txids in n's engine; p is the chain's p-th, -p a misread one
    status,     \* status[n]: the one row of RailgunTxidMerkletreeStatus
    task,       \* task[n][k]: the round robin poll and a request handler of n
    signed,     \* what the provider signed and sent to its peers
    misreads, faults

vars == <<txids, status, task, signed, misreads, faults>>

Kind == {"poll", "handler"}
Undefined == -1        \* an index that is undefined
NoRoot == <<>>         \* a merkleroot that is undefined
Chain == [p \in 1..MaxTxid |-> p]

\* A txid index is the index of a leaf in the tree index \div TreeMaxItems;
\* the merkleroot there is determined by this tree's leaves up to it.
Root(s, index) ==
    IF index \in 0..(Len(s) - 1)
    THEN SubSeq(s, (index \div TreeMaxItems) * TreeMaxItems + 1, index + 1)
    ELSE NoRoot

CurrentIndex(n) == Len(txids[n]) - 1
CurrentRoot(n) == Root(txids[n], CurrentIndex(n))

Cleared == [index |-> Undefined, root |-> NoRoot]
Idle == [pc |-> "idle"]

Goto(n, k, t) == task' = [task EXCEPT ![n][k] = t]
At(n, k, pc) == task[n][k].pc = pc

Init ==
    /\ txids = [n \in Node |-> <<>>]
    /\ status = [n \in Node |-> Cleared]
    /\ task = [n \in Node |-> [k \in Kind |-> Idle]]
    /\ signed = {}
    /\ misreads = 0 /\ faults = 0

(***************************************************************************)
(* The engine.                                                             *)
(***************************************************************************)
Scan(n) ==
    LET p == Len(txids[n]) + 1
    IN  /\ p <= MaxTxid
        /\ \/ /\ txids' = [txids EXCEPT ![n] = Append(@, p)]
              /\ UNCHANGED misreads
           \/ /\ n \in Misreads /\ misreads < MaxMisreads
              /\ txids' = [txids EXCEPT ![n] = Append(@, -p)]
              /\ misreads' = misreads + 1
        /\ UNCHANGED <<status, task, signed, faults>>

(***************************************************************************)
(* Where an update starts: the round robin poll of a peer, whose status    *)
(* was answered before the events and the mempools were synced, or the     *)
(* request with what a list provider signed.                               *)
(***************************************************************************)
GetNodeStatus(n) ==
    /\ At(n, "poll", "idle")
    /\ \E m \in NodeConfigs[n] :
           Goto(n, "poll", [pc |-> "status", peer |-> m, currentB |-> CurrentIndex(m),
                            rootB |-> CurrentRoot(m), validatedB |-> status[m].index])
    /\ UNCHANGED <<txids, status, signed, misreads, faults>>

VerifySignatureAndUpdate(n) ==
    /\ At(n, "handler", "idle")
    /\ Provider \in NodeConfigs[n]
    /\ \E s \in signed :
           Goto(n, "handler", [pc |-> "status", peer |-> Provider, currentB |-> s.index,
                               rootB |-> s.root, validatedB |-> s.index])
    /\ UNCHANGED <<txids, status, signed, misreads, faults>>

(***************************************************************************)
(* updateValidatedRailgunTxidStatus, one action per await.  A throw ends   *)
(* the update: both callers catch it.                                      *)
(***************************************************************************)
\* Mutant: the indices the two nodes validated are compared.
ShouldUpdateValidatedOnly(t, currentA, validatedA) ==
    /\ currentA # Undefined
    /\ t.currentB # Undefined
    /\ t.validatedB > validatedA

ShouldUpdate(t, currentA, validatedA) ==
    /\ currentA # Undefined
    /\ t.currentB # Undefined
    /\ t.validatedB = Undefined \/ t.currentB > validatedA

ReadStatus(n, k) ==
    LET t == task[n][k]
        validatedA == status[n].index
        index == Min({CurrentIndex(n), t.currentB})
    IN  /\ At(n, k, "status")
        /\ IF ShouldUpdate(t, CurrentIndex(n), validatedA)
           THEN Goto(n, k, [pc |-> "root", peer |-> t.peer, rootB |-> t.rootB,
                            validatedB |-> t.validatedB, validatedA |-> validatedA,
                            first |-> index, index |-> index,
                            root |-> NoRoot, tried |-> FALSE])
           ELSE Goto(n, k, Idle)
        /\ UNCHANGED <<txids, status, signed, misreads, faults>>

(***************************************************************************)
(* validateHistoricalMerkleroot.                                           *)
(***************************************************************************)
ReadRoot(n, k) ==
    LET t == task[n][k]
        root == Root(txids[n], t.index)
    IN  /\ At(n, k, "root")
        /\ IF root = NoRoot THEN Goto(n, k, Idle)
           ELSE Goto(n, k, [t EXCEPT !.pc = IF root = t.rootB THEN "save" ELSE "ask",
                                     !.root = root])
        /\ UNCHANGED <<txids, status, signed, misreads, faults>>

\* Mutant: the peer looks whether it has a root at the index, not which.
AnswerOfAnyRoot(m, t) ==
    IF m \in AnswersRoots THEN {Root(txids[m], t.index) # NoRoot} ELSE {}

\* The request names the network and no chain, and the handler looks the
\* network up by chain: a peer of this release answers with an error.
Answer(m, t) ==
    IF m \in AnswersRoots THEN {Root(txids[m], t.index) = t.root} ELSE {}

Recheck(t) == [pc |-> "recheck", first |-> t.first]

\* After an invalid root the midpoint to the validated index is tried once.
AfterInvalid(t) ==
    LET midpoint == (t.first + Max({t.validatedA, 0})) \div 2
    IN  IF ~t.tried /\ midpoint <= t.first /\ midpoint # t.validatedA
        THEN [t EXCEPT !.pc = "root", !.index = midpoint, !.root = NoRoot, !.tried = TRUE]
        ELSE Recheck(t)

AskPeer(n, k) ==
    LET t == task[n][k]
    IN  /\ At(n, k, "ask")
        /\ \/ /\ TRUE \in Answer(t.peer, t)
              /\ Goto(n, k, [t EXCEPT !.pc = "save"])
           \/ /\ FALSE \in Answer(t.peer, t)
              /\ Goto(n, k, AfterInvalid(t))
           \/ /\ Answer(t.peer, t) = {}
              /\ Goto(n, k, Idle)
        /\ UNCHANGED <<txids, status, signed, misreads, faults>>

\* The validated status is saved.  The provider then signs it and sends it to
\* its peers, except to the one it validated with when that one is further.  The
\* method named in the request reads the peer's validated status: the peer
\* changes nothing.
SaveValidatedTxidStatus(n, k) ==
    LET t == task[n][k]
        validated == [index |-> t.index, root |-> t.root]
        receivers == {m \in NodeConfigs[n] : ~(m = t.peer /\ t.validatedB > t.index)}
    IN  /\ At(n, k, "save")
        /\ status' = [status EXCEPT ![n] = validated]
        /\ signed' = IF n = Provider /\ receivers # {} THEN signed \union {validated} ELSE signed
        /\ Goto(n, k, IF t.tried THEN Recheck(t) ELSE Idle)
        /\ UNCHANGED <<txids, misreads, faults>>

(***************************************************************************)
(* The root was invalid: the tree is cleared after the validated index,    *)
(* which is read again, and the engine scans on from there.                *)
(***************************************************************************)
\* Mutant: resyncs from the larger of the two.
ResyncIndexOfLarger(t, validated) == Max({t.first, validated})

ResyncIndex(t, validated) == Min({t.first, validated})

ReadValidatedAgain(n, k) ==
    LET t == task[n][k]
    IN  /\ At(n, k, "recheck")
        /\ Goto(n, k, [pc |-> "reset", resync |-> ResyncIndex(t, status[n].index)])
        /\ UNCHANGED <<txids, status, signed, misreads, faults>>

\* Mutant: clears what precedes the index.
ClearedBefore(s, index) == SubSeq(s, index + 2, Len(s))

\* The engine clears the leaves after an index.
ClearedAfter(s, index) == SubSeq(s, 1, Min({index + 1, Len(s)}))

ResetRailgunTxids(n, k) ==
    LET t == task[n][k]
    IN  /\ At(n, k, "reset")
        /\ txids' = [txids EXCEPT ![n] = ClearedAfter(@, t.resync)]
        /\ Goto(n, k, Idle)
        /\ UNCHANGED <<status, signed, misreads, faults>>

\* Any of the awaits above rejects: the callers end the update.
Fail(n, k) ==
    /\ task[n][k].pc \notin {"idle", "starting"}
    /\ n \in Faulty /\ faults < MaxFaults
    /\ faults' = faults + 1
    /\ Goto(n, k, Idle)
    /\ UNCHANGED <<txids, status, signed, misreads>>

(***************************************************************************)
(* A restart: the engine keeps its tree, unless CLEAR_TXIDS is set, scans  *)
(* and the validated status is compared with the tree before anything else *)
(* runs.                                                                   *)
(***************************************************************************)
Restart(n) ==
    /\ n \in Faulty /\ faults < MaxFaults
    /\ faults' = faults + 1
    /\ task' = [task EXCEPT ![n] = [k \in Kind |-> [pc |-> "starting"]]]
    /\ \/ UNCHANGED <<txids, status>>
       \/ /\ txids' = [txids EXCEPT ![n] = <<>>]
          /\ status' = [status EXCEPT ![n] = Cleared]
    /\ UNCHANGED <<signed, misreads>>

StatusMatchesEngine(n) ==
    status[n].index # Undefined => Root(txids[n], status[n].index) = status[n].root

CheckValidatedTxidIndexAgainstEngine(n) ==
    /\ At(n, "poll", "starting")
    /\ status' = IF StatusMatchesEngine(n) THEN status ELSE [status EXCEPT ![n] = Cleared]
    /\ task' = [task EXCEPT ![n] = [k \in Kind |-> Idle]]
    /\ UNCHANGED <<txids, signed, misreads, faults>>

UpdateStep(n, k) ==
    \/ ReadStatus(n, k) \/ ReadRoot(n, k) \/ AskPeer(n, k)
    \/ SaveValidatedTxidStatus(n, k)
    \/ ReadValidatedAgain(n, k) \/ ResetRailgunTxids(n, k)

Next ==
    \E n \in Node :
        \/ Scan(n)
        \/ GetNodeStatus(n)
        \/ VerifySignatureAndUpdate(n)
        \/ \E k \in Kind : UpdateStep(n, k) \/ Fail(n, k)
        \/ Restart(n)
        \/ CheckValidatedTxidIndexAgainstEngine(n)

Spec == Init /\ [][Next]_vars

\* The engine keeps scanning, the round robin keeps polling, and an await that
\* was started settles.
Fairness ==
    \A n \in Node :
        /\ WF_vars(Scan(n))
        /\ WF_vars(GetNodeStatus(n))
        /\ \A k \in Kind : WF_vars(UpdateStep(n, k))
        /\ WF_vars(CheckValidatedTxidIndexAgainstEngine(n))

FairSpec == Spec /\ Fairness

-----------------------------------------------------------------------------

Txid == (1..MaxTxid) \union {-p : p \in 1..MaxTxid}

TypeOK ==
    /\ \A n \in Node :
           /\ Len(txids[n]) <= MaxTxid
           /\ \A p \in DOMAIN txids[n] : txids[n][p] \in {p, -p}
           /\ status[n].index \in {Undefined} \union 0..(MaxTxid - 1)
           /\ ToSet(status[n].root) \subseteq Txid
           /\ \A k \in Kind :
                  task[n][k].pc \in {"idle", "starting", "status", "root", "ask",
                                     "save", "recheck", "reset"}
    /\ misreads \in 0..MaxMisreads
    /\ faults \in 0..MaxFaults

\* While every peer reads the chain right, a root that a node marks as
\* validated is the chain's root at that index: a misread txid never gets
\* validated, whatever was cleared or scanned between the reads of an update.
ValidatedRootIsOnChain ==
    \A n \in Node :
        /\ status[n].index # Undefined => status[n].root = Root(Chain, status[n].index)
        /\ status[n].index = Undefined => status[n].root = NoRoot

\* Once nothing fails any more every node gets its whole tree validated.
ValidatedIndexCatchesUp ==
    \A n \in Node : <>[](status[n].index = MaxTxid - 1)

\* The code's comment on an invalid root: "Invalid. Clear the merkletree after
\* currentValidatedTxidIndex, and re-sync." A tree whose root differs from the
\* chain's is resynced until it agrees.
InvalidTreeIsResynced ==
    \A n \in Node : <>[](CurrentRoot(n) = Root(Chain, MaxTxid - 1))
=============================================================================
