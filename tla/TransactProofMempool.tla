------------------------- MODULE TransactProofMempool -------------------------
(***************************************************************************)
(* The transact-proof mempools of the nodes of one list: a client submits  *)
(* a proof to a node, the node keeps it and forwards it to the list        *)
(* provider, the provider validates it and queues an event for each of its *)
(* commitments, and once they all have events every node prunes it.        *)
(*                                                                         *)
(* A mempool is a collection and a cache beside it.  A task is a client's  *)
(* request, the mempool part of the round robin poll, the push syncer, the *)
(* adding of an event or the refill at a start; a request that it makes to *)
(* the provider is handled by the same task, at the provider.              *)
(***************************************************************************)
EXTENDS Integers, FiniteSets

CONSTANTS
    Node,          \* the nodes
    Provider,      \* the list provider among them
    Proof,         \* the proofs with a valid snark
    Commitments,   \* Commitments[p]: the blinded commitments and the unshield of p
    Valid,         \* the proofs whose merkleroots the provider has
    Task,          \* the tasks that run, pairs of a node and a kind
    Restarting,    \* the nodes that restart
    Rejecting,     \* the awaits that may reject
    MaxSubmits,    \* bound: submissions
    MaxFaults      \* bound: rejected awaits and restarts

ASSUME ConstantsAssumption ==
    /\ Provider \in Node /\ Proof # {}
    /\ \A p \in Proof : Commitments[p] # {}
    /\ \A p, q \in Proof : p # q => Commitments[p] \intersect Commitments[q] = {}
    /\ Valid \subseteq Proof
    /\ Task \subseteq Node \X {"client", "poll", "push", "event", "start"}
    /\ Restarting \subseteq Node /\ \A n \in Restarting : <<n, "start">> \in Task
    /\ Rejecting \subseteq {"exists", "insert", "validate", "push", "answer",
                            "delete", "remove", "stuck", "prune"}
    /\ {MaxSubmits, MaxFaults} \subseteq Nat

VARIABLES
    rows,              \* rows[n]: the proofs in the collection of n
    cache,             \* cache[n]: those in its cache
    doNotAdd,          \* doNotAddProofCache of each node
    alreadyForwarded,  \* alreadyForwardedProofCache of each node
    events,            \* events[n]: the commitments with an event at n
    queue,             \* the commitments in the provider's event queue
    task,              \* task[<<n, k>>]: what the task k of n is doing
    up,                \* the nodes that have started
    dead,              \* the nodes whose push syncer has thrown
    turnedAway,        \* history: the proofs that the provider has refused
    submits, faults

mempool == <<rows, cache>>
memory == <<doNotAdd, alreadyForwarded>>
list == <<events, queue>>
process == <<up, dead>>
bounds == <<submits, faults>>
vars == <<mempool, memory, list, process, task, turnedAway, bounds>>

Commitment == UNION {Commitments[p] : p \in Proof}
Home(t) == t[1]

Idle == [pc |-> "idle"]
Goto(t, r) == task' = [task EXCEPT ![t] = r]
GotoPc(t, pc) == task' = [task EXCEPT ![t].pc = pc]
At(t, pc) == task[t].pc = pc

\* A call: the await it is at, the node, the proof and what is left of its
\* batch; what follows a removal, and the peers still to be asked for it;
\* whether the task that sent the request still waits.
Call(pc, n, p, rest) ==
    [pc |-> pc, at |-> n, p |-> p, rest |-> rest, then |-> "idle", left |-> {}, called |-> TRUE]

Init ==
    /\ rows = [n \in Node |-> {}] /\ cache = rows
    /\ doNotAdd = rows /\ alreadyForwarded = rows
    /\ events = rows /\ queue = {}
    /\ task = [t \in Task |-> Idle]
    /\ up = Node /\ dead = {}
    /\ turnedAway = {} /\ submits = 0 /\ faults = 0

Fault == faults < MaxFaults /\ faults' = faults + 1 /\ UNCHANGED submits

\* Mutant: some event is enough.
HasSomeOrderedEvent(n, p) == Commitments[p] \intersect events[n] # {}

\* hasOrderedEventForEveryBlindedCommitment: events are never deleted, so its
\* loop of awaited reads answers as one read does.
HasAllOrderedEvents(n, p) == Commitments[p] \subseteq events[n]

(***************************************************************************)
(* submitProof, at the node where the task is.                             *)
(***************************************************************************)
\* submitProof or tryAddToList returns: the provider answers the request; at
\* its own node a task ends or goes on with its batch.
Returned(t, r) ==
    IF r.at # Home(t) THEN [r EXCEPT !.pc = "ok"]
    ELSE IF t[2] = "client" THEN Idle
    ELSE [r EXCEPT !.pc = "next"]

Entered(t, r) ==
    IF r.p \in doNotAdd[r.at] THEN Returned(t, r) ELSE [r EXCEPT !.pc = "exists"]

SubmitTransactProof(n) ==
    LET t == <<n, "client">>
    IN  /\ t \in Task /\ n \in up /\ At(t, "idle")
        /\ submits < MaxSubmits /\ submits' = submits + 1
        /\ \E p \in Proof : Goto(t, Entered(t, Call("exists", n, p, {})))
        /\ UNCHANGED <<mempool, memory, list, process, turnedAway, faults>>

AddToCache(n, p) == cache' = [cache EXCEPT ![n] = @ \union {p}]
RemoveFromCache(n, p) == cache' = [cache EXCEPT ![n] = @ \ {p}]

\* removeProof up to its first await; "then" follows it.
RemoveProof(t, then) ==
    /\ RemoveFromCache(task[t].at, task[t].p)
    /\ Goto(t, [task[t] EXCEPT !.pc = "delete", !.then = then])
    /\ UNCHANGED rows

\* shouldAdd.  Its reads are one step: what may come in between may as well
\* come before the insertion.
ShouldAdd(t) ==
    LET r == task[t]
        exists == r.p \in rows[r.at]
    IN  /\ At(t, "exists")
        /\ \/ /\ exists
              /\ doNotAdd' = [doNotAdd EXCEPT ![r.at] = @ \union {r.p}]
              /\ Goto(t, Returned(t, r))
              /\ UNCHANGED mempool
           \/ /\ ~exists /\ HasAllOrderedEvents(r.at, r.p)
              /\ RemoveProof(t, "skip")
              /\ UNCHANGED doNotAdd
           \/ /\ ~exists /\ ~HasAllOrderedEvents(r.at, r.p)
              /\ GotoPc(t, "insert")
              /\ UNCHANGED <<mempool, doNotAdd>>
        /\ UNCHANGED <<alreadyForwarded, list, process, turnedAway, bounds>>

DoNotAdd(t) ==
    LET r == task[t]
    IN  /\ At(t, "skip")
        /\ doNotAdd' = [doNotAdd EXCEPT ![r.at] = @ \union {r.p}]
        /\ Goto(t, Returned(t, r))
        /\ UNCHANGED <<mempool, alreadyForwarded, list, process, turnedAway, bounds>>

\* tryAddToList up to its first await.
TryAddToList(t, r) ==
    IF r.at = Provider THEN [r EXCEPT !.pc = "validate"]
    ELSE IF r.p \in alreadyForwarded[r.at] THEN Returned(t, r)
    ELSE [r EXCEPT !.pc = "push"]

InsertTransactProof(t) ==
    LET r == task[t]
    IN  /\ At(t, "insert")
        /\ rows' = [rows EXCEPT ![r.at] = @ \union {r.p}]
        /\ AddToCache(r.at, r.p)
        /\ Goto(t, TryAddToList(t, r))
        /\ UNCHANGED <<memory, list, process, turnedAway, bounds>>

(***************************************************************************)
(* tryAddToList: the provider validates and queues; another node forwards  *)
(* the proof to the provider.                                              *)
(***************************************************************************)
\* queueUnsignedPOITransactEvent: one event per commitment, once in the queue.
QueueUnsignedPOITransactEvents(p) == queue' = queue \union Commitments[p]

\* Mutant: what cannot be validated yet is queued all the same.
ValidateLater(t) ==
    LET r == task[t]
    IN  /\ At(t, "validate")
        /\ QueueUnsignedPOITransactEvents(r.p)
        /\ Goto(t, Returned(t, r))
        /\ UNCHANGED <<mempool, turnedAway, memory, events, process, bounds>>

Validate(t) ==
    LET r == task[t]
    IN  /\ At(t, "validate")
        /\ \/ /\ r.p \in Valid
              /\ QueueUnsignedPOITransactEvents(r.p)
              /\ Goto(t, Returned(t, r))
              /\ UNCHANGED <<mempool, turnedAway>>
           \/ /\ r.p \notin Valid
              /\ RemoveProof(t, "thrown")
              /\ turnedAway' = turnedAway \union {r.p}
              /\ UNCHANGED queue
        /\ UNCHANGED <<memory, events, process, bounds>>

\* A request that fails is forgotten.
PushProofToDestinationNode(t) ==
    LET r == task[t]
    IN  /\ At(t, "push")
        /\ \/ /\ Provider \in up
              /\ Goto(t, Entered(t, [r EXCEPT !.at = Provider]))
              /\ UNCHANGED bounds
           \/ /\ Goto(t, Returned(t, r))
              /\ IF Provider \in up THEN "push" \in Rejecting /\ Fault ELSE UNCHANGED bounds
        /\ UNCHANGED <<mempool, memory, list, process, turnedAway>>

\* The provider's answer.  An error loses its message on the way
\* (handleHTTPError): the sender does not recognise it and goes on.
PushAnswered(t) ==
    LET r == task[t]
        answered == r.called /\ At(t, "ok")
        resumed == IF r.called THEN Returned(t, [r EXCEPT !.at = Home(t)]) ELSE Idle
    IN  /\ r.pc \in {"ok", "thrown"} /\ r.at # Home(t)
        /\ Goto(t, resumed)
        /\ \/ /\ alreadyForwarded' =
                     [alreadyForwarded EXCEPT ![Home(t)] = @ \union (IF answered THEN {r.p} ELSE {})]
              /\ UNCHANGED bounds
           \/ /\ answered /\ "answer" \in Rejecting /\ Fault
              /\ UNCHANGED alreadyForwarded
        /\ UNCHANGED <<mempool, doNotAdd, list, process, turnedAway>>

\* An error at the node of the task: the client gets it, the poll catches it,
\* the push syncer ends by it.
Throw(t) ==
    LET r == task[t]
    IN  /\ At(t, "thrown") /\ r.at = Home(t)
        /\ Goto(t, IF t[2] = "push" THEN Idle ELSE Returned(t, r))
        /\ dead' = IF t[2] = "push" THEN dead \union {Home(t)} ELSE dead
        /\ UNCHANGED <<mempool, memory, list, up, turnedAway, bounds>>

(***************************************************************************)
(* removeProof and, at the other nodes, removeProofSigned.                 *)
(***************************************************************************)
AfterRemoval(r) == IF r.then = "idle" THEN Idle ELSE [r EXCEPT !.pc = r.then]

\* After its own row the provider has the proof removed by every peer.
AfterDelete(r) ==
    IF r.at = Provider /\ Node # {Provider}
    THEN [r EXCEPT !.pc = "remove", !.left = Node \ {Provider}]
    ELSE AfterRemoval(r)

DeleteProof(t) ==
    LET r == task[t]
    IN  /\ At(t, "delete")
        /\ rows' = [rows EXCEPT ![r.at] = @ \ {r.p}]
        /\ Goto(t, AfterDelete(r))
        /\ UNCHANGED <<cache, memory, list, process, turnedAway, bounds>>

AfterPeer(r, m) ==
    IF r.left = {m}
    THEN AfterRemoval([r EXCEPT !.left = {}])
    ELSE [r EXCEPT !.left = @ \ {m}]

\* The peer removes the proof, or the request fails and is forgotten.
RemoveProofSigned(t, m) ==
    LET r == task[t]
    IN  /\ At(t, "remove") /\ m \in r.left
        /\ Goto(t, AfterPeer(r, m))
        /\ \/ /\ m \in up
              /\ rows' = [rows EXCEPT ![m] = @ \ {r.p}]
              /\ RemoveFromCache(m, r.p)
              /\ UNCHANGED bounds
           \/ /\ IF m \in up THEN "remove" \in Rejecting /\ Fault ELSE UNCHANGED bounds
              /\ UNCHANGED mempool
        /\ UNCHANGED <<memory, list, process, turnedAway>>

(***************************************************************************)
(* The mempool part of a round robin poll, when the peer has more proofs   *)
(* in its cache (the count is some awaits old, the next poll makes up for  *)
(* it).  The peer sends what it has and does not find in the counting      *)
(* bloom filter of the requesting node: a proof leaves this filter each    *)
(* time a removal starts, cached or not, and a negative count cannot be    *)
(* decoded, so a proof that is cached may be sent again.                   *)
(***************************************************************************)
GetFilteredProofs(m, found) == cache[m] \ found

UpdateTransactProofMempool(n) ==
    LET t == <<n, "poll">>
    IN  /\ t \in Task /\ n \in up /\ At(t, "idle")
        /\ \E m \in up \ {n}, found \in SUBSET cache[n] :
               /\ Cardinality(cache[m]) > Cardinality(cache[n])
               /\ \E p \in GetFilteredProofs(m, found) :
                      Goto(t, Entered(t, Call("exists", n, p, GetFilteredProofs(m, found) \ {p})))
        /\ UNCHANGED <<mempool, memory, list, process, turnedAway, bounds>>

(***************************************************************************)
(* A round of the push syncer: it tries the rows one by one, and ends with *)
(* the first whose events all exist.                                       *)
(***************************************************************************)
AddPOIEventsForTransacts(n) ==
    LET t == <<n, "push">>
    IN  /\ t \in Task /\ n \in up \ dead /\ At(t, "idle") /\ rows[n] # {}
        /\ \E p \in rows[n] : Goto(t, Call("stuck", n, p, rows[n] \ {p}))
        /\ UNCHANGED <<mempool, memory, list, process, turnedAway, bounds>>

\* Mutant: the push syncer only tries to add.
CheckStuckAddingOnly(t) ==
    LET r == task[t]
    IN  /\ At(t, "stuck")
        /\ Goto(t, IF HasAllOrderedEvents(r.at, r.p) THEN Returned(t, r) ELSE TryAddToList(t, r))
        /\ UNCHANGED <<mempool, memory, list, process, turnedAway, bounds>>

\* Mutant: the push syncer only prunes.
CheckStuckPruningOnly(t) ==
    LET r == task[t]
    IN  /\ At(t, "stuck")
        /\ \/ HasAllOrderedEvents(r.at, r.p) /\ RemoveProof(t, "idle")
           \/ ~HasAllOrderedEvents(r.at, r.p) /\ Goto(t, Returned(t, r)) /\ UNCHANGED mempool
        /\ UNCHANGED <<memory, list, process, turnedAway, bounds>>

CheckStuck(t) ==
    LET r == task[t]
    IN  /\ At(t, "stuck")
        /\ \/ /\ HasAllOrderedEvents(r.at, r.p)
              /\ RemoveProof(t, "idle")
           \/ /\ ~HasAllOrderedEvents(r.at, r.p)
              /\ Goto(t, TryAddToList(t, r))
              /\ UNCHANGED mempool
        /\ UNCHANGED <<memory, list, process, turnedAway, bounds>>

\* The next proof of the batch of a poll or of a round.
NextProof(t) ==
    LET r == task[t]
    IN  /\ At(t, "next")
        /\ \/ /\ r.rest = {}
              /\ Goto(t, Idle)
           \/ \E p \in r.rest :
                 LET call == Call("stuck", Home(t), p, r.rest \ {p})
                 IN  Goto(t, IF t[2] = "push" THEN call ELSE Entered(t, call))
        /\ UNCHANGED <<mempool, memory, list, process, turnedAway, bounds>>

(***************************************************************************)
(* An event is added: the provider takes it from its queue (POIEventQueue),*)
(* another node has it from the provider (POIListSync).  The pruner then   *)
(* looks for the proof of this commitment.                                 *)
(***************************************************************************)
ProofContaining(c) == CHOOSE p \in Proof : c \in Commitments[p]

AddEvent(n, c) ==
    LET t == <<n, "event">>
    IN  /\ t \in Task /\ n \in up /\ At(t, "idle")
        /\ c \in (IF n = Provider THEN queue ELSE events[Provider] \ events[n])
        /\ events' = [events EXCEPT ![n] = @ \union {c}]
        /\ queue' = IF n = Provider THEN queue \ {c} ELSE queue
        /\ \/ /\ c \notin events[n]
              /\ Goto(t, Call("prune", n, ProofContaining(c), {}))
           \/ /\ c \in events[n]
              /\ UNCHANGED task
        /\ UNCHANGED <<mempool, memory, process, turnedAway, bounds>>

RemoveProofIfAllAdded(t) ==
    LET r == task[t]
        remove == r.p \in rows[r.at] /\ HasAllOrderedEvents(r.at, r.p)
    IN  /\ At(t, "prune")
        /\ \/ remove /\ RemoveProof(t, "idle")
           \/ ~remove /\ Goto(t, Idle) /\ UNCHANGED mempool
        /\ UNCHANGED <<memory, list, process, turnedAway, bounds>>

(***************************************************************************)
(* Failures.                                                               *)
(***************************************************************************)
\* A rejected database call: removeProof catches it; submitProof and the push
\* syncer throw it; the event queue catches what the pruner throws.
Fail(t) ==
    LET r == task[t]
    IN  /\ r.pc \in Rejecting \ {"push", "answer", "remove"} /\ Fault
        /\ CASE r.pc = "delete"             -> Goto(t, AfterRemoval(r))
             [] r.pc = "prune"              -> Goto(t, Idle)
             [] OTHER                       -> GotoPc(t, "thrown")
        /\ UNCHANGED <<mempool, memory, list, process, turnedAway>>

\* What a restart of n leaves of a task: a request that n handles fails, what n
\* had asked of the provider goes on there.
Restarted(n, t) ==
    LET r == task[t]
    IN  IF t = <<n, "start">>
        THEN Call("inflate", n, CHOOSE p \in Proof : TRUE, rows[n])
        ELSE IF r.pc = "idle" THEN r
        ELSE IF r.at = n /\ (Home(t) = n \/ ~r.called) THEN Idle
        ELSE IF r.at = n THEN Returned(t, [r EXCEPT !.at = Home(t)])
        ELSE IF Home(t) = n THEN [r EXCEPT !.called = FALSE]
        ELSE r

Restart(n) ==
    /\ n \in Restarting \intersect up /\ Fault
    /\ up' = up \ {n} /\ dead' = dead \ {n}
    /\ cache' = [cache EXCEPT ![n] = {}]
    /\ doNotAdd' = [doNotAdd EXCEPT ![n] = {}]
    /\ alreadyForwarded' = [alreadyForwarded EXCEPT ![n] = {}]
    /\ queue' = IF n = Provider THEN {} ELSE queue
    /\ task' = [t \in Task |-> Restarted(n, t)]
    /\ UNCHANGED <<rows, events, turnedAway>>

\* inflateCacheFromDatabase, before anything else of the node runs: the first
\* proof whose events all exist is removed and ends the refill.
InflateCacheFromDatabase(n) ==
    LET t == <<n, "start">>
        r == task[t]
    IN  /\ n \in Restarting /\ At(t, "inflate")
        /\ \/ /\ r.rest = {}
              /\ GotoPc(t, "start")
              /\ UNCHANGED cache
           \/ \E p \in r.rest :
                 \/ /\ HasAllOrderedEvents(n, p)
                    /\ Goto(t, [r EXCEPT !.pc = "delete", !.p = p, !.then = "start"])
                    /\ UNCHANGED cache
                 \/ /\ ~HasAllOrderedEvents(n, p)
                    /\ AddToCache(n, p)
                    /\ Goto(t, [r EXCEPT !.rest = @ \ {p}])
        /\ UNCHANGED <<rows, memory, list, process, turnedAway, bounds>>

\* The pollers start.
Start(n) ==
    LET t == <<n, "start">>
    IN  /\ n \in Restarting /\ At(t, "start")
        /\ up' = up \union {n}
        /\ Goto(t, Idle)
        /\ UNCHANGED <<mempool, memory, list, dead, turnedAway, bounds>>

TaskStep(t) ==
    \/ ShouldAdd(t) \/ DoNotAdd(t) \/ InsertTransactProof(t)
    \/ Validate(t) \/ PushProofToDestinationNode(t) \/ PushAnswered(t) \/ Throw(t)
    \/ DeleteProof(t) \/ \E m \in Node : RemoveProofSigned(t, m)
    \/ CheckStuck(t) \/ NextProof(t)
    \/ RemoveProofIfAllAdded(t)

Next ==
    \/ \E t \in Task : TaskStep(t) \/ Fail(t)
    \/ \E n \in Node :
           \/ SubmitTransactProof(n)
           \/ UpdateTransactProofMempool(n)
           \/ AddPOIEventsForTransacts(n)
           \/ \E c \in Commitment : AddEvent(n, c)
           \/ Restart(n)
           \/ InflateCacheFromDatabase(n) \/ Start(n)

Spec == Init /\ [][Next]_vars

\* An await that was started settles; pollers, the event queue and the sync of
\* the list go on.
Fairness ==
    /\ \A t \in Task : WF_vars(TaskStep(t))
    /\ \A n \in Node :
           /\ WF_vars(UpdateTransactProofMempool(n))
           /\ WF_vars(AddPOIEventsForTransacts(n))
           /\ \A c \in Commitment : WF_vars(AddEvent(n, c))
           /\ WF_vars(InflateCacheFromDatabase(n) \/ Start(n))

FairSpec == Spec /\ Fairness

-----------------------------------------------------------------------------

TypeOK ==
    /\ rows \in [Node -> SUBSET Proof] /\ cache \in [Node -> SUBSET Proof]
    /\ doNotAdd \in [Node -> SUBSET Proof]
    /\ alreadyForwarded \in [Node -> SUBSET Proof]
    /\ events \in [Node -> SUBSET Commitment]
    /\ queue \subseteq Commitment
    /\ up \subseteq Node /\ dead \subseteq Node /\ turnedAway \subseteq Proof
    /\ submits \in 0..MaxSubmits /\ faults \in 0..MaxFaults

HasAllEvents(n, p) == Commitments[p] \subseteq events[n]

\* A proof only leaves a collection when all its events are in the provider's
\* list or the provider has refused it, whatever the pruner, the push syncer, a
\* refill and the requests to remove it had read before.
NoPendingProofDropped ==
    [][\A n \in Node : \A p \in rows[n] \ rows'[n] :
           HasAllEvents(Provider, p) \/ p \in turnedAway]_vars

\* The commitments of a proof whose merkleroots the provider does not have are
\* neither queued nor added, whichever of submission, forwarding, poll and push
\* syncer brought it.
OnlyValidProofsGetEvents ==
    \A p \in Proof \ Valid : Commitments[p] \intersect (queue \union events[Provider]) = {}

\* A proof that a node has stored gets its events in the end, though the
\* message that forwards it is lost, a node restarts or a call rejects, unless
\* the provider refuses it.
StoredProofGetsEvents ==
    \A n \in Node, p \in Valid :
        p \in rows[n] ~> (HasAllEvents(Provider, p) \/ p \in turnedAway)

\* The push syncer's header: "If the proof exists in the list and in the mempool,
\* they are removed from the mempool."
AddedProofIsPruned ==
    \A n \in Node, p \in Proof : <>[](HasAllEvents(n, p) => p \notin rows[n] \/ n \in dead)
=============================================================================
