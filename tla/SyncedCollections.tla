--------------------------- MODULE SyncedCollections ---------------------------
(***************************************************************************)
(* What the nodes of one list gather without an order: the shields that    *)
(* the list provider has blocked and the proofs of legacy transactions.    *)
(* Either is a collection and a cache beside it; each node polls its peers *)
(* in turn and asks one whose cache is larger than its own for what its    *)
(* own cache has not.  Proofs of legacy transactions and of single         *)
(* commitments get an event from the provider; only the former are stored. *)
(*                                                                         *)
(* A task is the poller of a node, a client's request or, at the provider, *)
(* a request that another node has forwarded.                              *)
(***************************************************************************)
EXTENDS Integers, Sequences, FiniteSets, FiniteSetsExt

CONSTANTS
    Node,          \* the nodes
    Provider,      \* the list provider among them
    Peers,         \* Peers[n]: its connected nodes, in the order of the poller
    Blocked,       \* the shields that the provider will block
    Legacy,        \* the proofs of legacy transactions
    Single,        \* the proofs of single commitments
    Late,          \* <<n, i>>: the transaction of proof i is not yet scanned by n
    SyncedItems,   \* PROOF_MEMPOOL_SYNCED_ITEMS
    SyncPeriod,    \* the 47 of the poller
    Restarting,    \* the nodes that restart
    Rejecting,     \* the awaits that may reject
    MaxSubmits,    \* bound: submissions
    MaxFaults      \* bound: rejected awaits, lost requests and restarts

Item == Blocked \union Legacy \union Single

ASSUME ConstantsAssumption ==
    /\ Provider \in Node /\ Restarting \subseteq Node
    /\ \A n \in Node : Peers[n] \in Seq(Node \ {n}) /\ Peers[n] # << >>
    /\ Blocked \intersect (Legacy \union Single) = {} /\ Legacy \intersect Single = {}
    /\ Late \subseteq Node \X (Legacy \union Single)
    /\ {SyncedItems, SyncPeriod} \subseteq Nat \ {0}
    /\ Rejecting \subseteq {"status", "request", "exists", "insert", "list", "push"}
    /\ {MaxSubmits, MaxFaults} \subseteq Nat

VARIABLES
    rows,        \* rows[n]: the items in the collections of n
    cache,       \* cache[n]: those in its caches
    unscanned,   \* the pairs of Late whose transaction is not scanned yet
    queue,       \* the proofs in the provider's event queue
    events,      \* the proofs with an event
    pushed,      \* the proofs on their way to the provider
    task,        \* task[<<n, k>>]: what the task k of n is doing
    turn,        \* currentNodeIndex of each poller
    syncCount,   \* syncCount of each poller, modulo SyncPeriod
    restarted,   \* history: the nodes that have restarted
    submits, faults

stored == <<rows, cache>>
list == <<queue, events>>
poller == <<turn, syncCount>>
bounds == <<submits, faults>>
vars == <<stored, unscanned, list, pushed, task, poller, restarted, bounds>>

Task == Node \X {"poll", "client"} \union {<<Provider, "push">>}
At(t, pc) == task[t].pc = pc
Goto(t, r) == task' = [task EXCEPT ![t] = r]
GotoPc(t, pc) == task' = [task EXCEPT ![t].pc = pc]

\* What is left of a task that is at no await of an item: the sections to come
\* of a poll, each with the peer and its count, and the rest of an answer.
Left(sections, rest) == [pc |-> "left", sections |-> sections, rest |-> rest]
Idle == Left(<< >>, {})
\* An item at an await; "then" follows its end.
Call(pc, i, then) == [pc |-> pc, item |-> i, then |-> then]

Init ==
    /\ rows = [n \in Node |-> {}] /\ cache = rows
    /\ unscanned = Late
    /\ queue = {} /\ events = {} /\ pushed = {}
    /\ task = [t \in Task |-> Idle]
    /\ turn = [n \in Node |-> 1] /\ syncCount = [n \in Node |-> 0]
    /\ restarted = {} /\ submits = 0 /\ faults = 0

Fault == faults < MaxFaults /\ faults' = faults + 1 /\ UNCHANGED submits

AddToCache(n, i) == cache' = [cache EXCEPT ![n] = @ \union {i}]
InsertRow(n, i) == rows' = [rows EXCEPT ![n] = @ \union {i}]

\* addBlockedShield: the cache is left alone.
AddBlockedShield(b) ==
    /\ b \in Blocked \ rows[Provider]
    /\ InsertRow(Provider, b)
    /\ UNCHANGED <<cache, unscanned, list, pushed, task, poller, restarted, bounds>>

\* The engine comes to the transaction of a proof.
ScanTransaction(n, i) ==
    /\ <<n, i>> \in unscanned
    /\ unscanned' = unscanned \ {<<n, i>>}
    /\ UNCHANGED <<stored, list, pushed, task, poller, restarted, bounds>>

\* shouldAdd: its reads are one step, nothing that they read is taken back.
ShouldAddBlockedShield(n, i) == i \in Blocked /\ i \notin rows[n]
ShouldAddLegacyProof(n, i) == i \in Legacy /\ i \notin rows[n] /\ <<n, i>> \notin unscanned

Entered(n, i, then) ==
    IF ShouldAddBlockedShield(n, i) \/ ShouldAddLegacyProof(n, i)
    THEN Call("insert", i, then)
    ELSE then

(***************************************************************************)
(* A poll, from the status of the peer to the end.                         *)
(***************************************************************************)
\* The caches of m are counted; a poll whose syncCount is a multiple of
\* SyncPeriod leaves legacy proofs out.
Cached(n, items) == cache[n] \intersect items
Section(m, items) == [peer |-> m, items |-> items, count |-> Cardinality(Cached(m, items))]
Sections(n, m) ==
    IF syncCount[n] = 0
    THEN <<Section(m, Blocked)>>
    ELSE <<Section(m, Blocked), Section(m, Legacy)>>

IncrementedNodeIndex(n) == 1 + (turn[n] % Len(Peers[n]))

\* The poller goes on to the next peer when the poll has ended, which makes no
\* difference: it has read both counters before.
GetNodeStatus(n) ==
    LET t == <<n, "poll">>
        peer == Peers[n][turn[n]]
    IN  /\ task[t] = Idle
        /\ turn' = [turn EXCEPT ![n] = IncrementedNodeIndex(n)]
        /\ syncCount' = [syncCount EXCEPT ![n] = (@ + 1) % SyncPeriod]
        /\ \/ Goto(t, Left(Sections(n, peer), {})) /\ UNCHANGED bounds
           \/ "status" \in Rejecting /\ Fault /\ UNCHANGED task
        /\ UNCHANGED <<stored, unscanned, list, pushed, restarted>>

\* Mutant: the filter keeps what it finds.
GetFilteredFound(items, found) ==
    {s \in SUBSET (items \intersect found) : Cardinality(s) <= SyncedItems}

\* getFilteredBlockedShields, getFilteredProofs: the first SyncedItems of the
\* items of the peer that the filter of the sender does not find.
GetFiltered(items, found) ==
    LET missing == items \ found
    IN  {s \in SUBSET missing : Cardinality(s) = Min({SyncedItems, Cardinality(missing)})}

\* Mutant: a difference of one is left for later.
IsLargerByTwo(count, own) == count > Cardinality(own) + 1
\* The peer must have more than the cache: otherwise the section is skipped.
IsLarger(count, own) == count > Cardinality(own)

\* updateBlockedShields and then updateLegacyTransactProofMempool, up to the answer.
UpdateSection(n) ==
    LET t == <<n, "poll">>
        section == Head(task[t].sections)
        own == Cached(n, section.items)
        Continue(answer) == Goto(t, Left(Tail(task[t].sections), answer))
    IN  /\ At(t, "left") /\ task[t].rest = {} /\ task[t].sections # << >>
        /\ \/ /\ IsLarger(section.count, own)
              /\ \E answer \in GetFiltered(Cached(section.peer, section.items), own) :
                     Continue(answer)
              /\ UNCHANGED bounds
           \/ ~IsLarger(section.count, own) /\ Continue({}) /\ UNCHANGED bounds
           \/ "request" \in Rejecting /\ Continue({}) /\ Fault
        /\ UNCHANGED <<stored, unscanned, list, pushed, poller, restarted>>

\* The next item of the answer, up to its insertion.
NextItem(n) ==
    LET t == <<n, "poll">>
    IN  /\ At(t, "left")
        /\ \E i \in task[t].rest :
               LET left == Left(task[t].sections, task[t].rest \ {i})
               IN  \/ Goto(t, Entered(n, i, left)) /\ UNCHANGED bounds
                   \/ "exists" \in Rejecting /\ Goto(t, left) /\ Fault
        /\ UNCHANGED <<stored, unscanned, list, pushed, poller, restarted>>

(***************************************************************************)
(* An item: addSignedBlockedShield, submitLegacyProof.                     *)
(***************************************************************************)
\* A node that is not the provider forwards a client's proof (and does not wait).
PushedBy(t) == IF t[2] = "client" /\ t[1] # Provider THEN pushed \union {task[t].item} ELSE pushed

\* The row, then the cache; the provider goes on with the list.
Insert(t) ==
    LET n == t[1]
        i == task[t].item
    IN  /\ At(t, "insert")
        /\ InsertRow(n, i)
        /\ AddToCache(n, i)
        /\ pushed' = PushedBy(t)
        /\ IF n = Provider /\ i \in Legacy THEN GotoPc(t, "list") ELSE Goto(t, task[t].then)
        /\ UNCHANGED <<unscanned, list, poller, restarted, bounds>>

QueueUnsignedPOILegacyTransactEvent(i) == queue' = queue \union {i}

TryAddToList(t) ==
    LET i == task[t].item
    IN  /\ At(t, "list")
        /\ IF i \in events THEN UNCHANGED queue ELSE QueueUnsignedPOILegacyTransactEvent(i)
        /\ Goto(t, task[t].then)
        /\ UNCHANGED <<stored, unscanned, events, pushed, poller, restarted, bounds>>

(***************************************************************************)
(* Clients and forwarded requests.                                         *)
(***************************************************************************)
QueueUnsignedPOISingleCommitmentEvent(i) == queue' = queue \union {i}

\* tryAddToList of a single commitment: it is queued, or the client gets an error.
AddSingleCommitment(i) ==
    IF <<Provider, i>> \in unscanned THEN UNCHANGED queue ELSE QueueUnsignedPOISingleCommitmentEvent(i)

PushSingleCommitment(i) == pushed' = pushed \union {i}

SubmitLegacyTransactProof(n) ==
    LET t == <<n, "client">>
    IN  /\ task[t] = Idle
        /\ submits < MaxSubmits /\ submits' = submits + 1
        /\ \E i \in Legacy : Goto(t, Entered(n, i, Idle))
        /\ UNCHANGED <<stored, unscanned, list, pushed, poller, restarted, faults>>

\* A node that is not the provider keeps nothing of it.
SubmitSingleCommitmentProof(n) ==
    /\ submits < MaxSubmits /\ submits' = submits + 1
    /\ \E i \in Single :
           \/ n = Provider /\ AddSingleCommitment(i) /\ UNCHANGED pushed
           \/ n # Provider /\ PushSingleCommitment(i) /\ UNCHANGED queue
    /\ UNCHANGED <<stored, unscanned, events, task, poller, restarted, faults>>

\* The provider starts on a forwarded request, or the request gets lost.
ReceivePush(i) ==
    LET t == <<Provider, "push">>
    IN  /\ i \in pushed /\ pushed' = pushed \ {i}
        /\ \/ /\ i \in Legacy /\ task[t] = Idle
              /\ Goto(t, Entered(Provider, i, Idle))
              /\ UNCHANGED <<queue, bounds>>
           \/ i \in Single /\ AddSingleCommitment(i) /\ UNCHANGED <<task, bounds>>
           \/ "push" \in Rejecting /\ Fault /\ UNCHANGED <<task, queue>>
        /\ UNCHANGED <<stored, unscanned, events, poller, restarted>>

\* The event queue adds an event for a proof (POIEventQueue).
AddEvent(i) ==
    /\ i \in queue
    /\ queue' = queue \ {i}
    /\ events' = events \union {i}
    /\ UNCHANGED <<stored, unscanned, pushed, task, poller, restarted, bounds>>

(***************************************************************************)
(* Failures.                                                               *)
(***************************************************************************)
\* Mutant: the cache is filled before the insertion is awaited.
FailCached(t) ==
    /\ task[t].pc \in Rejecting \intersect {"insert", "list"} /\ Fault
    /\ Goto(t, task[t].then)
    /\ IF At(t, "insert")
       THEN AddToCache(t[1], task[t].item) /\ (InsertRow(t[1], task[t].item) \/ UNCHANGED rows)
       ELSE UNCHANGED stored
    /\ UNCHANGED <<unscanned, list, pushed, poller, restarted>>

\* An await rejects: the poll goes on with the next item, a request
\* ends.  An insertion that rejects may have reached the collection.
Fail(t) ==
    /\ task[t].pc \in Rejecting \intersect {"insert", "list"} /\ Fault
    /\ Goto(t, task[t].then)
    /\ (At(t, "insert") /\ InsertRow(t[1], task[t].item)) \/ UNCHANGED rows
    /\ UNCHANGED <<cache, unscanned, list, pushed, poller, restarted>>

RefilledCache(n) == rows[n]
\* Mutant: a restart only fills the caches.
NotQueued(n) == IF n = Provider THEN {} ELSE queue
\* inflateCacheFromDatabase queues the stored legacy proofs without an event.
Requeued(n) == IF n = Provider THEN (rows[n] \intersect Legacy) \ events ELSE queue

\* A node dies and starts again: nothing of it runs before both caches are full.
Restart(n) ==
    /\ n \in Restarting /\ Fault
    /\ cache' = [cache EXCEPT ![n] = RefilledCache(n)]
    /\ queue' = Requeued(n)
    /\ task' = [t \in Task |-> IF t[1] = n THEN Idle ELSE task[t]]
    /\ turn' = [turn EXCEPT ![n] = 1] /\ syncCount' = [syncCount EXCEPT ![n] = 0]
    /\ restarted' = restarted \union {n}
    /\ UNCHANGED <<rows, unscanned, events, pushed>>

PollStep(n) ==
    GetNodeStatus(n) \/ UpdateSection(n) \/ NextItem(n)

TaskStep(t) == Insert(t) \/ TryAddToList(t)

\* What is under way beside the pollers: there is only so much of it.
RequestStep ==
    \/ \E t \in Task : t[2] # "poll" /\ TaskStep(t)
    \/ \E i \in Item : ReceivePush(i) \/ AddEvent(i) \/ \E n \in Node : ScanTransaction(n, i)

Next ==
    \/ \E n \in Node :
           \/ PollStep(n) \/ TaskStep(<<n, "poll">>) \/ Restart(n)
           \/ SubmitLegacyTransactProof(n) \/ SubmitSingleCommitmentProof(n)
    \/ RequestStep
    \/ \E t \in Task : Fail(t)
    \/ \E b \in Blocked : AddBlockedShield(b)

Spec == Init /\ [][Next]_vars

\* An await that was started settles, the pollers and the event queue go on, and
\* the engine scans what there is.
Fairness ==
    /\ \A n \in Node : WF_vars(PollStep(n) \/ TaskStep(<<n, "poll">>))
    /\ WF_vars(RequestStep)

FairSpec == Spec /\ Fairness

-----------------------------------------------------------------------------

TypeOK ==
    /\ rows \in [Node -> SUBSET Item] /\ cache \in [Node -> SUBSET Item]
    /\ unscanned \subseteq Late
    /\ queue \subseteq Legacy \union Single /\ events \subseteq Legacy \union Single
    /\ pushed \subseteq Legacy \union Single
    /\ DOMAIN task = Task
    /\ \A t \in Task : "rest" \in DOMAIN task[t] => task[t].rest \subseteq Item
    /\ \A t \in Task : "item" \in DOMAIN task[t] => task[t].item \in Item \ Single
    /\ turn \in [Node -> Nat] /\ \A n \in Node : turn[n] \in DOMAIN Peers[n]
    /\ syncCount \in [Node -> 0 .. SyncPeriod - 1]
    /\ restarted \subseteq Restarting
    /\ submits \in 0 .. MaxSubmits /\ faults \in 0 .. MaxFaults

\* A node only offers what it would still have after a restart, though an
\* insertion may fail after it has reached the collection or before: what a
\* status counts and an answer contains does not shrink.
OfferedIsStored == \A n \in Node : cache[n] \subseteq rows[n]

\* A blocked shield that the provider offers reaches every node, whatever is
\* rejected, lost or restarted on the way.
BlockedShieldSpreads ==
    \A b \in Blocked, n \in Node \ {Provider} : b \in cache[Provider] ~> b \in rows[n]

\* Two nodes that poll each other end with the same legacy proofs, or with
\* equally many of them in their caches: then neither asks the other.
LegacyProofsSpread ==
    LET Proofs(n) == rows[n] \intersect Legacy
        Count(n) == Cardinality(Cached(n, Legacy))
    IN  <>[](\A m, n \in Node : Proofs(m) = Proofs(n) \/ Count(m) = Count(n))

\* A legacy proof that the provider has stored and cached, by whichever way it
\* came, gets its event, though the provider dies before it has queued it or
\* with its queue; so does a single commitment, unless the provider dies.
AcceptedProofGetsEvent ==
    \A i \in Legacy \union Single :
        i \in queue \union (cache[Provider] \intersect Legacy)
            ~> (i \in events \/ (i \in Single /\ Provider \in restarted))
=============================================================================
