----------------------------- MODULE POIEventQueue -----------------------------
(*****************************************************************************)
(* The list provider's own POI list: the queue of unsigned events, the       *)
(* addPOIEventsFromQueue executions that sign them and append them to the    *)
(* merkletree and to the ordered events, and the round-robin syncer, which   *)
(* refills the same list from the other nodes when they hold more of it.     *)
(*                                                                           *)
(* Node runs one callback at a time, so a step is what the code does between *)
(* two awaits; the awaited database call takes effect in the step it ends.   *)
(* One (listKey, network, txidVersion) is modelled: nothing is shared        *)
(* between two of them.  The merkletree is one tree (TREE_MAX_ITEMS is out   *)
(* of reach here); a merkleroot is identified by the leaves it commits to.   *)
(*****************************************************************************)
EXTENDS IndexedList, Sequences

CONSTANTS
  Commitment,       \* blinded commitments
  Shield,           \* those that come from shields
  Job,              \* executions of addPOIEventsFromQueue, current or to come
  Syncer,           \* the round-robin syncer of the provider's own list
  None,             \* no key, no event
  FailingStep,      \* steps whose awaited call may reject
  MaxFailures,      \* bound on rejected calls
  MaxCrashes,       \* bound on crashes of the process
  DatabaseLoss,     \* subset of BOOLEAN: may a crash take the database along?
  PeersAnswer       \* subset of BOOLEAN: do the peers answer at startup?

Adder == Job \cup {Syncer}

ASSUME ConstantsAssumption ==
  /\ Shield \subseteq Commitment
  /\ Syncer \notin Job
  /\ None \notin Adder
  /\ MaxFailures \in Nat /\ MaxCrashes \in Nat
  /\ DatabaseLoss \subseteq BOOLEAN /\ PeersAnswer \subseteq BOOLEAN

VARIABLES
  \* MongoDB of the provider
  leaves,        \* level-0 nodes of the merkletree: index -> commitment
  roots,         \* indices that have a historical merkleroot
  events,        \* ordered events: index -> commitment
  shieldsAdded,  \* shields whose status is AddedPOI
  \* memory of the provider's process
  phase,         \* progress of ProofOfInnocenceNode.start
  queue,         \* poiEventQueue
  addingKey,     \* addingPOIEventKey: the execution whose key it is
  minNextAdd,    \* minimumNextAddIndex
  isUpdating,    \* POIMerkletree.isUpdating
  treeLength,    \* POIMerkletree.treeLengths, cached
  warm,          \* the latest length and leaf have been read into the cache
  pc,            \* the await each adder is suspended at
  cur,           \* the event each adder carries: [index, commitment]
  syncEnd,       \* endIndex of the range the syncer has fetched
  \* the other nodes
  peers,         \* the longest copy of the list on any of them
  \* bounds
  failures, crashes

database == <<leaves, roots, events, shieldsAdded>>
tree     == <<isUpdating, treeLength, warm>>
startup  == <<phase, minNextAdd>>
bounds   == <<failures, crashes>>
vars     == <<database, startup, queue, addingKey, tree, pc, cur, syncEnd,
              peers, bounds>>

Step == {"idle", "lastAdded", "exists", "sign", "tree", "nodes", "root",
         "event", "prune", "shield", "push"}

Event == [index : Nat, commitment : Commitment]

--------------------------------------------------------------------------------
(* Sequential pieces shared by the handlers.                                 *)

\* The adder a goes on to the await s with the event it carries.
Goto(a, s) == pc' = [pc EXCEPT ![a] = s] /\ UNCHANGED cur

Finish(a) ==
  /\ pc' = [pc EXCEPT ![a] = "idle"]
  /\ cur' = [cur EXCEPT ![a] = None]

\* Mutant: the catch block forgets the key.
ThrowKeepingKey(a) == Finish(a) /\ UNCHANGED addingKey

\* The catch blocks: the key is cleared if it is still the one of this execution.
Throw(a) ==
  /\ Finish(a)
  /\ addingKey' = IF addingKey = a THEN None ELSE addingKey

\* Mutant: an execution starts although another one holds the key.
AddPOIEventsIgnoringKey(q) ==
  IF q # <<>> /\ phase = "ready"
    THEN \E j \in Job :
           /\ pc[j] = "idle"
           /\ addingKey' = j
           /\ pc' = [pc EXCEPT ![j] = "lastAdded"]
    ELSE UNCHANGED <<addingKey, pc>>

\* The synchronous start of addPOIEventsFromQueue, on the queue q.
AddPOIEventsFromQueue(q) ==
  IF q # <<>> /\ addingKey = None /\ phase = "ready"
    THEN \E j \in Job :
           /\ pc[j] = "idle"
           /\ addingKey' = j
           /\ pc' = [pc EXCEPT ![j] = "lastAdded"]
    ELSE UNCHANGED <<addingKey, pc>>

\* The end of a handled item: the key is cleared and, unless the queue q is
\* empty, taken again for the next item in the same turn of the event loop.
ContinueWithQueue(j, q) ==
  /\ cur' = [cur EXCEPT ![j] = None]
  /\ IF q # <<>>
       THEN pc' = [pc EXCEPT ![j] = "lastAdded"] /\ UNCHANGED addingKey
       ELSE pc' = [pc EXCEPT ![j] = "idle"] /\ addingKey' = None

--------------------------------------------------------------------------------
Init ==
  /\ leaves = Empty /\ roots = {} /\ events = Empty /\ shieldsAdded = {}
  /\ phase = "starting" /\ minNextAdd = 0
  /\ queue = <<>> /\ addingKey = None
  /\ isUpdating = FALSE /\ treeLength = 0 /\ warm = FALSE
  /\ pc = [a \in Adder |-> "idle"]
  /\ cur = [a \in Adder |-> None]
  /\ syncEnd = 0
  /\ peers = Empty
  /\ failures = 0 /\ crashes = 0

(* Starting the node. ********************************************************)

\* Mutant: the minimum is the peers' last index instead of their length.
ConnectedNodeStartupAtLastIndex ==
  /\ phase = "starting"
  /\ phase' = "connected"
  /\ minNextAdd' = IF NextIndex(peers) - 1 > minNextAdd
                     THEN NextIndex(peers) - 1 ELSE minNextAdd
  /\ UNCHANGED <<database, queue, addingKey, tree, pc, cur, syncEnd, peers,
                 bounds>>

\* ConnectedNodeStartup.start asks every peer for its list length before any
\* poller runs; an error is logged and the peer left out of the maximum.
ConnectedNodeStartup ==
  /\ phase = "starting"
  /\ phase' = "connected"
  /\ \E answered \in PeersAnswer :
       minNextAdd' = IF answered /\ NextIndex(peers) > minNextAdd
                       THEN NextIndex(peers) ELSE minNextAdd
  /\ UNCHANGED <<database, queue, addingKey, tree, pc, cur, syncEnd, peers,
                 bounds>>

\* The last statement of start.
MarkReady ==
  /\ phase = "connected"
  /\ phase' = "ready"
  /\ UNCHANGED <<database, minNextAdd, queue, addingKey, tree, pc, cur, syncEnd,
                 peers, bounds>>

(* The event queue. **********************************************************)

\* Mutant: a shield is marked AddedPOI when its event is queued.
QueuePOIEventMarkingShield(c) ==
  /\ phase # "starting"
  /\ LET q == IF c \in Entries(queue) THEN queue ELSE Append(queue, c)
     IN  queue' = q /\ AddPOIEventsFromQueue(q)
  /\ shieldsAdded' = shieldsAdded \cup ({c} \cap Shield)
  /\ UNCHANGED <<leaves, roots, events, startup, tree, cur, syncEnd, peers,
                 bounds>>

\* queuePOIEvent: a commitment already in the queue is not queued again, but
\* triggers the addition all the same.
QueuePOIEvent(c) ==
  /\ phase # "starting"
  /\ LET q == IF c \in Entries(queue) THEN queue ELSE Append(queue, c)
     IN  queue' = q /\ AddPOIEventsFromQueue(q)
  /\ UNCHANGED <<database, startup, tree, cur, syncEnd, peers, bounds>>

Poll ==
  /\ phase # "starting"
  /\ AddPOIEventsFromQueue(queue)
  /\ UNCHANGED <<database, startup, queue, tree, cur, syncEnd, peers, bounds>>

\* Mutant: the list length is not compared with the peers'.
ReadLastAddedUnchecked(j) ==
  /\ pc[j] = "lastAdded"
  /\ pc' = [pc EXCEPT ![j] = "exists"]
  /\ cur' = [cur EXCEPT ![j] = [index |-> NextIndex(events),
                                commitment |-> Head(queue)]]
  /\ UNCHANGED <<database, startup, queue, addingKey, tree, syncEnd, peers,
                 bounds>>

\* Mutant: the head is taken off the queue when it is read.
ReadLastAddedTakingHead(j) ==
  /\ pc[j] = "lastAdded"
  /\ IF NextIndex(events) < minNextAdd
       THEN Throw(j) /\ UNCHANGED queue
       ELSE /\ pc' = [pc EXCEPT ![j] = "exists"]
            /\ cur' = [cur EXCEPT ![j] = [index |-> NextIndex(events),
                                          commitment |-> Head(queue)]]
            /\ queue' = Tail(queue)
            /\ UNCHANGED addingKey
  /\ UNCHANGED <<database, startup, tree, syncEnd, peers, bounds>>

\* getLastAddedItem returns; the head of the queue is looked at.
ReadLastAdded(j) ==
  /\ pc[j] = "lastAdded"
  /\ IF NextIndex(events) < minNextAdd
       THEN Throw(j)
       ELSE /\ pc' = [pc EXCEPT ![j] = "exists"]
            /\ cur' = [cur EXCEPT ![j] = [index |-> NextIndex(events),
                                          commitment |-> Head(queue)]]
            /\ UNCHANGED addingKey
  /\ UNCHANGED <<database, startup, queue, tree, syncEnd, peers, bounds>>

\* Mutant: an event the list holds is added again.
CheckEventExistsNever(j) ==
  /\ pc[j] = "exists"
  /\ Goto(j, "sign")
  /\ UNCHANGED <<database, startup, queue, addingKey, tree, syncEnd, peers,
                 bounds>>

\* eventExists returns; an event the list holds is only dropped from the queue.
CheckEventExists(j) ==
  /\ pc[j] = "exists"
  /\ IF cur[j].commitment \in Entries(events)
       THEN queue' = Tail(queue) /\ ContinueWithQueue(j, Tail(queue))
       ELSE Goto(j, "sign") /\ UNCHANGED <<queue, addingKey>>
  /\ UNCHANGED <<database, startup, tree, syncEnd, peers, bounds>>

\* The signature is made; without an await in between, the key is compared and
\* insertLeaf tests and sets isUpdating.
SignEvent(j) ==
  /\ j \in Job /\ pc[j] = "sign"
  /\ IF addingKey # j
       THEN Finish(j) /\ UNCHANGED <<addingKey, isUpdating>>
       ELSE IF isUpdating
              THEN Throw(j) /\ UNCHANGED isUpdating
              ELSE isUpdating' = TRUE /\ Goto(j, "tree") /\ UNCHANGED addingKey
  /\ UNCHANGED <<database, startup, queue, treeLength, warm, syncEnd, peers,
                 bounds>>

(* Appending to the merkletree and to the ordered events; any adder. *********)

\* Mutant: the leaf of an interrupted insertion is taken for added.
VerdictSkippingLatestLeaf(a) ==
  LET e == cur[a]
      latestLeafIsSame ==
        treeLength > 0 /\ leaves[treeLength - 1] = e.commitment
      rootsAgree ==
        a = Syncer => Prefix(leaves, treeLength) = Prefix(peers, treeLength)
  IN  IF latestLeafIsSame THEN "skip"
      ELSE IF e.index = treeLength /\ rootsAgree THEN "insert" ELSE "reject"

\* What insertLeaf decides on the tree it finds.  The roots agree if the leaves
\* they commit to do; a queued event comes with no root to compare.
Verdict(a) ==
  LET e == cur[a]
      latestLeafIsSame ==
        treeLength > 0 /\ leaves[treeLength - 1] = e.commitment
      alreadyInTree ==
        e.index \in DOMAIN leaves /\ leaves[e.index] = e.commitment
      rootsAgree ==
        a = Syncer => Prefix(leaves, treeLength) = Prefix(peers, treeLength)
  IN  IF latestLeafIsSame THEN "reject"
      ELSE IF e.index # treeLength
             THEN IF alreadyInTree THEN "skip" ELSE "reject"
             ELSE IF rootsAgree THEN "insert" ELSE "reject"

CheckTree(a) ==
  /\ pc[a] = "tree"
  /\ warm' = TRUE
  /\ IF Verdict(a) = "insert"
       THEN Goto(a, "nodes") /\ UNCHANGED <<isUpdating, addingKey>>
       ELSE /\ isUpdating' = FALSE
            /\ IF Verdict(a) = "skip"
                 THEN Goto(a, "event") /\ UNCHANGED addingKey
                 ELSE Throw(a)
  /\ UNCHANGED <<database, startup, queue, treeLength, syncEnd, peers, bounds>>

\* updatePOIMerkletreeNodes returns; a leaf is only inserted, never replaced.
WriteNodes(a) ==
  /\ pc[a] = "nodes"
  /\ leaves' = Put(leaves, cur[a].index, cur[a].commitment)
  /\ Goto(a, "root")
  /\ UNCHANGED <<roots, events, shieldsAdded, startup, queue, addingKey, tree,
                 syncEnd, peers, bounds>>

\* insertMerkleroot returns; the cached length grows and the tree is released.
WriteMerkleroot(a) ==
  /\ pc[a] = "root"
  /\ roots' = roots \cup {cur[a].index}
  /\ treeLength' = treeLength + 1
  /\ isUpdating' = FALSE
  /\ Goto(a, "event")
  /\ UNCHANGED <<leaves, events, shieldsAdded, startup, queue, addingKey, warm,
                 syncEnd, peers, bounds>>

\* insertValidSignedPOIEvent returns.
InsertEvent(a) ==
  /\ pc[a] = "event"
  /\ events' = Put(events, cur[a].index, cur[a].commitment)
  /\ Goto(a, "prune")
  /\ UNCHANGED <<leaves, roots, shieldsAdded, startup, queue, addingKey, tree,
                 syncEnd, peers, bounds>>

(* The rest of the queue's item. *********************************************)

\* The mempool pruner returns; the head of the queue is removed.
RemoveFromQueue(j) ==
  /\ j \in Job /\ pc[j] = "prune"
  /\ queue' = Tail(queue)
  /\ Goto(j, IF cur[j].commitment \in Shield THEN "shield" ELSE "push")
  /\ UNCHANGED <<database, startup, addingKey, tree, syncEnd, peers, bounds>>

\* updateShieldStatus(AddedPOI) returns.
MarkShieldAdded(j) ==
  /\ pc[j] = "shield"
  /\ shieldsAdded' = shieldsAdded \cup {cur[j].commitment}
  /\ Goto(j, "push")
  /\ UNCHANGED <<leaves, roots, events, startup, queue, addingKey, tree, syncEnd,
                 peers, bounds>>

\* The event is pushed with its historical merkleroot.  Errors of a push are
\* swallowed; a peer takes only the event its own tree expects next.
PushEvent(j) ==
  /\ pc[j] = "push"
  /\ LET e == cur[j]
         accepted == e.index \in roots /\ e.index = NextIndex(peers)
     IN  \E delivered \in BOOLEAN :
           peers' = IF accepted /\ delivered
                      THEN Put(peers, e.index, e.commitment) ELSE peers
  /\ ContinueWithQueue(j, queue)
  /\ UNCHANGED <<database, startup, queue, tree, syncEnd, bounds>>

(* The syncer of the provider's own list. ************************************)

\* Mutant: a peer that is one event ahead is not synced with.
FetchEventRangeFromTwoAhead ==
  /\ phase # "starting"
  /\ pc[Syncer] = "idle"
  /\ NextIndex(events) + 1 < NextIndex(peers)
  /\ syncEnd' = NextIndex(peers) - 1
  /\ cur' = [cur EXCEPT ![Syncer] =
               [index |-> NextIndex(events),
                commitment |-> peers[NextIndex(events)]]]
  /\ pc' = [pc EXCEPT ![Syncer] = "sign"]
  /\ UNCHANGED <<database, startup, queue, addingKey, tree, peers, bounds>>

\* updatePOIEventList: nothing to do unless a peer's list is longer.  (The
\* provider's indices have no gaps, so there are no missing indices to fetch.)
FetchEventRange ==
  /\ phase # "starting"
  /\ pc[Syncer] = "idle"
  /\ NextIndex(events) < NextIndex(peers)
  /\ syncEnd' = NextIndex(peers) - 1
  /\ cur' = [cur EXCEPT ![Syncer] =
               [index |-> NextIndex(events),
                commitment |-> peers[NextIndex(events)]]]
  /\ pc' = [pc EXCEPT ![Syncer] = "sign"]
  /\ UNCHANGED <<database, startup, queue, addingKey, tree, peers, bounds>>

\* verifyPOIEvent returns and insertLeaf tests and sets isUpdating.
VerifyEvent ==
  /\ pc[Syncer] = "sign"
  /\ IF isUpdating
       THEN Throw(Syncer) /\ UNCHANGED isUpdating
       ELSE isUpdating' = TRUE /\ Goto(Syncer, "tree") /\ UNCHANGED addingKey
  /\ UNCHANGED <<database, startup, queue, treeLength, warm, syncEnd, peers,
                 bounds>>

\* The next event of the fetched range, or the end of the poll.
NextInRange ==
  /\ pc[Syncer] = "prune"
  /\ LET i == cur[Syncer].index + 1
     IN  IF i <= syncEnd
           THEN /\ cur' = [cur EXCEPT ![Syncer] = [index |-> i,
                                                   commitment |-> peers[i]]]
                /\ pc' = [pc EXCEPT ![Syncer] = "sign"]
           ELSE Finish(Syncer)
  /\ UNCHANGED <<database, startup, queue, addingKey, tree, syncEnd, peers,
                 bounds>>

(* The other nodes. **********************************************************)

\* A peer's own round-robin syncer takes the next event from the provider.
PeerPull ==
  /\ phase # "starting"
  /\ LET i == NextIndex(peers)
     IN  /\ i \in DOMAIN events \cap roots
         /\ peers' = Put(peers, i, events[i])
  /\ UNCHANGED <<database, startup, queue, addingKey, tree, pc, cur, syncEnd,
                 bounds>>

(* Failures. *****************************************************************)

\* An awaited call outside insertLeaf rejects.
FailCall(a) ==
  /\ pc[a] \in FailingStep \ {"idle", "tree", "nodes", "root"}
  /\ failures < MaxFailures
  /\ failures' = failures + 1
  /\ Throw(a)
  /\ UNCHANGED <<database, startup, queue, tree, syncEnd, peers, crashes>>

\* insertLeaf reads the length and the latest leaf before its try block: a
\* rejected read leaves isUpdating set.  Only uncached values are read.
FailTreeRead(a) ==
  /\ pc[a] = "tree" /\ "tree" \in FailingStep /\ ~warm
  /\ failures < MaxFailures
  /\ failures' = failures + 1
  /\ Throw(a)
  /\ UNCHANGED <<database, startup, queue, tree, syncEnd, peers, crashes>>

\* Writing the nodes, one call per node, fails after or before the leaf is
\* stored; or storing the merkleroot fails.  insertLeaf releases the tree.
FailTreeWrite(a) ==
  /\ pc[a] \in {"nodes", "root"} \cap FailingStep
  /\ failures < MaxFailures
  /\ failures' = failures + 1
  /\ leaves' \in {leaves, Put(leaves, cur[a].index, cur[a].commitment)}
  /\ isUpdating' = FALSE
  /\ Throw(a)
  /\ UNCHANGED <<roots, events, shieldsAdded, startup, queue, treeLength, warm,
                 syncEnd, peers, crashes>>

\* The process dies and starts again, possibly on an empty database.
Crash ==
  /\ crashes < MaxCrashes
  /\ crashes' = crashes + 1
  /\ \E lost \in DatabaseLoss :
       IF lost
         THEN /\ leaves' = Empty /\ roots' = {} /\ events' = Empty
              /\ shieldsAdded' = {}
              /\ treeLength' = 0
         ELSE UNCHANGED database /\ treeLength' = NextIndex(leaves)
  /\ phase' = "starting" /\ minNextAdd' = 0
  /\ queue' = <<>> /\ addingKey' = None
  /\ isUpdating' = FALSE /\ warm' = FALSE
  /\ pc' = [a \in Adder |-> "idle"] /\ cur' = [a \in Adder |-> None]
  /\ syncEnd' = 0
  /\ UNCHANGED <<peers, failures>>

--------------------------------------------------------------------------------
InsertStep(a) ==
  CheckTree(a) \/ WriteNodes(a) \/ WriteMerkleroot(a) \/ InsertEvent(a)

JobStep(j) ==
  \/ ReadLastAdded(j) \/ CheckEventExists(j) \/ SignEvent(j)
  \/ InsertStep(j)
  \/ RemoveFromQueue(j) \/ MarkShieldAdded(j) \/ PushEvent(j)

SyncStep == FetchEventRange \/ VerifyEvent \/ InsertStep(Syncer) \/ NextInRange

Failure == \E a \in Adder : FailCall(a) \/ FailTreeRead(a) \/ FailTreeWrite(a)

Next ==
  \/ ConnectedNodeStartup \/ MarkReady
  \/ \E c \in Commitment : QueuePOIEvent(c)
  \/ Poll
  \/ \E j \in Job : JobStep(j)
  \/ SyncStep
  \/ PeerPull
  \/ Failure
  \/ Crash

Spec == Init /\ [][Next]_vars

\* The event loop runs every continuation, the pollers always reschedule
\* themselves, and start runs to its end.
FairSpec ==
  /\ Spec
  /\ WF_vars(ConnectedNodeStartup) /\ WF_vars(MarkReady)
  /\ WF_vars(Poll)
  /\ \A j \in Job : WF_vars(JobStep(j))
  /\ WF_vars(SyncStep)

--------------------------------------------------------------------------------
(* Properties.                                                               *)

TypeOK ==
  /\ leaves \in [DOMAIN leaves -> Commitment] /\ DOMAIN leaves \subseteq Nat
  /\ roots \subseteq Nat
  /\ events \in [DOMAIN events -> Commitment] /\ DOMAIN events \subseteq Nat
  /\ shieldsAdded \subseteq Shield
  /\ phase \in {"starting", "connected", "ready"} /\ minNextAdd \in Nat
  /\ queue \in Seq(Commitment)
  /\ addingKey \in Job \cup {None}
  /\ isUpdating \in BOOLEAN /\ treeLength \in Nat /\ warm \in BOOLEAN
  /\ pc \in [Adder -> Step]
  /\ cur \in [Adder -> Event \cup {None}]
  /\ syncEnd \in Int
  /\ peers \in [DOMAIN peers -> Commitment] /\ DOMAIN peers \subseteq Nat
  /\ failures \in 0 .. MaxFailures /\ crashes \in 0 .. MaxCrashes

\* The events are one gapless list that the tree commits to: every stored event
\* is the leaf at its index and has its merkleroot, and the tree is ahead of the
\* events by at most the leaf being added, whatever fails or crashes in between.
EventsFollowTree ==
  /\ Contiguous(events) /\ Contiguous(leaves)
  /\ NextIndex(leaves) - NextIndex(events) \in {0, 1}
  /\ \A i \in DOMAIN events : events[i] = leaves[i] /\ i \in roots

\* No blinded commitment is added to the list twice, although the database no
\* longer enforces it and the queue forgets what it has handled.
NoDuplicateEvents ==
  \A i, k \in DOMAIN events : events[i] = events[k] => i = k

\* What another node received at an index is what the provider's list says
\* there: the provider never signs a second event for a published index, even
\* after it lost its database.
AgreesWithPeers ==
  \A i \in DOMAIN peers \cap DOMAIN events : peers[i] = events[i]

InTree(a) == pc[a] \in {"tree", "nodes", "root"}

\* Only one execution handles the queue, and only one adder is inside the tree.
OneAdderAtATime ==
  /\ \A j \in Job : pc[j] # "idle" => addingKey = j
  /\ \A a, b \in Adder : InTree(a) /\ InTree(b) => a = b

\* A shield is marked AddedPOI only if the list has its event.
AddedShieldsHaveEvents == shieldsAdded \subseteq Entries(events)

\* While the process lives, an event leaves the queue only once it is in the
\* list: no failure drops a queued event.
NoQueuedEventDropped ==
  [][\A c \in Entries(queue) \ Entries(queue') :
       c \in Entries(events) \/ crashes' > crashes]_vars

\* "Event already exists in tree" (poi-merkletree.ts:241): an event whose leaf is
\* at its own index is skipped by insertLeaf, not refused, so that adding it
\* again is harmless.
ExistingLeafIsSkipped ==
  [][\A a \in Adder :
       /\ pc[a] = "tree" /\ cur[a].index \in DOMAIN leaves
       /\ leaves[cur[a].index] = cur[a].commitment
       /\ failures' = failures /\ crashes' = crashes
       => pc'[a] # "idle"]_vars

\* The provider's list, completed by what the peers hold beyond it.
List == [i \in DOMAIN events \cup DOMAIN peers |->
           IF i \in DOMAIN peers THEN peers[i] ELSE events[i]]

Abstract == INSTANCE POIList
              WITH list <- List, published <- NextIndex(peers)

\* The queue, the tree, the syncer and the startup together keep one
\* append-only list whose published prefix is never revised.
ImplementsPOIList == Abstract!Spec
--------------------------------------------------------------------------------
\* Every queued event gets into the list, unless a crash empties the queue.
QueuedEventIsAdded ==
  \A c \in Commitment :
    c \in Entries(queue) /\ crashes = 0 ~> c \in Entries(events) \/ crashes > 0

\* A provider that restarts behind its peers catches up with them.
ProviderCatchesUp ==
  NextIndex(events) < NextIndex(peers) ~> NextIndex(events) >= NextIndex(peers)
--------------------------------------------------------------------------------
(* The inductive invariant behind the safety properties, for nodes whose     *)
(* peers answer at startup.  The index minNextAdd separates the two adders:  *)
(* below it the list is the peers' and only the syncer adds, from it on only *)
(* the queue does.                                                           *)

NoDuplicatePeerEvents ==
  \A i, k \in DOMAIN peers : peers[i] = peers[k] => i = k

\* A process that is starting runs no adder.
NothingRunsAtStart ==
  phase = "starting" =>
    /\ \A a \in Adder : pc[a] = "idle"
    /\ treeLength = NextIndex(leaves)

\* What the peers hold and the node does not is below minNextAdd.
PeersAheadOnlyBelowMinimum ==
  phase # "starting" =>
    \A i \in DOMAIN peers : i < minNextAdd \/ i \in DOMAIN events

KeyAndLock ==
  /\ \A j \in Job : pc[j] # "idle" => addingKey = j /\ phase = "ready"
  /\ \A a \in Adder : InTree(a) =>
       isUpdating /\ \A b \in Adder : InTree(b) => b = a
  /\ pc[Syncer] \in {"idle", "sign", "tree", "nodes", "root", "event", "prune"}

\* The event an adder carries, from the moment its index is chosen.
JobEvents ==
  \A j \in Job :
    /\ pc[j] = "lastAdded" => queue # <<>>
    /\ pc[j] \in {"exists", "sign", "tree", "nodes", "root", "event"} =>
         /\ cur[j] \in Event
         /\ cur[j].index = NextIndex(events) /\ cur[j].index >= minNextAdd
         /\ queue # <<>> /\ cur[j].commitment = Head(queue)
    /\ pc[j] \in {"sign", "tree", "nodes", "root", "event"} =>
         cur[j].commitment \notin Entries(events)
    /\ pc[j] \in {"prune", "shield", "push"} =>
         /\ cur[j] \in Event
         /\ cur[j].index \in DOMAIN events /\ cur[j].index >= minNextAdd
         /\ events[cur[j].index] = cur[j].commitment
    /\ pc[j] = "shield" => cur[j].commitment \in Shield
    /\ pc[j] = "prune" =>
         /\ queue # <<>> /\ cur[j].commitment = Head(queue)
         /\ NextIndex(leaves) = NextIndex(events)

SyncerEvents ==
  pc[Syncer] # "idle" =>
    /\ cur[Syncer] \in Event
    /\ cur[Syncer].index \in DOMAIN peers /\ cur[Syncer].index < minNextAdd
    /\ peers[cur[Syncer].index] = cur[Syncer].commitment
    /\ cur[Syncer].index <= NextIndex(events)
    /\ pc[Syncer] = "prune" => cur[Syncer].index < NextIndex(events)
    /\ syncEnd \in DOMAIN peers /\ syncEnd < minNextAdd

\* An adder inside the tree works at the end of it.
TreeEvents ==
  \A a \in Adder :
    /\ pc[a] \in {"nodes", "root"} =>
         cur[a].index = treeLength /\ treeLength = NextIndex(events)
    /\ pc[a] = "root" => NextIndex(leaves) = treeLength + 1
    /\ pc[a] = "event" =>
         /\ cur[a].index < treeLength /\ cur[a].index \in roots
         /\ leaves[cur[a].index] = cur[a].commitment

\* A leaf whose root was not stored belongs to the event that is tried next.
PendingLeaf ==
  /\ treeLength - NextIndex(events) \in {0, 1}
  /\ NextIndex(leaves) # treeLength =>
       /\ treeLength = NextIndex(events) /\ NextIndex(leaves) = treeLength + 1
       /\ treeLength < minNextAdd =>
            treeLength \in DOMAIN peers /\ leaves[treeLength] = peers[treeLength]
       /\ treeLength >= minNextAdd =>
            /\ queue # <<>> /\ leaves[treeLength] = Head(queue)
            /\ leaves[treeLength] \notin Entries(events)

IInv ==
  /\ TypeOK /\ Contiguous(peers) /\ NoDuplicatePeerEvents /\ NothingRunsAtStart
  /\ PeersAheadOnlyBelowMinimum /\ KeyAndLock /\ JobEvents /\ SyncerEvents
  /\ TreeEvents /\ PendingLeaf
  /\ EventsFollowTree /\ NoDuplicateEvents /\ AgreesWithPeers
  /\ AddedShieldsHaveEvents
================================================================================
