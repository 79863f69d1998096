------------------------- MODULE POIEventQueue_proofs -------------------------
(*****************************************************************************)
(* Proofs about POIEventQueue: the inductive invariant, one lemma for each   *)
(* action, then the safety properties that the runs check and the refinement *)
(* of the append-only list POIList.                                          *)
(*****************************************************************************)
EXTENDS POIEventQueue, IndexedList_proofs

USE ConstantsAssumption DEF ConstantsAssumption, Adder

--------------------------------------------------------------------------------
(* The shapes that IInv gives to the three lists.                            *)
LEMMA Shapes ==
  ASSUME IInv
  PROVE  /\ NextIndex(events) \in Nat /\ NextIndex(leaves) \in Nat
         /\ NextIndex(peers) \in Nat
         /\ DOMAIN events = 0 .. NextIndex(events) - 1
         /\ DOMAIN leaves = 0 .. NextIndex(leaves) - 1
         /\ DOMAIN peers = 0 .. NextIndex(peers) - 1
BY ContiguousFacts DEF IInv, TypeOK, EventsFollowTree

\* The empty database and process satisfy IInv.
LEMMA InitInv == Init => IInv
<1> SUFFICES ASSUME Init PROVE IInv
  OBVIOUS
<1> USE EmptyFacts DEF Init
<1>1. TypeOK
  <2>1. Empty \in [DOMAIN Empty -> Commitment] /\ DOMAIN Empty \subseteq Nat
    BY DEF Empty
  <2>2. <<>> \in Seq(Commitment)
    OBVIOUS
  <2>3. /\ leaves \in [DOMAIN leaves -> Commitment] /\ DOMAIN leaves \subseteq Nat
        /\ events \in [DOMAIN events -> Commitment] /\ DOMAIN events \subseteq Nat
        /\ peers \in [DOMAIN peers -> Commitment] /\ DOMAIN peers \subseteq Nat
    BY <2>1, Zenon
  <2>4. /\ pc \in [Adder -> Step]
        /\ cur \in [Adder -> Event \cup {None}]
    BY DEF Step
  <2>5. roots \subseteq Nat /\ shieldsAdded \subseteq Shield
    OBVIOUS
  <2>6. phase \in {"starting", "connected", "ready"} /\ minNextAdd \in Nat
    OBVIOUS
  <2>7. queue \in Seq(Commitment) /\ addingKey \in Job \cup {None}
    BY <2>2
  <2>8. isUpdating \in BOOLEAN /\ treeLength \in Nat /\ warm \in BOOLEAN
    OBVIOUS
  <2>9. syncEnd \in Int /\ failures \in 0 .. MaxFailures /\ crashes \in 0 .. MaxCrashes
    OBVIOUS
  <2>10. QED
    BY <2>2, <2>3, <2>4, <2>5, <2>6, <2>7, <2>8, <2>9, Zenon DEF TypeOK
<1>2. Contiguous(peers) /\ NoDuplicatePeerEvents /\ NothingRunsAtStart
  BY DEF NoDuplicatePeerEvents, NothingRunsAtStart
<1>3. PeersAheadOnlyBelowMinimum /\ KeyAndLock
  BY DEF PeersAheadOnlyBelowMinimum, KeyAndLock, InTree
<1>4. JobEvents /\ SyncerEvents /\ TreeEvents
  BY DEF JobEvents, SyncerEvents, TreeEvents
<1>5. PendingLeaf /\ EventsFollowTree
  BY DEF PendingLeaf, EventsFollowTree
<1>6. NoDuplicateEvents /\ AgreesWithPeers /\ AddedShieldsHaveEvents
  BY DEF NoDuplicateEvents, AgreesWithPeers, AddedShieldsHaveEvents
<1>7. QED
  BY <1>1, <1>2, <1>3, <1>4, <1>5, <1>6 DEF IInv

\* Asking the peers for their lengths keeps IInv: the minimum covers what they hold.
LEMMA StartupInv ==
  ASSUME IInv, PeersAnswer \subseteq {TRUE}, ConnectedNodeStartup
  PROVE  IInv'
<1> USE DEF IInv, ConnectedNodeStartup, database, tree, bounds
<1>0. /\ minNextAdd' \in Nat /\ minNextAdd' >= NextIndex(peers)
      /\ \A a \in Adder : pc[a] = "idle"
  <2> DEFINE Maximum(known) == IF known /\ NextIndex(peers) > minNextAdd
                                 THEN NextIndex(peers) ELSE minNextAdd
  <2>1. PICK answered \in PeersAnswer : minNextAdd' = Maximum(answered)
    OBVIOUS
  <2>2. minNextAdd' = Maximum(TRUE)
    BY <2>1
  <2>3. QED
    BY <2>2, Shapes DEF TypeOK, NothingRunsAtStart
<1>1. TypeOK'
  BY <1>0 DEF TypeOK
<1>2. Contiguous(peers)' /\ NoDuplicatePeerEvents' /\ NothingRunsAtStart'
  BY DEF NoDuplicatePeerEvents, NothingRunsAtStart
<1>3. PeersAheadOnlyBelowMinimum'
  BY <1>0, Shapes DEF PeersAheadOnlyBelowMinimum
<1>4. KeyAndLock' /\ JobEvents' /\ SyncerEvents' /\ TreeEvents'
  BY <1>0 DEF KeyAndLock, InTree, JobEvents, SyncerEvents, TreeEvents
<1>5. PendingLeaf'
  BY DEF PendingLeaf, NothingRunsAtStart
<1>6. EventsFollowTree' /\ NoDuplicateEvents' /\ AgreesWithPeers'
  BY DEF EventsFollowTree, NoDuplicateEvents, AgreesWithPeers
<1>7. AddedShieldsHaveEvents'
  BY DEF AddedShieldsHaveEvents
<1>8. QED
  BY <1>1, <1>2, <1>3, <1>4, <1>5, <1>6, <1>7

\* Setting ready, the last statement of start, keeps IInv.
LEMMA ReadyInv ==
  ASSUME IInv, MarkReady
  PROVE  IInv'
<1> USE DEF IInv, MarkReady, database, tree, bounds
<1>1. TypeOK'
  BY DEF TypeOK
<1>2. Contiguous(peers)' /\ NoDuplicatePeerEvents' /\ NothingRunsAtStart'
  BY DEF NoDuplicatePeerEvents, NothingRunsAtStart
<1>3. PeersAheadOnlyBelowMinimum' /\ KeyAndLock'
  BY DEF PeersAheadOnlyBelowMinimum, KeyAndLock, InTree
<1>4. JobEvents' /\ SyncerEvents' /\ TreeEvents'
  BY DEF JobEvents, SyncerEvents, TreeEvents
<1>5. PendingLeaf'
  BY DEF PendingLeaf
<1>6. EventsFollowTree' /\ NoDuplicateEvents' /\ AgreesWithPeers'
  BY DEF EventsFollowTree, NoDuplicateEvents, AgreesWithPeers
<1>7. AddedShieldsHaveEvents'
  BY DEF AddedShieldsHaveEvents
<1>8. QED
  BY <1>1, <1>2, <1>3, <1>4, <1>5, <1>6, <1>7

\* What starting an execution on a queue changes.
LEMMA AddFromQueueInv ==
  ASSUME IInv, NEW q \in Seq(Commitment), AddPOIEventsFromQueue(q),
         queue' = q, queue # <<>> => q # <<>> /\ Head(q) = Head(queue),
         UNCHANGED <<database, startup, tree, cur, syncEnd, peers, bounds>>
  PROVE  IInv'
<1> USE DEF IInv, database, startup, tree, bounds
<1>1. \/ UNCHANGED <<addingKey, pc>>
      \/ /\ q # <<>> /\ phase = "ready"
         /\ \A k \in Job : pc[k] = "idle"
         /\ \E j \in Job : addingKey' = j /\ pc' = [pc EXCEPT ![j] = "lastAdded"]
  BY DEF AddPOIEventsFromQueue, KeyAndLock
<1>2. TypeOK'
  BY <1>1 DEF TypeOK, Step
<1>3. Contiguous(peers)' /\ NoDuplicatePeerEvents' /\ NothingRunsAtStart'
  BY <1>1 DEF NoDuplicatePeerEvents, NothingRunsAtStart
<1>4. PeersAheadOnlyBelowMinimum'
  BY DEF PeersAheadOnlyBelowMinimum
<1>5. KeyAndLock'
  BY <1>1 DEF KeyAndLock, InTree, TypeOK
<1>6. JobEvents'
  BY <1>1 DEF JobEvents, TypeOK
<1>7. SyncerEvents' /\ TreeEvents'
  BY <1>1 DEF SyncerEvents, TreeEvents, TypeOK
<1>8. PendingLeaf'
  BY DEF PendingLeaf
<1>9. EventsFollowTree' /\ NoDuplicateEvents' /\ AgreesWithPeers'
  BY DEF EventsFollowTree, NoDuplicateEvents, AgreesWithPeers
<1>10. AddedShieldsHaveEvents'
  BY DEF AddedShieldsHaveEvents
<1>11. QED
  BY <1>2, <1>3, <1>4, <1>5, <1>6, <1>7, <1>8, <1>9, <1>10

\* queuePOIEvent keeps IInv: only the tail of the queue changes.
LEMMA QueueInv ==
  ASSUME IInv, NEW c \in Commitment, QueuePOIEvent(c)
  PROVE  IInv'
<1> DEFINE q == IF c \in Entries(queue) THEN queue ELSE Append(queue, c)
<1>1. q \in Seq(Commitment) /\ (queue # <<>> => q # <<>> /\ Head(q) = Head(queue))
  BY DEF IInv, TypeOK
<1>2. /\ queue' = q /\ AddPOIEventsFromQueue(q)
      /\ UNCHANGED <<database, startup, tree, cur, syncEnd, peers, bounds>>
  BY DEF QueuePOIEvent
<1> HIDE DEF q
<1>3. QED
  BY <1>1, <1>2, AddFromQueueInv

\* A poll keeps IInv, whether or not it starts an execution.
LEMMA PollInv ==
  ASSUME IInv, Poll
  PROVE  IInv'
BY AddFromQueueInv DEF Poll, IInv, TypeOK

--------------------------------------------------------------------------------
\* An execution that ends on an error, or an adder that throws, frees nothing
\* but itself: IInv does not depend on what an idle adder carried.
LEMMA ThrowInv ==
  ASSUME IInv, NEW a \in Adder, Throw(a), pc[a] # "idle",
         isUpdating' \in {isUpdating, FALSE},
         InTree(a) \/ isUpdating' = isUpdating,
         warm' \in BOOLEAN, failures' \in 0 .. MaxFailures,
         UNCHANGED <<database, startup, queue, treeLength, syncEnd, peers, crashes>>
  PROVE  IInv'
<1> USE DEF IInv, Throw, Finish, database, startup
<1>1. TypeOK'
  BY DEF TypeOK, Step
<1>2. Contiguous(peers)' /\ NoDuplicatePeerEvents' /\ NothingRunsAtStart'
  BY DEF NoDuplicatePeerEvents, NothingRunsAtStart, TypeOK
<1>3. PeersAheadOnlyBelowMinimum'
  BY DEF PeersAheadOnlyBelowMinimum
<1>4. KeyAndLock'
  BY DEF KeyAndLock, InTree, TypeOK
<1>5. JobEvents' /\ SyncerEvents' /\ TreeEvents'
  BY DEF JobEvents, SyncerEvents, TreeEvents, TypeOK
<1>6. PendingLeaf'
  BY DEF PendingLeaf
<1>7. EventsFollowTree' /\ NoDuplicateEvents' /\ AgreesWithPeers'
  BY DEF EventsFollowTree, NoDuplicateEvents, AgreesWithPeers
<1>8. AddedShieldsHaveEvents'
  BY DEF AddedShieldsHaveEvents
<1>9. QED
  BY <1>1, <1>2, <1>3, <1>4, <1>5, <1>6, <1>7, <1>8

\* Choosing the next index keeps IInv: it is at least the minimum.
LEMMA ReadLastAddedInv ==
  ASSUME IInv, NEW j \in Job, ReadLastAdded(j)
  PROVE  IInv'
<1> USE DEF IInv, ReadLastAdded
<1>1. CASE NextIndex(events) < minNextAdd
  <2>1. Throw(j) /\ UNCHANGED <<isUpdating, warm, failures>>
    BY <1>1 DEF tree, bounds
  <2>2. QED
    BY <2>1, ThrowInv DEF tree, bounds, TypeOK
<1>2. CASE NextIndex(events) >= minNextAdd
  <2> USE DEF database, startup, tree, bounds
  <2>1. /\ pc[j] = "lastAdded" /\ queue # <<>>
        /\ pc' = [pc EXCEPT ![j] = "exists"]
        /\ cur' = [cur EXCEPT ![j] = [index |-> NextIndex(events),
                                      commitment |-> Head(queue)]]
        /\ [index |-> NextIndex(events), commitment |-> Head(queue)] \in Event
        /\ UNCHANGED addingKey
    <3>1. pc[j] = "lastAdded" /\ queue # <<>> /\ queue \in Seq(Commitment)
      BY DEF TypeOK, JobEvents
    <3>2. [index |-> NextIndex(events), commitment |-> Head(queue)] \in Event
      BY <3>1, Shapes DEF Event
    <3>3. minNextAdd \in Nat /\ NextIndex(events) \in Nat
      BY Shapes DEF TypeOK
    <3>4. QED
      BY <1>2, <3>1, <3>2, <3>3
  <2>2. TypeOK'
    BY <2>1 DEF TypeOK, Step
  <2>3. Contiguous(peers)' /\ NoDuplicatePeerEvents' /\ NothingRunsAtStart'
    BY <2>1 DEF NoDuplicatePeerEvents, NothingRunsAtStart
  <2>4. PeersAheadOnlyBelowMinimum' /\ KeyAndLock'
    BY <2>1 DEF PeersAheadOnlyBelowMinimum, KeyAndLock, InTree, TypeOK
  <2>5. JobEvents'
    <3>1. \A k \in Job : k # j => pc[k] = "idle"
      BY <2>1 DEF KeyAndLock
    <3>2. QED
      BY <2>1, <3>1, <1>2 DEF JobEvents, TypeOK
  <2>6. SyncerEvents' /\ TreeEvents'
    BY <2>1 DEF SyncerEvents, TreeEvents, TypeOK
  <2>7. PendingLeaf'
    BY DEF PendingLeaf
  <2>8. EventsFollowTree' /\ NoDuplicateEvents' /\ AgreesWithPeers'
    BY DEF EventsFollowTree, NoDuplicateEvents, AgreesWithPeers
  <2>9. AddedShieldsHaveEvents'
    BY DEF AddedShieldsHaveEvents
  <2>10. QED
    BY <2>2, <2>3, <2>4, <2>5, <2>6, <2>7, <2>8, <2>9
<1>3. NextIndex(events) \in Nat /\ minNextAdd \in Nat
  BY Shapes DEF TypeOK
<1>4. QED
  BY <1>1, <1>2, <1>3

\* Going on after a handled item: the queue keeps its items or no leaf of the
\* queue's waits for its root.
LEMMA ContinueInv ==
  ASSUME IInv, NEW j \in Job, pc[j] \in {"exists", "push"},
         NEW q \in Seq(Commitment), queue' = q,
         q = queue \/ NextIndex(leaves) = treeLength \/ treeLength < minNextAdd,
         ContinueWithQueue(j, q),
         Contiguous(peers)', NoDuplicatePeerEvents', AgreesWithPeers',
         PeersAheadOnlyBelowMinimum',
         peers' \in [DOMAIN peers' -> Commitment], DOMAIN peers' \subseteq Nat,
         DOMAIN peers \subseteq DOMAIN peers',
         \A i \in DOMAIN peers : peers'[i] = peers[i],
         UNCHANGED <<database, startup, tree, syncEnd, bounds>>
  PROVE  IInv'
<1> USE DEF IInv, database, startup, tree, bounds
<1>1. /\ cur' = [cur EXCEPT ![j] = None]
      /\ \/ q # <<>> /\ pc' = [pc EXCEPT ![j] = "lastAdded"] /\ addingKey' = addingKey
         \/ pc' = [pc EXCEPT ![j] = "idle"] /\ addingKey' = None
      /\ \A k \in Job : k # j => pc[k] = "idle"
      /\ addingKey = j /\ phase = "ready"
  BY DEF ContinueWithQueue, KeyAndLock, TypeOK
<1>2. TypeOK'
  BY <1>1 DEF TypeOK, Step
<1>3. NothingRunsAtStart' /\ KeyAndLock'
  BY <1>1 DEF NothingRunsAtStart, KeyAndLock, InTree, TypeOK
<1>4. JobEvents'
  BY <1>1 DEF JobEvents, TypeOK
<1>5. SyncerEvents' /\ TreeEvents'
  BY <1>1 DEF SyncerEvents, TreeEvents, TypeOK
<1>6. PendingLeaf'
  BY DEF PendingLeaf, TypeOK
<1>7. EventsFollowTree' /\ NoDuplicateEvents' /\ AddedShieldsHaveEvents'
  BY DEF EventsFollowTree, NoDuplicateEvents, AddedShieldsHaveEvents
<1>8. QED
  BY <1>2, <1>3, <1>4, <1>5, <1>6, <1>7

\* eventExists keeps IInv: a commitment that goes on is not in the list.
LEMMA CheckEventExistsInv ==
  ASSUME IInv, NEW j \in Job, CheckEventExists(j)
  PROVE  IInv'
<1> USE DEF IInv, CheckEventExists
<1>0. /\ cur[j].commitment = Head(queue) /\ queue # <<>>
      /\ Tail(queue) \in Seq(Commitment)
  BY DEF JobEvents, TypeOK
<1>1. CASE cur[j].commitment \in Entries(events)
  <2>1. NextIndex(leaves) = treeLength \/ treeLength < minNextAdd
    BY <1>0, <1>1 DEF PendingLeaf, TypeOK
  <2>2. /\ ContinueWithQueue(j, Tail(queue)) /\ queue' = Tail(queue)
        /\ UNCHANGED <<database, startup, tree, syncEnd, peers, bounds>>
    BY <1>1
  <2>3. /\ Contiguous(peers)' /\ NoDuplicatePeerEvents' /\ AgreesWithPeers'
        /\ PeersAheadOnlyBelowMinimum'
        /\ peers' \in [DOMAIN peers' -> Commitment] /\ DOMAIN peers' \subseteq Nat
    BY <2>2 DEF NoDuplicatePeerEvents, AgreesWithPeers,
                PeersAheadOnlyBelowMinimum, TypeOK, database, startup
  <2>4. QED
    BY <1>0, <2>1, <2>2, <2>3, ContinueInv
<1>2. CASE cur[j].commitment \notin Entries(events)
  <2> USE DEF database, startup, tree, bounds
  <2>1. /\ pc[j] = "exists" /\ pc' = [pc EXCEPT ![j] = "sign"]
        /\ UNCHANGED <<cur, queue, addingKey>>
    BY <1>2 DEF Goto
  <2>2. TypeOK'
    BY <2>1 DEF TypeOK, Step
  <2>3. Contiguous(peers)' /\ NoDuplicatePeerEvents' /\ NothingRunsAtStart'
    BY <2>1 DEF NoDuplicatePeerEvents, NothingRunsAtStart
  <2>4. PeersAheadOnlyBelowMinimum' /\ KeyAndLock'
    BY <2>1 DEF PeersAheadOnlyBelowMinimum, KeyAndLock, InTree, TypeOK
  <2>5. JobEvents'
    BY <2>1, <1>2 DEF JobEvents, TypeOK
  <2>6. SyncerEvents' /\ TreeEvents' /\ PendingLeaf'
    BY <2>1 DEF SyncerEvents, TreeEvents, PendingLeaf, TypeOK
  <2>7. EventsFollowTree' /\ NoDuplicateEvents' /\ AgreesWithPeers'
    BY DEF EventsFollowTree, NoDuplicateEvents, AgreesWithPeers
  <2>8. AddedShieldsHaveEvents'
    BY DEF AddedShieldsHaveEvents
  <2>9. QED
    BY <2>2, <2>3, <2>4, <2>5, <2>6, <2>7, <2>8
<1>3. QED
  BY <1>1, <1>2

--------------------------------------------------------------------------------
\* Entering the tree, as SignEvent and VerifyEvent do.
LEMMA EnterTreeInv ==
  ASSUME IInv, NEW a \in Adder, pc[a] = "sign", ~isUpdating,
         isUpdating' = TRUE, Goto(a, "tree"),
         UNCHANGED <<database, startup, queue, addingKey, treeLength, warm,
                     syncEnd, peers, bounds>>
  PROVE  IInv'
<1> USE DEF IInv, Goto, database, startup, bounds
<1>1. TypeOK'
  BY DEF TypeOK, Step
<1>2. Contiguous(peers)' /\ NoDuplicatePeerEvents' /\ NothingRunsAtStart'
  BY DEF NoDuplicatePeerEvents, NothingRunsAtStart
<1>3. PeersAheadOnlyBelowMinimum' /\ KeyAndLock'
  BY DEF PeersAheadOnlyBelowMinimum, KeyAndLock, InTree, TypeOK
<1>4. JobEvents'
  BY DEF JobEvents, TypeOK
<1>5. SyncerEvents' /\ TreeEvents' /\ PendingLeaf'
  BY DEF SyncerEvents, TreeEvents, PendingLeaf, TypeOK
<1>6. EventsFollowTree' /\ NoDuplicateEvents' /\ AgreesWithPeers'
  BY DEF EventsFollowTree, NoDuplicateEvents, AgreesWithPeers
<1>7. AddedShieldsHaveEvents'
  BY DEF AddedShieldsHaveEvents
<1>8. QED
  BY <1>1, <1>2, <1>3, <1>4, <1>5, <1>6, <1>7

\* Signing, comparing the key and entering the tree keep IInv.
LEMMA SignEventInv ==
  ASSUME IInv, NEW j \in Job, SignEvent(j)
  PROVE  IInv'
<1> USE DEF SignEvent
<1>1. addingKey = j
  BY DEF IInv, KeyAndLock
<1>2. CASE isUpdating
  BY <1>1, <1>2, ThrowInv DEF IInv, TypeOK, bounds
<1>3. CASE ~isUpdating
  BY <1>1, <1>3, EnterTreeInv
<1>4. QED
  BY <1>2, <1>3

\* The syncer's entry into the tree keeps IInv.
LEMMA VerifyEventInv ==
  ASSUME IInv, VerifyEvent
  PROVE  IInv'
<1> USE DEF VerifyEvent
<1>1. CASE isUpdating
  BY <1>1, ThrowInv DEF IInv, TypeOK, bounds
<1>2. CASE ~isUpdating
  BY <1>2, EnterTreeInv
<1>3. QED
  BY <1>1, <1>2

\* What insertLeaf decides keeps IInv, for either kind of adder.
LEMMA CheckTreeInv ==
  ASSUME IInv, NEW a \in Adder, CheckTree(a)
  PROVE  IInv'
<1> USE DEF IInv, CheckTree
<1>0. /\ pc[a] = "tree" /\ InTree(a) /\ warm' = TRUE
      /\ cur[a] \in Event /\ cur[a].index <= NextIndex(events)
      /\ NextIndex(events) \in Nat /\ treeLength \in Nat
  BY Shapes DEF InTree, TypeOK, JobEvents, SyncerEvents, Event
<1>1. CASE Verdict(a) = "reject"
  BY <1>0, <1>1, ThrowInv DEF TypeOK, bounds
<1>2. CASE Verdict(a) \in {"insert", "skip"}
  <2> USE DEF database, startup, bounds
  <2>1. \/ /\ pc' = [pc EXCEPT ![a] = "nodes"] /\ UNCHANGED isUpdating
           /\ cur[a].index = treeLength
        \/ /\ pc' = [pc EXCEPT ![a] = "event"] /\ isUpdating' = FALSE
           /\ cur[a].index \in DOMAIN leaves /\ cur[a].index # treeLength
           /\ leaves[cur[a].index] = cur[a].commitment
           /\ treeLength > 0 => leaves[treeLength - 1] # cur[a].commitment
    <3>1. Verdict(a) = "insert" => cur[a].index = treeLength
      BY DEF Verdict
    <3>2. Verdict(a) = "skip" =>
            /\ cur[a].index \in DOMAIN leaves /\ cur[a].index # treeLength
            /\ leaves[cur[a].index] = cur[a].commitment
            /\ treeLength > 0 => leaves[treeLength - 1] # cur[a].commitment
      BY DEF Verdict
    <3>3. QED
      BY <1>2, <3>1, <3>2 DEF Goto
  <2>2. UNCHANGED <<cur, addingKey>>
    BY <1>2 DEF Goto
  <2>3. cur[a].index = treeLength => treeLength = NextIndex(events)
    BY <1>0 DEF PendingLeaf, Event
  <2>4. /\ cur[a].index \in DOMAIN leaves /\ cur[a].index # treeLength
        /\ leaves[cur[a].index] = cur[a].commitment
        /\ treeLength > 0 => leaves[treeLength - 1] # cur[a].commitment
        => cur[a].index < NextIndex(events)
    BY <1>0 DEF PendingLeaf, Event
  <2>5. TypeOK'
    BY <1>0, <2>1, <2>2 DEF TypeOK, Step
  <2>6. Contiguous(peers)' /\ NoDuplicatePeerEvents' /\ NothingRunsAtStart'
    BY <1>0, <2>1 DEF NoDuplicatePeerEvents, NothingRunsAtStart
  <2>7. PeersAheadOnlyBelowMinimum' /\ KeyAndLock'
    BY <1>0, <2>1, <2>2 DEF PeersAheadOnlyBelowMinimum, KeyAndLock, InTree, TypeOK
  <2>8. JobEvents' /\ SyncerEvents'
    BY <1>0, <2>1, <2>2 DEF JobEvents, SyncerEvents, TypeOK
  <2>9. TreeEvents'
    <3>1. cur[a].index < NextIndex(events) =>
            cur[a].index \in roots /\ cur[a].index < treeLength
      <4>1. cur[a].index \in Nat
        BY <1>0 DEF Event
      <4>2. cur[a].index < NextIndex(events) => cur[a].index \in DOMAIN events
        BY <4>1, <1>0, Shapes
      <4>3. NextIndex(events) <= treeLength
        BY <1>0 DEF PendingLeaf
      <4>4. QED
        BY <1>0, <4>1, <4>2, <4>3 DEF EventsFollowTree
    <3>2. \/ pc'[a] = "nodes" /\ cur[a].index = treeLength
          \/ /\ pc'[a] = "event" /\ cur[a].index < NextIndex(events)
             /\ leaves[cur[a].index] = cur[a].commitment
      BY <2>1, <2>4 DEF TypeOK
    <3>3. \A b \in Adder : b # a => pc'[b] = pc[b]
      BY <2>1 DEF TypeOK
    <3>4. QED
      BY <2>2, <2>3, <3>1, <3>2, <3>3 DEF TreeEvents
  <2>10. PendingLeaf'
    BY DEF PendingLeaf
  <2>11. EventsFollowTree' /\ NoDuplicateEvents' /\ AgreesWithPeers'
    BY DEF EventsFollowTree, NoDuplicateEvents, AgreesWithPeers
  <2>12. AddedShieldsHaveEvents'
    BY DEF AddedShieldsHaveEvents
  <2>13. QED
    BY <2>5, <2>6, <2>7, <2>8, <2>9, <2>10, <2>11, <2>12
<1>3. QED
  BY <1>1, <1>2 DEF Verdict

--------------------------------------------------------------------------------
\* Storing the leaf of the adder that writes to the tree: a leaf that was
\* pending there is the same one.
LEMMA StoredLeaf ==
  ASSUME IInv, NEW a \in Adder, pc[a] \in {"nodes", "root"},
         leaves' = Put(leaves, cur[a].index, cur[a].commitment)
  PROVE  /\ Contiguous(leaves') /\ NextIndex(leaves') = treeLength + 1
         /\ leaves' \in [DOMAIN leaves' -> Commitment]
         /\ DOMAIN leaves' \subseteq Nat
         /\ \A i \in DOMAIN leaves : i \in DOMAIN leaves' /\ leaves'[i] = leaves[i]
         /\ leaves'[treeLength] = cur[a].commitment
         /\ cur[a] \in Event /\ cur[a].index = treeLength
         /\ treeLength = NextIndex(events) /\ treeLength \in Nat
         /\ treeLength < minNextAdd =>
              treeLength \in DOMAIN peers /\ peers[treeLength] = cur[a].commitment
         /\ treeLength >= minNextAdd =>
              /\ queue # <<>> /\ cur[a].commitment = Head(queue)
              /\ cur[a].commitment \notin Entries(events)
<1> USE DEF IInv
<1> DEFINE e == cur[a]
<1>1. /\ e \in Event /\ e.index = treeLength
      /\ treeLength = NextIndex(events) /\ treeLength \in Nat
      /\ minNextAdd \in Nat
  BY DEF TypeOK, TreeEvents, JobEvents, SyncerEvents
<1>2. /\ treeLength < minNextAdd =>
           treeLength \in DOMAIN peers /\ peers[treeLength] = e.commitment
      /\ treeLength >= minNextAdd =>
           /\ queue # <<>> /\ e.commitment = Head(queue)
           /\ e.commitment \notin Entries(events)
  <2>1. CASE a = Syncer
    BY <1>1, <2>1 DEF SyncerEvents
  <2>2. CASE a \in Job
    BY <1>1, <2>2 DEF JobEvents
  <2>3. QED
    BY <2>1, <2>2
<1>3. /\ NextIndex(leaves) \in {treeLength, treeLength + 1}
      /\ DOMAIN leaves = 0 .. NextIndex(leaves) - 1
  BY Shapes DEF PendingLeaf
<1>4. treeLength \in DOMAIN leaves => leaves[treeLength] = e.commitment
  BY <1>1, <1>2, <1>3 DEF PendingLeaf
<1>5. Contiguous(leaves) /\ DOMAIN leaves \subseteq Nat
  BY DEF EventsFollowTree, TypeOK
<1>6. /\ Contiguous(leaves') /\ NextIndex(leaves') = treeLength + 1
      /\ DOMAIN leaves' \subseteq Nat
  <2>1. e.index \in 0 .. NextIndex(leaves)
    BY <1>1, <1>3
  <2>2. /\ Contiguous(leaves') /\ DOMAIN leaves' \subseteq Nat
        /\ NextIndex(leaves') = IF e.index = NextIndex(leaves)
                                  THEN NextIndex(leaves) + 1 ELSE NextIndex(leaves)
    BY <1>5, <2>1, PutContiguous
  <2>3. QED
    BY <1>1, <1>3, <2>2
<1>7. leaves' \in [DOMAIN leaves' -> Commitment]
  <2>1. e.commitment \in Commitment /\ leaves \in [DOMAIN leaves -> Commitment]
    BY <1>1 DEF Event, TypeOK
  <2>2. QED
    BY <2>1, PutType
<1>8. /\ \A i \in DOMAIN leaves : i \in DOMAIN leaves' /\ leaves'[i] = leaves[i]
      /\ leaves'[treeLength] = e.commitment
  <2> DEFINE stored == Put(leaves, e.index, e.commitment)
  <2>0. /\ DOMAIN stored = DOMAIN leaves \cup {e.index}
        /\ \A i \in DOMAIN leaves : stored[i] = leaves[i]
        /\ e.index \notin DOMAIN leaves => stored[e.index] = e.commitment
    BY DEF Put
  <2>00. leaves' = stored
    OBVIOUS
  <2> HIDE DEF stored
  <2>1. \A i \in DOMAIN leaves : i \in DOMAIN leaves' /\ leaves'[i] = leaves[i]
    BY <2>0, <2>00, Zenon
  <2>2. leaves'[treeLength] = e.commitment
    <3>1. CASE treeLength \in DOMAIN leaves
      BY <1>4, <2>1, <3>1
    <3>2. CASE treeLength \notin DOMAIN leaves
      BY <1>1, <3>2, <2>0, <2>00
    <3>3. QED
      BY <3>1, <3>2
  <2>3. QED
    BY <2>1, <2>2
<1>9. QED
  BY <1>1, <1>2, <1>6, <1>7, <1>8

\* A stored leaf, whether its adder goes on to the root or gives up.
LEMMA StoreLeafInv ==
  ASSUME IInv, NEW a \in Adder, pc[a] \in {"nodes", "root"},
         leaves' = Put(leaves, cur[a].index, cur[a].commitment),
         \/ pc[a] = "nodes" /\ Goto(a, "root") /\ UNCHANGED <<isUpdating, addingKey>>
         \/ Throw(a) /\ isUpdating' = FALSE,
         failures' \in 0 .. MaxFailures,
         UNCHANGED <<roots, events, shieldsAdded, startup, queue, treeLength,
                     warm, syncEnd, peers, crashes>>
  PROVE  IInv'
<1> USE DEF IInv, startup
<1>1. /\ Contiguous(leaves') /\ NextIndex(leaves') = treeLength + 1
      /\ leaves' \in [DOMAIN leaves' -> Commitment]
      /\ DOMAIN leaves' \subseteq Nat
      /\ \A i \in DOMAIN leaves : i \in DOMAIN leaves' /\ leaves'[i] = leaves[i]
      /\ leaves'[treeLength] = cur[a].commitment
      /\ cur[a] \in Event /\ cur[a].index = treeLength
      /\ treeLength = NextIndex(events) /\ treeLength \in Nat
      /\ treeLength < minNextAdd =>
           treeLength \in DOMAIN peers /\ peers[treeLength] = cur[a].commitment
      /\ treeLength >= minNextAdd =>
           /\ queue # <<>> /\ cur[a].commitment = Head(queue)
           /\ cur[a].commitment \notin Entries(events)
  BY StoredLeaf
<1>2. /\ InTree(a) /\ \A b \in Adder : b # a => ~InTree(b)
      /\ \A b \in Adder : b # a => pc'[b] = pc[b] /\ cur'[b] = cur[b]
      /\ \/ pc'[a] = "root" /\ cur'[a] = cur[a] /\ UNCHANGED <<isUpdating, addingKey>>
         \/ /\ pc'[a] = "idle" /\ cur'[a] = None /\ isUpdating' = FALSE
            /\ addingKey' = IF addingKey = a THEN None ELSE addingKey
      /\ pc' \in [Adder -> Step] /\ cur' \in [Adder -> Event \cup {None}]
  BY DEF Goto, Throw, Finish, TypeOK, InTree, KeyAndLock, Step
<1>3. TypeOK'
  <2>1. isUpdating' \in BOOLEAN /\ addingKey' \in Job \cup {None}
    BY <1>2 DEF TypeOK
  <2>2. QED
    BY <1>1, <1>2, <2>1 DEF TypeOK
<1>4. Contiguous(peers)' /\ NoDuplicatePeerEvents' /\ NothingRunsAtStart'
  BY <1>2 DEF NoDuplicatePeerEvents, NothingRunsAtStart
<1>5. PeersAheadOnlyBelowMinimum'
  BY DEF PeersAheadOnlyBelowMinimum
<1>6. KeyAndLock'
  BY <1>2 DEF KeyAndLock, InTree
<1>7. JobEvents'
  <2>1. ASSUME NEW j \in Job, pc[j] = "prune"
        PROVE  FALSE
    <3>1. a = Syncer
      BY <2>1 DEF KeyAndLock
    <3>2. cur[a].index < minNextAdd
      BY <3>1 DEF SyncerEvents
    <3>3. /\ cur[j].index \in DOMAIN events /\ cur[j].index >= minNextAdd
          /\ minNextAdd \in Nat
      BY <2>1 DEF JobEvents, TypeOK
    <3>4. QED
      BY <1>1, <3>2, <3>3, Shapes
  <2>2. QED
    BY <1>1, <1>2, <2>1 DEF JobEvents
<1>8. SyncerEvents'
  BY <1>1, <1>2 DEF SyncerEvents
<1>9. TreeEvents'
  <2>1. \A b \in Adder : pc[b] = "event" =>
          cur[b].index \in DOMAIN leaves
    BY <1>1, Shapes DEF TreeEvents, PendingLeaf, JobEvents, SyncerEvents, Event
  <2>2. QED
    BY <1>1, <1>2, <2>1 DEF TreeEvents, InTree
<1>10. PendingLeaf'
  BY <1>1 DEF PendingLeaf
<1>11. EventsFollowTree'
  <2>1. DOMAIN events \subseteq DOMAIN leaves
    BY <1>1, Shapes DEF PendingLeaf
  <2>2. QED
    BY <1>1, <2>1 DEF EventsFollowTree
<1>12. NoDuplicateEvents' /\ AgreesWithPeers' /\ AddedShieldsHaveEvents'
  BY DEF NoDuplicateEvents, AgreesWithPeers, AddedShieldsHaveEvents
<1>13. QED
  BY <1>3, <1>4, <1>5, <1>6, <1>7, <1>8, <1>9, <1>10, <1>11, <1>12

\* Storing the leaf keeps IInv: the leaf is new or the pending one.
LEMMA WriteNodesInv ==
  ASSUME IInv, NEW a \in Adder, WriteNodes(a)
  PROVE  IInv'
BY StoreLeafInv DEF WriteNodes, IInv, TypeOK, tree, bounds

\* A rejected write inside the tree keeps IInv, stored leaf or not.
LEMMA FailTreeWriteInv ==
  ASSUME IInv, NEW a \in Adder, FailTreeWrite(a)
  PROVE  IInv'
<1> USE DEF FailTreeWrite
<1>0. failures' \in 0 .. MaxFailures /\ pc[a] \in {"nodes", "root"}
  BY DEF IInv, TypeOK
<1>1. CASE leaves' = leaves
  BY <1>0, <1>1, ThrowInv DEF IInv, TypeOK, InTree, database
<1>2. CASE leaves' = Put(leaves, cur[a].index, cur[a].commitment)
  BY <1>0, <1>2, StoreLeafInv
<1>3. QED
  BY <1>1, <1>2

\* A rejected call outside the tree keeps IInv.
LEMMA FailCallInv ==
  ASSUME IInv, NEW a \in Adder, FailCall(a)
  PROVE  IInv'
BY ThrowInv DEF FailCall, IInv, TypeOK, tree

\* A rejected read before insertLeaf's try block keeps IInv.
LEMMA FailTreeReadInv ==
  ASSUME IInv, NEW a \in Adder, FailTreeRead(a)
  PROVE  IInv'
BY ThrowInv DEF FailTreeRead, IInv, TypeOK, tree

\* Storing the root and releasing the tree keep IInv.
LEMMA WriteMerklerootInv ==
  ASSUME IInv, NEW a \in Adder, WriteMerkleroot(a)
  PROVE  IInv'
<1> USE DEF IInv, WriteMerkleroot, Goto, startup, bounds
<1>1. /\ cur[a] \in Event /\ cur[a].index = treeLength
      /\ treeLength = NextIndex(events) /\ treeLength \in Nat
      /\ NextIndex(leaves) = treeLength + 1
      /\ leaves[treeLength] = cur[a].commitment
      /\ minNextAdd \in Nat
  <2>1. /\ cur[a] \in Event /\ cur[a].index = treeLength
        /\ treeLength = NextIndex(events) /\ treeLength \in Nat
        /\ NextIndex(leaves) = treeLength + 1 /\ minNextAdd \in Nat
    BY DEF TypeOK, TreeEvents, JobEvents, SyncerEvents
  <2>2. leaves[treeLength] = cur[a].commitment
    <3>1. CASE a = Syncer
      BY <2>1, <3>1 DEF SyncerEvents, PendingLeaf
    <3>2. CASE a \in Job
      BY <2>1, <3>2 DEF JobEvents, PendingLeaf
    <3>3. QED
      BY <3>1, <3>2
  <2>3. QED
    BY <2>1, <2>2
<1>2. /\ \A b \in Adder : b # a => ~InTree(b) /\ pc'[b] = pc[b]
      /\ pc[a] = "root" /\ pc'[a] = "event"
      /\ pc' \in [Adder -> Step]
  BY DEF TypeOK, InTree, KeyAndLock, Step
<1>3. TypeOK'
  <2>1. roots' \subseteq Nat /\ treeLength' \in Nat
    BY <1>1 DEF TypeOK
  <2>2. QED
    BY <1>2, <2>1 DEF TypeOK
<1>4. Contiguous(peers)' /\ NoDuplicatePeerEvents' /\ NothingRunsAtStart'
  BY <1>2 DEF NoDuplicatePeerEvents, NothingRunsAtStart
<1>5. PeersAheadOnlyBelowMinimum'
  BY DEF PeersAheadOnlyBelowMinimum
<1>6. KeyAndLock'
  BY <1>2 DEF KeyAndLock, InTree
<1>7. JobEvents' /\ SyncerEvents'
  BY <1>2 DEF JobEvents, SyncerEvents
<1>8. TreeEvents'
  <2>1. \A b \in Adder : b # a /\ pc[b] = "event" =>
          cur[b].index < treeLength + 1
    BY <1>1 DEF TreeEvents, JobEvents, SyncerEvents, Event
  <2>2. QED
    BY <1>1, <1>2, <2>1 DEF TreeEvents, InTree
<1>9. PendingLeaf'
  BY <1>1 DEF PendingLeaf
<1>10. EventsFollowTree'
  BY DEF EventsFollowTree
<1>11. NoDuplicateEvents' /\ AgreesWithPeers' /\ AddedShieldsHaveEvents'
  BY DEF NoDuplicateEvents, AgreesWithPeers, AddedShieldsHaveEvents
<1>12. QED
  BY <1>3, <1>4, <1>5, <1>6, <1>7, <1>8, <1>9, <1>10, <1>11

\* Storing an event: the next one of the list, or one the list holds already.
LEMMA StoredEvent ==
  ASSUME IInv, NEW a \in Adder, InsertEvent(a)
  PROVE  LET e == cur[a]
             n == NextIndex(events)
         IN  /\ e \in Event
             /\ \/ /\ e.index < n /\ events' = events
                   /\ e.index \in DOMAIN events
                   /\ a = Syncer
                \/ /\ e.index = n /\ e.commitment \notin Entries(events)
                   /\ n \notin DOMAIN events
                   /\ DOMAIN events' = DOMAIN events \cup {n}
                   /\ \A i \in DOMAIN events : events'[i] = events[i]
                   /\ events'[n] = e.commitment
                   /\ Contiguous(events') /\ NextIndex(events') = n + 1
                   /\ treeLength = n + 1 /\ NextIndex(leaves) = n + 1
                   /\ Entries(events) \subseteq Entries(events')
                   /\ events' \in [DOMAIN events' -> Commitment]
                   /\ DOMAIN events' \subseteq Nat
<1> USE DEF IInv, InsertEvent
<1> DEFINE e == cur[a]
           n == NextIndex(events)
<1>1. /\ e \in Event /\ e.index \in Nat /\ e.index <= n
      /\ e.index < treeLength /\ treeLength \in Nat
      /\ n \in Nat /\ DOMAIN events = 0 .. n - 1
      /\ a \in Job => e.index = n
  BY Shapes DEF TypeOK, JobEvents, SyncerEvents, TreeEvents, Event
<1>2. CASE e.index < n
  <2>1. e.index \in DOMAIN events
    BY <1>1, <1>2
  <2>2. events' = events
    BY <2>1 DEF Put
  <2>3. QED
    BY <1>1, <1>2, <2>1, <2>2
<1>3. CASE e.index = n
  <2>1. treeLength = n + 1 /\ NextIndex(leaves) = n + 1 /\ n \notin DOMAIN events
    BY <1>1, <1>3 DEF PendingLeaf
  <2>2. events' = Put(events, n, e.commitment)
    BY <1>3
  <2>3. /\ DOMAIN events' = DOMAIN events \cup {n}
        /\ \A i \in DOMAIN events : events'[i] = events[i]
        /\ events'[n] = e.commitment
    BY <2>1, <2>2 DEF Put
  <2>4. Contiguous(events') /\ NextIndex(events') = n + 1
    <3>1. Contiguous(events) /\ DOMAIN events \subseteq Nat /\ n \in 0 .. n
      BY <1>1 DEF EventsFollowTree, TypeOK
    <3>2. QED
      BY <2>2, <3>1, PutContiguous
  <2>5. Entries(events) \subseteq Entries(events')
    BY <2>3 DEF Entries
  <2>6. e.commitment \notin Entries(events)
    <3>1. CASE a \in Job
      BY <3>1 DEF JobEvents
    <3>2. CASE a = Syncer
      <4>1. /\ e.index \in DOMAIN peers /\ peers[e.index] = e.commitment
            /\ \A i \in DOMAIN events : i < e.index
        BY <1>1, <1>3, <3>2 DEF SyncerEvents
      <4>2. \A i \in DOMAIN events : i \in DOMAIN peers
        BY <1>1, <4>1, Shapes
      <4>3. \A i \in DOMAIN events : events[i] = peers[i]
        BY <4>2 DEF AgreesWithPeers
      <4>4. \A i \in DOMAIN events : events[i] # e.commitment
        BY <1>1, <4>1, <4>2, <4>3 DEF NoDuplicatePeerEvents
      <4>5. QED
        BY <4>4 DEF Entries
    <3>3. QED
      BY <3>1, <3>2
  <2>7. events' \in [DOMAIN events' -> Commitment] /\ DOMAIN events' \subseteq Nat
    <3>1. e.commitment \in Commitment /\ events \in [DOMAIN events -> Commitment]
          /\ DOMAIN events \subseteq Nat
      BY <1>1 DEF Event, TypeOK
    <3>2. events' \in [DOMAIN events' -> Commitment]
      BY <2>2, <3>1, PutType
    <3>3. QED
      BY <1>1, <2>3, <3>1, <3>2
  <2>8. QED
    BY <1>1, <1>3, <2>1, <2>3, <2>4, <2>5, <2>6, <2>7
<1>4. QED
  BY <1>1, <1>2, <1>3

\* Storing the ordered event keeps IInv: it extends the events by one.
LEMMA InsertEventInv ==
  ASSUME IInv, NEW a \in Adder, InsertEvent(a)
  PROVE  IInv'
<1> USE DEF IInv, InsertEvent, Goto, startup, tree, bounds
<1> DEFINE e == cur[a]
           n == NextIndex(events)
<1>0. pc[a] = "event" /\ pc' = [pc EXCEPT ![a] = "prune"] /\ cur' = cur
  OBVIOUS
<1>1. /\ e \in Event
      /\ \/ /\ e.index < n /\ events' = events
            /\ e.index \in DOMAIN events
            /\ a = Syncer
         \/ /\ e.index = n /\ e.commitment \notin Entries(events)
            /\ n \notin DOMAIN events
            /\ DOMAIN events' = DOMAIN events \cup {n}
            /\ \A i \in DOMAIN events : events'[i] = events[i]
            /\ events'[n] = e.commitment
            /\ Contiguous(events') /\ NextIndex(events') = n + 1
            /\ treeLength = n + 1 /\ NextIndex(leaves) = n + 1
            /\ Entries(events) \subseteq Entries(events')
            /\ events' \in [DOMAIN events' -> Commitment]
            /\ DOMAIN events' \subseteq Nat
  BY StoredEvent
<1>2. /\ \A b \in Adder : b # a => pc'[b] = pc[b]
      /\ pc'[a] = "prune" /\ pc' \in [Adder -> Step]
      /\ n \in Nat /\ minNextAdd \in Nat
  BY <1>0, Shapes DEF TypeOK, Step
<1>3. CASE events' = events /\ a = Syncer /\ e.index < n
  <2>1. TypeOK'
    BY <1>2, <1>3 DEF TypeOK
  <2>2. Contiguous(peers)' /\ NoDuplicatePeerEvents' /\ NothingRunsAtStart'
    BY <1>0, <1>3 DEF NoDuplicatePeerEvents, NothingRunsAtStart
  <2>3. PeersAheadOnlyBelowMinimum' /\ KeyAndLock'
    BY <1>0, <1>2, <1>3 DEF PeersAheadOnlyBelowMinimum, KeyAndLock, InTree
  <2>4. JobEvents' /\ SyncerEvents'
    BY <1>0, <1>2, <1>3 DEF JobEvents, SyncerEvents
  <2>5. TreeEvents' /\ PendingLeaf'
    BY <1>0, <1>2, <1>3 DEF TreeEvents, PendingLeaf
  <2>6. EventsFollowTree' /\ NoDuplicateEvents' /\ AgreesWithPeers'
    BY <1>3 DEF EventsFollowTree, NoDuplicateEvents, AgreesWithPeers
  <2>7. AddedShieldsHaveEvents'
    BY <1>3 DEF AddedShieldsHaveEvents
  <2>8. QED
    BY <2>1, <2>2, <2>3, <2>4, <2>5, <2>6, <2>7
<1>4. CASE /\ e.index = n /\ e.commitment \notin Entries(events)
           /\ n \notin DOMAIN events
           /\ DOMAIN events' = DOMAIN events \cup {n}
           /\ \A i \in DOMAIN events : events'[i] = events[i]
           /\ events'[n] = e.commitment
           /\ Contiguous(events') /\ NextIndex(events') = n + 1
           /\ treeLength = n + 1 /\ NextIndex(leaves) = n + 1
           /\ Entries(events) \subseteq Entries(events')
           /\ events' \in [DOMAIN events' -> Commitment]
           /\ DOMAIN events' \subseteq Nat
  <2> HIDE DEF n
  <2>1. TypeOK'
    BY <1>2, <1>4 DEF TypeOK
  <2>2. Contiguous(peers)' /\ NoDuplicatePeerEvents' /\ NothingRunsAtStart'
    BY <1>0 DEF NoDuplicatePeerEvents, NothingRunsAtStart
  <2>3. PeersAheadOnlyBelowMinimum' /\ KeyAndLock'
    BY <1>0, <1>2, <1>4 DEF PeersAheadOnlyBelowMinimum, KeyAndLock, InTree
  <2>4. \A b \in Adder : b # a => pc'[b] = pc[b] /\ cur'[b] = cur[b]
    BY <1>0, <1>2
  <2>5. JobEvents'
    <3>1. CASE a = Syncer
      <4>1. n < minNextAdd
        BY <1>0, <1>4, <3>1 DEF SyncerEvents
      <4>2. ASSUME NEW j \in Job PROVE pc[j] \in {"idle", "lastAdded"}
        <5>1. /\ pc[j] \in Step
              /\ pc[j] \in Step \ {"idle", "lastAdded"} =>
                   \/ cur[j].index = n /\ cur[j].index >= minNextAdd
                   \/ cur[j].index \in DOMAIN events /\ cur[j].index >= minNextAdd
          BY DEF JobEvents, TypeOK, Step, n
        <5>2. DOMAIN events = 0 .. n - 1
          BY Shapes DEF n
        <5>3. QED
          BY <1>2, <4>1, <5>1, <5>2
      <4>3. \A j \in Job : pc'[j] = pc[j]
        BY <2>4, <3>1
      <4>4. QED
        BY <4>2, <4>3 DEF JobEvents
    <3>2. CASE a \in Job
      <4>1. /\ \A k \in Job : k # a => pc[k] = "idle"
            /\ e.index >= minNextAdd /\ queue # <<>> /\ e.commitment = Head(queue)
        BY <1>0, <3>2 DEF KeyAndLock, JobEvents
      <4>2. QED
        BY <1>0, <1>1, <1>2, <1>4, <2>4, <4>1 DEF JobEvents
    <3>3. QED
      BY <3>1, <3>2
  <2>6. SyncerEvents'
    <3>1. CASE a = Syncer
      BY <1>0, <1>1, <1>2, <1>4, <3>1 DEF SyncerEvents
    <3>2. CASE a # Syncer
      <4>1. pc'[Syncer] = pc[Syncer] /\ cur'[Syncer] = cur[Syncer]
        BY <2>4, <3>2
      <4>2. pc[Syncer] # "idle" => cur[Syncer].index \in Nat
        BY DEF SyncerEvents, Event
      <4>3. QED
        BY <1>2, <1>4, <4>1, <4>2 DEF SyncerEvents, n
    <3>3. QED
      BY <3>1, <3>2
  <2>7. TreeEvents'
    BY <1>0, <1>1, <1>2, <1>4 DEF TreeEvents, n
  <2>8. PendingLeaf'
    BY <1>2, <1>4 DEF PendingLeaf, n
  <2>9. EventsFollowTree'
    <3>1. leaves[n] = e.commitment /\ n \in roots
      BY <1>0, <1>4 DEF TreeEvents
    <3>2. QED
      BY <1>2, <1>4, <3>1 DEF EventsFollowTree
  <2>10. NoDuplicateEvents'
    <3>1. \A i \in DOMAIN events : events[i] # e.commitment
      BY <1>4 DEF Entries
    <3>2. QED
      BY <1>4, <3>1 DEF NoDuplicateEvents
  <2>11. AgreesWithPeers'
    <3>1. n \in DOMAIN peers => peers[n] = e.commitment
      <4>1. CASE a = Syncer
        BY <1>0, <1>4, <4>1 DEF SyncerEvents
      <4>2. CASE a \in Job
        BY <1>0, <1>2, <1>4, <4>2
           DEF JobEvents, KeyAndLock, PeersAheadOnlyBelowMinimum
      <4>3. QED
        BY <4>1, <4>2
    <3>2. QED
      BY <1>4, <3>1 DEF AgreesWithPeers
  <2>12. AddedShieldsHaveEvents'
    BY <1>4 DEF AddedShieldsHaveEvents
  <2>13. QED
    BY <2>1, <2>2, <2>3, <2>5, <2>6, <2>7, <2>8, <2>9, <2>10, <2>11, <2>12
<1>5. QED
  BY <1>1, <1>3, <1>4

--------------------------------------------------------------------------------
\* Removing the handled head keeps IInv: its event is stored.
LEMMA RemoveFromQueueInv ==
  ASSUME IInv, NEW j \in Job, RemoveFromQueue(j)
  PROVE  IInv'
<1> USE DEF IInv, RemoveFromQueue, Goto, database, startup, tree, bounds
<1>1. /\ pc[j] = "prune" /\ cur' = cur
      /\ \E s \in {"shield", "push"} :
           /\ pc' = [pc EXCEPT ![j] = s]
           /\ s = "shield" => cur[j].commitment \in Shield
      /\ \A k \in Job : k # j => pc[k] = "idle"
      /\ queue # <<>> /\ queue \in Seq(Commitment)
      /\ NextIndex(leaves) = NextIndex(events)
  BY DEF KeyAndLock, JobEvents, TypeOK
<1>2. PICK s \in {"shield", "push"} :
        /\ pc' = [pc EXCEPT ![j] = s]
        /\ s = "shield" => cur[j].commitment \in Shield
  BY <1>1
<1>3. /\ \A b \in Adder : b # j => pc'[b] = pc[b]
      /\ pc'[j] = s /\ pc' \in [Adder -> Step]
  BY <1>2 DEF TypeOK, Step
<1>4. TypeOK'
  BY <1>1, <1>3 DEF TypeOK
<1>5. Contiguous(peers)' /\ NoDuplicatePeerEvents' /\ NothingRunsAtStart'
  BY <1>1 DEF NoDuplicatePeerEvents, NothingRunsAtStart
<1>6. PeersAheadOnlyBelowMinimum' /\ KeyAndLock'
  BY <1>1, <1>3 DEF PeersAheadOnlyBelowMinimum, KeyAndLock, InTree
<1>7. JobEvents'
  BY <1>1, <1>2, <1>3 DEF JobEvents
<1>8. SyncerEvents' /\ TreeEvents'
  BY <1>1, <1>3 DEF SyncerEvents, TreeEvents
<1>9. PendingLeaf'
  BY <1>1, Shapes DEF PendingLeaf, TypeOK
<1>10. EventsFollowTree' /\ NoDuplicateEvents' /\ AgreesWithPeers'
  BY DEF EventsFollowTree, NoDuplicateEvents, AgreesWithPeers
<1>11. AddedShieldsHaveEvents'
  BY DEF AddedShieldsHaveEvents
<1>12. QED
  BY <1>4, <1>5, <1>6, <1>7, <1>8, <1>9, <1>10, <1>11

\* Marking a shield AddedPOI keeps IInv: its event is stored.
LEMMA MarkShieldInv ==
  ASSUME IInv, NEW j \in Job, MarkShieldAdded(j)
  PROVE  IInv'
<1> USE DEF IInv, MarkShieldAdded, Goto, startup, tree, bounds
<1>1. /\ \A b \in Adder : b # j => pc'[b] = pc[b]
      /\ pc[j] = "shield" /\ pc'[j] = "push" /\ pc' \in [Adder -> Step]
      /\ cur' = cur /\ cur[j].commitment \in Shield
  BY DEF TypeOK, Step, JobEvents
<1>2. TypeOK'
  BY <1>1 DEF TypeOK
<1>3. Contiguous(peers)' /\ NoDuplicatePeerEvents' /\ NothingRunsAtStart'
  BY <1>1 DEF NoDuplicatePeerEvents, NothingRunsAtStart
<1>4. PeersAheadOnlyBelowMinimum' /\ KeyAndLock'
  BY <1>1 DEF PeersAheadOnlyBelowMinimum, KeyAndLock, InTree
<1>5. JobEvents'
  BY <1>1 DEF JobEvents
<1>6. SyncerEvents' /\ TreeEvents' /\ PendingLeaf'
  BY <1>1 DEF SyncerEvents, TreeEvents, PendingLeaf
<1>7. EventsFollowTree' /\ NoDuplicateEvents' /\ AgreesWithPeers'
  BY DEF EventsFollowTree, NoDuplicateEvents, AgreesWithPeers
<1>8. AddedShieldsHaveEvents'
  BY <1>1 DEF AddedShieldsHaveEvents, JobEvents, Entries
<1>9. QED
  BY <1>2, <1>3, <1>4, <1>5, <1>6, <1>7, <1>8

\* A peer that receives the provider's event at the end of its copy.
LEMMA PeerReceives ==
  ASSUME IInv, NEW i, i = NextIndex(peers), i \in DOMAIN events,
         peers' = Put(peers, i, events[i]),
         UNCHANGED <<events, startup>>
  PROVE  /\ Contiguous(peers)' /\ NoDuplicatePeerEvents' /\ AgreesWithPeers'
         /\ PeersAheadOnlyBelowMinimum'
         /\ peers' \in [DOMAIN peers' -> Commitment] /\ DOMAIN peers' \subseteq Nat
         /\ DOMAIN peers' = DOMAIN peers \cup {i}
         /\ \A k \in DOMAIN peers : peers'[k] = peers[k]
         /\ NextIndex(peers') = NextIndex(peers) + 1
<1> USE DEF IInv, startup
<1>1. /\ i \in Nat /\ DOMAIN peers = 0 .. i - 1 /\ i \notin DOMAIN peers
      /\ DOMAIN events = 0 .. NextIndex(events) - 1 /\ NextIndex(events) \in Nat
  BY Shapes
<1>2. /\ DOMAIN peers' = DOMAIN peers \cup {i}
      /\ \A k \in DOMAIN peers : peers'[k] = peers[k]
      /\ peers'[i] = events[i]
  BY <1>1 DEF Put
<1>3. Contiguous(peers') /\ NextIndex(peers') = i + 1
  <2>1. i \in 0 .. NextIndex(peers) /\ DOMAIN peers \subseteq Nat
        /\ Contiguous(peers)
    BY <1>1
  <2>2. /\ Contiguous(Put(peers, i, events[i]))
        /\ NextIndex(Put(peers, i, events[i])) =
             IF i = NextIndex(peers) THEN NextIndex(peers) + 1 ELSE NextIndex(peers)
    <3> HIDE DEF IInv
    <3>1. QED
      BY <2>1, PutContiguous
  <2>3. QED
    BY <2>2
<1>4. peers' \in [DOMAIN peers' -> Commitment] /\ DOMAIN peers' \subseteq Nat
  <2>1. events[i] \in Commitment /\ peers \in [DOMAIN peers -> Commitment]
    BY DEF TypeOK
  <2>2. QED
    BY <1>1, <1>2, <2>1, PutType
<1>5. \A k \in DOMAIN peers : k \in DOMAIN events /\ peers[k] = events[k] /\ k # i
  BY <1>1 DEF AgreesWithPeers
<1>6. NoDuplicatePeerEvents'
  <2>1. \A k \in DOMAIN peers : peers[k] # events[i]
    BY <1>5 DEF NoDuplicateEvents
  <2>2. QED
    BY <1>2, <2>1 DEF NoDuplicatePeerEvents
<1>7. AgreesWithPeers'
  BY <1>2, <1>5 DEF AgreesWithPeers
<1>8. PeersAheadOnlyBelowMinimum'
  BY <1>2 DEF PeersAheadOnlyBelowMinimum
<1>9. QED
  BY <1>2, <1>3, <1>4, <1>6, <1>7, <1>8

\* A push keeps IInv: the peers take it only at the end of their copy.
LEMMA PushEventInv ==
  ASSUME IInv, NEW j \in Job, PushEvent(j)
  PROVE  IInv'
<1> DEFINE e == cur[j]
           accepted == e.index \in roots /\ e.index = NextIndex(peers)
<1>1. /\ pc[j] = "push" /\ ContinueWithQueue(j, queue)
      /\ queue' = queue /\ queue \in Seq(Commitment)
      /\ e.index \in DOMAIN events /\ events[e.index] = e.commitment
      /\ UNCHANGED <<database, startup, queue, tree, syncEnd, bounds>>
  BY DEF PushEvent, IInv, TypeOK, JobEvents
<1>2. \/ peers' = peers
      \/ e.index = NextIndex(peers) /\ peers' = Put(peers, e.index, e.commitment)
  BY DEF PushEvent
<1>3. CASE peers' = peers
  <2>1. /\ Contiguous(peers)' /\ NoDuplicatePeerEvents' /\ AgreesWithPeers'
        /\ PeersAheadOnlyBelowMinimum'
        /\ peers' \in [DOMAIN peers' -> Commitment] /\ DOMAIN peers' \subseteq Nat
    BY <1>1, <1>3 DEF IInv, NoDuplicatePeerEvents, AgreesWithPeers,
                      PeersAheadOnlyBelowMinimum, TypeOK, database, startup
  <2>2. QED
    BY <1>1, <1>3, <2>1, ContinueInv
<1>4. CASE e.index = NextIndex(peers) /\ peers' = Put(peers, e.index, e.commitment)
  <2>1. UNCHANGED <<events, startup>> /\ peers' = Put(peers, e.index, events[e.index])
    BY <1>1, <1>4 DEF database
  <2>2. /\ Contiguous(peers)' /\ NoDuplicatePeerEvents' /\ AgreesWithPeers'
        /\ PeersAheadOnlyBelowMinimum'
        /\ peers' \in [DOMAIN peers' -> Commitment] /\ DOMAIN peers' \subseteq Nat
        /\ DOMAIN peers' = DOMAIN peers \cup {e.index}
        /\ \A k \in DOMAIN peers : peers'[k] = peers[k]
    BY <1>1, <1>4, <2>1, PeerReceives
  <2>3. QED
    BY <1>1, <2>2, ContinueInv
<1>5. QED
  BY <1>2, <1>3, <1>4

\* A peer's own sync keeps IInv: it copies the provider's next event.
LEMMA PeerPullInv ==
  ASSUME IInv, PeerPull
  PROVE  IInv'
<1> USE DEF IInv, PeerPull, database, startup, tree, bounds
<1> DEFINE i == NextIndex(peers)
<1>1. /\ Contiguous(peers)' /\ NoDuplicatePeerEvents' /\ AgreesWithPeers'
      /\ PeersAheadOnlyBelowMinimum'
      /\ peers' \in [DOMAIN peers' -> Commitment] /\ DOMAIN peers' \subseteq Nat
      /\ DOMAIN peers' = DOMAIN peers \cup {i}
      /\ \A k \in DOMAIN peers : peers'[k] = peers[k]
  BY PeerReceives
<1> HIDE DEF i
<1>2. TypeOK'
  BY <1>1 DEF TypeOK
<1>3. NothingRunsAtStart' /\ KeyAndLock' /\ JobEvents'
  BY DEF NothingRunsAtStart, KeyAndLock, InTree, JobEvents
<1>4. SyncerEvents' /\ TreeEvents' /\ PendingLeaf'
  BY <1>1 DEF SyncerEvents, TreeEvents, PendingLeaf
<1>5. EventsFollowTree' /\ NoDuplicateEvents' /\ AddedShieldsHaveEvents'
  BY DEF EventsFollowTree, NoDuplicateEvents, AddedShieldsHaveEvents
<1>6. QED
  BY <1>1, <1>2, <1>3, <1>4, <1>5

--------------------------------------------------------------------------------
\* The syncer takes up an event of its range: an index that the list has or
\* needs next, below the minimum.
LEMMA TakeEventInv ==
  ASSUME IInv, NEW i, i \in DOMAIN peers, i <= NextIndex(events), i < minNextAdd,
         pc[Syncer] \in {"idle", "prune"}, phase # "starting",
         pc' = [pc EXCEPT ![Syncer] = "sign"],
         cur' = [cur EXCEPT ![Syncer] = [index |-> i, commitment |-> peers[i]]],
         syncEnd' \in DOMAIN peers, syncEnd' < minNextAdd,
         UNCHANGED <<database, startup, queue, addingKey, tree, peers, bounds>>
  PROVE  IInv'
<1> USE DEF IInv, database, startup, tree, bounds
<1>1. [index |-> i, commitment |-> peers[i]] \in Event
  BY DEF TypeOK, Event
<1>2. /\ pc' \in [Adder -> Step] /\ cur' \in [Adder -> Event \cup {None}]
      /\ pc'[Syncer] = "sign"
      /\ cur'[Syncer] = [index |-> i, commitment |-> peers[i]]
      /\ \A j \in Job : pc'[j] = pc[j] /\ cur'[j] = cur[j]
  BY <1>1 DEF TypeOK, Step
<1>3. TypeOK'
  BY <1>2 DEF TypeOK
<1>4. Contiguous(peers)' /\ NoDuplicatePeerEvents' /\ NothingRunsAtStart'
  BY DEF NoDuplicatePeerEvents, NothingRunsAtStart
<1>5. PeersAheadOnlyBelowMinimum' /\ KeyAndLock'
  BY <1>2 DEF PeersAheadOnlyBelowMinimum, KeyAndLock, InTree
<1>6. JobEvents'
  BY <1>2 DEF JobEvents
<1>7. SyncerEvents' /\ TreeEvents' /\ PendingLeaf'
  BY <1>1, <1>2 DEF SyncerEvents, TreeEvents, PendingLeaf
<1>8. EventsFollowTree' /\ NoDuplicateEvents' /\ AgreesWithPeers'
  BY DEF EventsFollowTree, NoDuplicateEvents, AgreesWithPeers
<1>9. AddedShieldsHaveEvents'
  BY DEF AddedShieldsHaveEvents
<1>10. QED
  BY <1>3, <1>4, <1>5, <1>6, <1>7, <1>8, <1>9

\* Fetching a range keeps IInv: all of it is below the minimum.
LEMMA FetchEventRangeInv ==
  ASSUME IInv, FetchEventRange
  PROVE  IInv'
<1> USE DEF FetchEventRange
<1> DEFINE i == NextIndex(events)
           last == NextIndex(peers) - 1
<1>1. i \in DOMAIN peers /\ last \in DOMAIN peers /\ i <= NextIndex(events)
  BY Shapes
<1>2. i \notin DOMAIN events /\ i <= last /\ \A k \in DOMAIN events : k < i
  BY Shapes
<1>3. last \notin DOMAIN events
  BY <1>2, Shapes
<1>4. i < minNextAdd /\ last < minNextAdd
  BY <1>1, <1>2, <1>3 DEF IInv, PeersAheadOnlyBelowMinimum
<1>5. QED
  BY <1>1, <1>4, TakeEventInv

\* Going on in the fetched range keeps IInv.
LEMMA NextInRangeInv ==
  ASSUME IInv, NextInRange
  PROVE  IInv'
<1> USE DEF NextInRange
<1> DEFINE i == cur[Syncer].index + 1
<1>1. /\ pc[Syncer] = "prune" /\ i \in Nat /\ i <= NextIndex(events)
      /\ syncEnd \in DOMAIN peers /\ syncEnd < minNextAdd /\ phase # "starting"
      /\ minNextAdd \in Nat /\ syncEnd \in Nat
  <2>1. /\ cur[Syncer] \in Event /\ cur[Syncer].index < NextIndex(events)
        /\ syncEnd \in DOMAIN peers /\ syncEnd < minNextAdd /\ phase # "starting"
    BY DEF IInv, SyncerEvents, NothingRunsAtStart
  <2>2. minNextAdd \in Nat /\ syncEnd \in Nat
    BY <2>1 DEF IInv, TypeOK
  <2>3. cur[Syncer].index \in Nat
    BY <2>1 DEF Event
  <2>4. QED
    BY <2>1, <2>2, <2>3, Shapes
<1>2. CASE i <= syncEnd
  <2>1. i \in DOMAIN peers /\ i < minNextAdd
    BY <1>1, <1>2, Shapes
  <2>2. QED
    BY <1>1, <1>2, <2>1, TakeEventInv
<1>3. CASE ~(i <= syncEnd)
  <2>1. Finish(Syncer) /\ addingKey # Syncer
    BY <1>3 DEF IInv, TypeOK
  <2>2. Throw(Syncer)
    BY <2>1 DEF Throw
  <2>3. QED
    BY <1>1, <2>2, ThrowInv DEF IInv, TypeOK, tree, bounds
<1>4. QED
  BY <1>2, <1>3

--------------------------------------------------------------------------------
\* A restart: the memory is gone, and the database too if it was lost.
LEMMA CrashInv ==
  ASSUME IInv, Crash
  PROVE  IInv'
<1> USE DEF IInv, Crash
<1>0. /\ phase' = "starting" /\ minNextAdd' = 0 /\ queue' = <<>>
      /\ addingKey' = None /\ isUpdating' = FALSE /\ warm' = FALSE
      /\ pc' = [a \in Adder |-> "idle"] /\ cur' = [a \in Adder |-> None]
      /\ syncEnd' = 0 /\ UNCHANGED <<peers, failures>>
      /\ crashes' \in 0 .. MaxCrashes
      /\ treeLength' = NextIndex(leaves')
      /\ \/ UNCHANGED database
         \/ /\ leaves' = Empty /\ roots' = {} /\ events' = Empty
            /\ shieldsAdded' = {}
  <2>1. crashes' \in 0 .. MaxCrashes
    BY DEF TypeOK
  <2>2. PICK lost \in DatabaseLoss :
          IF lost
            THEN /\ leaves' = Empty /\ roots' = {} /\ events' = Empty
                 /\ shieldsAdded' = {}
                 /\ treeLength' = 0
            ELSE UNCHANGED database /\ treeLength' = NextIndex(leaves)
    OBVIOUS
  <2>3. /\ treeLength' = NextIndex(leaves')
        /\ \/ UNCHANGED database
           \/ /\ leaves' = Empty /\ roots' = {} /\ events' = Empty
              /\ shieldsAdded' = {}
    BY <2>2, EmptyFacts DEF database
  <2>4. QED
    BY <2>1, <2>3
<1>1. /\ EventsFollowTree' /\ NoDuplicateEvents' /\ AgreesWithPeers'
      /\ AddedShieldsHaveEvents'
      /\ leaves' \in [DOMAIN leaves' -> Commitment] /\ DOMAIN leaves' \subseteq Nat
      /\ events' \in [DOMAIN events' -> Commitment] /\ DOMAIN events' \subseteq Nat
      /\ roots' \subseteq Nat /\ shieldsAdded' \subseteq Shield
      /\ NextIndex(leaves') \in Nat
  <2>1. CASE UNCHANGED database
    BY <1>0, <2>1, Shapes DEF TypeOK, EventsFollowTree, NoDuplicateEvents,
                        AgreesWithPeers, AddedShieldsHaveEvents, database
  <2>2. CASE /\ leaves' = Empty /\ roots' = {} /\ events' = Empty
             /\ shieldsAdded' = {}
    <3>1. Empty \in [DOMAIN Empty -> Commitment] /\ DOMAIN Empty \subseteq Nat
      BY DEF Empty
    <3>2. /\ leaves' \in [DOMAIN leaves' -> Commitment] /\ DOMAIN leaves' \subseteq Nat
          /\ events' \in [DOMAIN events' -> Commitment] /\ DOMAIN events' \subseteq Nat
      BY <2>2, <3>1, Zenon
    <3>3. EventsFollowTree' /\ NoDuplicateEvents' /\ AgreesWithPeers'
          /\ AddedShieldsHaveEvents' /\ NextIndex(leaves') \in Nat
      BY <2>2, EmptyFacts DEF EventsFollowTree, NoDuplicateEvents,
                              AgreesWithPeers, AddedShieldsHaveEvents
    <3>4. QED
      BY <2>2, <3>2, <3>3
  <2>3. QED
    BY <1>0, <2>1, <2>2
<1>2. TypeOK'
  <2>1. pc' \in [Adder -> Step] /\ cur' \in [Adder -> Event \cup {None}]
    BY <1>0 DEF Step
  <2>2. queue' \in Seq(Commitment) /\ addingKey' \in Job \cup {None}
    BY <1>0
  <2>3. /\ peers' \in [DOMAIN peers' -> Commitment] /\ DOMAIN peers' \subseteq Nat
        /\ failures' \in 0 .. MaxFailures
    BY <1>0 DEF TypeOK
  <2>4. /\ phase' \in {"starting", "connected", "ready"} /\ minNextAdd' \in Nat
        /\ isUpdating' \in BOOLEAN /\ treeLength' \in Nat /\ warm' \in BOOLEAN
        /\ syncEnd' \in Int
    <3>1. phase' \in {"starting", "connected", "ready"}
      BY <1>0
    <3>2. isUpdating' \in BOOLEAN /\ warm' \in BOOLEAN
      BY <1>0
    <3>3. minNextAdd' \in Nat /\ syncEnd' \in Int
      BY <1>0
    <3>4. treeLength' \in Nat
      BY <1>0, <1>1, Zenon
    <3>5. QED
      BY <3>1, <3>2, <3>3, <3>4
  <2>5. QED
    BY <1>0, <1>1, <2>1, <2>2, <2>3, <2>4 DEF TypeOK
<1>3. Contiguous(peers)' /\ NoDuplicatePeerEvents' /\ NothingRunsAtStart'
  BY <1>0 DEF NoDuplicatePeerEvents, NothingRunsAtStart
<1>4. PeersAheadOnlyBelowMinimum' /\ KeyAndLock'
  BY <1>0 DEF PeersAheadOnlyBelowMinimum, KeyAndLock, InTree
<1>5. JobEvents' /\ SyncerEvents' /\ TreeEvents'
  BY <1>0 DEF JobEvents, SyncerEvents, TreeEvents
<1>6. PendingLeaf'
  <2>1. NextIndex(leaves') - NextIndex(events') \in {0, 1}
    BY <1>1 DEF EventsFollowTree
  <2>2. QED
    BY <1>0, <2>1 DEF PendingLeaf
<1>7. QED
  BY <1>1, <1>2, <1>3, <1>4, <1>5, <1>6

\* A stuttering step.
LEMMA StutterInv ==
  ASSUME IInv, UNCHANGED vars
  PROVE  IInv'
<1> USE DEF IInv, vars, database, startup, tree, bounds
<1>1. TypeOK'
  BY DEF TypeOK
<1>2. Contiguous(peers)' /\ NoDuplicatePeerEvents' /\ NothingRunsAtStart'
  BY DEF NoDuplicatePeerEvents, NothingRunsAtStart
<1>3. PeersAheadOnlyBelowMinimum' /\ KeyAndLock'
  BY DEF PeersAheadOnlyBelowMinimum, KeyAndLock, InTree
<1>4. JobEvents' /\ SyncerEvents'
  BY DEF JobEvents, SyncerEvents
<1>5. TreeEvents' /\ PendingLeaf'
  BY DEF TreeEvents, PendingLeaf
<1>6. EventsFollowTree' /\ NoDuplicateEvents' /\ AgreesWithPeers'
  BY DEF EventsFollowTree, NoDuplicateEvents, AgreesWithPeers
<1>7. AddedShieldsHaveEvents'
  BY DEF AddedShieldsHaveEvents
<1>8. QED
  BY <1>1, <1>2, <1>3, <1>4, <1>5, <1>6, <1>7

\* Every step keeps IInv.
LEMMA NextInv ==
  ASSUME IInv, PeersAnswer \subseteq {TRUE}, [Next]_vars
  PROVE  IInv'
<1>1. CASE ConnectedNodeStartup \/ MarkReady
  BY <1>1, StartupInv, ReadyInv
<1>2. ASSUME NEW c \in Commitment, QueuePOIEvent(c)
      PROVE  IInv'
  BY <1>2, QueueInv
<1>3. CASE Poll
  BY <1>3, PollInv
<1>4. ASSUME NEW a \in Adder, InsertStep(a)
      PROVE  IInv'
  BY <1>4, CheckTreeInv, WriteNodesInv, WriteMerklerootInv, InsertEventInv
     DEF InsertStep
<1>5. ASSUME NEW j \in Job, JobStep(j)
      PROVE  IInv'
  <2>1. CASE InsertStep(j)
    BY <1>4, <2>1
  <2>2. CASE ReadLastAdded(j) \/ CheckEventExists(j) \/ SignEvent(j)
    BY <2>2, ReadLastAddedInv, CheckEventExistsInv, SignEventInv
  <2>3. CASE RemoveFromQueue(j) \/ MarkShieldAdded(j) \/ PushEvent(j)
    BY <2>3, RemoveFromQueueInv, MarkShieldInv, PushEventInv
  <2>4. QED
    BY <1>5, <2>1, <2>2, <2>3 DEF JobStep
<1>6. CASE SyncStep
  <2>1. CASE InsertStep(Syncer)
    BY <1>4, <2>1
  <2>2. CASE FetchEventRange \/ VerifyEvent \/ NextInRange
    BY <2>2, FetchEventRangeInv, VerifyEventInv, NextInRangeInv
  <2>3. QED
    BY <1>6, <2>1, <2>2 DEF SyncStep
<1>7. CASE PeerPull
  BY <1>7, PeerPullInv
<1>8. CASE Failure
  BY <1>8, FailCallInv, FailTreeReadInv, FailTreeWriteInv DEF Failure
<1>9. CASE Crash
  BY <1>9, CrashInv
<1>10. CASE UNCHANGED vars
  BY <1>10, StutterInv
<1>11. QED
  BY <1>1, <1>2, <1>3, <1>5, <1>6, <1>7, <1>8, <1>9, <1>10 DEF Next

--------------------------------------------------------------------------------
\* IInv is an invariant of every node whose peers answer at startup, for any
\* number of commitments, executions, failures and crashes.
THEOREM Invariance ==
  ASSUME PeersAnswer \subseteq {TRUE}
  PROVE  Spec => []IInv
<1>1. Init => IInv
  BY InitInv
<1>2. IInv /\ [Next]_vars => IInv'
  BY NextInv
<1>3. QED
  BY <1>1, <1>2, PTL DEF Spec

--------------------------------------------------------------------------------
(* What follows from the invariant: the safety properties, and that the queue *)
(* implements the append-only list of POIList.                                *)

\* The node's collections, memory, executions and adders hold what they should,
\* the event carried across each await and the cached length included.
THEOREM QueueTypeOK ==
  ASSUME PeersAnswer \subseteq {TRUE}
  PROVE  Spec => []TypeOK
<1>1. IInv => TypeOK
  BY DEF IInv
<1>2. QED
  BY <1>1, Invariance, PTL

\* The provider's list has no gap, its tree commits to it, and whatever fails or
\* crashes the tree is ahead of the stored events by at most one leaf.
THEOREM TreeAndEventsTogether ==
  ASSUME PeersAnswer \subseteq {TRUE}
  PROVE  Spec => []EventsFollowTree
<1>1. IInv => EventsFollowTree
  BY DEF IInv
<1>2. QED
  BY <1>1, Invariance, PTL

\* No blinded commitment enters the list twice.
THEOREM EventsAreUnique ==
  ASSUME PeersAnswer \subseteq {TRUE}
  PROVE  Spec => []NoDuplicateEvents
<1>1. IInv => NoDuplicateEvents
  BY DEF IInv
<1>2. QED
  BY <1>1, Invariance, PTL

\* The provider never signs a second event for an index a peer has received.
THEOREM PublishedIndicesAreFinal ==
  ASSUME PeersAnswer \subseteq {TRUE}
  PROVE  Spec => []AgreesWithPeers
<1>1. IInv => AgreesWithPeers
  BY DEF IInv
<1>2. QED
  BY <1>1, Invariance, PTL

\* The key admits one execution to the queue, the flag one adder to the tree.
THEOREM MutualExclusion ==
  ASSUME PeersAnswer \subseteq {TRUE}
  PROVE  Spec => []OneAdderAtATime
<1>1. IInv => OneAdderAtATime
  BY DEF IInv, KeyAndLock, OneAdderAtATime
<1>2. QED
  BY <1>1, Invariance, PTL

\* A shield marked AddedPOI has its event in the list.
THEOREM ShieldsAreAddedWithTheirEvents ==
  ASSUME PeersAnswer \subseteq {TRUE}
  PROVE  Spec => []AddedShieldsHaveEvents
<1>1. IInv => AddedShieldsHaveEvents
  BY DEF IInv
<1>2. QED
  BY <1>1, Invariance, PTL

--------------------------------------------------------------------------------
\* Dropping the head of a queue loses no other entry, appending none at all.
LEMMA QueueEntries ==
  ASSUME NEW S, NEW q \in Seq(S)
  PROVE  /\ q # <<>> => \A c \in Entries(q) : c = Head(q) \/ c \in Entries(Tail(q))
         /\ \A v \in S : Entries(q) \subseteq Entries(Append(q, v))
<1>1. ASSUME q # <<>>, NEW c \in Entries(q)
      PROVE  c = Head(q) \/ c \in Entries(Tail(q))
  <2>1. PICK i \in 1 .. Len(q) : c = q[i]
    BY <1>1 DEF Entries
  <2>2. CASE i = 1
    BY <1>1, <2>1, <2>2
  <2>3. CASE i # 1
    <3>1. i - 1 \in 1 .. Len(Tail(q)) /\ Tail(q)[i - 1] = q[i]
      BY <1>1, <2>3
    <3>2. i - 1 \in DOMAIN Tail(q) /\ Tail(q)[i - 1] = c
      BY <1>1, <2>1, <3>1
    <3>3. QED
      BY <3>2 DEF Entries
  <2>4. QED
    BY <2>2, <2>3
<1>2. ASSUME NEW v \in S, NEW c \in Entries(q)
      PROVE  c \in Entries(Append(q, v))
  <2>1. PICK i \in 1 .. Len(q) : c = q[i]
    BY DEF Entries
  <2>2. i \in DOMAIN Append(q, v) /\ Append(q, v)[i] = c
    BY <2>1
  <2>3. QED
    BY <2>2 DEF Entries
<1>3. QED
  BY <1>1, <1>2

\* No failure loses a queued event: while the process lives, what leaves the
\* queue is in the list.
THEOREM QueueKeepsItsEvents ==
  ASSUME PeersAnswer \subseteq {TRUE}
  PROVE  Spec => NoQueuedEventDropped
<1> DEFINE Kept == \A c \in Entries(queue) \ Entries(queue') :
                     c \in Entries(events) \/ crashes' > crashes
<1>1. ASSUME IInv, [Next]_vars
      PROVE  Kept
  <2> USE DEF database, startup, tree, bounds
  <2>0. queue \in Seq(Commitment) /\ crashes \in Nat
    BY <1>1 DEF IInv, TypeOK
  <2>1. CASE queue' = queue
    BY <2>1
  <2>2. ASSUME NEW c \in Commitment, QueuePOIEvent(c) PROVE Kept
    <3>1. queue' = queue \/ queue' = Append(queue, c)
      BY <2>2 DEF QueuePOIEvent
    <3>2. Entries(queue) \subseteq Entries(queue')
      BY <2>0, <3>1, QueueEntries
    <3>3. QED
      BY <3>2
  <2>3. ASSUME queue # <<>>, queue' = Tail(queue), Head(queue) \in Entries(events)
        PROVE  Kept
    BY <2>0, <2>3, QueueEntries
  <2>4. ASSUME NEW j \in Job, JobStep(j) PROVE Kept
    <3>1. CASE CheckEventExists(j) /\ cur[j].commitment \in Entries(events)
      BY <1>1, <2>3, <3>1 DEF CheckEventExists, IInv, JobEvents
    <3>2. CASE CheckEventExists(j) /\ cur[j].commitment \notin Entries(events)
      BY <2>1, <3>2 DEF CheckEventExists
    <3>3. CASE RemoveFromQueue(j)
      <4>1. /\ queue # <<>> /\ queue' = Tail(queue)
            /\ Head(queue) \in Entries(events)
        BY <1>1, <3>3 DEF RemoveFromQueue, IInv, JobEvents, Entries
      <4>2. QED
        BY <2>3, <4>1
    <3>4. CASE ReadLastAdded(j) \/ SignEvent(j)
      BY <2>1, <3>4 DEF ReadLastAdded, SignEvent
    <3>5. CASE InsertStep(j)
      BY <2>1, <3>5 DEF InsertStep, CheckTree, WriteNodes, WriteMerkleroot, InsertEvent
    <3>6. CASE MarkShieldAdded(j) \/ PushEvent(j)
      BY <2>1, <3>6 DEF MarkShieldAdded, PushEvent
    <3>7. QED
      BY <2>4, <3>1, <3>2, <3>3, <3>4, <3>5, <3>6 DEF JobStep
  <2>5. CASE ConnectedNodeStartup \/ MarkReady \/ Poll \/ PeerPull
    BY <2>1, <2>5 DEF ConnectedNodeStartup, MarkReady, Poll, PeerPull
  <2>6. CASE SyncStep
    <3>1. CASE InsertStep(Syncer)
      BY <2>1, <3>1 DEF InsertStep, CheckTree, WriteNodes, WriteMerkleroot, InsertEvent
    <3>2. CASE FetchEventRange \/ VerifyEvent \/ NextInRange
      BY <2>1, <3>2 DEF FetchEventRange, VerifyEvent, NextInRange
    <3>3. QED
      BY <2>6, <3>1, <3>2 DEF SyncStep
  <2>7. CASE Failure
    BY <2>1, <2>7 DEF Failure, FailCall, FailTreeRead, FailTreeWrite
  <2>8. CASE Crash
    BY <2>0, <2>8 DEF Crash
  <2>9. CASE UNCHANGED vars
    BY <2>1, <2>9 DEF vars
  <2>10. QED
    BY <1>1, <2>2, <2>4, <2>5, <2>6, <2>7, <2>8, <2>9 DEF Next
<1>2. IInv /\ [Next]_vars => [Kept]_vars
  BY <1>1
<1>3. QED
  BY <1>2, Invariance, PTL DEF Spec, NoQueuedEventDropped

--------------------------------------------------------------------------------
(* The refinement.  List is the provider's list completed by the peers'.     *)

\* The helpers of POIList are those of this module.
LEMMA SameHelpers ==
  ASSUME NEW f, NEW i, NEW v
  PROVE  /\ Abstract!Empty = Empty /\ Abstract!Put(f, i, v) = Put(f, i, v)
         /\ Abstract!NextIndex(f) = NextIndex(f)
         /\ Abstract!Entries(f) = Entries(f)
         /\ Abstract!Prefix(f, i) = Prefix(f, i)
BY DEF Abstract!Empty, Abstract!Put, Abstract!NextIndex, Abstract!IsHighest,
       Abstract!Entries, Abstract!Prefix, Empty, Put, NextIndex, IsHighest,
       Entries, Prefix

\* The values of List, whichever copy they are read from.
LEMMA ListFacts ==
  ASSUME IInv
  PROVE  /\ DOMAIN List = DOMAIN events \cup DOMAIN peers
         /\ \A i \in DOMAIN events : List[i] = events[i]
         /\ \A i \in DOMAIN peers : List[i] = peers[i]
         /\ NextIndex(events) >= NextIndex(peers) =>
              DOMAIN List = DOMAIN events /\ NextIndex(List) = NextIndex(events)
         /\ NextIndex(peers) >= NextIndex(events) => DOMAIN List = DOMAIN peers
<1>1. /\ DOMAIN List = DOMAIN events \cup DOMAIN peers
      /\ \A i \in DOMAIN events : List[i] = events[i]
      /\ \A i \in DOMAIN peers : List[i] = peers[i]
  BY DEF List, IInv, AgreesWithPeers
<1>2. /\ NextIndex(events) \in Nat /\ NextIndex(peers) \in Nat
      /\ DOMAIN events = 0 .. NextIndex(events) - 1
      /\ DOMAIN peers = 0 .. NextIndex(peers) - 1
  BY Shapes
<1> HIDE DEF List
<1>3. NextIndex(events) >= NextIndex(peers) =>
        DOMAIN List = DOMAIN events /\ NextIndex(List) = NextIndex(events)
  <2> SUFFICES ASSUME NextIndex(events) >= NextIndex(peers)
               PROVE  DOMAIN List = DOMAIN events /\ NextIndex(List) = NextIndex(events)
    OBVIOUS
  <2>1. DOMAIN List = 0 .. NextIndex(events) - 1
    BY <1>1, <1>2
  <2>2. NextIndex(List) = NextIndex(events)
    BY <1>2, <2>1, NextIndexOfRange
  <2>3. QED
    BY <1>2, <2>1, <2>2
<1>4. NextIndex(peers) >= NextIndex(events) => DOMAIN List = DOMAIN peers
  BY <1>1, <1>2
<1>5. QED
  BY <1>1, <1>3, <1>4

\* An empty database is the empty list.
LEMMA AbstractInit == Init => Abstract!Init
<1> SUFFICES ASSUME Init PROVE Abstract!Init
  OBVIOUS
<1>1. List = Empty
  BY DEF Init, List, Empty
<1>2. NextIndex(peers) = 0
  BY EmptyFacts DEF Init
<1>3. Abstract!Empty = Empty
  BY SameHelpers
<1>4. QED
  BY <1>1, <1>2, <1>3 DEF Abstract!Init

\* Storing an event appends to the list, unless a peer or the provider holds it.
LEMMA InsertEventAppends ==
  ASSUME IInv, IInv', NEW a \in Adder, InsertEvent(a)
  PROVE  Abstract!Next \/ UNCHANGED Abstract!vars
<1> DEFINE e == cur[a]
           n == NextIndex(events)
<1>1. /\ e \in Event
      /\ \/ events' = events
         \/ /\ e.index = n /\ e.commitment \notin Entries(events)
            /\ n \notin DOMAIN events
            /\ DOMAIN events' = DOMAIN events \cup {n}
            /\ \A i \in DOMAIN events : events'[i] = events[i]
            /\ events'[n] = e.commitment
  BY StoredEvent
<1>2. pc[a] = "event" /\ peers' = peers
  BY DEF InsertEvent
<1>3. CASE events' = events
  BY <1>2, <1>3 DEF List, Abstract!vars
<1>4. CASE /\ e.index = n /\ e.commitment \notin Entries(events)
           /\ n \notin DOMAIN events
           /\ DOMAIN events' = DOMAIN events \cup {n}
           /\ \A i \in DOMAIN events : events'[i] = events[i]
           /\ events'[n] = e.commitment
  <2>1. CASE n \in DOMAIN peers
    <3>1. List' = List
      BY <1>2, <1>4, <2>1 DEF List
    <3>2. QED
      BY <1>2, <3>1 DEF Abstract!vars
  <2>2. CASE n \notin DOMAIN peers
    <3>1. NextIndex(peers) <= n /\ n \in Nat /\ NextIndex(peers) \in Nat
      BY <2>2, Shapes
    <3>2. /\ DOMAIN List = DOMAIN events /\ NextIndex(List) = n
          /\ \A i \in DOMAIN events : List[i] = events[i]
      BY <3>1, ListFacts
    <3>3. DOMAIN peers \subseteq DOMAIN events
      BY <3>2, ListFacts
    <3>4. e.commitment \notin Entries(List)
      BY <1>4, <3>2 DEF Entries
    <3>5. List' = Put(List, n, e.commitment)
      <4>1. Put(List, n, e.commitment) =
              [i \in DOMAIN events \cup {n} |->
                 IF i = n THEN e.commitment ELSE events[i]]
        <5> HIDE DEF List
        <5>1. QED
          BY <1>4, <3>2 DEF Put
      <4>2. List' = [i \in DOMAIN events \cup {n} |->
                       IF i \in DOMAIN peers THEN peers[i] ELSE events'[i]]
        BY <1>2, <1>4, <3>3 DEF List
      <4>3. \A i \in DOMAIN peers : peers[i] = events[i] /\ i # n
        BY <2>2, <3>3 DEF IInv, AgreesWithPeers
      <4>4. QED
        BY <1>4, <4>1, <4>2, <4>3
    <3>6. e.commitment \in Commitment
      BY <1>1 DEF Event
    <3>7. Abstract!Append(e.commitment)
      BY <1>2, <3>2, <3>4, <3>5, SameHelpers DEF Abstract!Append
    <3>8. QED
      BY <3>6, <3>7 DEF Abstract!Next
  <2>3. QED
    BY <2>1, <2>2
<1>5. QED
  BY <1>1, <1>3, <1>4

\* A peer that takes the provider's next event publishes it.
LEMMA PeerReceivesPublishes ==
  ASSUME IInv, NEW i, i = NextIndex(peers), i \in DOMAIN events,
         peers' = Put(peers, i, events[i]), UNCHANGED <<events, startup>>
  PROVE  Abstract!Publish
<1>1. /\ DOMAIN peers' = DOMAIN peers \cup {i}
      /\ \A k \in DOMAIN peers : peers'[k] = peers[k]
      /\ NextIndex(peers') = NextIndex(peers) + 1
  BY PeerReceives
<1>2. i \notin DOMAIN peers
  BY Shapes
<1>3. peers'[i] = events[i]
  BY <1>2 DEF Put
<1>4. List' = List
  BY <1>1, <1>2, <1>3 DEF List
<1>5. NextIndex(peers) \in DOMAIN List
  BY DEF List
<1>6. QED
  BY <1>1, <1>4, <1>5 DEF Abstract!Publish

\* A crash forgets nothing, or with the database what no peer has received.
LEMMA CrashForgets ==
  ASSUME IInv, Crash
  PROVE  Abstract!Next \/ UNCHANGED Abstract!vars
<1>1. peers' = peers /\ (events' = events \/ events' = Empty)
  BY DEF Crash, database
<1>2. CASE events' = events
  BY <1>1, <1>2 DEF List, Abstract!vars
<1>3. CASE events' = Empty
  <2>1. DOMAIN events' = {}
    BY <1>3, EmptyFacts
  <2>2. List' = [k \in DOMAIN peers |-> peers[k]]
    BY <1>1, <2>1 DEF List
  <2>3. \A k \in DOMAIN peers : List[k] = peers[k]
    BY ListFacts
  <2>4. DOMAIN peers = 0 .. NextIndex(peers) - 1
    BY Shapes
  <2>5. Prefix(List, NextIndex(peers)) = [k \in DOMAIN peers |-> List[k]]
    BY <2>4 DEF Prefix
  <2>6. List' = Prefix(List, NextIndex(peers))
    <3> HIDE DEF List
    <3>1. QED
      BY <2>2, <2>3, <2>5
  <2>7. Abstract!Forget
    BY <1>1, <2>6, SameHelpers DEF Abstract!Forget
  <2>8. QED
    BY <2>7 DEF Abstract!Next
<1>4. QED
  BY <1>1, <1>2, <1>3

\* Every other step leaves the list and what is published alone.
LEMMA StepImplementsList ==
  ASSUME IInv, IInv', [Next]_vars
  PROVE  Abstract!Next \/ UNCHANGED Abstract!vars
<1> USE DEF database, startup, tree, bounds
<1>1. CASE UNCHANGED <<events, peers>>
  BY <1>1 DEF List, Abstract!vars
<1>2. ASSUME NEW a \in Adder, InsertStep(a)
      PROVE  Abstract!Next \/ UNCHANGED Abstract!vars
  <2>1. CASE InsertEvent(a)
    BY <2>1, InsertEventAppends
  <2>2. CASE CheckTree(a) \/ WriteNodes(a) \/ WriteMerkleroot(a)
    BY <1>1, <2>2 DEF CheckTree, WriteNodes, WriteMerkleroot
  <2>3. QED
    BY <1>2, <2>1, <2>2 DEF InsertStep
<1>3. ASSUME NEW j \in Job, PushEvent(j)
      PROVE  Abstract!Next \/ UNCHANGED Abstract!vars
  <2> DEFINE e == cur[j]
  <2>1. /\ events[e.index] = e.commitment /\ e.index \in DOMAIN events
        /\ UNCHANGED <<events, startup>>
        /\ \/ peers' = peers
           \/ /\ e.index = NextIndex(peers)
              /\ peers' = Put(peers, e.index, e.commitment)
    BY <1>3 DEF PushEvent, IInv, JobEvents
  <2>2. CASE peers' = peers
    BY <1>1, <2>1, <2>2
  <2>3. CASE e.index = NextIndex(peers) /\ peers' = Put(peers, e.index, e.commitment)
    BY <2>1, <2>3, PeerReceivesPublishes DEF Abstract!Next
  <2>4. QED
    BY <2>1, <2>2, <2>3
<1>4. ASSUME NEW j \in Job, JobStep(j)
      PROVE  Abstract!Next \/ UNCHANGED Abstract!vars
  <2>1. CASE InsertStep(j)
    BY <1>2, <2>1 DEF Adder
  <2>2. CASE ReadLastAdded(j) \/ CheckEventExists(j) \/ SignEvent(j)
             \/ RemoveFromQueue(j) \/ MarkShieldAdded(j)
    BY <1>1, <2>2 DEF ReadLastAdded, CheckEventExists, SignEvent,
                      RemoveFromQueue, MarkShieldAdded
  <2>3. QED
    BY <1>3, <1>4, <2>1, <2>2 DEF JobStep
<1>5. CASE SyncStep
  <2>1. CASE InsertStep(Syncer)
    BY <1>2, <2>1 DEF Adder
  <2>2. CASE FetchEventRange \/ VerifyEvent \/ NextInRange
    BY <1>1, <2>2 DEF FetchEventRange, VerifyEvent, NextInRange
  <2>3. QED
    BY <1>5, <2>1, <2>2 DEF SyncStep
<1>6. CASE PeerPull
  BY <1>6, PeerReceivesPublishes DEF PeerPull, Abstract!Next
<1>7. CASE Crash
  BY <1>7, CrashForgets
<1>8. CASE ConnectedNodeStartup \/ MarkReady \/ Poll \/ Failure
           \/ \E c \in Commitment : QueuePOIEvent(c)
  BY <1>1, <1>8 DEF ConnectedNodeStartup, MarkReady, Poll, QueuePOIEvent,
                    Failure, FailCall, FailTreeRead, FailTreeWrite
<1>9. CASE UNCHANGED vars
  BY <1>1, <1>9 DEF vars
<1>10. QED
  BY <1>4, <1>5, <1>6, <1>7, <1>8, <1>9 DEF Next

\* The queue, its adders, the syncer, failures, crashes and the loss of the
\* database together implement an append-only list whose published prefix is
\* never revised.
THEOREM Refinement ==
  ASSUME PeersAnswer \subseteq {TRUE}
  PROVE  Spec => ImplementsPOIList
<1>1. Init => Abstract!Init
  BY AbstractInit
<1>2. IInv /\ IInv' /\ [Next]_vars => [Abstract!Next]_(Abstract!vars)
  BY StepImplementsList
<1>3. QED
  BY <1>1, <1>2, Invariance, PTL DEF Spec, ImplementsPOIList, Abstract!Spec
================================================================================
