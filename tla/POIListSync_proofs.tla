--------------------------- MODULE POIListSync_proofs ---------------------------
(*****************************************************************************)
(* Proofs about POIListSync: for any number of followers, handlers, events,  *)
(* failures and restarts, a copy is a gapless prefix of the provider's list, *)
(* and until it restarts it loses neither an event nor a merkleroot.         *)
(*****************************************************************************)
EXTENDS POIListSync, IndexedList_proofs, FiniteSetTheorems, SequenceTheorems,
        WellFoundedInduction, TLAPS

USE ConstantsAssumption DEF Node, Step

--------------------------------------------------------------------------------
(* The inductive invariant.                                                  *)

Adding == {"verify", "tree", "nodes", "root", "event", "prune"}
InTree == {"tree", "nodes", "root"}

\* The tree is a prefix of the provider's list, as long as its cached length or
\* one leaf longer; the events are among its leaves.
TreeIsPrefix ==
  \A f \in Follower :
    /\ leaves[f] = 0 .. treeLength[f] - 1 \/ leaves[f] = 0 .. treeLength[f]
    /\ leaves[f] \subseteq 0 .. list - 1
    /\ treeLength[f] <= list
    /\ events[f] \subseteq leaves[f]

\* Pushes, adders and pollers carry events of the provider's list.  Between the tests
\* of insertLeaf and the merkleroot the event is the next leaf, and after it a
\* stored one.
CarriedEvents ==
  /\ \A f \in Follower : push[f] # "none" => list # 0
  /\ \A f \in Follower : batch[f] \subseteq 0 .. list - 1
  /\ \A a \in Adder :
       /\ pc[a] \in Adding => cur[a] \in 0 .. list - 1
       /\ pc[a] \in {"nodes", "root"} => cur[a] = treeLength[a[1]]
       /\ pc[a] \in {"root", "event"} => cur[a] \in leaves[a[1]]

\* isUpdating admits one adder to a tree.
OneAdderPerTree ==
  /\ \A a \in Adder : pc[a] \in InTree => isUpdating[a[1]]
  /\ \A a, b \in Adder :
       a[1] = b[1] /\ pc[a] \in InTree /\ pc[b] \in InTree => a = b

\* Without a restart the cached length counts leaves with their merkleroots, and
\* only those get events.
CountedLeavesHaveRoots ==
  crashes = 0 =>
    /\ \A f \in Follower :
         /\ 0 .. treeLength[f] - 1 \subseteq roots[f]
         /\ events[f] \subseteq 0 .. treeLength[f] - 1
    /\ \A a \in Adder : pc[a] = "event" => cur[a] < treeLength[a[1]]

IInv ==
  /\ TypeOK
  /\ TreeIsPrefix
  /\ CarriedEvents
  /\ OneAdderPerTree
  /\ CountedLeavesHaveRoots

--------------------------------------------------------------------------------
(* Least elements, and the counter of getMissingEventIndices.                *)

\* A set of natural numbers that is not empty has a least element.
LEMMA LeastElement ==
  ASSUME NEW S, S \subseteq Nat, S # {}
  PROVE  \E m \in S : \A i \in S : m <= i
<1> DEFINE R == {ss \in Nat \X Nat : ss[1] < ss[2]}
<1>1. PICK m \in S : \A i \in S : <<i, m>> \notin R
  <2>1. IsWellFoundedOn(R, Nat)
    BY NatLessThanWellFounded, Zenon DEF OpToRel
  <2> HIDE DEF R
  <2>2. QED
    BY <2>1, WFMin
<1>2. ASSUME NEW i \in S PROVE m <= i
  <2>1. i \in Nat /\ m \in Nat
    OBVIOUS
  <2>2. i < m => <<i, m>> \in R
    BY <2>1
  <2>3. ~ (i < m)
    BY <1>1, <2>2
  <2>4. QED
    BY <2>1, <2>3
<1>3. QED
  BY <1>2

LEMMA MinIsLeast ==
  ASSUME NEW S, S \subseteq Nat, S # {}
  PROVE  Min(S) \in S /\ \A i \in S : Min(S) <= i
BY LeastElement DEF Min

\* The equation that the counter satisfies.
Counts(c, stored, n) ==
  c = [i \in 0 .. n |->
         IF i = 0 THEN 0
         ELSE IF i - 1 \notin stored THEN c[i - 1]
         ELSE IF c[i - 1] = i - 1 THEN i ELSE c[i - 1] + 2]

\* It has a solution for lists of any length.
LEMMA CounterExists ==
  ASSUME NEW stored, NEW n \in Nat
  PROVE  \E c : Counts(c, stored, n)
<1> DEFINE Bad == {k \in Nat : ~ \E c : Counts(c, stored, k)}
<1>1. SUFFICES ASSUME Bad # {} PROVE FALSE
  OBVIOUS
<1>2. PICK m \in Bad : \A k \in Bad : m <= k
  <2> HIDE DEF Bad
  <2>1. Bad \subseteq Nat
    BY DEF Bad
  <2>2. QED
    BY <1>1, <2>1, LeastElement
<1>3. CASE m = 0
  <2>1. Counts([i \in 0 .. 0 |-> 0], stored, 0)
    BY DEF Counts
  <2>2. QED
    BY <1>2, <1>3, <2>1
<1>4. CASE m # 0
  <2>1. PICK c : Counts(c, stored, m - 1)
    BY <1>2, <1>4
  <2> DEFINE next == IF m - 1 \notin stored THEN c[m - 1]
                     ELSE IF c[m - 1] = m - 1 THEN m ELSE c[m - 1] + 2
             d == [i \in 0 .. m |-> IF i = m THEN next ELSE c[i]]
  <2>2. \A i \in 0 .. m - 1 : d[i] = c[i]
    BY <1>2
  <2>3. d[m] = next
    BY <1>2
  <2>4. ASSUME NEW i \in 0 .. m
        PROVE  d[i] = IF i = 0 THEN 0
                      ELSE IF i - 1 \notin stored THEN d[i - 1]
                      ELSE IF d[i - 1] = i - 1 THEN i ELSE d[i - 1] + 2
    <3> HIDE DEF next, d
    <3>1. CASE i = m
      BY <1>2, <1>4, <2>2, <2>3, <3>1 DEF next
    <3>2. CASE i # m
      <4>1. i \in 0 .. m - 1 /\ (i # 0 => i - 1 \in 0 .. m - 1)
        BY <1>2, <3>2
      <4>2. c[i] = IF i = 0 THEN 0
                   ELSE IF i - 1 \notin stored THEN c[i - 1]
                   ELSE IF c[i - 1] = i - 1 THEN i ELSE c[i - 1] + 2
        BY <2>1, <4>1 DEF Counts
      <4>3. QED
        BY <2>2, <4>1, <4>2
    <3>3. QED
      BY <3>1, <3>2
  <2>5. Counts(d, stored, m)
    <3> HIDE DEF next
    <3>1. d = [i \in 0 .. m |-> d[i]]
      OBVIOUS
    <3> HIDE DEF d
    <3>2. QED
      BY <2>4, <3>1 DEF Counts
  <2>6. QED
    BY <1>2, <2>5
<1>5. QED
  BY <1>3, <1>4

\* The counter never passes the index it is compared with.
LEMMA CounterBound ==
  ASSUME NEW stored
  PROVE  \A i \in 0 .. MaxEvents : Counter(stored)[i] \in 0 .. i
<1> DEFINE c == Counter(stored)
           Bad == {i \in 0 .. MaxEvents : c[i] \notin 0 .. i}
<1>1. MaxEvents \in Nat
  OBVIOUS
<1>2. Counts(c, stored, MaxEvents)
  <2>1. c = CHOOSE d : Counts(d, stored, MaxEvents)
    BY Zenon DEF Counter, Counts
  <2> HIDE DEF c
  <2>2. \E d : Counts(d, stored, MaxEvents)
    BY <1>1, CounterExists
  <2>3. QED
    BY <2>1, <2>2, Zenon
<1> HIDE DEF c
<1>3. SUFFICES ASSUME Bad # {} PROVE FALSE
  BY DEF c
<1>4. PICK m \in Bad : \A i \in Bad : m <= i
  <2> HIDE DEF Bad
  <2>1. Bad \subseteq Nat
    BY <1>1 DEF Bad
  <2>2. QED
    BY <1>3, <2>1, LeastElement
<1>5. c[m] = IF m = 0 THEN 0
             ELSE IF m - 1 \notin stored THEN c[m - 1]
             ELSE IF c[m - 1] = m - 1 THEN m ELSE c[m - 1] + 2
  BY <1>1, <1>2, <1>4 DEF Counts
<1>6. m # 0 => c[m - 1] \in 0 .. m - 1
  BY <1>1, <1>4
<1>7. QED
  BY <1>1, <1>4, <1>5, <1>6

\* What getMissingEventIndices reports lies before an event.
LEMMA MissingIndices ==
  ASSUME NEW f \in Follower, events[f] \subseteq 0 .. MaxEvents
  PROVE  MissingEventIndices(f) \subseteq 0 .. MaxEvents
<1>1. \A i \in 0 .. MaxEvents : Counter(events[f])[i] \in 0 .. i
  BY CounterBound
<1> HIDE DEF Counter
<1>2. QED
  BY <1>1 DEF MissingEventIndices

--------------------------------------------------------------------------------
(* Helpers of the actions.                                                   *)

\* The poller's fields hold what they should.
PollerTypeOK ==
  /\ node \in [Follower -> Nat]
  /\ \A f \in Follower : node[f] \in DOMAIN NodeConfigs[f]
  /\ peerLength \in [Follower -> 0 .. MaxEvents]
  /\ missing \in [Follower -> SUBSET (0 .. MaxEvents)]
  /\ range \in [Follower -> SUBSET (0 .. MaxEvents)]
  /\ batch \in [Follower -> SUBSET (0 .. MaxEvents)]

\* No push begins.
PushesGoOn ==
  /\ push' \in [Follower -> {"none", "sent", "open"}]
  /\ \A f \in Follower : push[f] = "none" => push'[f] = "none"

\* Adders are pairs of a follower and what runs there.
LEMMA AdderParts ==
  /\ \A a \in Adder : a[1] \in Follower /\ a = <<a[1], a[2]>>
  /\ \A f \in Follower : <<f, Syncer>> \in Adder
  /\ \A f \in Follower : \A h \in Handler : <<f, h>> \in Adder /\ h # Syncer
BY DEF Adder

\* The configuration of a follower is a sequence of nodes that is not empty.
LEMMA ConfigTyping ==
  ASSUME NEW f \in Follower
  PROVE  /\ Len(NodeConfigs[f]) \in Nat \ {0}
         /\ DOMAIN NodeConfigs[f] = 1 .. Len(NodeConfigs[f])
         /\ \A i \in DOMAIN NodeConfigs[f] : NodeConfigs[f][i] \in Node
<1>1. NodeConfigs[f] \in Seq(Node \ {f}) /\ NodeConfigs[f] # <<>>
  OBVIOUS
<1>2. QED
  BY <1>1, EmptySeq, LenProperties, ElementOfSeq

\* What a node answers about its list is no more than the list.
LEMMA QueryTyping ==
  ASSUME TypeOK, TreeIsPrefix
  PROVE  /\ \A f \in Follower : Peer(f) \in Node
         /\ \A n \in Node : EventsLength(n) \in 0 .. MaxEvents
         /\ \A n \in Node : \A S : ListEventRange(n, S) \subseteq S \cap 0 .. list - 1
<1>1. ASSUME NEW f \in Follower PROVE Peer(f) \in Node
  BY ConfigTyping DEF Peer, TypeOK
<1>2. ASSUME NEW n \in Node PROVE EventsLength(n) \in 0 .. MaxEvents
  <2>1. CASE n = Provider
    BY <2>1 DEF EventsLength, TypeOK
  <2>2. CASE n # Provider
    <3>1. n \in Follower /\ events[n] \subseteq 0 .. list - 1
      BY <2>2 DEF TreeIsPrefix
    <3>2. list \in 0 .. MaxEvents
      BY DEF TypeOK
    <3>3. /\ IsFiniteSet(0 .. list - 1)
          /\ Cardinality(0 .. list - 1) <= MaxEvents
      <4>1. 0 \in Int /\ list - 1 \in Int
        BY <3>2
      <4>2. /\ IsFiniteSet(0 .. list - 1)
            /\ Cardinality(0 .. list - 1)
                 = IF 0 > list - 1 THEN 0 ELSE list - 1 - 0 + 1
        BY <4>1, FS_Interval
      <4>3. QED
        BY <3>2, <4>2
    <3>4. /\ Cardinality(events[n]) \in Nat /\ Cardinality(0 .. list - 1) \in Nat
          /\ Cardinality(events[n]) <= Cardinality(0 .. list - 1)
      BY <3>1, <3>3, FS_Subset, FS_CardinalityType
    <3>5. QED
      BY <2>2, <3>3, <3>4 DEF EventsLength
  <2>3. QED
    BY <2>1, <2>2
<1>3. ASSUME NEW n \in Node, NEW S
      PROVE  ListEventRange(n, S) \subseteq S \cap 0 .. list - 1
  BY DEF ListEventRange, TreeIsPrefix
<1>4. QED
  BY <1>1, <1>2, <1>3

\* The end of a poll stops the poller and moves on to the next peer.
LEMMA EndPollStops ==
  ASSUME TypeOK, NEW f \in Follower, EndPoll(f)
  PROVE  /\ pc' = [pc EXCEPT ![<<f, Syncer>>] = "idle"]
         /\ cur' = [cur EXCEPT ![<<f, Syncer>>] = None]
         /\ PushesGoOn
         /\ PollerTypeOK'
         /\ \A g \in Follower : batch'[g] \subseteq batch[g]
<1>1. /\ pc' = [pc EXCEPT ![<<f, Syncer>>] = "idle"]
      /\ cur' = [cur EXCEPT ![<<f, Syncer>>] = None]
      /\ PushesGoOn
  BY DEF EndPoll, Stop, TypeOK, PushesGoOn
<1>2. (node[f] % Len(NodeConfigs[f])) + 1 \in DOMAIN NodeConfigs[f]
  BY ConfigTyping DEF TypeOK
<1>3. /\ node' \in [Follower -> Nat]
      /\ \A g \in Follower : node'[g] \in DOMAIN NodeConfigs[g]
  BY <1>2, ConfigTyping DEF EndPoll, TypeOK
<1>4. /\ peerLength' \in [Follower -> 0 .. MaxEvents]
      /\ missing' \in [Follower -> SUBSET (0 .. MaxEvents)]
      /\ range' \in [Follower -> SUBSET (0 .. MaxEvents)]
      /\ batch' \in [Follower -> SUBSET (0 .. MaxEvents)]
  BY DEF EndPoll, TypeOK
<1>5. \A g \in Follower : batch'[g] \subseteq batch[g]
  BY DEF EndPoll, TypeOK
<1>6. QED
  BY <1>1, <1>3, <1>4, <1>5 DEF PollerTypeOK

\* So does what catches the rejection of an adder.
LEMMA ThrowStops ==
  ASSUME TypeOK, NEW a \in Adder, Throw(a) \/ EndRequest(a)
  PROVE  /\ pc' = [pc EXCEPT ![a] = "idle"]
         /\ cur' = [cur EXCEPT ![a] = None]
         /\ PushesGoOn
         /\ PollerTypeOK'
         /\ \A g \in Follower : batch'[g] \subseteq batch[g]
<1>1. CASE EndRequest(a)
  <2>1. PollerTypeOK' /\ batch' = batch
    BY <1>1 DEF EndRequest, poller, PollerTypeOK, TypeOK
  <2>2. QED
    BY <1>1, <2>1 DEF EndRequest, Stop, TypeOK, PushesGoOn
<1>2. CASE Throw(a) /\ a[2] = Syncer
  <2>1. EndPoll(a[1]) /\ a = <<a[1], Syncer>> /\ a[1] \in Follower
    BY <1>2, AdderParts DEF Throw
  <2>2. QED
    BY <2>1, EndPollStops
<1>3. CASE Throw(a) /\ a[2] # Syncer
  BY <1>1, <1>3 DEF Throw
<1>4. QED
  BY <1>1, <1>2, <1>3

\* Whatever follows a request or an event, the poller holds events of the list.
LEMMA ContinueTyping ==
  ASSUME TypeOK, NEW f \in Follower,
         NEW fetched \in SUBSET (0 .. list - 1),
         NEW single \in SUBSET (0 .. MaxEvents),
         NEW rest \in SUBSET (0 .. MaxEvents),
         \A g \in Follower : batch[g] \subseteq 0 .. list - 1,
         Continue(f, fetched, single, rest)
  PROVE  /\ \E s \in {"verify", "fetch", "idle"}, e \in 0 .. list - 1 \cup {None} :
              /\ pc' = [pc EXCEPT ![<<f, Syncer>>] = s]
              /\ cur' = [cur EXCEPT ![<<f, Syncer>>] = e]
              /\ s = "verify" => e \in 0 .. list - 1
         /\ PushesGoOn
         /\ PollerTypeOK'
         /\ \A g \in Follower : batch'[g] \subseteq 0 .. list - 1
<1>0. list \in 0 .. MaxEvents
  BY DEF TypeOK
<1>1. CASE fetched # {}
  <2>1. Min(fetched) \in fetched
    <3>1. fetched \subseteq Nat
      BY <1>0
    <3>2. QED
      BY <1>1, <3>1, MinIsLeast
  <2>2. Min(fetched) \in 0 .. list - 1 /\ fetched \ {Min(fetched)} \subseteq 0 .. list - 1
    BY <2>1
  <2> DEFINE m == Min(fetched)
  <2>3. /\ cur' = [cur EXCEPT ![<<f, Syncer>>] = m]
        /\ batch' = [batch EXCEPT ![f] = fetched \ {m}]
        /\ missing' = [missing EXCEPT ![f] = single]
        /\ range' = [range EXCEPT ![f] = rest]
        /\ pc' = [pc EXCEPT ![<<f, Syncer>>] = "verify"]
        /\ UNCHANGED <<push, node, peerLength>>
    BY <1>1 DEF Continue
  <2> HIDE DEF m
  <2>4. m \in 0 .. list - 1 /\ fetched \ {m} \subseteq 0 .. MaxEvents
    BY <1>0, <2>2 DEF m
  <2>5. /\ missing' \in [Follower -> SUBSET (0 .. MaxEvents)]
        /\ range' \in [Follower -> SUBSET (0 .. MaxEvents)]
        /\ batch' \in [Follower -> SUBSET (0 .. MaxEvents)]
        /\ \A g \in Follower : batch'[g] \subseteq 0 .. list - 1
    BY <2>3, <2>4 DEF TypeOK
  <2>6. QED
    BY <2>3, <2>4, <2>5 DEF TypeOK, PollerTypeOK, PushesGoOn
<1>2. CASE fetched = {} /\ single \cup rest # {}
  <2>1. /\ missing' = [missing EXCEPT ![f] = single]
        /\ range' = [range EXCEPT ![f] = rest]
        /\ pc' = [pc EXCEPT ![<<f, Syncer>>] = "fetch"]
        /\ cur' = [cur EXCEPT ![<<f, Syncer>>] = None]
        /\ UNCHANGED <<push, node, peerLength, batch>>
    BY <1>2 DEF Continue
  <2>2. /\ missing' \in [Follower -> SUBSET (0 .. MaxEvents)]
        /\ range' \in [Follower -> SUBSET (0 .. MaxEvents)]
    BY <2>1 DEF TypeOK
  <2>3. QED
    BY <2>1, <2>2 DEF TypeOK, PollerTypeOK, PushesGoOn
<1>3. CASE fetched = {} /\ single \cup rest = {}
  <2>1. EndPoll(f)
    BY <1>3 DEF Continue
  <2>2. QED
    BY <2>1, EndPollStops
<1>4. QED
  BY <1>1, <1>2, <1>3

--------------------------------------------------------------------------------
(* Each action preserves the invariant.                                      *)

\* An adder that stops or goes to an await outside the tree with an event of
\* the list takes nothing from the invariant, if the stores are unchanged.
LEMMA AdderMoves ==
  ASSUME IInv, NEW a \in Adder,
         NEW s \in {"idle", "count", "missing", "fetch", "verify", "prune"},
         NEW e \in 0 .. MaxEvents \cup {None},
         pc' = [pc EXCEPT ![a] = s],
         cur' = [cur EXCEPT ![a] = e],
         s \in {"verify", "prune"} => e \in 0 .. list - 1,
         PushesGoOn,
         PollerTypeOK',
         \A g \in Follower : batch'[g] \subseteq 0 .. list - 1,
         UNCHANGED <<list, leaves, roots, events, treeLength, isUpdating>>,
         failures' \in 0 .. MaxFailures, crashes' = crashes
  PROVE  IInv'
<1>1. list \in 0 .. MaxEvents
  BY DEF IInv, TypeOK
<1>2. pc' \in [Adder -> Step] /\ cur' \in [Adder -> 0 .. MaxEvents \cup {None}]
  BY <1>1 DEF IInv, TypeOK
<1>3. TypeOK'
  BY <1>2 DEF IInv, TypeOK, PollerTypeOK, PushesGoOn
<1>4. TreeIsPrefix'
  BY DEF IInv, TreeIsPrefix
<1>5. CarriedEvents'
  BY DEF IInv, TypeOK, CarriedEvents, Adding, PushesGoOn
<1>6. OneAdderPerTree'
  BY DEF IInv, TypeOK, OneAdderPerTree, InTree
<1>7. CountedLeavesHaveRoots'
  BY DEF IInv, TypeOK, CountedLeavesHaveRoots
<1>8. QED
  BY <1>3, <1>4, <1>5, <1>6, <1>7 DEF IInv

LEMMA InitInv == Init => IInv
<1> SUFFICES ASSUME Init PROVE IInv
  OBVIOUS
<1>1. TypeOK
  <2>1. node = [f \in Follower |-> 1]
    BY DEF Init
  <2>2. node \in [Follower -> Nat] /\ \A f \in Follower : node[f] \in DOMAIN NodeConfigs[f]
    BY <2>1, ConfigTyping
  <2>3. QED
    BY <2>2 DEF Init, TypeOK
<1>2. TreeIsPrefix
  BY DEF Init, TreeIsPrefix
<1>3. CarriedEvents /\ OneAdderPerTree /\ CountedLeavesHaveRoots
  BY DEF Init, CarriedEvents, OneAdderPerTree, CountedLeavesHaveRoots, Adding, InTree
<1>4. QED
  BY <1>1, <1>2, <1>3 DEF IInv

\* The list grows; whatever is carried or stored stays part of it.
LEMMA AppendInv == IInv /\ AppendAndPush => IInv'
<1> SUFFICES ASSUME IInv, AppendAndPush PROVE IInv'
  OBVIOUS
<1> USE DEF database, tree, poller, bounds
<1>1. list \in 0 .. MaxEvents /\ list' = list + 1 /\ list' \in 0 .. MaxEvents
  BY DEF AppendAndPush, IInv, TypeOK
<1>2. TypeOK'
  BY <1>1 DEF AppendAndPush, IInv, TypeOK
<1>3. 0 .. list - 1 \subseteq 0 .. list' - 1 /\ list' # 0
  BY <1>1
<1>4. TreeIsPrefix'
  BY <1>1, <1>3 DEF AppendAndPush, IInv, TypeOK, TreeIsPrefix
<1>5. CarriedEvents'
  <2>1. UNCHANGED <<batch, pc, cur, treeLength, leaves>>
    BY DEF AppendAndPush
  <2>2. QED
    BY <1>3, <2>1 DEF IInv, CarriedEvents
<1>6. OneAdderPerTree' /\ CountedLeavesHaveRoots'
  BY DEF AppendAndPush, IInv, OneAdderPerTree, CountedLeavesHaveRoots
<1>7. QED
  BY <1>2, <1>4, <1>5, <1>6 DEF IInv

LEMMA PushFailsInv ==
  ASSUME IInv, NEW f \in Follower, PushFails(f)
  PROVE  IInv'
<1> USE DEF database, tree, poller, bounds
<1>1. TypeOK'
  BY DEF PushFails, IInv, TypeOK
<1>2. TreeIsPrefix' /\ CarriedEvents' /\ OneAdderPerTree' /\ CountedLeavesHaveRoots'
  BY DEF PushFails, IInv, TreeIsPrefix, CarriedEvents, OneAdderPerTree,
         CountedLeavesHaveRoots
<1>3. QED
  BY <1>1, <1>2 DEF IInv

\* A push arrives at a handler.
LEMMA SubmitInv ==
  ASSUME IInv, NEW f \in Follower, NEW h \in Handler, SubmitPOIEvent(f, h)
  PROVE  IInv'
<1> USE DEF database, tree, poller, bounds
<1> DEFINE a == <<f, h>>
<1>1. a \in Adder
  BY DEF Adder
<1>2. list - 1 \in 0 .. MaxEvents /\ list - 1 \in 0 .. list - 1
  BY DEF SubmitPOIEvent, IInv, TypeOK, CarriedEvents
<1>3. /\ pc' = [pc EXCEPT ![a] = "verify"]
      /\ cur' = [cur EXCEPT ![a] = list - 1]
      /\ PushesGoOn /\ PollerTypeOK'
      /\ \A g \in Follower : batch'[g] \subseteq 0 .. list - 1
      /\ UNCHANGED <<list, leaves, roots, events, treeLength, isUpdating>>
      /\ failures' \in 0 .. MaxFailures /\ crashes' = crashes
  BY DEF SubmitPOIEvent, PushesGoOn, PollerTypeOK, IInv, TypeOK, CarriedEvents
<1> HIDE DEF a
<1> DEFINE e == list - 1
<1>4. e \in 0 .. MaxEvents \cup {None} /\ e \in 0 .. list - 1
  BY <1>2
<1>5. cur' = [cur EXCEPT ![a] = e]
  BY <1>3
<1> HIDE DEF e
<1>6. QED
  BY <1>1, <1>3, <1>4, <1>5, AdderMoves

\* A handler or poller stops, by itself or by a rejection.
LEMMA StopInv ==
  ASSUME IInv, NEW a \in Adder, Throw(a) \/ EndRequest(a),
         UNCHANGED <<list, leaves, roots, events, treeLength, isUpdating>>,
         failures' \in 0 .. MaxFailures, crashes' = crashes
  PROVE  IInv'
<1>1. TypeOK /\ \A g \in Follower : batch[g] \subseteq 0 .. list - 1
  BY DEF IInv, CarriedEvents
<1>2. /\ pc' = [pc EXCEPT ![a] = "idle"]
      /\ cur' = [cur EXCEPT ![a] = None]
      /\ PushesGoOn /\ PollerTypeOK'
      /\ \A g \in Follower : batch'[g] \subseteq 0 .. list - 1
  BY <1>1, ThrowStops
<1>3. QED
  BY <1>2, AdderMoves

LEMMA FailCallInv ==
  ASSUME IInv, NEW a \in Adder, FailCall(a)
  PROVE  IInv'
<1>1. failures' \in 0 .. MaxFailures
  BY DEF FailCall, IInv, TypeOK
<1>2. QED
  BY <1>1, StopInv DEF FailCall, database, tree

LEMMA FinishRequestInv ==
  ASSUME IInv, NEW a \in Adder, FinishRequest(a)
  PROVE  IInv'
<1>1. failures' \in 0 .. MaxFailures
  BY DEF FinishRequest, IInv, TypeOK, bounds
<1>2. QED
  BY <1>1, StopInv DEF FinishRequest, database, tree, bounds

\* The poller's own steps.
LEMMA PollerStepInv ==
  ASSUME IInv, NEW f \in Follower,
         \/ Poll(f) \/ ReadOwnLength(f) \/ ReadMissing(f)
         \/ FetchRange(f) \/ NextFetched(f) \/ FailPoll(f)
  PROVE  IInv'
<1> USE DEF database, tree, poller, bounds
<1> DEFINE s == <<f, Syncer>>
<1>1. s \in Adder /\ s[1] = f /\ s[2] = Syncer
  BY AdderParts
<1>2. /\ TypeOK /\ TreeIsPrefix /\ PollerTypeOK
      /\ \A g \in Follower : batch[g] \subseteq 0 .. list - 1
      /\ list \in 0 .. MaxEvents /\ failures \in 0 .. MaxFailures
      /\ cur \in [Adder -> 0 .. MaxEvents \cup {None}]
  BY DEF IInv, TypeOK, PollerTypeOK, CarriedEvents
<1>3. ASSUME EndPoll(f),
             UNCHANGED <<list, leaves, roots, events, treeLength, isUpdating>>,
             failures' \in 0 .. MaxFailures, crashes' = crashes
      PROVE  IInv'
  BY <1>1, <1>3, StopInv DEF Throw
<1>4. ASSUME NEW t \in {"count", "missing", "fetch"}, Goto(s, t), push' = push,
             PollerTypeOK', batch' = batch,
             UNCHANGED <<list, leaves, roots, events, treeLength, isUpdating>>,
             UNCHANGED <<failures, crashes>>
      PROVE  IInv'
  <2> HIDE DEF s
  <2>1. /\ pc' = [pc EXCEPT ![s] = t]
        /\ cur' = [cur EXCEPT ![s] = cur[s]]
        /\ cur[s] \in 0 .. MaxEvents \cup {None}
    BY <1>1, <1>2, <1>4 DEF Goto
  <2>2. PushesGoOn
    BY <1>2, <1>4 DEF TypeOK, PushesGoOn
  <2>3. QED
    BY <1>1, <1>2, <1>4, <2>1, <2>2, AdderMoves
<1>5. ASSUME NEW fetched \in SUBSET (0 .. list - 1),
             NEW single \in SUBSET (0 .. MaxEvents), NEW rest \in SUBSET (0 .. MaxEvents),
             Continue(f, fetched, single, rest),
             UNCHANGED <<list, leaves, roots, events, treeLength, isUpdating>>,
             UNCHANGED <<failures, crashes>>
      PROVE  IInv'
  <2> HIDE DEF s
  <2>1. PICK t \in {"verify", "fetch", "idle"}, e \in 0 .. list - 1 \cup {None} :
          /\ pc' = [pc EXCEPT ![s] = t]
          /\ cur' = [cur EXCEPT ![s] = e]
          /\ t = "verify" => e \in 0 .. list - 1
    BY <1>2, <1>5, ContinueTyping DEF s
  <2>2. /\ PushesGoOn /\ PollerTypeOK'
        /\ \A g \in Follower : batch'[g] \subseteq 0 .. list - 1
    BY <1>2, <1>5, ContinueTyping
  <2>3. e \in 0 .. MaxEvents \cup {None}
    BY <1>2
  <2>4. QED
    BY <1>1, <1>2, <1>5, <2>1, <2>2, <2>3, AdderMoves
<1>6. CASE Poll(f)
  <2>1. EventsLength(Peer(f)) \in 0 .. MaxEvents
    BY <1>2, QueryTyping
  <2>2. PollerTypeOK'
    BY <1>2, <1>6, <2>1 DEF Poll, PollerTypeOK
  <2>3. QED
    BY <1>4, <1>6, <2>2 DEF Poll, provider
<1>7. CASE ReadOwnLength(f)
  <2> DEFINE own == EventsLength(f)
             last == peerLength[f] - 1
             top == Min({own + MaxRange - 1, last})
  <2>1. CASE last < own
    BY <1>2, <1>3, <1>7, <2>1 DEF ReadOwnLength
  <2>2. CASE ~(last < own)
    <3>1. /\ own \in Nat /\ last \in Int /\ last < MaxEvents
          /\ MaxRange \in Nat \ {0} /\ MaxEvents \in Nat
      BY <1>2, QueryTyping DEF TypeOK
    <3> DEFINE near == own + MaxRange - 1
    <3> HIDE DEF own, last
    <3>2. near \in Nat /\ last \in Nat
      BY <2>2, <3>1
    <3> HIDE DEF near
    <3>3. {near, last} \subseteq Nat /\ {near, last} # {}
      BY <3>2
    <3>4. Min({near, last}) <= last /\ Min({near, last}) \in {near, last}
      BY <3>3, MinIsLeast
    <3>5. top \in Nat /\ top < MaxEvents
      BY <3>1, <3>2, <3>4 DEF near
    <3> HIDE DEF top
    <3>6. own .. top \subseteq 0 .. MaxEvents
      BY <3>1, <3>5
    <3>7. /\ range' = [range EXCEPT ![f] = own .. top]
          /\ Goto(s, IF own # treeLength[f] THEN "missing" ELSE "fetch")
          /\ UNCHANGED <<push, node, peerLength, missing, batch>>
          /\ UNCHANGED <<list, leaves, roots, events, treeLength, isUpdating>>
          /\ UNCHANGED <<failures, crashes>>
      BY <1>7, <2>2 DEF ReadOwnLength, own, last, top
    <3>8. PollerTypeOK'
      BY <1>2, <3>6, <3>7 DEF PollerTypeOK
    <3>9. QED
      BY <1>4, <3>7, <3>8
  <2>3. QED
    BY <2>1, <2>2
<1>8. CASE ReadMissing(f)
  <2>1. events[f] \subseteq 0 .. MaxEvents
    BY <1>2 DEF TypeOK
  <2>2. MissingEventIndices(f) \subseteq 0 .. MaxEvents
    BY <2>1, MissingIndices
  <2>3. PollerTypeOK'
    BY <1>2, <1>8, <2>2 DEF ReadMissing, PollerTypeOK
  <2>4. QED
    BY <1>4, <1>8, <2>3 DEF ReadMissing, provider
<1>9. CASE FetchRange(f)
  <2>1. Peer(f) \in Node /\ missing[f] \in SUBSET (0 .. MaxEvents)
           /\ range[f] \in SUBSET (0 .. MaxEvents)
    BY <1>2, QueryTyping DEF PollerTypeOK
  <2>2. \A S : ListEventRange(Peer(f), S) \in SUBSET (0 .. list - 1)
    BY <1>2, <2>1, QueryTyping
  <2>3. CASE missing[f] # {}
    <3> DEFINE first == {Min(missing[f])}
    <3>1. Continue(f, ListEventRange(Peer(f), first), missing[f] \ first, range[f])
      BY <1>9, <2>3 DEF FetchRange
    <3> HIDE DEF first
    <3>2. QED
      BY <1>5, <1>9, <2>1, <2>2, <3>1 DEF FetchRange
  <2>4. CASE missing[f] = {}
    <3>1. Continue(f, ListEventRange(Peer(f), range[f]), {}, {})
      BY <1>9, <2>4 DEF FetchRange
    <3>2. QED
      BY <1>5, <1>9, <2>1, <2>2, <3>1 DEF FetchRange
  <2>5. QED
    BY <2>3, <2>4
<1>10. CASE NextFetched(f)
  <2>1. /\ missing[f] \in SUBSET (0 .. MaxEvents)
        /\ range[f] \in SUBSET (0 .. MaxEvents)
        /\ batch[f] \in SUBSET (0 .. list - 1)
    BY <1>2 DEF PollerTypeOK
  <2>2. QED
    BY <1>5, <1>10, <2>1 DEF NextFetched
<1>11. CASE FailPoll(f)
  <2>1. failures' \in 0 .. MaxFailures
    BY <1>2, <1>11 DEF FailPoll
  <2>2. QED
    BY <1>3, <1>11, <2>1 DEF FailPoll
<1>12. QED
  BY <1>6, <1>7, <1>8, <1>9, <1>10, <1>11

\* Whoever is in the tree may leave it and give it free: nobody else is there.
LEMMA ReleaseTree ==
  ASSUME IInv, NEW a \in Adder, pc[a] \in InTree, NEW s \in Step \ InTree,
         pc' = [pc EXCEPT ![a] = s],
         isUpdating' = [isUpdating EXCEPT ![a[1]] = FALSE]
  PROVE  OneAdderPerTree' /\ isUpdating' \in [Follower -> BOOLEAN]
                          /\ pc' \in [Adder -> Step]
<1>1. a[1] \in Follower
  BY AdderParts
<1>2. \A b \in Adder : pc'[b] \in InTree => b # a /\ pc[b] \in InTree /\ b[1] # a[1]
  BY DEF IInv, TypeOK, OneAdderPerTree
<1>3. OneAdderPerTree'
  BY <1>1, <1>2, AdderParts DEF IInv, TypeOK, OneAdderPerTree
<1>4. QED
  BY <1>1, <1>3 DEF IInv, TypeOK, InTree

LEMMA VerifyEventInv ==
  ASSUME IInv, NEW a \in Adder, VerifyEvent(a)
  PROVE  IInv'
<1> USE DEF database, tree, poller, bounds
<1>0. a[1] \in Follower
  BY AdderParts
<1>1. CASE isUpdating[a[1]]
  BY <1>1, StopInv DEF VerifyEvent, IInv, TypeOK
<1>2. CASE ~ isUpdating[a[1]]
  <2>1. /\ isUpdating' = [isUpdating EXCEPT ![a[1]] = TRUE]
        /\ pc[a] = "verify" /\ pc' = [pc EXCEPT ![a] = "tree"]
        /\ UNCHANGED <<list, push, leaves, roots, events, treeLength, poller, cur, bounds>>
    BY <1>2 DEF VerifyEvent, Goto
  <2>2. TypeOK'
    BY <2>1 DEF IInv, TypeOK
  <2>3. TreeIsPrefix' /\ CountedLeavesHaveRoots'
    BY <2>1 DEF IInv, TypeOK, TreeIsPrefix, CountedLeavesHaveRoots
  <2>4. CarriedEvents'
    BY <2>1 DEF IInv, TypeOK, CarriedEvents, Adding
  <2>5. OneAdderPerTree'
    <3>1. \A b \in Adder : b[1] = a[1] => pc[b] \notin InTree
      BY <1>2 DEF IInv, OneAdderPerTree
    <3>2. \A b \in Adder : pc'[b] \in InTree => b = a \/ (pc[b] \in InTree /\ b[1] # a[1])
      BY <2>1, <3>1 DEF IInv, TypeOK
    <3>3. ASSUME NEW b \in Adder, pc'[b] \in InTree PROVE isUpdating'[b[1]]
      <4>1. b[1] \in Follower
        BY AdderParts
      <4>2. QED
        BY <1>0, <2>1, <3>2, <3>3, <4>1 DEF IInv, TypeOK, OneAdderPerTree
    <3>4. QED
      BY <3>2, <3>3 DEF IInv, OneAdderPerTree
  <2>6. QED
    BY <2>2, <2>3, <2>4, <2>5 DEF IInv
<1>3. QED
  BY <1>1, <1>2

LEMMA CheckTreeInv ==
  ASSUME IInv, NEW a \in Adder, CheckTree(a)
  PROVE  IInv'
<1> USE DEF database, tree, poller, bounds
<1> DEFINE f == a[1]
<1>1. /\ f \in Follower /\ pc[a] = "tree" /\ pc[a] \in InTree
      /\ isUpdating[f] = TRUE /\ cur[a] \in 0 .. list - 1
  BY AdderParts DEF CheckTree, IInv, TypeOK, OneAdderPerTree, CarriedEvents, InTree, Adding
<1>2. UNCHANGED <<list, leaves, roots, events, treeLength, failures, crashes>>
  BY DEF CheckTree
<1>3. TreeIsPrefix'
  BY <1>2 DEF IInv, TreeIsPrefix
<1>4. CASE Verdict(f, cur[a]) = "insert"
  <2>1. cur[a] = treeLength[f]
    BY <1>4 DEF Verdict
  <2>2. /\ isUpdating' = [isUpdating EXCEPT ![f] = TRUE]
        /\ pc' = [pc EXCEPT ![a] = "nodes"]
        /\ UNCHANGED <<cur, push, node, peerLength, missing, range, batch>>
    BY <1>4 DEF CheckTree, Goto
  <2>3. isUpdating' = isUpdating
    BY <1>1, <2>2 DEF IInv, TypeOK
  <2>4. TypeOK'
    BY <1>2, <2>2, <2>3 DEF IInv, TypeOK
  <2>5. CarriedEvents'
    BY <1>1, <1>2, <2>1, <2>2 DEF IInv, TypeOK, CarriedEvents, Adding
  <2>6. OneAdderPerTree'
    BY <1>1, <2>2, <2>3 DEF IInv, TypeOK, OneAdderPerTree, InTree
  <2>7. CountedLeavesHaveRoots'
    BY <1>2, <2>2 DEF IInv, TypeOK, CountedLeavesHaveRoots
  <2>8. QED
    BY <1>3, <2>4, <2>5, <2>6, <2>7 DEF IInv
<1>5. CASE Verdict(f, cur[a]) = "skip"
  <2>1. cur[a] \in leaves[f] /\ cur[a] # treeLength[f] /\ cur[a] # treeLength[f] - 1
    BY <1>5 DEF Verdict
  <2>2. cur[a] \in 0 .. treeLength[f] - 1
    <3>1. treeLength[f] \in Nat /\ cur[a] \in Int
      BY <1>1 DEF IInv, TypeOK
    <3>2. cur[a] \in 0 .. treeLength[f]
      BY <1>1, <2>1, <3>1 DEF IInv, TreeIsPrefix
    <3>3. QED
      BY <2>1, <3>1, <3>2
  <2>3. /\ isUpdating' = [isUpdating EXCEPT ![f] = FALSE]
        /\ pc' = [pc EXCEPT ![a] = "event"]
        /\ UNCHANGED <<cur, push, node, peerLength, missing, range, batch>>
    BY <1>5 DEF CheckTree, Goto
  <2>4. /\ OneAdderPerTree' /\ isUpdating' \in [Follower -> BOOLEAN]
        /\ pc' \in [Adder -> Step]
    <3>1. "event" \in Step \ InTree
      BY DEF InTree
    <3> HIDE DEF f
    <3>2. QED
      BY <1>1, <2>3, <3>1, ReleaseTree DEF f
  <2>5. TypeOK'
    BY <1>2, <2>3, <2>4 DEF IInv, TypeOK
  <2>6. CarriedEvents'
    BY <1>1, <1>2, <2>1, <2>3 DEF IInv, TypeOK, CarriedEvents, Adding
  <2>7. CountedLeavesHaveRoots'
    BY <1>1, <1>2, <2>2, <2>3 DEF IInv, TypeOK, CountedLeavesHaveRoots
  <2>8. QED
    BY <1>3, <2>4, <2>5, <2>6, <2>7 DEF IInv
<1>6. CASE Verdict(f, cur[a]) = "reject"
  <2>1. isUpdating' = [isUpdating EXCEPT ![f] = FALSE] /\ Throw(a)
    BY <1>6 DEF CheckTree
  <2>2. /\ pc' = [pc EXCEPT ![a] = "idle"] /\ cur' = [cur EXCEPT ![a] = None]
        /\ PushesGoOn /\ PollerTypeOK'
        /\ \A g \in Follower : batch'[g] \subseteq batch[g]
    BY <2>1, ThrowStops DEF IInv
  <2>3. /\ OneAdderPerTree' /\ isUpdating' \in [Follower -> BOOLEAN]
        /\ pc' \in [Adder -> Step]
    <3>1. "idle" \in Step \ InTree
      BY DEF InTree
    <3>2. QED
      BY <1>1, <2>1, <2>2, <3>1, ReleaseTree
  <2>4. TypeOK'
    BY <1>2, <2>2, <2>3 DEF IInv, TypeOK, PushesGoOn, PollerTypeOK
  <2>5. CarriedEvents'
    BY <1>2, <2>2 DEF IInv, TypeOK, CarriedEvents, Adding, PushesGoOn
  <2>6. CountedLeavesHaveRoots'
    BY <1>2, <2>2 DEF IInv, TypeOK, CountedLeavesHaveRoots
  <2>7. QED
    BY <1>3, <2>3, <2>4, <2>5, <2>6 DEF IInv
<1>7. QED
  BY <1>4, <1>5, <1>6 DEF Verdict

\* Who writes to the tree brings its next leaf; the leaf may be there already.
LEMMA NextLeaf ==
  ASSUME IInv, NEW a \in Adder, pc[a] \in {"nodes", "root"}
  PROVE  /\ a[1] \in Follower
         /\ treeLength[a[1]] \in Nat /\ treeLength[a[1]] < list /\ list <= MaxEvents
         /\ cur[a] = treeLength[a[1]]
         /\ leaves[a[1]] \cup {cur[a]} = 0 .. treeLength[a[1]]
         /\ events[a[1]] \subseteq 0 .. treeLength[a[1]]
         /\ 0 .. treeLength[a[1]] \subseteq 0 .. list - 1
         /\ 0 .. treeLength[a[1]] \subseteq 0 .. MaxEvents
<1> DEFINE n == treeLength[a[1]]
<1>1. a[1] \in Follower /\ n \in Nat /\ list \in Nat /\ list <= MaxEvents
  BY AdderParts DEF IInv, TypeOK
<1>2. cur[a] = n /\ cur[a] \in 0 .. list - 1
  BY DEF IInv, CarriedEvents, Adding
<1>3. leaves[a[1]] = 0 .. n - 1 \/ leaves[a[1]] = 0 .. n
  BY <1>1 DEF IInv, TreeIsPrefix
<1>4. n < list
  BY <1>1, <1>2
<1>5. leaves[a[1]] \cup {n} = 0 .. n
  <2> HIDE DEF n
  <2>1. QED
    BY <1>1, <1>3
<1>6. events[a[1]] \subseteq leaves[a[1]]
  BY <1>1 DEF IInv, TreeIsPrefix
<1>7. QED
  BY <1>1, <1>2, <1>4, <1>5, <1>6

LEMMA WriteNodesInv ==
  ASSUME IInv, NEW a \in Adder, WriteNodes(a)
  PROVE  IInv'
<1> USE DEF database, tree, poller, bounds, provider
<1> DEFINE f == a[1]
<1>1. /\ pc[a] = "nodes" /\ pc' = [pc EXCEPT ![a] = "root"]
      /\ leaves' = [leaves EXCEPT ![f] = 0 .. treeLength[f]]
      /\ UNCHANGED <<provider, roots, events, tree, poller, cur, bounds>>
  BY NextLeaf DEF WriteNodes, Goto
<1>2. /\ f \in Follower /\ treeLength[f] \in Nat /\ treeLength[f] < list
      /\ cur[a] = treeLength[f] /\ cur[a] \in 0 .. treeLength[f]
      /\ leaves[f] \subseteq 0 .. treeLength[f]
      /\ 0 .. treeLength[f] \subseteq 0 .. list - 1
      /\ 0 .. treeLength[f] \subseteq 0 .. MaxEvents
      /\ events[f] \subseteq 0 .. treeLength[f]
  BY <1>1, NextLeaf
<1>3. TypeOK'
  BY <1>1, <1>2 DEF IInv, TypeOK
<1>4. TreeIsPrefix'
  BY <1>1, <1>2 DEF IInv, TypeOK, TreeIsPrefix
<1>5. CarriedEvents'
  <2>1. ASSUME NEW b \in Adder, pc'[b] \in {"root", "event"} PROVE cur'[b] \in leaves'[b[1]]
    <3>1. CASE b = a
      BY <1>1, <1>2, <3>1 DEF IInv, TypeOK
    <3>2. CASE b # a
      BY <1>1, <1>2, <2>1, <3>2, AdderParts DEF IInv, TypeOK, CarriedEvents
    <3>3. QED
      BY <3>1, <3>2
  <2>2. QED
    BY <1>1, <2>1 DEF IInv, TypeOK, CarriedEvents, Adding
<1>6. OneAdderPerTree'
  BY <1>1 DEF IInv, TypeOK, OneAdderPerTree, InTree
<1>7. CountedLeavesHaveRoots'
  BY <1>1 DEF IInv, TypeOK, CountedLeavesHaveRoots
<1>8. QED
  BY <1>3, <1>4, <1>5, <1>6, <1>7 DEF IInv

LEMMA WriteMerklerootInv ==
  ASSUME IInv, NEW a \in Adder, WriteMerkleroot(a)
  PROVE  IInv'
<1> USE DEF database, tree, poller, bounds, provider
<1> DEFINE f == a[1]
           n == treeLength[f]
<1>1. /\ pc[a] = "root" /\ pc[a] \in InTree /\ pc' = [pc EXCEPT ![a] = "event"]
      /\ roots' = [roots EXCEPT ![f] = @ \cup {cur[a]}]
      /\ treeLength' = [treeLength EXCEPT ![f] = @ + 1]
      /\ isUpdating' = [isUpdating EXCEPT ![f] = FALSE]
      /\ UNCHANGED <<provider, leaves, events, poller, cur, bounds>>
  BY DEF WriteMerkleroot, Goto, InTree
<1>2. /\ f \in Follower /\ n \in Nat /\ n < list /\ list <= MaxEvents /\ list \in Nat
      /\ cur[a] = n /\ n \in 0 .. n /\ leaves[f] = 0 .. n
      /\ events[f] \subseteq 0 .. n
      /\ 0 .. n \subseteq 0 .. MaxEvents
  <2>1. cur[a] \in leaves[f] /\ list \in Nat
    BY <1>1 DEF IInv, CarriedEvents, TypeOK
  <2>2. leaves[f] \cup {cur[a]} = leaves[f]
    BY <2>1
  <2>3. n \in Nat /\ leaves[f] = 0 .. n
    BY <1>1, <2>2, NextLeaf
  <2> HIDE DEF n, f
  <2>4. n \in 0 .. n
    BY <2>3
  <2>5. QED
    BY <1>1, <2>1, <2>3, <2>4, NextLeaf DEF n, f
<1>3. treeLength'[f] = n + 1 /\ \A g \in Follower \ {f} : treeLength'[g] = treeLength[g]
  BY <1>1, <1>2 DEF IInv, TypeOK
<1>4. /\ OneAdderPerTree' /\ isUpdating' \in [Follower -> BOOLEAN]
      /\ pc' \in [Adder -> Step]
  <2>1. "event" \in Step \ InTree
    BY DEF InTree
  <2> HIDE DEF f
  <2>2. QED
    BY <1>1, <2>1, ReleaseTree DEF f
<1>5. TypeOK'
  <2>1. n + 1 \in 0 .. MaxEvents /\ n \in 0 .. MaxEvents
    BY <1>2
  <2>2. /\ treeLength' \in [Follower -> 0 .. MaxEvents]
        /\ roots' \in [Follower -> SUBSET (0 .. MaxEvents)]
    BY <1>1, <1>2, <2>1 DEF IInv, TypeOK
  <2>3. QED
    BY <1>1, <1>4, <2>2 DEF IInv, TypeOK
<1>6. TreeIsPrefix'
  <2>1. ASSUME NEW g \in Follower
        PROVE  /\ leaves'[g] = 0 .. treeLength'[g] - 1 \/ leaves'[g] = 0 .. treeLength'[g]
               /\ treeLength'[g] <= list'
    <3>1. CASE g = f
      <4>1. n + 1 - 1 = n /\ n + 1 <= list
        BY <1>2
      <4>2. leaves'[g] = 0 .. treeLength'[g] - 1
        BY <1>1, <1>2, <1>3, <3>1, <4>1
      <4>3. QED
        BY <1>1, <1>3, <3>1, <4>1, <4>2
    <3>2. CASE g # f
      BY <1>1, <1>3, <3>2 DEF IInv, TreeIsPrefix
    <3>3. QED
      BY <3>1, <3>2
  <2>2. QED
    BY <1>1, <2>1 DEF IInv, TreeIsPrefix
<1>7. CarriedEvents'
  <2>1. ASSUME NEW b \in Adder, pc'[b] \in {"nodes", "root"}
        PROVE  cur'[b] = treeLength'[b[1]]
    <3>1. b # a /\ pc[b] \in {"nodes", "root"} /\ b[1] \in Follower
      BY <1>1, <2>1, AdderParts DEF IInv, TypeOK
    <3>2. b[1] # f
      BY <1>1, <3>1 DEF IInv, OneAdderPerTree, InTree
    <3>3. QED
      BY <1>1, <1>3, <3>1, <3>2 DEF IInv, CarriedEvents
  <2>2. QED
    BY <1>1, <1>2, <2>1 DEF IInv, TypeOK, CarriedEvents, Adding
<1>8. CountedLeavesHaveRoots'
  <2>1. SUFFICES ASSUME crashes = 0 PROVE CountedLeavesHaveRoots'
    BY <1>1 DEF CountedLeavesHaveRoots
  <2>2. ASSUME NEW g \in Follower
        PROVE  /\ 0 .. treeLength'[g] - 1 \subseteq roots'[g]
               /\ events'[g] \subseteq 0 .. treeLength'[g] - 1
    <3>1. CASE g = f
      <4>1. n + 1 - 1 = n /\ 0 .. n = 0 .. n - 1 \cup {n}
        BY <1>2
      <4>2. 0 .. n - 1 \subseteq roots[f]
        BY <1>2, <2>1 DEF IInv, CountedLeavesHaveRoots
      <4>3. roots'[f] = roots[f] \cup {n}
        BY <1>1, <1>2 DEF IInv, TypeOK
      <4> HIDE DEF n
      <4>4. QED
        BY <1>1, <1>2, <1>3, <3>1, <4>1, <4>2, <4>3
    <3>2. CASE g # f
      BY <1>1, <1>3, <2>1, <3>2 DEF IInv, TypeOK, CountedLeavesHaveRoots
    <3>3. QED
      BY <3>1, <3>2
  <2>3. ASSUME NEW b \in Adder, pc'[b] = "event" PROVE cur'[b] < treeLength'[b[1]]
    <3>1. CASE b = a
      BY <1>1, <1>2, <1>3, <3>1
    <3>2. CASE b # a
      <4>1. b[1] \in Follower /\ cur[b] < treeLength[b[1]] /\ cur[b] \in Int
        BY <1>1, <2>1, <2>3, <3>2, AdderParts DEF IInv, TypeOK, CarriedEvents, Adding,
           CountedLeavesHaveRoots
      <4>2. treeLength'[b[1]] \in {treeLength[b[1]], treeLength[b[1]] + 1}
               /\ treeLength[b[1]] \in Int
        BY <1>3, <4>1 DEF IInv, TypeOK
      <4>3. QED
        BY <1>1, <4>1, <4>2
    <3>3. QED
      BY <3>1, <3>2
  <2>4. QED
    BY <2>2, <2>3 DEF CountedLeavesHaveRoots
<1>9. QED
  BY <1>4, <1>5, <1>6, <1>7, <1>8 DEF IInv

LEMMA InsertEventInv ==
  ASSUME IInv, NEW a \in Adder, InsertEvent(a)
  PROVE  IInv'
<1> USE DEF database, tree, poller, bounds, provider
<1> DEFINE f == a[1]
<1>1. /\ pc[a] = "event" /\ pc' = [pc EXCEPT ![a] = "prune"]
      /\ events' = [events EXCEPT ![f] = @ \cup {cur[a]}]
      /\ UNCHANGED <<provider, leaves, roots, tree, poller, cur, bounds>>
  BY DEF InsertEvent, Goto
<1>2. f \in Follower /\ cur[a] \in leaves[f] /\ cur[a] \in 0 .. MaxEvents
  BY <1>1, AdderParts DEF IInv, TypeOK, CarriedEvents
<1>3. TypeOK'
  BY <1>1, <1>2 DEF IInv, TypeOK
<1>4. TreeIsPrefix'
  BY <1>1, <1>2 DEF IInv, TypeOK, TreeIsPrefix
<1>5. CarriedEvents'
  BY <1>1 DEF IInv, TypeOK, CarriedEvents, Adding
<1>6. OneAdderPerTree'
  BY <1>1 DEF IInv, TypeOK, OneAdderPerTree, InTree
<1>7. CountedLeavesHaveRoots'
  <2>1. crashes = 0 => cur[a] \in 0 .. treeLength[f] - 1
    BY <1>1, <1>2 DEF IInv, TypeOK, CountedLeavesHaveRoots
  <2>2. QED
    BY <1>1, <1>2, <2>1 DEF IInv, TypeOK, CountedLeavesHaveRoots
<1>8. QED
  BY <1>3, <1>4, <1>5, <1>6, <1>7 DEF IInv

\* A write of the tree rejects, with or without the leaf stored.
LEMMA FailTreeWriteInv ==
  ASSUME IInv, NEW a \in Adder, FailTreeWrite(a)
  PROVE  IInv'
<1> DEFINE f == a[1]
<1>1. /\ pc[a] \in {"nodes", "root"} /\ pc[a] \in InTree
      /\ isUpdating' = [isUpdating EXCEPT ![f] = FALSE]
      /\ Throw(a)
      /\ UNCHANGED <<list, roots, events, treeLength, crashes>>
      /\ failures' \in 0 .. MaxFailures
  BY DEF FailTreeWrite, InTree, IInv, TypeOK
<1>2. /\ f \in Follower /\ treeLength[f] \in Nat
      /\ leaves[f] \cup {cur[a]} = 0 .. treeLength[f]
      /\ 0 .. treeLength[f] \subseteq 0 .. list - 1
      /\ 0 .. treeLength[f] \subseteq 0 .. MaxEvents
      /\ events[f] \subseteq 0 .. treeLength[f]
  BY <1>1, NextLeaf
<1>3. \/ leaves' = leaves
      \/ leaves' = [leaves EXCEPT ![f] = 0 .. treeLength[f]]
  <2>1. \E stored \in BOOLEAN :
          leaves' = [leaves EXCEPT ![f] = IF stored THEN leaves[f] \cup {cur[a]} ELSE leaves[f]]
    BY DEF FailTreeWrite
  <2>2. QED
    BY <1>2, <2>1 DEF IInv, TypeOK
<1>4. /\ pc' = [pc EXCEPT ![a] = "idle"] /\ cur' = [cur EXCEPT ![a] = None]
      /\ PushesGoOn /\ PollerTypeOK'
      /\ \A g \in Follower : batch'[g] \subseteq batch[g]
  BY <1>1, ThrowStops DEF IInv
<1>5. /\ OneAdderPerTree' /\ isUpdating' \in [Follower -> BOOLEAN]
      /\ pc' \in [Adder -> Step]
  <2>1. "idle" \in Step \ InTree
    BY DEF InTree
  <2>2. QED
    BY <1>1, <1>4, <2>1, ReleaseTree
<1>6. TypeOK'
  <2>1. leaves' \in [Follower -> SUBSET (0 .. MaxEvents)]
    BY <1>2, <1>3 DEF IInv, TypeOK
  <2>2. QED
    BY <1>1, <1>4, <1>5, <2>1 DEF IInv, TypeOK, PushesGoOn, PollerTypeOK
<1>7. TreeIsPrefix'
  BY <1>1, <1>2, <1>3 DEF IInv, TypeOK, TreeIsPrefix
<1>8. CarriedEvents'
  <2>1. \A g \in Follower : leaves[g] \subseteq leaves'[g]
    <3>1. leaves[f] \subseteq 0 .. treeLength[f]
      BY <1>2
    <3>2. leaves \in [Follower -> SUBSET (0 .. MaxEvents)]
      BY DEF IInv, TypeOK
    <3> HIDE DEF f
    <3>3. CASE leaves' = leaves
      BY <3>3
    <3>4. CASE leaves' = [leaves EXCEPT ![f] = 0 .. treeLength[f]]
      BY <1>2, <3>1, <3>2, <3>4
    <3>5. QED
      BY <1>3, <3>3, <3>4
  <2>2. QED
    <3>1. \A b \in Adder : pc'[b] # "idle" => pc'[b] = pc[b] /\ cur'[b] = cur[b]
      BY <1>4 DEF IInv, TypeOK
    <3>2. \A g \in Follower : /\ batch'[g] \subseteq 0 .. list - 1
                              /\ push'[g] # "none" => list # 0
      BY <1>4 DEF IInv, CarriedEvents, PushesGoOn
    <3>3. QED
      BY <1>1, <2>1, <3>1, <3>2, AdderParts DEF IInv, CarriedEvents, Adding
<1>9. CountedLeavesHaveRoots'
  BY <1>1, <1>4 DEF IInv, TypeOK, CountedLeavesHaveRoots
<1>10. QED
  BY <1>5, <1>6, <1>7, <1>8, <1>9 DEF IInv

\* The cardinality of a prefix is the index after its last.
LEMMA PrefixCardinality ==
  ASSUME NEW n \in Nat
  PROVE  Cardinality(0 .. n - 1) = n /\ Cardinality(0 .. n) = n + 1
<1>1. /\ Cardinality(0 .. n - 1) = IF 0 > n - 1 THEN 0 ELSE n - 1 - 0 + 1
      /\ Cardinality(0 .. n) = IF 0 > n THEN 0 ELSE n - 0 + 1
  BY FS_Interval
<1>2. QED
  BY <1>1

\* A tree has as many leaves as its cached length says, or one more.
LEMMA LeafCount ==
  ASSUME TypeOK, TreeIsPrefix, NEW f \in Follower
  PROVE  /\ Cardinality(leaves[f]) \in Nat
         /\ leaves[f] = 0 .. Cardinality(leaves[f]) - 1
         /\ Cardinality(leaves[f]) \in {treeLength[f], treeLength[f] + 1}
         /\ Cardinality(leaves[f]) <= list
<1> DEFINE n == treeLength[f]
<1>1. n \in Nat /\ list \in Nat /\ n <= list
  BY DEF TypeOK, TreeIsPrefix
<1>2. Cardinality(0 .. n - 1) = n /\ Cardinality(0 .. n) = n + 1
  BY <1>1, PrefixCardinality
<1>3. leaves[f] = 0 .. n - 1 \/ leaves[f] = 0 .. n
  BY DEF TreeIsPrefix
<1>4. leaves[f] \subseteq 0 .. list - 1
  BY DEF TreeIsPrefix
<1> HIDE DEF n
<1>5. CASE leaves[f] = 0 .. n - 1
  BY <1>1, <1>2, <1>5 DEF n
<1>6. CASE leaves[f] = 0 .. n
  <2>1. n \in 0 .. list - 1
    BY <1>1, <1>4, <1>6
  <2>2. n + 1 <= list /\ 0 .. n = 0 .. (n + 1) - 1
    BY <1>1, <2>1
  <2>3. QED
    BY <1>1, <1>2, <1>6, <2>2 DEF n
<1>7. QED
  BY <1>3, <1>5, <1>6

\* A follower restarts and counts its leaves.
LEMMA CrashInv ==
  ASSUME IInv, NEW f \in Follower, Crash(f)
  PROVE  IInv'
<1> USE DEF database
<1> DEFINE n == Cardinality(leaves[f])
<1>1. /\ n \in Nat /\ n <= list /\ leaves[f] = 0 .. n - 1
      /\ list \in Nat /\ list <= MaxEvents /\ n \in 0 .. MaxEvents
  BY LeafCount DEF IInv, TypeOK
<1>2. /\ push' = [push EXCEPT ![f] = IF @ = "open" THEN "none" ELSE @]
      /\ treeLength' = [treeLength EXCEPT ![f] = n]
      /\ isUpdating' = [isUpdating EXCEPT ![f] = FALSE]
      /\ node' = [node EXCEPT ![f] = 1]
      /\ peerLength' = [peerLength EXCEPT ![f] = 0]
      /\ missing' = [missing EXCEPT ![f] = {}]
      /\ range' = [range EXCEPT ![f] = {}]
      /\ batch' = [batch EXCEPT ![f] = {}]
      /\ pc' = [a \in Adder |-> IF a[1] = f THEN "idle" ELSE pc[a]]
      /\ cur' = [a \in Adder |-> IF a[1] = f THEN None ELSE cur[a]]
      /\ UNCHANGED <<list, leaves, roots, events, failures>>
      /\ crashes' = crashes + 1 /\ crashes < MaxCrashes
  BY DEF Crash
<1> HIDE DEF n
<1>3. TypeOK'
  <2>1. node' \in [Follower -> Nat] /\ \A g \in Follower : node'[g] \in DOMAIN NodeConfigs[g]
    BY <1>2, ConfigTyping DEF IInv, TypeOK
  <2>2. crashes' \in 0 .. MaxCrashes
    BY <1>2 DEF IInv, TypeOK
  <2>3. /\ push' \in [Follower -> {"none", "sent", "open"}]
        /\ treeLength' \in [Follower -> 0 .. MaxEvents]
        /\ isUpdating' \in [Follower -> BOOLEAN]
        /\ peerLength' \in [Follower -> 0 .. MaxEvents]
    BY <1>1, <1>2 DEF IInv, TypeOK
  <2>4. /\ missing' \in [Follower -> SUBSET (0 .. MaxEvents)]
        /\ range' \in [Follower -> SUBSET (0 .. MaxEvents)]
        /\ batch' \in [Follower -> SUBSET (0 .. MaxEvents)]
    BY <1>2 DEF IInv, TypeOK
  <2>5. pc' \in [Adder -> Step] /\ cur' \in [Adder -> 0 .. MaxEvents \cup {None}]
    BY <1>2 DEF IInv, TypeOK
  <2>6. QED
    BY <1>2, <2>1, <2>2, <2>3, <2>4, <2>5 DEF IInv, TypeOK
<1>4. TreeIsPrefix'
  <2>1. ASSUME NEW g \in Follower
        PROVE  /\ leaves'[g] = 0 .. treeLength'[g] - 1 \/ leaves'[g] = 0 .. treeLength'[g]
               /\ treeLength'[g] <= list'
    <3>1. CASE g = f
      BY <1>1, <1>2, <3>1 DEF IInv, TypeOK
    <3>2. CASE g # f
      BY <1>2, <3>2 DEF IInv, TypeOK, TreeIsPrefix
    <3>3. QED
      BY <3>1, <3>2
  <2>2. QED
    BY <1>2, <2>1 DEF IInv, TreeIsPrefix
<1>5. CarriedEvents'
  <2>1. \A a \in Adder : pc'[a] # "idle" => a[1] # f /\ pc'[a] = pc[a] /\ cur'[a] = cur[a]
    BY <1>2
  <2>2. \A g \in Follower \ {f} : treeLength'[g] = treeLength[g]
    BY <1>2 DEF IInv, TypeOK
  <2>3. \A g \in Follower : /\ batch'[g] \subseteq 0 .. list - 1
                            /\ push'[g] # "none" => list # 0
    BY <1>2 DEF IInv, TypeOK, CarriedEvents
  <2>4. QED
    BY <1>2, <2>1, <2>2, <2>3, AdderParts DEF IInv, CarriedEvents, Adding
<1>6. OneAdderPerTree'
  <2>1. \A a \in Adder : pc'[a] \in InTree => a[1] # f /\ pc[a] \in InTree
    BY <1>2 DEF InTree
  <2>2. \A g \in Follower \ {f} : isUpdating'[g] = isUpdating[g]
    BY <1>2 DEF IInv, TypeOK
  <2>3. QED
    BY <2>1, <2>2, AdderParts DEF IInv, OneAdderPerTree
<1>7. CountedLeavesHaveRoots'
  BY <1>2 DEF IInv, TypeOK, CountedLeavesHaveRoots
<1>8. QED
  BY <1>3, <1>4, <1>5, <1>6, <1>7 DEF IInv

LEMMA InsertStepInv ==
  ASSUME IInv, NEW a \in Adder, InsertStep(a)
  PROVE  IInv'
BY VerifyEventInv, CheckTreeInv, WriteNodesInv, WriteMerklerootInv, InsertEventInv
   DEF InsertStep

LEMMA NextInv == IInv /\ [Next]_vars => IInv'
<1> SUFFICES ASSUME IInv, [Next]_vars PROVE IInv'
  OBVIOUS
<1>1. CASE UNCHANGED vars
  <2>1. TypeOK' /\ TreeIsPrefix'
    BY <1>1 DEF vars, provider, database, tree, poller, bounds, IInv, TypeOK, TreeIsPrefix
  <2>2. CarriedEvents' /\ OneAdderPerTree' /\ CountedLeavesHaveRoots'
    BY <1>1 DEF vars, provider, database, tree, poller, bounds, IInv, CarriedEvents,
       OneAdderPerTree, CountedLeavesHaveRoots
  <2>3. QED
    BY <2>1, <2>2 DEF IInv
<1>2. CASE AppendAndPush
  BY <1>2, AppendInv
<1>3. ASSUME NEW f \in Follower,
             PushFails(f) \/ (\E h \in Handler : SubmitPOIEvent(f, h)) \/ Crash(f)
      PROVE  IInv'
  BY <1>3, PushFailsInv, SubmitInv, CrashInv
<1>4. ASSUME NEW f \in Follower, PollStep(f) \/ FailPoll(f)
      PROVE  IInv'
  BY <1>4, PollerStepInv, InsertStepInv, AdderParts DEF PollStep
<1>5. ASSUME NEW a \in Adder, HandlerStep(a) \/ FailCall(a) \/ FailTreeWrite(a)
      PROVE  IInv'
  BY <1>5, InsertStepInv, FinishRequestInv, FailCallInv, FailTreeWriteInv DEF HandlerStep
<1>6. QED
  BY <1>1, <1>2, <1>3, <1>4, <1>5 DEF Next

--------------------------------------------------------------------------------
(* Invariants and what follows from them.                                    *)

\* The inductive invariant holds throughout.
THEOREM SyncInvariance == Spec => []IInv
BY InitInv, NextInv, PTL DEF Spec

\* Stores, memory and what is carried hold what they should, the range and the
\* missing indices that a poll computes included.
THEOREM SyncTypeOK == Spec => []TypeOK
<1>1. IInv => TypeOK
  BY DEF IInv
<1>2. QED
  BY <1>1, SyncInvariance, PTL

\* A follower's copy is a gapless prefix of the provider's list, whatever pushes,
\* polls, failures and restarts meet.
THEOREM CopiesArePrefixes == Spec => []CopyIsPrefix
<1>1. IInv => CopyIsPrefix
  <2> SUFFICES ASSUME IInv, NEW f \in Follower
               PROVE  /\ leaves[f] = 0 .. Cardinality(leaves[f]) - 1
                      /\ Cardinality(leaves[f]) \in {treeLength[f], treeLength[f] + 1}
                      /\ events[f] \subseteq leaves[f] \cap 0 .. list - 1
    BY DEF CopyIsPrefix
  <2>1. events[f] \subseteq leaves[f] \cap 0 .. list - 1
    BY DEF IInv, TreeIsPrefix
  <2>2. QED
    BY <2>1, LeafCount DEF IInv
<1>2. QED
  BY <1>1, SyncInvariance, PTL

\* Until it restarts a follower has the merkleroot of each of its events.
THEOREM EventsKeepTheirRoots == Spec => []EventsHaveRoots
<1>1. IInv => EventsHaveRoots
  <2> SUFFICES ASSUME IInv, crashes = 0, NEW f \in Follower
               PROVE  events[f] \subseteq roots[f]
    BY DEF EventsHaveRoots
  <2>1. QED
    BY DEF IInv, CountedLeavesHaveRoots
<1>2. QED
  BY <1>1, SyncInvariance, PTL

\* Until it restarts a follower loses no event that its tree counts, unless the
\* insertion of the event itself rejects.
THEOREM NoEventIsLost ==
  ASSUME "event" \notin FailingStep
  PROVE  Spec => []MissingEventIsCarried
<1>1. Init => MissingEventIsCarried
  BY DEF Init, MissingEventIsCarried
<1>2. ASSUME IInv, MissingEventIsCarried, [Next]_vars
      PROVE  MissingEventIsCarried'
  <2> USE DEF database, tree, poller, bounds, provider
  <2>0. TypeOK
    BY <1>2 DEF IInv
  <2>1. ASSUME UNCHANGED <<treeLength, events, crashes>>,
               \A a \in Adder : pc[a] = "event" => pc'[a] = "event" /\ cur'[a] = cur[a]
        PROVE  MissingEventIsCarried'
    BY <1>2, <2>1 DEF MissingEventIsCarried
  <2>2. CASE UNCHANGED vars
    BY <2>1, <2>2 DEF vars
  <2>3. CASE AppendAndPush \/ \E f \in Follower : PushFails(f)
    BY <2>1, <2>3 DEF AppendAndPush, PushFails
  <2>4. ASSUME NEW f \in Follower, NEW h \in Handler, SubmitPOIEvent(f, h)
        PROVE  MissingEventIsCarried'
    BY <2>0, <2>1, <2>4 DEF SubmitPOIEvent, TypeOK
  \* Whoever moves elsewhere than to or from the event takes none away.
  <2>5. ASSUME NEW a \in Adder, pc[a] # "event",
               UNCHANGED <<treeLength, events, crashes>>,
               NEW s, NEW e, pc' = [pc EXCEPT ![a] = s], cur' = [cur EXCEPT ![a] = e]
        PROVE  MissingEventIsCarried'
    <3>1. \A b \in Adder : pc[b] = "event" => pc'[b] = "event" /\ cur'[b] = cur[b]
      BY <2>0, <2>5 DEF TypeOK
    <3>2. QED
      BY <2>1, <2>5, <3>1
  <2>6. ASSUME NEW a \in Adder, pc[a] # "event", Throw(a) \/ EndRequest(a),
               UNCHANGED <<treeLength, events, crashes>>
        PROVE  MissingEventIsCarried'
    BY <2>0, <2>5, <2>6, ThrowStops
  <2>7. ASSUME NEW f \in Follower,
               \/ Poll(f) \/ ReadOwnLength(f) \/ ReadMissing(f)
               \/ FetchRange(f) \/ NextFetched(f) \/ FailPoll(f)
        PROVE  MissingEventIsCarried'
    <3>1. <<f, Syncer>> \in Adder
      BY AdderParts
    <3>2. /\ pc[<<f, Syncer>>] # "event"
          /\ UNCHANGED <<treeLength, events, crashes>>
          /\ \E s, e : /\ pc' = [pc EXCEPT ![<<f, Syncer>>] = s]
                       /\ cur' = [cur EXCEPT ![<<f, Syncer>>] = e]
      <4>1. \A s : Goto(<<f, Syncer>>, s) =>
              \E e : cur' = [cur EXCEPT ![<<f, Syncer>>] = e]
        BY <2>0, <3>1 DEF Goto, TypeOK
      <4>2. CASE Poll(f) \/ ReadMissing(f)
        BY <4>1, <4>2 DEF Poll, ReadMissing, Goto
      <4>3. CASE ReadOwnLength(f)
        BY <4>1, <4>3 DEF ReadOwnLength, Goto, EndPoll, Stop
      <4>4. CASE FetchRange(f) \/ NextFetched(f) \/ FailPoll(f)
        BY <4>4 DEF FetchRange, NextFetched, FailPoll, Continue, EndPoll, Stop
      <4>5. QED
        BY <2>7, <4>2, <4>3, <4>4
    <3>3. QED
      BY <2>5, <3>1, <3>2
  <2>8. ASSUME NEW a \in Adder, \/ VerifyEvent(a) \/ CheckTree(a) \/ WriteNodes(a)
                                \/ FinishRequest(a) \/ FailCall(a) \/ FailTreeWrite(a)
        PROVE  MissingEventIsCarried'
    <3>1. pc[a] # "event" /\ UNCHANGED <<treeLength, events, crashes>>
      BY <2>8, "event" \notin FailingStep
         DEF VerifyEvent, CheckTree, WriteNodes, FinishRequest, FailCall, FailTreeWrite
    <3>2. Throw(a) \/ EndRequest(a) \/ \E s \in {"tree", "nodes", "event", "root"} : Goto(a, s)
      BY <2>8
         DEF VerifyEvent, CheckTree, WriteNodes, FinishRequest, FailCall, FailTreeWrite
    <3>3. ASSUME NEW s, Goto(a, s) PROVE MissingEventIsCarried'
      <4>1. cur' = [cur EXCEPT ![a] = cur[a]] /\ pc' = [pc EXCEPT ![a] = s]
        BY <2>0, <3>3 DEF Goto, TypeOK
      <4>2. QED
        BY <2>5, <3>1, <4>1
    <3>4. QED
      BY <2>6, <3>1, <3>2, <3>3
  \* The index that the tree counts now is the one the adder goes on with.
  <2>9. ASSUME NEW a \in Adder, WriteMerkleroot(a)
        PROVE  MissingEventIsCarried'
    <3>1. /\ a[1] \in Follower /\ treeLength[a[1]] \in Nat /\ cur[a] = treeLength[a[1]]
          /\ pc[a] = "root"
      BY <1>2, <2>9, NextLeaf DEF WriteMerkleroot
    <3>2. /\ pc' = [pc EXCEPT ![a] = "event"] /\ cur' = cur
          /\ treeLength' = [treeLength EXCEPT ![a[1]] = treeLength[a[1]] + 1]
          /\ events' = events /\ crashes' = crashes
      BY <2>9 DEF WriteMerkleroot, Goto
    <3>3. pc'[a] = "event" /\ \A b \in Adder : pc[b] = "event" => pc'[b] = "event"
      BY <2>0, <3>1, <3>2 DEF TypeOK
    <3>4. ASSUME crashes' = 0, NEW f \in Follower, NEW i \in 0 .. treeLength'[f] - 1
          PROVE  i \in events'[f] \/ \E b \in Adder :
                   b[1] = f /\ pc'[b] = "event" /\ cur'[b] = i
      <4>1. CASE f = a[1] /\ i = treeLength[f]
        BY <3>1, <3>2, <3>3, <4>1
      <4>2. CASE f # a[1] \/ i # treeLength[f]
        <5>1. treeLength[f] \in Nat /\ i \in 0 .. treeLength[f] - 1
          BY <2>0, <3>1, <3>2, <3>4, <4>2 DEF TypeOK
        <5>2. QED
          BY <1>2, <3>2, <3>3, <3>4, <5>1 DEF MissingEventIsCarried
      <4>3. QED
        BY <4>1, <4>2
    <3>5. QED
      BY <3>4 DEF MissingEventIsCarried
  <2>10. ASSUME NEW a \in Adder, InsertEvent(a)
         PROVE  MissingEventIsCarried'
    <3>1. /\ pc' = [pc EXCEPT ![a] = "prune"] /\ cur' = cur
          /\ events' = [events EXCEPT ![a[1]] = events[a[1]] \cup {cur[a]}]
          /\ treeLength' = treeLength /\ crashes' = crashes
      BY <2>10 DEF InsertEvent, Goto
    <3>2. ASSUME crashes' = 0, NEW f \in Follower, NEW i \in 0 .. treeLength'[f] - 1
          PROVE  i \in events'[f] \/ \E b \in Adder :
                   b[1] = f /\ pc'[b] = "event" /\ cur'[b] = i
      <4>1. events[f] \subseteq events'[f]
        BY <2>0, <3>1 DEF TypeOK
      <4>2. CASE i \in events[f]
        BY <4>1, <4>2
      <4>3. CASE i \notin events[f]
        <5>1. PICK b \in Adder : b[1] = f /\ pc[b] = "event" /\ cur[b] = i
          BY <1>2, <3>1, <3>2, <4>3 DEF MissingEventIsCarried
        <5>2. CASE b = a
          BY <2>0, <3>1, <5>1, <5>2, AdderParts DEF TypeOK
        <5>3. CASE b # a
          BY <2>0, <3>1, <5>1, <5>3 DEF TypeOK
        <5>4. QED
          BY <5>2, <5>3
      <4>4. QED
        BY <4>2, <4>3
    <3>3. QED
      BY <3>2 DEF MissingEventIsCarried
  <2>11. ASSUME NEW f \in Follower, Crash(f)
         PROVE  MissingEventIsCarried'
    <3>1. crashes' # 0
      BY <2>0, <2>11 DEF Crash, TypeOK
    <3>2. QED
      BY <3>1 DEF MissingEventIsCarried
  <2>12. ASSUME NEW a \in Adder, InsertStep(a)
         PROVE  MissingEventIsCarried'
    BY <2>8, <2>9, <2>10, <2>12 DEF InsertStep
  <2>13. ASSUME NEW f \in Follower, PollStep(f) \/ FailPoll(f)
         PROVE  MissingEventIsCarried'
    BY <2>7, <2>12, <2>13, AdderParts DEF PollStep
  <2>14. ASSUME NEW a \in Adder, HandlerStep(a) \/ FailCall(a) \/ FailTreeWrite(a)
         PROVE  MissingEventIsCarried'
    BY <2>8, <2>12, <2>14 DEF HandlerStep
  <2>15. QED
    BY <1>2, <2>2, <2>3, <2>4, <2>11, <2>13, <2>14 DEF Next
<1>3. QED
  BY <1>1, <1>2, SyncInvariance, PTL DEF Spec

--------------------------------------------------------------------------------
(* The refinement: POIList as one follower sees it.                          *)

\* The provider's list as a function, and POIList's helpers applied to it.
Listed == [i \in 0 .. list - 1 |-> i]

LEMMA CopyHelpers ==
  ASSUME NEW f \in Follower, NEW g, NEW i, NEW v
  PROVE  /\ Copy(f)!Empty = Empty /\ Copy(f)!Put(g, i, v) = Put(g, i, v)
         /\ Copy(f)!NextIndex(g) = NextIndex(g)
         /\ Copy(f)!Entries(g) = Entries(g)
<1> HIDE ConstantsAssumption
<1> QED
  BY DEF Copy!Empty, Copy!Put, Copy!NextIndex, Copy!IsHighest, Copy!Entries,
         Empty, Put, NextIndex, IsHighest, Entries

\* Appending the next event is POIList's append.
LEMMA ListedGrows ==
  ASSUME NEW f \in Follower, list \in Nat, list < MaxEvents, MaxEvents \in Nat,
         list' = list + 1
  PROVE  /\ list \in 0 .. MaxEvents
         /\ list \notin Copy(f)!Entries(Listed)
         /\ Listed' = Copy(f)!Put(Listed, Copy(f)!NextIndex(Listed), list)
<1> HIDE ConstantsAssumption
<1>1. DOMAIN Listed = 0 .. list - 1 /\ \A i \in 0 .. list - 1 : Listed[i] = i
  BY DEF Listed
<1>2. NextIndex(Listed) = list
  BY <1>1, NextIndexOfRange
<1>3. list \notin Entries(Listed)
  BY <1>1 DEF Entries
<1>4. Listed' = Put(Listed, list, list)
  <2>1. Put(Listed, list, list) =
          [i \in (0 .. list - 1) \cup {list} |-> IF i = list THEN list ELSE Listed[i]]
    BY <1>1 DEF Put
  <2>2. Listed' = [i \in 0 .. list |-> i]
    BY DEF Listed
  <2>3. (0 .. list - 1) \cup {list} = 0 .. list
    OBVIOUS
  <2>4. QED
    BY <1>1, <2>1, <2>2, <2>3
<1>5. QED
  BY <1>2, <1>3, <1>4, CopyHelpers

\* To a follower, whatever happens is an append, the arrival of the next leaf,
\* or nothing.
LEMMA CopyStep ==
  ASSUME NEW f \in Follower, IInv, IInv', [Next]_vars
  PROVE  [Copy(f)!Next]_(Copy(f)!vars)
<1> USE DEF database, tree, poller, bounds, provider
<1>1. CASE AppendAndPush
  <2>1. /\ list \in Nat /\ list < MaxEvents /\ MaxEvents \in Nat /\ list' = list + 1
        /\ leaves' = leaves
    BY <1>1 DEF AppendAndPush, IInv, TypeOK
  <2>2. /\ list \in 0 .. MaxEvents /\ list \notin Copy(f)!Entries(Listed)
        /\ Listed' = Copy(f)!Put(Listed, Copy(f)!NextIndex(Listed), list)
    BY <2>1, ListedGrows
  <2>3. \E c \in 0 .. MaxEvents : Copy(f)!Append(c)
    BY <2>1, <2>2 DEF Copy!Append, Listed
  <2>4. QED
    BY <2>3 DEF Copy!Next
<1>2. ASSUME UNCHANGED <<list, leaves>>
      PROVE  UNCHANGED Copy(f)!vars
  BY <1>2 DEF Copy!vars
\* A new leaf is the next one; a leaf that an earlier failure left is no news.
<1>3. ASSUME NEW a \in Adder, WriteNodes(a) \/ FailTreeWrite(a)
      PROVE  [Copy(f)!Next]_(Copy(f)!vars)
  <2> DEFINE n == treeLength[f]
  <2>1. /\ pc[a] \in {"nodes", "root"} /\ list' = list
        /\ \/ leaves' = leaves
           \/ leaves' = [leaves EXCEPT ![a[1]] = leaves[a[1]] \cup {cur[a]}]
    BY <1>3 DEF WriteNodes, FailTreeWrite, IInv, TypeOK
  <2>2. CASE leaves'[f] = leaves[f]
    BY <2>1, <2>2 DEF Copy!vars
  <2>3. CASE leaves'[f] # leaves[f]
    <3>1. a[1] = f
      BY <2>1, <2>3 DEF IInv, TypeOK
    <3>2. /\ n \in Nat /\ list \in Nat /\ n < list
          /\ leaves[f] \cup {cur[a]} = 0 .. n
      BY <2>1, <3>1, NextLeaf DEF IInv, TypeOK
    <3>3. leaves'[f] = 0 .. n
      BY <2>1, <2>3, <3>1, <3>2 DEF IInv, TypeOK
    <3>4. leaves[f] = 0 .. n - 1
      BY <2>3, <3>3 DEF IInv, TreeIsPrefix
    <3> HIDE DEF n
    <3>5. /\ Cardinality(leaves[f]) = n /\ Cardinality(leaves[f])' = n + 1
      BY <3>2, <3>3, <3>4, PrefixCardinality
    <3>6. n \in DOMAIN [i \in 0 .. list - 1 |-> i]
      BY <3>2
    <3>7. Copy(f)!Publish
      BY <2>1, <3>5, <3>6 DEF Copy!Publish
    <3>8. QED
      BY <3>7 DEF Copy!Next
  <2>4. QED
    BY <2>2, <2>3
<1>4. ASSUME NEW a \in Adder, InsertStep(a)
      PROVE  [Copy(f)!Next]_(Copy(f)!vars)
  BY <1>2, <1>3, <1>4
     DEF InsertStep, VerifyEvent, CheckTree, WriteMerkleroot, InsertEvent
<1>5. ASSUME NEW g \in Follower,
             \/ PushFails(g) \/ PollStep(g) \/ FailPoll(g) \/ Crash(g)
             \/ \E h \in Handler : SubmitPOIEvent(g, h)
      PROVE  [Copy(f)!Next]_(Copy(f)!vars)
  BY <1>2, <1>4, <1>5, AdderParts
     DEF PollStep, PushFails, FailPoll, Crash, SubmitPOIEvent, Poll, ReadOwnLength,
         ReadMissing, FetchRange, NextFetched
<1>6. ASSUME NEW a \in Adder, HandlerStep(a) \/ FailCall(a) \/ FailTreeWrite(a)
      PROVE  [Copy(f)!Next]_(Copy(f)!vars)
  BY <1>2, <1>3, <1>4, <1>6 DEF HandlerStep, FinishRequest, FailCall
<1>7. QED
  BY <1>1, <1>2, <1>5, <1>6 DEF Next, vars

\* Each follower has a list that is append-only, and what it has received is
\* final, through lost pushes, failures and restarts.
THEOREM CopyRefinesList ==
  ASSUME NEW f \in Follower
  PROVE  Spec => Copy(f)!Spec
<1>1. Init => Copy(f)!Init
  <2> SUFFICES ASSUME Init PROVE Copy(f)!Init
    OBVIOUS
  <2>1. Cardinality(leaves[f]) = 0
    BY FS_EmptySet DEF Init
  <2>2. Listed = Empty
    BY DEF Init, Listed, Empty
  <2>3. QED
    BY <2>1, <2>2, CopyHelpers DEF Copy!Init, Listed
<1>2. IInv /\ IInv' /\ [Next]_vars => [Copy(f)!Next]_(Copy(f)!vars)
  BY CopyStep
<1>3. QED
  BY <1>1, <1>2, SyncInvariance, PTL DEF Spec, Copy!Spec
================================================================================
