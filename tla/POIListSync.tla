------------------------------- MODULE POIListSync -------------------------------
(*****************************************************************************)
(* How a POI list spreads.  The list provider pushes every event it appends  *)
(* to the other nodes (the followers), waiting for their answers; a push may *)
(* be lost, or its connection may break while the follower still handles it. *)
(* Each follower also polls its peers in turn and fetches what it misses.    *)
(* The handlers of pushes and the poller of a follower append to the same    *)
(* merkletree and ordered events; they interleave at their awaits.           *)
(*                                                                           *)
(* An event is identified by its index: the list provider never signs two    *)
(* events for one index (POIEventQueue), and no node accepts an event that   *)
(* the provider has not signed.  So the leaf at an index, once there, is the *)
(* leaf of the provider's list, and validated merkleroots agree.             *)
(*****************************************************************************)
EXTENDS Integers, FiniteSets, Sequences, FiniteSetsExt

CONSTANTS
  Follower,      \* the nodes that hold a copy of the list
  Provider,      \* the node that owns it
  NodeConfigs,   \* for each follower, the peers it polls, in order
  Handler,       \* request handlers a follower may have running at a time
  Syncer,        \* the poller of a follower
  None,          \* no event
  MaxRange,      \* MAX_EVENT_QUERY_RANGE_LENGTH
  FailingStep,   \* steps whose awaited call may reject
  MaxEvents,     \* bound on the length of the list
  MaxFailures,   \* bound on rejected calls
  MaxCrashes     \* bound on restarts of followers

Node  == Follower \cup {Provider}
Adder == Follower \X (Handler \cup {Syncer})

ASSUME ConstantsAssumption ==
  /\ Provider \notin Follower /\ Syncer \notin Handler
  /\ \A f \in Follower : NodeConfigs[f] \in Seq(Node \ {f}) \ {<<>>}
  /\ None \notin Int
  /\ MaxRange \in Nat \ {0}
  /\ MaxEvents \in Nat /\ MaxFailures \in Nat /\ MaxCrashes \in Nat

VARIABLES
  list,      \* number of events the provider has appended
  push,      \* push[f]: the push of the latest event to f: sent, open, none
  \* MongoDB of each follower
  leaves, roots, events,   \* sets of indices
  \* memory of each follower
  treeLength,  \* POIMerkletree.treeLengths, cached
  isUpdating,  \* POIMerkletree.isUpdating
  node,        \* RoundRobinSyncer.currentNodeIndex
  peerLength,  \* list length of the peer being polled, as it reported it
  missing,     \* indices the poller has still to fetch one by one
  range,       \* the indices it fetches after those, in one request
  batch,       \* events fetched and not yet added
  pc,          \* the await each adder is suspended at
  cur,         \* the event each adder carries
  \* bounds
  failures, crashes

provider == <<list, push>>
database == <<leaves, roots, events>>
tree     == <<treeLength, isUpdating>>
poller   == <<node, peerLength, missing, range, batch>>
bounds   == <<failures, crashes>>
vars     == <<provider, database, tree, poller, pc, cur, bounds>>

Step == {"idle", "count", "missing", "fetch",
         "verify", "tree", "nodes", "root", "event", "prune"}

--------------------------------------------------------------------------------
(* Queries.                                                                  *)

\* getOverallEventsLength, and the sum of getPOIEventLengths, count rows.
EventsLength(n) == IF n = Provider THEN list ELSE Cardinality(events[n])

\* getPOIListEventRange leaves out an event whose merkleroot was not stored.
ListEventRange(n, indices) ==
  indices \cap IF n = Provider THEN 0 .. list - 1 ELSE events[n] \cap roots[n]

\* The counter that runs along the ordered events, as it is when those before i
\* have been read: where event and counter differ it passes both.
Counter(stored) ==
  LET counter[i \in 0 .. MaxEvents] ==
        IF i = 0 THEN 0
        ELSE IF i - 1 \notin stored THEN counter[i - 1]
        ELSE IF counter[i - 1] = i - 1 THEN i ELSE counter[i - 1] + 2
  IN  counter

\* Mutant: the event after a gap is reported instead of the missing index.
MissingEventIndicesOffByOne(f) == {i \in events[f] : Counter(events[f])[i] # i}

\* getMissingEventIndices: the counter is reported where an event differs from it.
MissingEventIndices(f) ==
  LET counter == Counter(events[f])
  IN  {counter[i] : i \in {j \in events[f] : counter[j] # j}}

Peer(f) == NodeConfigs[f][node[f]]

--------------------------------------------------------------------------------
(* Sequential pieces shared by the handlers and the poller.                  *)

Goto(a, s) == pc' = [pc EXCEPT ![a] = s] /\ UNCHANGED cur

Stop(a) ==
  /\ pc' = [pc EXCEPT ![a] = "idle"]
  /\ cur' = [cur EXCEPT ![a] = None]

\* Mutant: the index of the next peer wraps to one before the first.
EndPollOffByOne(f) ==
  /\ Stop(<<f, Syncer>>)
  /\ node' = [node EXCEPT ![f] = (@ + 1) % (Len(NodeConfigs[f]) + 1)]
  /\ peerLength' = [peerLength EXCEPT ![f] = 0]
  /\ missing' = [missing EXCEPT ![f] = {}]
  /\ range' = [range EXCEPT ![f] = {}]
  /\ batch' = [batch EXCEPT ![f] = {}]
  /\ UNCHANGED push

\* The end of a poll, complete or aborted: the next poll asks the next peer.
EndPoll(f) ==
  /\ Stop(<<f, Syncer>>)
  /\ node' = [node EXCEPT ![f] = (@ % Len(NodeConfigs[f])) + 1]
  /\ peerLength' = [peerLength EXCEPT ![f] = 0]
  /\ missing' = [missing EXCEPT ![f] = {}]
  /\ range' = [range EXCEPT ![f] = {}]
  /\ batch' = [batch EXCEPT ![f] = {}]
  /\ UNCHANGED push

\* The end of a request, with or without an error: the push it belongs to, if
\* the provider still waits for it, is answered.
EndRequest(a) ==
  /\ Stop(a)
  /\ push' = [push EXCEPT ![a[1]] =
                IF cur[a] = list - 1 /\ @ = "open" THEN "none" ELSE @]
  /\ UNCHANGED poller

Throw(a) == IF a[2] = Syncer THEN EndPoll(a[1]) ELSE EndRequest(a)

--------------------------------------------------------------------------------
Init ==
  /\ list = 0 /\ push = [f \in Follower |-> "none"]
  /\ leaves = [f \in Follower |-> {}] /\ roots = [f \in Follower |-> {}]
  /\ events = [f \in Follower |-> {}]
  /\ treeLength = [f \in Follower |-> 0]
  /\ isUpdating = [f \in Follower |-> FALSE]
  /\ node = [f \in Follower |-> 1]
  /\ peerLength = [f \in Follower |-> 0]
  /\ missing = [f \in Follower |-> {}] /\ range = [f \in Follower |-> {}]
  /\ batch = [f \in Follower |-> {}]
  /\ pc = [a \in Adder |-> "idle"] /\ cur = [a \in Adder |-> None]
  /\ failures = 0 /\ crashes = 0

(* The provider. *************************************************************)

\* The event queue appends an event and pushes it to all nodes.  It goes on to
\* the next one when all pushes have been answered or have failed.
AppendAndPush ==
  /\ list < MaxEvents
  /\ \A f \in Follower : push[f] = "none"
  /\ list' = list + 1
  /\ push' = [f \in Follower |-> "sent"]
  /\ UNCHANGED <<database, tree, poller, pc, cur, bounds>>

\* The push is lost on its way, or its connection breaks; the provider logs it.
PushFails(f) ==
  /\ push[f] # "none"
  /\ push' = [push EXCEPT ![f] = "none"]
  /\ UNCHANGED <<list, database, tree, poller, pc, cur, bounds>>

(* A follower's request handler for a pushed event. **************************)

SubmitPOIEvent(f, h) ==
  /\ push[f] = "sent" /\ pc[<<f, h>>] = "idle"
  /\ push' = [push EXCEPT ![f] = "open"]
  /\ pc' = [pc EXCEPT ![<<f, h>>] = "verify"]
  /\ cur' = [cur EXCEPT ![<<f, h>>] = list - 1]
  /\ UNCHANGED <<list, database, tree, poller, bounds>>

\* The pruner returns and the request is answered.
FinishRequest(a) ==
  /\ a[2] # Syncer /\ pc[a] = "prune"
  /\ EndRequest(a)
  /\ UNCHANGED <<list, database, tree, bounds>>

(* A follower's poll of one peer. ********************************************)

\* getNodeStatusAllNetworks returns.
Poll(f) ==
  /\ pc[<<f, Syncer>>] = "idle"
  /\ peerLength' = [peerLength EXCEPT ![f] = EventsLength(Peer(f))]
  /\ Goto(<<f, Syncer>>, "count")
  /\ UNCHANGED <<provider, database, tree, node, missing, range, batch, bounds>>

\* getOverallEventsLength returns.  A longer list of the peer is fetched from
\* the follower's own count on; first, if the tree holds another number of
\* events than the list, the indices missing from the list.
ReadOwnLength(f) ==
  /\ pc[<<f, Syncer>>] = "count"
  /\ LET own  == EventsLength(f)
         last == peerLength[f] - 1
     IN  IF last < own
           THEN EndPoll(f)
           ELSE /\ range' = [range EXCEPT ![f] = own .. Min({own + MaxRange - 1, last})]
                /\ Goto(<<f, Syncer>>,
                        IF own # treeLength[f] THEN "missing" ELSE "fetch")
                /\ UNCHANGED <<push, node, peerLength, missing, batch>>
  /\ UNCHANGED <<list, database, tree, bounds>>

\* getMissingEventIndices returns; each missing index is fetched by itself.
ReadMissing(f) ==
  /\ pc[<<f, Syncer>>] = "missing"
  /\ missing' = [missing EXCEPT ![f] = MissingEventIndices(f)]
  /\ Goto(<<f, Syncer>>, "fetch")
  /\ UNCHANGED <<provider, database, tree, node, peerLength, range, batch, bounds>>

\* What follows: the next of the fetched events, the next request, the end.
Continue(f, fetched, single, rest) ==
  LET s == <<f, Syncer>>
  IN  \/ /\ fetched # {}
         /\ cur' = [cur EXCEPT ![s] = Min(fetched)]
         /\ batch' = [batch EXCEPT ![f] = fetched \ {Min(fetched)}]
         /\ missing' = [missing EXCEPT ![f] = single]
         /\ range' = [range EXCEPT ![f] = rest]
         /\ pc' = [pc EXCEPT ![s] = "verify"]
         /\ UNCHANGED <<push, node, peerLength>>
      \/ /\ fetched = {} /\ single \cup rest # {}
         /\ missing' = [missing EXCEPT ![f] = single]
         /\ range' = [range EXCEPT ![f] = rest]
         /\ pc' = [pc EXCEPT ![s] = "fetch"]
         /\ cur' = [cur EXCEPT ![s] = None]
         /\ UNCHANGED <<push, node, peerLength, batch>>
      \/ /\ fetched = {} /\ single \cup rest = {}
         /\ EndPoll(f)

\* POINodeRequest.getPOIListEventRange returns, for the first missing index or,
\* when there is none left, for the range.
FetchRange(f) ==
  /\ pc[<<f, Syncer>>] = "fetch"
  /\ IF missing[f] # {}
       THEN LET first == {Min(missing[f])}
            IN  Continue(f, ListEventRange(Peer(f), first), missing[f] \ first, range[f])
       ELSE Continue(f, ListEventRange(Peer(f), range[f]), {}, {})
  /\ UNCHANGED <<list, database, tree, bounds>>

\* The pruner returns.
NextFetched(f) ==
  /\ pc[<<f, Syncer>>] = "prune"
  /\ Continue(f, batch[f], missing[f], range[f])
  /\ UNCHANGED <<list, database, tree, bounds>>

(* Appending a verified event; handlers and pollers. *************************)

\* verifyPOIEvent returns and insertLeaf tests and sets isUpdating.
VerifyEvent(a) ==
  LET f == a[1]
  IN  /\ pc[a] = "verify"
      /\ IF isUpdating[f]
           THEN Throw(a) /\ UNCHANGED isUpdating
           ELSE /\ isUpdating' = [isUpdating EXCEPT ![f] = TRUE]
                /\ Goto(a, "tree") /\ UNCHANGED <<push, poller>>
      /\ UNCHANGED <<list, database, treeLength, bounds>>

\* Mutant: the index of the event is not compared with the tree's length.
VerdictIgnoringIndex(f, i) == IF i = treeLength[f] - 1 THEN "reject" ELSE "insert"

\* What insertLeaf decides: the latest leaf is refused, the next one inserted,
\* and of the others those in the tree are skipped.
Verdict(f, i) ==
  IF i = treeLength[f] - 1 THEN "reject"
  ELSE IF i = treeLength[f] THEN "insert"
  ELSE IF i \in leaves[f] THEN "skip" ELSE "reject"

CheckTree(a) ==
  LET f == a[1]
      verdict == Verdict(f, cur[a])
  IN  /\ pc[a] = "tree"
      /\ isUpdating' = [isUpdating EXCEPT ![f] = verdict = "insert"]
      /\ IF verdict = "reject"
           THEN Throw(a)
           ELSE /\ Goto(a, IF verdict = "insert" THEN "nodes" ELSE "event")
                /\ UNCHANGED <<push, poller>>
      /\ UNCHANGED <<list, database, treeLength, bounds>>

\* updatePOIMerkletreeNodes returns.
WriteNodes(a) ==
  /\ pc[a] = "nodes"
  /\ leaves' = [leaves EXCEPT ![a[1]] = @ \cup {cur[a]}]
  /\ Goto(a, "root")
  /\ UNCHANGED <<provider, roots, events, tree, poller, bounds>>

\* Mutant: the tree is released without storing the merkleroot.
WriteNoMerkleroot(a) ==
  /\ pc[a] = "root"
  /\ treeLength' = [treeLength EXCEPT ![a[1]] = @ + 1]
  /\ isUpdating' = [isUpdating EXCEPT ![a[1]] = FALSE]
  /\ Goto(a, "event")
  /\ UNCHANGED <<provider, leaves, roots, events, poller, bounds>>

\* insertMerkleroot returns; the cached length grows and the tree is released.
WriteMerkleroot(a) ==
  /\ pc[a] = "root"
  /\ roots' = [roots EXCEPT ![a[1]] = @ \cup {cur[a]}]
  /\ treeLength' = [treeLength EXCEPT ![a[1]] = @ + 1]
  /\ isUpdating' = [isUpdating EXCEPT ![a[1]] = FALSE]
  /\ Goto(a, "event")
  /\ UNCHANGED <<provider, leaves, events, poller, bounds>>

\* insertValidSignedPOIEvent returns.
InsertEvent(a) ==
  /\ pc[a] = "event"
  /\ events' = [events EXCEPT ![a[1]] = @ \cup {cur[a]}]
  /\ Goto(a, "prune")
  /\ UNCHANGED <<provider, leaves, roots, tree, poller, bounds>>

(* Failures of a follower. ***************************************************)

\* An awaited call outside insertLeaf's writes rejects.
FailCall(a) ==
  /\ pc[a] \in FailingStep \ {"idle", "tree", "nodes", "root"}
  /\ failures < MaxFailures
  /\ failures' = failures + 1
  /\ Throw(a)
  /\ UNCHANGED <<list, database, tree, crashes>>

\* getNodeStatusAllNetworks rejects; the poll ends.
FailPoll(f) ==
  /\ pc[<<f, Syncer>>] = "idle" /\ "idle" \in FailingStep
  /\ failures < MaxFailures
  /\ failures' = failures + 1
  /\ EndPoll(f)
  /\ UNCHANGED <<list, database, tree, crashes>>

\* Mutant: a failed write leaves the tree locked.
FailTreeWriteKeepingLock(a) ==
  /\ pc[a] \in {"nodes", "root"} \cap FailingStep
  /\ failures < MaxFailures
  /\ failures' = failures + 1
  /\ \E stored \in BOOLEAN :
       leaves' = [leaves EXCEPT ![a[1]] = IF stored THEN @ \cup {cur[a]} ELSE @]
  /\ Throw(a)
  /\ UNCHANGED <<list, roots, events, tree, crashes>>

\* Mutant: the cached length grows although the writes failed.
FailTreeWriteGrowingLength(a) ==
  /\ pc[a] \in {"nodes", "root"} \cap FailingStep
  /\ failures < MaxFailures
  /\ failures' = failures + 1
  /\ leaves' = [leaves EXCEPT ![a[1]] = @ \cup {cur[a]}]
  /\ treeLength' = [treeLength EXCEPT ![a[1]] = @ + 1]
  /\ isUpdating' = [isUpdating EXCEPT ![a[1]] = FALSE]
  /\ Throw(a)
  /\ UNCHANGED <<list, roots, events, crashes>>

\* A write of insertLeaf fails, before or after the leaf is stored; the catch
\* block releases the tree.
FailTreeWrite(a) ==
  /\ pc[a] \in {"nodes", "root"} \cap FailingStep
  /\ failures < MaxFailures
  /\ failures' = failures + 1
  /\ \E stored \in BOOLEAN :
       leaves' = [leaves EXCEPT ![a[1]] = IF stored THEN @ \cup {cur[a]} ELSE @]
  /\ isUpdating' = [isUpdating EXCEPT ![a[1]] = FALSE]
  /\ Throw(a)
  /\ UNCHANGED <<list, roots, events, treeLength, crashes>>

\* A follower dies and starts again: its requests and its poll are gone, and
\* the tree counts its leaves anew.
Crash(f) ==
  /\ crashes < MaxCrashes
  /\ crashes' = crashes + 1
  /\ push' = [push EXCEPT ![f] = IF @ = "open" THEN "none" ELSE @]
  /\ treeLength' = [treeLength EXCEPT ![f] = Cardinality(leaves[f])]
  /\ isUpdating' = [isUpdating EXCEPT ![f] = FALSE]
  /\ node' = [node EXCEPT ![f] = 1]
  /\ peerLength' = [peerLength EXCEPT ![f] = 0]
  /\ missing' = [missing EXCEPT ![f] = {}]
  /\ range' = [range EXCEPT ![f] = {}]
  /\ batch' = [batch EXCEPT ![f] = {}]
  /\ pc' = [a \in Adder |-> IF a[1] = f THEN "idle" ELSE pc[a]]
  /\ cur' = [a \in Adder |-> IF a[1] = f THEN None ELSE cur[a]]
  /\ UNCHANGED <<list, database, failures>>

--------------------------------------------------------------------------------
InsertStep(a) ==
  \/ VerifyEvent(a) \/ CheckTree(a)
  \/ WriteNodes(a) \/ WriteMerkleroot(a) \/ InsertEvent(a)

HandlerStep(a) == a[2] # Syncer /\ (InsertStep(a) \/ FinishRequest(a))

PollStep(f) ==
  \/ Poll(f) \/ ReadOwnLength(f) \/ ReadMissing(f) \/ FetchRange(f)
  \/ InsertStep(<<f, Syncer>>) \/ NextFetched(f)

Next ==
  \/ AppendAndPush
  \/ \E f \in Follower :
       \/ PushFails(f)
       \/ \E h \in Handler : SubmitPOIEvent(f, h)
       \/ PollStep(f) \/ FailPoll(f)
       \/ Crash(f)
  \/ \E a \in Adder : HandlerStep(a) \/ FailCall(a) \/ FailTreeWrite(a)

Spec == Init /\ [][Next]_vars

\* A request that has arrived is handled to its end and the poller always
\* polls again; nothing is assumed of the pushes.
FairSpec ==
  /\ Spec
  /\ \A a \in Adder : WF_vars(HandlerStep(a))
  /\ \A f \in Follower : WF_vars(PollStep(f))

--------------------------------------------------------------------------------
(* Properties.                                                               *)

TypeOK ==
  /\ list \in 0 .. MaxEvents
  /\ push \in [Follower -> {"none", "sent", "open"}]
  /\ leaves \in [Follower -> SUBSET (0 .. MaxEvents)]
  /\ roots \in [Follower -> SUBSET (0 .. MaxEvents)]
  /\ events \in [Follower -> SUBSET (0 .. MaxEvents)]
  /\ treeLength \in [Follower -> 0 .. MaxEvents]
  /\ isUpdating \in [Follower -> BOOLEAN]
  /\ node \in [Follower -> Nat]
  /\ \A f \in Follower : node[f] \in DOMAIN NodeConfigs[f]
  /\ peerLength \in [Follower -> 0 .. MaxEvents]
  /\ missing \in [Follower -> SUBSET (0 .. MaxEvents)]
  /\ range \in [Follower -> SUBSET (0 .. MaxEvents)]
  /\ batch \in [Follower -> SUBSET (0 .. MaxEvents)]
  /\ pc \in [Adder -> Step]
  /\ cur \in [Adder -> 0 .. MaxEvents \cup {None}]
  /\ failures \in 0 .. MaxFailures /\ crashes \in 0 .. MaxCrashes

\* A copy is a gapless prefix of the provider's list, however pushes and polls
\* interleave, fail or restart; only the tree may be ahead of its cached length,
\* by the leaf being added, and only events whose leaves are stored are listed.
CopyIsPrefix ==
  \A f \in Follower :
    /\ leaves[f] = 0 .. Cardinality(leaves[f]) - 1
    /\ Cardinality(leaves[f]) \in {treeLength[f], treeLength[f] + 1}
    /\ events[f] \subseteq leaves[f] \cap 0 .. list - 1

\* While no follower restarts, an event that the tree counts and the list lacks
\* is on its way into the list: failed writes, polls and requests lose none.
MissingEventIsCarried ==
  crashes = 0 =>
    \A f \in Follower : \A i \in 0 .. treeLength[f] - 1 :
      i \in events[f] \/ \E a \in Adder :
                           a[1] = f /\ pc[a] = "event" /\ cur[a] = i

\* While no follower restarts, every event of a copy has its merkleroot, so the
\* follower can pass on all of its copy.
EventsHaveRoots ==
  crashes = 0 => \A f \in Follower : events[f] \subseteq roots[f]

\* The provider's list and how much of it a follower's tree holds, as POIList
\* sees them.
Copy(f) == INSTANCE POIList
             WITH Commitment <- 0 .. MaxEvents,
                  list <- [i \in 0 .. list - 1 |-> i],
                  published <- Cardinality(leaves[f])

--------------------------------------------------------------------------------
\* Until it restarts, a follower gets every event of the provider, also if all
\* pushes to it are lost.
FollowerCatchesUp ==
  \A f \in Follower : \A i \in 0 .. MaxEvents - 1 :
    i < list /\ crashes = 0 ~> i \in events[f] \/ crashes > 0

\* A restart may leave events out of a copy whose leaves are in its tree; those
\* before the latest leaf are fetched again.
InnerMissingEventIsFetched ==
  \A f \in Follower : \A i \in 0 .. MaxEvents - 1 :
    i < treeLength[f] - 1 ~> i \in events[f]
================================================================================
