------------------------ MODULE SyncedCollections_proofs ------------------------
(***************************************************************************)
(* Proofs about SyncedCollections, for any nodes and orders of polling,    *)
(* any items, failures and restarts.                                       *)
(***************************************************************************)
EXTENDS SyncedCollections, SequenceTheorems, TLAPS

-----------------------------------------------------------------------------
(* The inductive invariant.                                                *)

SectionSet == [peer : Node, items : SUBSET Item, count : {Cardinality(S) : S \in SUBSET Item}]
Lefts == [pc : {"left"}, sections : Seq(SectionSet), rest : SUBSET Item]
Calls == [pc : {"insert", "list"}, item : Item \ Single, then : Lefts]

CollectionsInv ==
    /\ rows \in [Node -> SUBSET Item] /\ cache \in [Node -> SUBSET Item]
    /\ queue \subseteq Legacy \union Single /\ events \subseteq Legacy \union Single
    /\ pushed \subseteq Legacy \union Single
    /\ unscanned \subseteq Late /\ restarted \subseteq Restarting

PollerInv ==
    /\ turn \in [Node -> Nat] /\ \A n \in Node : turn[n] \in DOMAIN Peers[n]
    /\ syncCount \in [Node -> 0 .. SyncPeriod - 1]
    /\ submits \in 0 .. MaxSubmits /\ faults \in 0 .. MaxFaults

\* What a call t carries goes to the list, now or at the provider.
IsForList(t, r) == r.pc = "list" \/ (r.pc = "insert" /\ t[2] # "poll")

TaskInv ==
    /\ task \in [Task -> Lefts \union Calls]
    /\ \A t \in Task : IsForList(t, task[t]) => task[t].item \in Legacy

\* The inductive invariant: what a task carries is an item that may be stored,
\* and only the proofs of legacy transactions go on from there to the list.
IInv == CollectionsInv /\ PollerInv /\ TaskInv /\ OfferedIsStored

USE ConstantsAssumption DEF ConstantsAssumption, Item, stored, list, poller, bounds, vars,
    At, Goto, GotoPc

-----------------------------------------------------------------------------
(* The records of a task.                                                  *)

LEMMA IdleIsLeft == Idle \in Lefts
BY DEF Idle, Left, Lefts

LEMMA EnteredIsTask ==
    ASSUME NEW n \in Node, NEW i \in Item, NEW then \in Lefts
    PROVE  /\ Entered(n, i, then) \in Lefts \union Calls
           /\ Entered(n, i, then).pc # "list"
BY DEF Entered, ShouldAddBlockedShield, ShouldAddLegacyProof, Call, Calls, Lefts

LEMMA GotoInv ==
    ASSUME TaskInv, NEW t \in Task, NEW r \in Lefts \union Calls, Goto(t, r),
           IsForList(t, r) => r.item \in Legacy
    PROVE  TaskInv'
BY DEF TaskInv, IsForList

LEMMA TaskIsCall ==
    ASSUME TaskInv, NEW t \in Task, task[t].pc # "left"
    PROVE  task[t] \in Calls
BY DEF TaskInv, Lefts

LEMMA TaskIsLeft ==
    ASSUME TaskInv, NEW t \in Task, task[t].pc = "left"
    PROVE  task[t] \in Lefts
BY DEF TaskInv, Calls

LEMMA SectionIsSection ==
    ASSUME CollectionsInv, NEW m \in Node, NEW items \in SUBSET Item
    PROVE  Section(m, items) \in SectionSet
BY DEF Section, SectionSet, Cached, CollectionsInv

LEMMA FaultIsBounded ==
    ASSUME PollerInv, Fault
    PROVE  faults' \in 0 .. MaxFaults /\ submits' = submits
<1>1. MaxFaults \in Nat
    OBVIOUS
<1>2. QED
    BY <1>1 DEF PollerInv, Fault

LEMMA SubmitIsBounded ==
    ASSUME PollerInv, submits < MaxSubmits
    PROVE  submits + 1 \in 0 .. MaxSubmits
<1>1. MaxSubmits \in Nat
    OBVIOUS
<1>2. QED
    BY <1>1 DEF PollerInv

LEMMA PeersAreNodes ==
    ASSUME NEW n \in Node
    PROVE  /\ Len(Peers[n]) \in Nat \ {0} /\ DOMAIN Peers[n] = 1 .. Len(Peers[n])
           /\ \A i \in DOMAIN Peers[n] : Peers[n][i] \in Node
<1>1. Peers[n] \in Seq(Node \ {n}) /\ Peers[n] # << >>
    OBVIOUS
<1>2. QED
    BY <1>1, LenProperties, EmptySeq, ElementOfSeq

-----------------------------------------------------------------------------
(* Every action keeps the invariant.                                       *)

LEMMA PollInv ==
    ASSUME IInv, NEW n \in Node, PollStep(n)
    PROVE  IInv'
<1> DEFINE t == <<n, "poll">>
<1>1. t \in Task /\ task[t].pc = "left"
    BY DEF Task, PollStep, GetNodeStatus, UpdateSection, NextItem, Idle, Left
<1>2. task[t] \in Lefts
    BY <1>1, TaskIsLeft DEF IInv
<1>3. PICK r \in Lefts \union Calls : (Goto(t, r) \/ UNCHANGED task) /\ r.pc # "list"
    <2>1. CASE GetNodeStatus(n)
        <3>1. Peers[n][turn[n]] \in Node
            BY PeersAreNodes DEF IInv, PollerInv
        <3>2. Sections(n, Peers[n][turn[n]]) \in Seq(SectionSet)
            BY <3>1, SectionIsSection DEF Sections, IInv
        <3>3. Left(Sections(n, Peers[n][turn[n]]), {}) \in Lefts
            BY <3>2 DEF Left, Lefts
        <3>4. QED
            BY <2>1, <3>3 DEF GetNodeStatus, Lefts
    <2>2. CASE UpdateSection(n)
        <3>1. /\ Tail(task[t].sections) \in Seq(SectionSet)
              /\ Head(task[t].sections).peer \in Node
            <4>1. task[t].sections \in Seq(SectionSet) /\ task[t].sections # << >>
                BY <1>2, <2>2 DEF Lefts, UpdateSection
            <4>2. Head(task[t].sections) \in SectionSet /\ Tail(task[t].sections) \in Seq(SectionSet)
                BY <4>1, HeadTailProperties
            <4>3. QED
                BY <4>2 DEF SectionSet
        <3>2. ASSUME NEW answer \in SUBSET Item
              PROVE  Left(Tail(task[t].sections), answer) \in Lefts
            BY <3>1 DEF Left, Lefts
        <3> DEFINE section == Head(task[t].sections)
        <3> DEFINE own == Cached(n, section.items)
        <3>3. \A answer \in GetFiltered(Cached(section.peer, section.items), own) :
                  answer \in SUBSET Item
            BY <3>1 DEF GetFiltered, Cached, IInv, CollectionsInv
        <3>4. \E answer \in SUBSET Item : Goto(t, Left(Tail(task[t].sections), answer))
            <4>1. CASE \E answer \in GetFiltered(Cached(section.peer, section.items), own) :
                           Goto(t, Left(Tail(task[t].sections), answer))
                BY <3>3, <4>1
            <4>2. CASE Goto(t, Left(Tail(task[t].sections), {}))
                BY <4>2
            <4>3. QED
                BY <2>2, <4>1, <4>2 DEF UpdateSection
        <3>5. QED
            BY <3>2, <3>4 DEF Lefts
    <2>3. CASE NextItem(n)
        <3>1. PICK i \in task[t].rest :
                  LET left == Left(task[t].sections, task[t].rest \ {i})
                  IN  Goto(t, Entered(n, i, left)) \/ Goto(t, left)
            BY <2>3 DEF NextItem
        <3>2. i \in Item /\ Left(task[t].sections, task[t].rest \ {i}) \in Lefts
            BY <1>2 DEF Left, Lefts
        <3>3. QED
            BY <3>1, <3>2, EnteredIsTask DEF Lefts
    <2>4. QED
        BY <2>1, <2>2, <2>3 DEF PollStep
<1>4. TaskInv'
    BY <1>1, <1>3, GotoInv DEF IInv, TaskInv, IsForList
<1>5. PollerInv'
    <2>1. CASE GetNodeStatus(n)
        <3>1. /\ turn' = [turn EXCEPT ![n] = 1 + (turn[n] % Len(Peers[n]))]
              /\ syncCount' = [syncCount EXCEPT ![n] = (syncCount[n] + 1) % SyncPeriod]
            BY <2>1 DEF GetNodeStatus, IncrementedNodeIndex
        <3>2. Len(Peers[n]) \in Nat \ {0} /\ DOMAIN Peers[n] = 1 .. Len(Peers[n])
            BY PeersAreNodes
        <3>3. 1 + (turn[n] % Len(Peers[n])) \in 1 .. Len(Peers[n])
            BY <3>2 DEF IInv, PollerInv
        <3>4. syncCount[n] \in Nat /\ SyncPeriod \in Nat \ {0}
            BY DEF IInv, PollerInv
        <3>5. (syncCount[n] + 1) % SyncPeriod \in 0 .. SyncPeriod - 1
            BY <3>4
        <3>6. submits' \in 0 .. MaxSubmits /\ faults' \in 0 .. MaxFaults
            BY <2>1 DEF GetNodeStatus, Fault, IInv, PollerInv
        <3>7. turn' \in [Node -> Nat] /\ \A m \in Node : turn'[m] \in DOMAIN Peers[m]
            <4>1. 1 + (turn[n] % Len(Peers[n])) \in Nat
                BY <3>2, <3>3
            <4>2. turn \in [Node -> Nat] /\ \A m \in Node : turn[m] \in DOMAIN Peers[m]
                BY DEF IInv, PollerInv
            <4>3. turn' \in [Node -> Nat]
                BY <3>1, <4>1, <4>2
            <4>4. ASSUME NEW m \in Node
                  PROVE  turn'[m] \in DOMAIN Peers[m]
                BY <3>1, <3>2, <3>3, <4>2
            <4>5. QED
                BY <4>3, <4>4
        <3>8. syncCount' \in [Node -> 0 .. SyncPeriod - 1]
            BY <3>1, <3>5 DEF IInv, PollerInv
        <3>9. QED
            BY <3>6, <3>7, <3>8 DEF PollerInv
    <2>2. CASE UpdateSection(n) \/ NextItem(n)
        <3>1. faults' \in 0 .. MaxFaults
            BY <2>2, FaultIsBounded DEF UpdateSection, NextItem, IInv, PollerInv
        <3>2. QED
            BY <2>2, <3>1 DEF UpdateSection, NextItem, Fault, IInv, PollerInv
    <2>3. QED
        BY <2>1, <2>2 DEF PollStep
<1>6. CollectionsInv' /\ OfferedIsStored'
    BY DEF PollStep, GetNodeStatus, UpdateSection, NextItem, IInv, CollectionsInv, OfferedIsStored
<1>7. QED
    BY <1>4, <1>5, <1>6 DEF IInv

\* The row is there before the cache is filled.
LEMMA TaskStepInv ==
    ASSUME IInv, NEW t \in Task, TaskStep(t)
    PROVE  IInv'
<1>1. task[t] \in Calls
    BY TaskIsCall DEF IInv, TaskStep, Insert, TryAddToList
<1>2. /\ task[t].item \in Blocked \union Legacy /\ task[t].item \in Item
      /\ task[t].then \in Lefts /\ t[1] \in Node
    BY <1>1 DEF Calls, Task
<1>3. TaskInv'
    <2>1. CASE Goto(t, task[t].then)
        BY <1>2, <2>1, GotoInv DEF IInv, Lefts, IsForList
    <2>2. CASE GotoPc(t, "list") /\ task[t].item \in Legacy
        <3>1. /\ [task[t] EXCEPT !.pc = "list"] \in Calls
              /\ [task[t] EXCEPT !.pc = "list"].item = task[t].item
            BY <1>1 DEF Calls
        <3>2. Goto(t, [task[t] EXCEPT !.pc = "list"])
            BY <2>2
        <3>3. QED
            BY <2>2, <3>1, <3>2, GotoInv DEF IInv
    <2>3. QED
        BY <2>1, <2>2 DEF TaskStep, Insert, TryAddToList
<1>4. CASE Insert(t)
    <2>1. PushedBy(t) \subseteq Legacy \union Single
        BY <1>4 DEF PushedBy, Insert, IInv, TaskInv, IsForList, CollectionsInv
    <2>2. /\ rows' = [rows EXCEPT ![t[1]] = @ \union {task[t].item}]
          /\ cache' = [cache EXCEPT ![t[1]] = @ \union {task[t].item}]
        BY <1>4 DEF Insert, InsertRow, AddToCache
    <2>3. CollectionsInv'
        BY <1>2, <1>4, <2>1, <2>2 DEF Insert, IInv, CollectionsInv
    <2>4. OfferedIsStored'
        BY <1>2, <2>2 DEF IInv, CollectionsInv, OfferedIsStored
    <2>5. QED
        BY <1>3, <1>4, <2>3, <2>4 DEF Insert, IInv, PollerInv
<1>5. CASE TryAddToList(t)
    <2>1. task[t].item \in Legacy
        BY <1>5 DEF TryAddToList, IInv, TaskInv, IsForList
    <2>2. QED
        BY <1>3, <1>5, <2>1 DEF TryAddToList, QueueUnsignedPOILegacyTransactEvent, IInv,
           CollectionsInv, PollerInv, OfferedIsStored
<1>6. QED
    BY <1>4, <1>5 DEF TaskStep

\* A client's proof, a forwarded one, an event, a blocked shield.
LEMMA RequestInv ==
    ASSUME IInv,
           \/ \E n \in Node : SubmitLegacyTransactProof(n) \/ SubmitSingleCommitmentProof(n)
           \/ \E i \in Item : ReceivePush(i) \/ AddEvent(i)
           \/ \E i \in Item, n \in Node : ScanTransaction(n, i)
           \/ \E b \in Blocked : AddBlockedShield(b)
    PROVE  IInv'
<1>1. ASSUME NEW t \in Task, NEW i \in Legacy, Goto(t, Entered(t[1], i, Idle))
      PROVE  TaskInv'
    <2>1. t[1] \in Node /\ i \in Item
        BY DEF Task
    <2>2. /\ Entered(t[1], i, Idle) \in Lefts \union Calls
          /\ Entered(t[1], i, Idle).pc # "list"
        BY <2>1, EnteredIsTask, IdleIsLeft
    <2>3. Entered(t[1], i, Idle).pc = "insert" => Entered(t[1], i, Idle).item = i
        BY DEF Entered, Call, Idle, Left
    <2>4. QED
        BY <1>1, <2>2, <2>3, GotoInv DEF IInv, IsForList
<1>2. UNCHANGED task => TaskInv'
    BY DEF IInv, TaskInv, IsForList
<1>3. UNCHANGED <<poller, bounds>> => PollerInv'
    BY DEF IInv, PollerInv
<1>4. ASSUME NEW n \in Node, SubmitLegacyTransactProof(n)
      PROVE  IInv'
    <2>1. <<n, "client">> \in Task
        BY DEF Task
    <2>2. TaskInv'
        BY <1>1, <1>4, <2>1 DEF SubmitLegacyTransactProof
    <2>3. PollerInv'
        BY <1>4, SubmitIsBounded DEF SubmitLegacyTransactProof, IInv, PollerInv
    <2>4. QED
        BY <1>4, <2>2, <2>3 DEF SubmitLegacyTransactProof, IInv, CollectionsInv, OfferedIsStored
<1>5. ASSUME NEW n \in Node, SubmitSingleCommitmentProof(n)
      PROVE  IInv'
    <2>1. PollerInv'
        BY <1>5, SubmitIsBounded DEF SubmitSingleCommitmentProof, IInv, PollerInv
    <2>2. QED
        BY <1>2, <1>5, <2>1 DEF SubmitSingleCommitmentProof, AddSingleCommitment,
           QueueUnsignedPOISingleCommitmentEvent, PushSingleCommitment, IInv, CollectionsInv,
           OfferedIsStored
<1>6. ASSUME NEW i \in Item, ReceivePush(i)
      PROVE  IInv'
    <2>1. <<Provider, "push">> \in Task
        BY DEF Task
    <2>2. TaskInv'
        BY <1>1, <1>2, <1>6, <2>1 DEF ReceivePush
    <2>3. PollerInv'
        BY <1>6, FaultIsBounded DEF ReceivePush, IInv, PollerInv
    <2>4. QED
        BY <1>6, <2>2, <2>3 DEF ReceivePush, AddSingleCommitment,
           QueueUnsignedPOISingleCommitmentEvent, IInv, CollectionsInv, OfferedIsStored
<1>7. ASSUME NEW i \in Item, AddEvent(i) \/ \E n \in Node : ScanTransaction(n, i)
      PROVE  IInv'
    BY <1>2, <1>3, <1>7 DEF AddEvent, ScanTransaction, IInv, CollectionsInv, PollerInv,
       OfferedIsStored
<1>8. ASSUME NEW b \in Blocked, AddBlockedShield(b)
      PROVE  IInv'
    <2>1. rows' = [rows EXCEPT ![Provider] = @ \union {b}] /\ UNCHANGED cache
        BY <1>8 DEF AddBlockedShield, InsertRow
    <2>2. /\ rows' \in [Node -> SUBSET Item]
          /\ \A n \in Node : rows[n] \subseteq rows'[n]
        BY <2>1 DEF IInv, CollectionsInv
    <2>3. QED
        BY <1>2, <1>3, <1>8, <2>1, <2>2 DEF AddBlockedShield, IInv, CollectionsInv, OfferedIsStored
<1>9. QED
    BY <1>4, <1>5, <1>6, <1>7, <1>8

LEMMA FailInv ==
    ASSUME IInv, NEW t \in Task, Fail(t)
    PROVE  IInv'
<1>1. task[t] \in Calls
    BY TaskIsCall DEF IInv, Fail
<1>2. task[t].item \in Item /\ task[t].then \in Lefts /\ t[1] \in Node
    BY <1>1 DEF Calls, Task
<1>3. TaskInv'
    BY <1>2, GotoInv DEF Fail, IInv, Lefts, IsForList
<1>4. PollerInv'
    BY FaultIsBounded DEF Fail, IInv, PollerInv
<1>5. /\ rows' \in [Node -> SUBSET Item] /\ cache' = cache
      /\ \A n \in Node : rows[n] \subseteq rows'[n]
    BY <1>2 DEF Fail, InsertRow, IInv, CollectionsInv
<1>6. QED
    BY <1>3, <1>4, <1>5 DEF Fail, IInv, CollectionsInv, OfferedIsStored

LEMMA RestartInv ==
    ASSUME IInv, NEW n \in Node, Restart(n)
    PROVE  IInv'
<1>1. task' = [t \in Task |-> IF t[1] = n THEN Idle ELSE task[t]]
    BY DEF Restart
<1>2. Idle.pc = "left"
    BY DEF Idle, Left
<1>3. TaskInv'
    BY <1>1, <1>2, IdleIsLeft DEF IInv, TaskInv, IsForList
<1>4. PollerInv'
    <2>1. faults' \in 0 .. MaxFaults /\ submits' = submits
        BY FaultIsBounded DEF Restart, IInv
    <2>2. turn' = [turn EXCEPT ![n] = 1] /\ syncCount' = [syncCount EXCEPT ![n] = 0]
        BY DEF Restart
    <2>3. 1 \in DOMAIN Peers[n]
        BY PeersAreNodes
    <2>4. SyncPeriod \in Nat \ {0}
        OBVIOUS
    <2>5. turn' \in [Node -> Nat] /\ \A m \in Node : turn'[m] \in DOMAIN Peers[m]
        BY <2>2, <2>3 DEF IInv, PollerInv
    <2>6. syncCount' \in [Node -> 0 .. SyncPeriod - 1]
        BY <2>2, <2>4 DEF IInv, PollerInv
    <2>7. QED
        BY <2>1, <2>5, <2>6 DEF IInv, PollerInv
<1>5. CollectionsInv' /\ OfferedIsStored'
    BY DEF Restart, RefilledCache, Requeued, IInv, CollectionsInv, OfferedIsStored
<1>6. QED
    BY <1>3, <1>4, <1>5 DEF IInv

-----------------------------------------------------------------------------
(* The theorems.                                                           *)

LEMMA InitInv == Init => IInv
<1> SUFFICES ASSUME Init
             PROVE  IInv
    OBVIOUS
<1>1. CollectionsInv /\ OfferedIsStored
    BY DEF Init, CollectionsInv, OfferedIsStored
<1>2. PollerInv
    <2>1. \A n \in Node : 1 \in DOMAIN Peers[n]
        BY PeersAreNodes
    <2>2. SyncPeriod \in Nat \ {0} /\ MaxSubmits \in Nat /\ MaxFaults \in Nat
        OBVIOUS
    <2>3. QED
        BY <2>1, <2>2 DEF Init, PollerInv
<1>3. TaskInv
    <2>1. Idle.pc = "left"
        BY DEF Idle, Left
    <2>2. QED
        BY <2>1, IdleIsLeft DEF Init, TaskInv, IsForList
<1>4. QED
    BY <1>1, <1>2, <1>3 DEF IInv

LEMMA NextInv == IInv /\ [Next]_vars => IInv'
<1>1. ASSUME IInv, UNCHANGED vars
      PROVE  IInv'
    BY <1>1 DEF IInv, CollectionsInv, PollerInv, TaskInv, IsForList, OfferedIsStored
<1>2. ASSUME IInv, Next
      PROVE  IInv'
    <2>1. \A n \in Node : <<n, "poll">> \in Task
        BY DEF Task
    <2>2. QED
        BY <1>2, <2>1, PollInv, TaskStepInv, RequestInv, FailInv, RestartInv DEF Next, RequestStep
<1>3. QED
    BY <1>1, <1>2

THEOREM CollectionsInvariance == Spec => []IInv
BY InitInv, NextInv, PTL DEF Spec

\* Collections, caches, the queue and what tasks carry hold what they should.
THEOREM CollectionsTypeOK == Spec => []TypeOK
<1>1. IInv => TypeOK
    <2>1. ASSUME IInv, NEW t \in Task
          PROVE  /\ "rest" \in DOMAIN task[t] => task[t].rest \subseteq Item
                 /\ "item" \in DOMAIN task[t] => task[t].item \in Item \ Single
        BY <2>1 DEF IInv, TaskInv, Lefts, Calls
    <2>2. QED
        BY <2>1 DEF IInv, CollectionsInv, PollerInv, TaskInv, TypeOK
<1>2. QED
    BY <1>1, CollectionsInvariance, PTL

\* What a node offers survives its restart.
THEOREM OfferedStaysStored == Spec => []OfferedIsStored
<1>1. IInv => OfferedIsStored
    BY DEF IInv
<1>2. QED
    BY <1>1, CollectionsInvariance, PTL
=============================================================================
