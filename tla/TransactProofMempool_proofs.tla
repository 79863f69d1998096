---------------------- MODULE TransactProofMempool_proofs ----------------------
(***************************************************************************)
(* Proofs about TransactProofMempool, for any nodes, proofs, tasks,        *)
(* failures and restarts.  A removal acts on events that it read some      *)
(* awaits ago, at its own node; the argument is that events are never      *)
(* taken back and that every copy of the list is a part of the provider's. *)
(***************************************************************************)
EXTENDS TransactProofMempool, TLAPS

-----------------------------------------------------------------------------
(* The inductive invariant.                                                *)

Calls ==
    [pc : {"exists", "insert", "skip", "validate", "push", "ok", "thrown", "delete", "remove",
           "stuck", "prune", "next", "inflate", "start"},
     at : Node, p : Proof, rest : SUBSET Proof, then : {"idle", "skip", "thrown", "start"},
     left : SUBSET Node, called : BOOLEAN]

\* The proof may be removed: its events exist or the provider has refused it.
Settled(p) == HasAllEvents(Provider, p) \/ p \in turnedAway

Removes(r) == r.pc \in {"delete", "remove"}

TaskInv ==
    /\ task \in [Task -> {Idle} \union Calls]
    /\ \A t \in Task : Removes(task[t]) => Settled(task[t].p)

EventsInv == \A n \in Node : events[n] \subseteq events[Provider]

ValidCommitment == UNION {Commitments[p] : p \in Valid}
QueueInv == queue \union events[Provider] \subseteq ValidCommitment

\* The inductive invariant: a removal that is under way is one of a proof that
\* may be removed, and what the provider queues comes from valid proofs.
IInv == TypeOK /\ TaskInv /\ EventsInv /\ QueueInv

USE ConstantsAssumption DEF ConstantsAssumption, mempool, memory, list, process,
    bounds, vars, Goto, GotoPc, At, Home

-----------------------------------------------------------------------------
(* The records of a task.                                                  *)

\* What is not idle is a call.
LEMMA TaskIsCall ==
    ASSUME TaskInv, NEW t \in Task, task[t].pc # "idle"
    PROVE  task[t] \in Calls
BY DEF TaskInv, Idle

LEMMA CallIsCall ==
    ASSUME NEW n \in Node, NEW p \in Proof, NEW rest \in SUBSET Proof,
           NEW pc \in {"exists", "stuck", "prune", "inflate"}
    PROVE  Call(pc, n, p, rest) \in Calls /\ ~Removes(Call(pc, n, p, rest))
BY DEF Call, Calls, Removes

LEMMA ReturnedIsCall ==
    ASSUME NEW t \in Task, NEW r \in Calls
    PROVE  /\ Returned(t, r) \in {Idle} \union Calls
           /\ ~Removes(Returned(t, r))
BY DEF Returned, Calls, Removes, Idle

LEMMA EnteredIsCall ==
    ASSUME NEW t \in Task, NEW r \in Calls
    PROVE  /\ Entered(t, r) \in {Idle} \union Calls
           /\ ~Removes(Entered(t, r))
BY ReturnedIsCall DEF Entered, Calls, Removes

LEMMA TryAddToListIsCall ==
    ASSUME NEW t \in Task, NEW r \in Calls
    PROVE  /\ TryAddToList(t, r) \in {Idle} \union Calls
           /\ ~Removes(TryAddToList(t, r))
BY ReturnedIsCall DEF TryAddToList, Calls, Removes

LEMMA AfterRemovalIsCall ==
    ASSUME NEW r \in Calls
    PROVE  /\ AfterRemoval(r) \in {Idle} \union Calls
           /\ ~Removes(AfterRemoval(r))
BY DEF AfterRemoval, Calls, Removes, Idle

\* A task may go on with any call; if it removes, then a proof that is settled.
LEMMA GotoInv ==
    ASSUME IInv, NEW t \in Task, NEW r \in {Idle} \union Calls, Goto(t, r),
           Removes(r) => Settled(r.p)',
           \A p \in Proof : Settled(p) => Settled(p)'
    PROVE  TaskInv'
<1>1. task' \in [Task -> {Idle} \union Calls]
    BY DEF IInv, TaskInv
<1>2. ASSUME NEW u \in Task, Removes(task[u])'
      PROVE  Settled(task[u].p)'
    <2>1. CASE u = t
        BY <1>2, <2>1 DEF IInv, TaskInv
    <2>2. CASE u # t
        <3>1. task'[u] = task[u] /\ task[u].pc # "idle"
            BY <1>2, <2>2 DEF IInv, TaskInv, Removes
        <3>2. task[u] \in Calls /\ Settled(task[u].p)
            BY <1>2, <3>1, TaskIsCall DEF IInv, TaskInv
        <3>3. QED
            BY <3>1, <3>2 DEF Calls
    <2>3. QED
        BY <2>1, <2>2
<1>3. QED
    BY <1>1, <1>2 DEF TaskInv, Removes

\* Nothing that settles a proof is taken back.
LEMMA SettledStays ==
    ASSUME UNCHANGED events \/ \A n \in Node : events[n] \subseteq events'[n],
           turnedAway \subseteq turnedAway'
    PROVE  \A p \in Proof : Settled(p) => Settled(p)'
BY DEF Settled, HasAllEvents

\* What a node has all events of, the provider has all events of.
LEMMA OrderedIsSettled ==
    ASSUME IInv, NEW n \in Node, NEW p \in Proof, HasAllOrderedEvents(n, p)
    PROVE  Settled(p)
BY DEF IInv, EventsInv, HasAllOrderedEvents, Settled, HasAllEvents

LEMMA RemoveProofInv ==
    ASSUME IInv, NEW t \in Task, task[t].pc # "idle", NEW then \in {"idle", "skip", "thrown"},
           RemoveProof(t, then), NEW p \in Proof, p = task[t].p, Settled(p)',
           \A q \in Proof : Settled(q) => Settled(q)'
    PROVE  TaskInv' /\ rows' = rows /\ cache' \in [Node -> SUBSET Proof]
<1>1. task[t] \in Calls
    BY TaskIsCall DEF IInv
<1>2. /\ [task[t] EXCEPT !.pc = "delete", !.then = then] \in Calls
      /\ [task[t] EXCEPT !.pc = "delete", !.then = then].p = task[t].p
    BY <1>1 DEF Calls
<1>3. TaskInv'
    BY <1>2, GotoInv DEF RemoveProof
<1>4. QED
    BY <1>1, <1>3 DEF RemoveProof, RemoveFromCache, IInv, TypeOK, Calls

\* A task goes on with a call that removes nothing, events and refusals stay.
LEMMA CallStep ==
    ASSUME IInv, NEW t \in Task, NEW r \in {Idle} \union Calls, ~Removes(r), Goto(t, r),
           UNCHANGED <<events, turnedAway>>
    PROVE  TaskInv' /\ EventsInv'
BY GotoInv, SettledStays DEF IInv, EventsInv

-----------------------------------------------------------------------------
(* Every action of a task keeps the invariant.                             *)

LEMMA SubmissionInv ==
    ASSUME IInv, NEW t \in Task,
           ShouldAdd(t) \/ DoNotAdd(t) \/ InsertTransactProof(t)
    PROVE  IInv'
<1>1. task[t].pc # "idle" /\ task[t] \in Calls
    BY TaskIsCall DEF IInv, ShouldAdd, DoNotAdd, InsertTransactProof
<1>2. CASE ShouldAdd(t)
    <2>1. CASE HasAllOrderedEvents(task[t].at, task[t].p) /\ RemoveProof(t, "skip")
        <3>1. task[t].at \in Node /\ task[t].p \in Proof
            BY <1>1 DEF Calls
        <3>2. Settled(task[t].p)
            BY <2>1, <3>1, OrderedIsSettled
        <3>3. \A p \in Proof : Settled(p) => Settled(p)'
            BY <1>2, SettledStays DEF ShouldAdd
        <3>4. \A p \in Proof : p = task[t].p => Settled(p)'
            BY <3>2, <3>3
        <3>5. TaskInv' /\ rows' = rows /\ cache' \in [Node -> SUBSET Proof]
            BY <1>1, <2>1, <3>1, <3>3, <3>4, RemoveProofInv
        <3>6. doNotAdd' \in [Node -> SUBSET Proof]
            BY <1>1, <1>2 DEF ShouldAdd, IInv, TypeOK, Calls
        <3>7. QED
            BY <1>2, <3>5, <3>6 DEF ShouldAdd, IInv, TypeOK, EventsInv, QueueInv
    <2>2. CASE ~(HasAllOrderedEvents(task[t].at, task[t].p) /\ RemoveProof(t, "skip"))
        <3>1. PICK r \in {Idle} \union Calls : ~Removes(r) /\ Goto(t, r)
            <4>1. [task[t] EXCEPT !.pc = "insert"] \in Calls
                BY <1>1 DEF Calls
            <4>2. GotoPc(t, "insert") => Goto(t, [task[t] EXCEPT !.pc = "insert"])
                OBVIOUS
            <4>3. ~Removes([task[t] EXCEPT !.pc = "insert"])
                BY <1>1 DEF Removes, Calls
            <4>4. CASE Goto(t, Returned(t, task[t]))
                BY <1>1, <4>4, ReturnedIsCall
            <4>5. CASE GotoPc(t, "insert")
                BY <4>1, <4>2, <4>3, <4>5
            <4>6. QED
                BY <1>2, <2>2, <4>4, <4>5 DEF ShouldAdd
        <3>2. TaskInv' /\ EventsInv'
            BY <1>2, <3>1, CallStep DEF ShouldAdd
        <3>3. QED
            BY <1>1, <1>2, <2>2, <3>2 DEF ShouldAdd, IInv, TypeOK, QueueInv, Calls
    <2>3. QED
        BY <2>1, <2>2
<1>3. CASE DoNotAdd(t)
    <2>1. TaskInv' /\ EventsInv'
        BY <1>1, <1>3, CallStep, ReturnedIsCall DEF DoNotAdd
    <2>2. QED
        BY <1>1, <1>3, <2>1 DEF DoNotAdd, IInv, TypeOK, QueueInv, Calls
<1>4. CASE InsertTransactProof(t)
    <2>1. TaskInv' /\ EventsInv'
        BY <1>1, <1>4, CallStep, TryAddToListIsCall DEF InsertTransactProof
    <2>2. QED
        BY <1>1, <1>4, <2>1 DEF InsertTransactProof, AddToCache, IInv, TypeOK, QueueInv, Calls
<1>5. QED
    BY <1>2, <1>3, <1>4

LEMMA ValidateInv ==
    ASSUME IInv, NEW t \in Task, Validate(t)
    PROVE  IInv'
<1>1. task[t].pc # "idle" /\ task[t] \in Calls
    BY TaskIsCall DEF IInv, Validate
<1>2. task[t].p \in Proof
    BY <1>1 DEF Calls
<1>3. CASE task[t].p \in Valid
    <2>1. Commitments[task[t].p] \subseteq ValidCommitment \intersect Commitment
        BY <1>2, <1>3 DEF ValidCommitment, Commitment
    <2>2. queue' = queue \union Commitments[task[t].p] /\ UNCHANGED <<mempool, turnedAway, events>>
        BY <1>3 DEF Validate, QueueUnsignedPOITransactEvents
    <2>3. TaskInv' /\ EventsInv'
        BY <1>1, <1>3, <2>2, CallStep, ReturnedIsCall DEF Validate
    <2>4. QED
        BY <2>1, <2>2, <2>3 DEF Validate, IInv, TypeOK, QueueInv
<1>4. CASE task[t].p \notin Valid
    <2>1. RemoveProof(t, "thrown") /\ turnedAway' = turnedAway \union {task[t].p}
        BY <1>4 DEF Validate
    <2>2. \A p \in Proof : Settled(p) => Settled(p)'
        BY <2>1, SettledStays DEF Validate
    <2>3. \A p \in Proof : p = task[t].p => Settled(p)'
        BY <2>1 DEF Settled
    <2>4. TaskInv' /\ rows' = rows /\ cache' \in [Node -> SUBSET Proof]
        BY <1>1, <1>2, <2>1, <2>2, <2>3, RemoveProofInv
    <2>5. QED
        BY <1>2, <1>4, <2>1, <2>4 DEF Validate, IInv, TypeOK, EventsInv, QueueInv
<1>5. QED
    BY <1>3, <1>4

LEMMA ForwardInv ==
    ASSUME IInv, NEW t \in Task,
           PushProofToDestinationNode(t) \/ PushAnswered(t) \/ Throw(t)
    PROVE  IInv'
<1>1. task[t].pc # "idle" /\ task[t] \in Calls
    BY TaskIsCall DEF IInv, PushProofToDestinationNode, PushAnswered, Throw
<1>2. /\ [task[t] EXCEPT !.at = Provider] \in Calls
      /\ [task[t] EXCEPT !.at = Home(t)] \in Calls
    BY <1>1 DEF Calls
<1>3. CASE PushProofToDestinationNode(t)
    <2>1. TaskInv' /\ EventsInv'
        BY <1>1, <1>2, <1>3, CallStep, EnteredIsCall, ReturnedIsCall DEF PushProofToDestinationNode
    <2>2. QED
        BY <1>3, <2>1 DEF PushProofToDestinationNode, Fault, IInv, TypeOK, QueueInv
<1>4. CASE PushAnswered(t)
    <2>1. ~Removes(Idle)
        BY DEF Removes, Idle
    <2>2. TaskInv' /\ EventsInv'
        BY <1>1, <1>2, <1>4, <2>1, CallStep, ReturnedIsCall DEF PushAnswered
    <2>3. QED
        BY <1>1, <1>4, <2>2 DEF PushAnswered, Fault, IInv, TypeOK, QueueInv, Calls
<1>5. CASE Throw(t)
    <2>1. ~Removes(Idle)
        BY DEF Removes, Idle
    <2>2. TaskInv' /\ EventsInv'
        BY <1>1, <1>5, <2>1, CallStep, ReturnedIsCall DEF Throw
    <2>3. QED
        BY <1>1, <1>5, <2>2 DEF Throw, IInv, TypeOK, QueueInv
<1>6. QED
    BY <1>3, <1>4, <1>5

\* A removal goes on with the next peer, or with what follows it.
LEMMA PruneInv ==
    ASSUME IInv, NEW t \in Task,
           DeleteProof(t) \/ \E m \in Node : RemoveProofSigned(t, m)
    PROVE  IInv'
<1>1. task[t].pc \in {"delete", "remove"} /\ task[t] \in Calls
    BY TaskIsCall DEF IInv, DeleteProof, RemoveProofSigned
<1>2. task[t].p \in Proof /\ Settled(task[t].p)
    BY <1>1 DEF IInv, TaskInv, Removes, Calls
<1>3. UNCHANGED <<events, turnedAway>> /\ \A p \in Proof : Settled(p) => Settled(p)'
    BY SettledStays DEF DeleteProof, RemoveProofSigned
<1>4. PICK r \in {Idle} \union Calls : Goto(t, r) /\ (Removes(r) => r.p = task[t].p)
    <2>1. CASE DeleteProof(t)
        <3>1. [task[t] EXCEPT !.pc = "remove", !.left = Node \ {Provider}] \in Calls
            BY <1>1 DEF Calls
        <3>2. [task[t] EXCEPT !.pc = "remove", !.left = Node \ {Provider}].p = task[t].p
            BY <1>1 DEF Calls
        <3>3. QED
            BY <1>1, <2>1, <3>1, <3>2, AfterRemovalIsCall DEF DeleteProof, AfterDelete
    <2>2. ASSUME NEW m \in Node, RemoveProofSigned(t, m)
          PROVE  \E r \in {Idle} \union Calls : Goto(t, r) /\ (Removes(r) => r.p = task[t].p)
        <3>1. /\ [task[t] EXCEPT !.left = {}] \in Calls
              /\ [task[t] EXCEPT !.left = @ \ {m}] \in Calls
              /\ [task[t] EXCEPT !.left = @ \ {m}].p = task[t].p
            BY <1>1 DEF Calls
        <3>2. QED
            BY <2>2, <3>1, AfterRemovalIsCall DEF RemoveProofSigned, AfterPeer
    <2>3. QED
        BY <2>1, <2>2
<1>5. TaskInv'
    BY <1>2, <1>3, <1>4, GotoInv
<1>6. rows' \in [Node -> SUBSET Proof] /\ cache' \in [Node -> SUBSET Proof]
    BY <1>1 DEF DeleteProof, RemoveProofSigned, RemoveFromCache, IInv, TypeOK, Calls
<1>7. QED
    BY <1>3, <1>5, <1>6 DEF DeleteProof, RemoveProofSigned, Fault, IInv, TypeOK, EventsInv, QueueInv

LEMMA StuckInv ==
    ASSUME IInv, NEW t \in Task, CheckStuck(t) \/ RemoveProofIfAllAdded(t)
    PROVE  IInv'
<1>1. task[t].pc # "idle" /\ task[t] \in Calls
    BY TaskIsCall DEF IInv, CheckStuck, RemoveProofIfAllAdded
<1>2. task[t].at \in Node /\ task[t].p \in Proof
    BY <1>1 DEF Calls
<1>3. CASE HasAllOrderedEvents(task[t].at, task[t].p) /\ RemoveProof(t, "idle")
    <2>1. \A p \in Proof : Settled(p) => Settled(p)'
        BY SettledStays DEF CheckStuck, RemoveProofIfAllAdded
    <2>2. \A p \in Proof : p = task[t].p => Settled(p)'
        BY <1>2, <1>3, <2>1, OrderedIsSettled
    <2>3. TaskInv' /\ rows' = rows /\ cache' \in [Node -> SUBSET Proof]
        BY <1>1, <1>2, <1>3, <2>1, <2>2, RemoveProofInv
    <2>4. QED
        BY <2>3 DEF CheckStuck, RemoveProofIfAllAdded, IInv, TypeOK, EventsInv, QueueInv
<1>4. CASE ~(HasAllOrderedEvents(task[t].at, task[t].p) /\ RemoveProof(t, "idle"))
    <2>1. ~Removes(Idle)
        BY DEF Removes, Idle
    <2>2. TaskInv' /\ EventsInv'
        BY <1>1, <1>4, <2>1, CallStep, TryAddToListIsCall DEF CheckStuck, RemoveProofIfAllAdded
    <2>3. QED
        BY <1>4, <2>2 DEF CheckStuck, RemoveProofIfAllAdded, IInv, TypeOK, QueueInv
<1>5. QED
    BY <1>3, <1>4

\* A client, a poll or a round of the push syncer takes up a proof.
LEMMA RoundInv ==
    ASSUME IInv,
           \/ \E t \in Task : NextProof(t)
           \/ \E n \in Node : \/ SubmitTransactProof(n)
                              \/ UpdateTransactProofMempool(n)
                              \/ AddPOIEventsForTransacts(n)
    PROVE  IInv'
<1>1. PICK t \in Task, r \in {Idle} \union Calls : ~Removes(r) /\ Goto(t, r)
    <2>1. ~Removes(Idle)
        BY DEF Removes, Idle
    <2>2. ASSUME NEW t \in Task, NextProof(t)
          PROVE  \E r \in {Idle} \union Calls : ~Removes(r) /\ Goto(t, r)
        <3>1. task[t] \in Calls /\ Home(t) \in Node
            BY <2>2, TaskIsCall DEF IInv, NextProof
        <3>2. \A p \in task[t].rest : p \in Proof /\ task[t].rest \ {p} \in SUBSET Proof
            BY <3>1 DEF Calls
        <3>3. \A p \in task[t].rest :
                  LET call == Call("stuck", Home(t), p, task[t].rest \ {p})
                  IN  call \in Calls /\ ~Removes(call)
            BY <3>1, <3>2, CallIsCall
        <3>4. QED
            BY <2>1, <2>2, <3>3, EnteredIsCall DEF NextProof
    <2>3. ASSUME NEW n \in Node, SubmitTransactProof(n)
          PROVE  \E t \in Task, r \in {Idle} \union Calls : ~Removes(r) /\ Goto(t, r)
        <3>1. \A p \in Proof : Call("exists", n, p, {}) \in Calls
            BY CallIsCall
        <3>2. QED
            BY <2>3, <3>1, EnteredIsCall DEF SubmitTransactProof
    <2>4. ASSUME NEW n \in Node, UpdateTransactProofMempool(n)
          PROVE  \E t \in Task, r \in {Idle} \union Calls : ~Removes(r) /\ Goto(t, r)
        <3>1. PICK m \in Node, found \in SUBSET cache[n], p \in Proof :
                  p \in GetFilteredProofs(m, found) /\ Goto(<<n, "poll">>,
                       Entered(<<n, "poll">>,
                               Call("exists", n, p, GetFilteredProofs(m, found) \ {p})))
            BY <2>4 DEF UpdateTransactProofMempool, GetFilteredProofs, IInv, TypeOK
        <3>2. GetFilteredProofs(m, found) \subseteq Proof
            BY DEF GetFilteredProofs, IInv, TypeOK
        <3>3. Call("exists", n, p, GetFilteredProofs(m, found) \ {p}) \in Calls
            BY <3>2, CallIsCall
        <3>4. QED
            BY <2>4, <3>1, <3>3, EnteredIsCall DEF UpdateTransactProofMempool
    <2>5. ASSUME NEW n \in Node, AddPOIEventsForTransacts(n)
          PROVE  \E t \in Task, r \in {Idle} \union Calls : ~Removes(r) /\ Goto(t, r)
        <3>1. \A p \in rows[n] : p \in Proof /\ rows[n] \ {p} \in SUBSET Proof
            BY DEF IInv, TypeOK
        <3>2. \A p \in rows[n] : LET call == Call("stuck", n, p, rows[n] \ {p})
                                 IN  call \in Calls /\ ~Removes(call)
            BY <3>1, CallIsCall
        <3>3. QED
            BY <2>5, <3>2 DEF AddPOIEventsForTransacts
    <2>6. QED
        BY <2>2, <2>3, <2>4, <2>5
<1>2. TaskInv' /\ EventsInv'
    BY <1>1, CallStep DEF NextProof, SubmitTransactProof, UpdateTransactProofMempool,
       AddPOIEventsForTransacts
<1>3. submits' \in 0..MaxSubmits
    <2>1. MaxSubmits \in Nat /\ submits \in 0..MaxSubmits
        BY DEF IInv, TypeOK
    <2>2. submits' = submits \/ (submits' = submits + 1 /\ submits < MaxSubmits)
        BY DEF NextProof, SubmitTransactProof, UpdateTransactProofMempool,
           AddPOIEventsForTransacts
    <2>3. QED
        BY <2>1, <2>2
<1>4. QED
    BY <1>2, <1>3 DEF NextProof, SubmitTransactProof, UpdateTransactProofMempool,
       AddPOIEventsForTransacts, IInv, TypeOK, QueueInv

\* An event: the provider's come from its queue, the others' from the provider.
LEMMA AddEventInv ==
    ASSUME IInv, NEW n \in Node, NEW c \in Commitment, AddEvent(n, c)
    PROVE  IInv'
<1>1. ProofContaining(c) \in Proof
    BY DEF ProofContaining, Commitment
<1>2. Call("prune", n, ProofContaining(c), {}) \in Calls /\ ~Removes(Call("prune", n, ProofContaining(c), {}))
    BY <1>1, CallIsCall
<1>3. events' = [events EXCEPT ![n] = @ \union {c}] /\ turnedAway' = turnedAway
    BY DEF AddEvent
<1>4. \A m \in Node : events[m] \subseteq events'[m]
    BY <1>3 DEF IInv, TypeOK
<1>5. \A p \in Proof : Settled(p) => Settled(p)'
    BY <1>3, <1>4, SettledStays
<1>6. TaskInv'
    <2>1. CASE UNCHANGED task
        <3>1. ASSUME NEW t \in Task, Removes(task[t])
              PROVE  Settled(task[t].p)'
            <4>1. task[t] \in Calls /\ Settled(task[t].p)
                BY <3>1, TaskIsCall DEF IInv, TaskInv, Removes
            <4>2. QED
                BY <1>5, <2>1, <4>1 DEF Calls
        <3>2. QED
            BY <2>1, <3>1 DEF IInv, TaskInv, Removes
    <2>2. CASE Goto(<<n, "event">>, Call("prune", n, ProofContaining(c), {}))
        BY <1>2, <1>5, <2>2, GotoInv DEF AddEvent
    <2>3. QED
        BY <2>1, <2>2 DEF AddEvent
<1>7. EventsInv' /\ QueueInv'
    BY <1>3 DEF AddEvent, IInv, TypeOK, EventsInv, QueueInv
<1>8. QED
    BY <1>3, <1>6, <1>7 DEF AddEvent, IInv, TypeOK

LEMMA FailInv ==
    ASSUME IInv, NEW t \in Task, Fail(t)
    PROVE  IInv'
<1>1. task[t].pc # "idle" /\ task[t] \in Calls
    BY TaskIsCall DEF IInv, Fail
<1>2. PICK r \in {Idle} \union Calls : ~Removes(r) /\ Goto(t, r)
    <2>1. ~Removes(Idle)
        BY DEF Removes, Idle
    <2>2. [task[t] EXCEPT !.pc = "thrown"] \in Calls /\ ~Removes([task[t] EXCEPT !.pc = "thrown"])
        BY <1>1 DEF Calls, Removes
    <2>3. GotoPc(t, "thrown") => Goto(t, [task[t] EXCEPT !.pc = "thrown"])
        OBVIOUS
    <2>4. QED
        BY <1>1, <2>1, <2>2, <2>3, AfterRemovalIsCall DEF Fail
<1>3. TaskInv' /\ EventsInv'
    BY <1>2, CallStep DEF Fail
<1>4. QED
    BY <1>3 DEF Fail, Fault, IInv, TypeOK, QueueInv

\* A restart: what is left of a task removes what it removed before.
LEMMA RestartInv ==
    ASSUME IInv, NEW n \in Node, Restart(n)
    PROVE  IInv'
<1>1. UNCHANGED <<rows, events, turnedAway>>
    BY DEF Restart
<1>2. ASSUME NEW t \in Task
      PROVE  /\ Restarted(n, t) \in {Idle} \union Calls
             /\ Removes(Restarted(n, t)) => Removes(task[t]) /\ Restarted(n, t).p = task[t].p
    <2>1. task[t] \in {Idle} \union Calls /\ rows[n] \in SUBSET Proof
        BY DEF IInv, TaskInv, TypeOK
    <2>2. ~Removes(Idle)
        BY DEF Removes, Idle
    <2>3. CASE t = <<n, "start">>
        <3>1. (CHOOSE p \in Proof : TRUE) \in Proof
            OBVIOUS
        <3>2. Restarted(n, t) = Call("inflate", n, CHOOSE p \in Proof : TRUE, rows[n])
            BY <2>3 DEF Restarted
        <3>3. Restarted(n, t) \in Calls /\ ~Removes(Restarted(n, t))
            BY <2>1, <3>1, <3>2, CallIsCall
        <3>4. QED
            BY <3>3
    <2>4. CASE t # <<n, "start">> /\ task[t].pc = "idle"
        <3>1. Restarted(n, t) = task[t]
            BY <2>4 DEF Restarted
        <3>2. QED
            BY <2>1, <3>1
    <2>5. CASE t # <<n, "start">> /\ task[t].pc # "idle"
        <3>1. task[t] \in Calls /\ Home(t) \in Node
            BY <2>5, TaskIsCall DEF IInv
        <3>2. /\ [task[t] EXCEPT !.called = FALSE] \in Calls
              /\ [task[t] EXCEPT !.called = FALSE].pc = task[t].pc
              /\ [task[t] EXCEPT !.called = FALSE].p = task[t].p
              /\ [task[t] EXCEPT !.at = Home(t)] \in Calls
            BY <3>1 DEF Calls
        <3>3. /\ Returned(t, [task[t] EXCEPT !.at = Home(t)]) \in {Idle} \union Calls
              /\ ~Removes(Returned(t, [task[t] EXCEPT !.at = Home(t)]))
            BY <3>2, ReturnedIsCall
        <3>4. Restarted(n, t) \in {Idle, Returned(t, [task[t] EXCEPT !.at = Home(t)]),
                                   [task[t] EXCEPT !.called = FALSE], task[t]}
            BY <2>5 DEF Restarted
        <3>5. QED
            BY <2>2, <3>1, <3>2, <3>3, <3>4 DEF Removes
    <2>6. QED
        BY <2>3, <2>4, <2>5
<1>3. task' = [t \in Task |-> Restarted(n, t)]
    BY DEF Restart
<1>4. TaskInv'
    <2>1. ASSUME NEW t \in Task, Removes(task[t])'
          PROVE  Settled(task[t].p)'
        BY <1>1, <1>2, <1>3, <2>1 DEF IInv, TaskInv, Removes, Settled, HasAllEvents
    <2>2. QED
        BY <1>2, <1>3, <2>1 DEF TaskInv, Removes
<1>5. QED
    BY <1>1, <1>4 DEF Restart, Fault, IInv, TypeOK, EventsInv, QueueInv

LEMMA InflateInv ==
    ASSUME IInv, NEW n \in Node, InflateCacheFromDatabase(n) \/ Start(n)
    PROVE  IInv'
<1> DEFINE t == <<n, "start">>
<1>1. t \in Task /\ task[t].pc # "idle"
    BY DEF InflateCacheFromDatabase, Start
<1>2. task[t] \in Calls
    BY <1>1, TaskIsCall DEF IInv
<1>3. CASE Start(n)
    <2>1. ~Removes(Idle)
        BY DEF Removes, Idle
    <2>2. TaskInv' /\ EventsInv'
        BY <1>1, <1>3, <2>1, CallStep DEF Start
    <2>3. QED
        BY <1>3, <2>2 DEF Start, IInv, TypeOK, QueueInv
<1>4. ASSUME NEW p \in task[t].rest, HasAllOrderedEvents(n, p),
             Goto(t, [task[t] EXCEPT !.pc = "delete", !.p = p, !.then = "start"]),
             UNCHANGED cache, InflateCacheFromDatabase(n)
      PROVE  IInv'
    <2>1. /\ p \in Proof
          /\ [task[t] EXCEPT !.pc = "delete", !.p = p, !.then = "start"] \in Calls
          /\ [task[t] EXCEPT !.pc = "delete", !.p = p, !.then = "start"].p = p
        BY <1>2 DEF Calls
    <2>2. Settled(p)
        BY <1>4, <2>1, OrderedIsSettled
    <2>3. \A q \in Proof : Settled(q) => Settled(q)'
        BY <1>4, SettledStays DEF InflateCacheFromDatabase
    <2>4. TaskInv'
        BY <1>1, <1>4, <2>1, <2>2, <2>3, GotoInv
    <2>5. QED
        BY <1>4, <2>4 DEF InflateCacheFromDatabase, IInv, TypeOK, EventsInv, QueueInv
<1>5. ASSUME NEW r \in {Idle} \union Calls, ~Removes(r), Goto(t, r), InflateCacheFromDatabase(n),
             cache' \in [Node -> SUBSET Proof]
      PROVE  IInv'
    <2>1. TaskInv' /\ EventsInv'
        BY <1>1, <1>5, CallStep DEF InflateCacheFromDatabase
    <2>2. QED
        BY <1>5, <2>1 DEF InflateCacheFromDatabase, IInv, TypeOK, QueueInv
<1>6. ASSUME InflateCacheFromDatabase(n), task[t].rest = {}, GotoPc(t, "start"), UNCHANGED cache
      PROVE  IInv'
    <2>1. [task[t] EXCEPT !.pc = "start"] \in Calls /\ ~Removes([task[t] EXCEPT !.pc = "start"])
        BY <1>2 DEF Calls, Removes
    <2>2. Goto(t, [task[t] EXCEPT !.pc = "start"])
        BY <1>6
    <2>3. QED
        BY <1>5, <1>6, <2>1, <2>2 DEF IInv, TypeOK
<1>7. ASSUME InflateCacheFromDatabase(n), NEW p \in task[t].rest, AddToCache(n, p),
             Goto(t, [task[t] EXCEPT !.rest = @ \ {p}])
      PROVE  IInv'
    <2>1. /\ p \in Proof
          /\ [task[t] EXCEPT !.rest = @ \ {p}] \in Calls
          /\ [task[t] EXCEPT !.rest = @ \ {p}].pc = "inflate"
        BY <1>2, <1>7 DEF Calls, InflateCacheFromDatabase
    <2>2. cache' \in [Node -> SUBSET Proof]
        BY <1>7, <2>1 DEF AddToCache, IInv, TypeOK
    <2>3. QED
        BY <1>5, <1>7, <2>1, <2>2 DEF Removes
<1>8. CASE InflateCacheFromDatabase(n)
    BY <1>4, <1>6, <1>7, <1>8 DEF InflateCacheFromDatabase
<1>9. QED
    BY <1>3, <1>8

-----------------------------------------------------------------------------
(* The theorems.                                                           *)

LEMMA InitInv == Init => IInv
<1>1. ASSUME Init
      PROVE  TypeOK /\ EventsInv /\ QueueInv
    BY <1>1 DEF Init, TypeOK, EventsInv, QueueInv
<1>2. ASSUME Init
      PROVE  TaskInv
    BY <1>2 DEF Init, TaskInv, Removes, Idle
<1>3. QED
    BY <1>1, <1>2 DEF IInv

LEMMA NextInv == IInv /\ [Next]_vars => IInv'
<1>1. ASSUME IInv, UNCHANGED vars
      PROVE  IInv'
    BY <1>1 DEF IInv, TypeOK, TaskInv, EventsInv, QueueInv, Removes, Settled, HasAllEvents
<1>2. ASSUME IInv, Next
      PROVE  IInv'
    BY <1>2, SubmissionInv, ValidateInv, ForwardInv, PruneInv, StuckInv, RoundInv, AddEventInv,
       FailInv, RestartInv, InflateInv DEF Next, TaskStep
<1>3. QED
    BY <1>1, <1>2

THEOREM MempoolInvariance == Spec => []IInv
BY InitInv, NextInv, PTL DEF Spec

\* Collections, caches and lists hold what they should.
THEOREM MempoolTypeOK == Spec => []TypeOK
<1>1. IInv => TypeOK
    BY DEF IInv
<1>2. QED
    BY <1>1, MempoolInvariance, PTL

\* A proof that the provider cannot validate gets no event, on no way to it.
THEOREM InvalidProofsGetNoEvents == Spec => []OnlyValidProofsGetEvents
<1>1. IInv => OnlyValidProofsGetEvents
    <2>1. ASSUME NEW p \in Proof \ Valid
          PROVE  Commitments[p] \intersect ValidCommitment = {}
        BY DEF ValidCommitment
    <2>2. QED
        BY <2>1 DEF IInv, QueueInv, OnlyValidProofsGetEvents
<1>2. QED
    BY <1>1, MempoolInvariance, PTL

\* Only what is settled leaves a collection.
Dropping ==
    \A n \in Node : \A p \in rows[n] \ rows'[n] : HasAllEvents(Provider, p) \/ p \in turnedAway

\* No removal takes a proof away that still waits for an event, whatever it had
\* read before.
THEOREM PendingProofsStay == Spec => NoPendingProofDropped
<1>1. ASSUME IInv, [Next]_vars
      PROVE  [Dropping]_vars
    <2>1. ASSUME \A n \in Node : rows[n] \subseteq rows'[n]
          PROVE  Dropping
        BY <2>1 DEF Dropping
    <2>2. ASSUME NEW t \in Task, DeleteProof(t) \/ \E m \in Node : RemoveProofSigned(t, m)
          PROVE  Dropping
        <3>1. Removes(task[t]) /\ task[t] \in Calls
            BY <1>1, <2>2, TaskIsCall DEF DeleteProof, RemoveProofSigned, Removes, IInv
        <3>2. Settled(task[t].p)
            BY <1>1, <3>1 DEF IInv, TaskInv
        <3>3. \A n \in Node : rows[n] \ rows'[n] \subseteq {task[t].p}
            BY <1>1, <2>2 DEF DeleteProof, RemoveProofSigned, IInv, TypeOK
        <3>4. QED
            BY <3>2, <3>3 DEF Dropping, Settled
    <2>3. ASSUME NEW t \in Task, TaskStep(t)
          PROVE  Dropping
        <3>1. CASE DeleteProof(t) \/ \E m \in Node : RemoveProofSigned(t, m)
            BY <2>2, <3>1
        <3>2. CASE InsertTransactProof(t)
            <4>1. \A n \in Node : rows[n] \subseteq rows'[n]
                BY <1>1, <3>2 DEF InsertTransactProof, IInv, TypeOK
            <4>2. QED
                BY <2>1, <4>1
        <3>3. CASE UNCHANGED rows
            BY <2>1, <3>3
        <3>4. QED
            BY <2>3, <3>1, <3>2, <3>3 DEF TaskStep, ShouldAdd, DoNotAdd, Validate, RemoveProof,
               PushProofToDestinationNode, PushAnswered, Throw, CheckStuck, NextProof,
               RemoveProofIfAllAdded
    <2>4. CASE Next
        BY <1>1, <2>1, <2>3, <2>4 DEF Next, Fail, SubmitTransactProof, UpdateTransactProofMempool,
           AddPOIEventsForTransacts, AddEvent, Restart, InflateCacheFromDatabase, Start
    <2>5. QED
        BY <1>1, <2>1, <2>4
<1>2. QED
    BY <1>1, MempoolInvariance, PTL DEF Spec, NoPendingProofDropped, Dropping
=============================================================================
