--------------------------- MODULE ShieldQueue_proofs ---------------------------
(*****************************************************************************)
(* Proofs about ShieldQueue, for any number of shields, failures and         *)
(* restarts.  The pollers write rows that they read some awaits ago.  The    *)
(* argument is that each status has one poller that moves a row on from it,  *)
(* so no other can have written the row meanwhile (IInv).                    *)
(*****************************************************************************)
EXTENDS ShieldQueue, FiniteSetTheorems, TLAPS

--------------------------------------------------------------------------------
(* The inductive invariant.                                                  *)

\* An event for s may be queued: it is there already, or the row asks for it.
MayQueueEvent(s) == s \in events \/ status[s] = "Allowed"

\* What the pollers still know of the rows they read: nobody else has written
\* a row in a way that makes the suspended write one of a wrong row.
StepsOf(p) ==
  CASE p = "queue"      -> {"idle", "insert", "saveStatus"}
    [] p = "categorize" -> {"idle", "classify", "pending", "allow", "exists", "added"}
    [] p = "validate"   -> {"idle", "validate", "block", "blockStatus", "allow",
                            "exists", "added"}
    [] p = "add"        -> {"idle", "exists", "added"}

TaskInv ==
  \A p \in Poller, s \in Shield :
    /\ pc[<<p, s>>] \in StepsOf(p)
    /\ p = "categorize" /\ pc[<<p, s>>] \in {"classify", "pending", "allow"}
         => status[s] = "Unknown"
    /\ p = "validate" /\ pc[<<p, s>>] \in {"validate", "block", "blockStatus", "allow"}
         => status[s] = "Pending"
    /\ p = "validate" /\ pc[<<p, s>>] = "allow" => s \notin Sanctioned
    /\ pc[<<p, s>>] = "block" => s \in Sanctioned
    /\ pc[<<p, s>>] = "blockStatus" => s \in blocklist
    /\ pc[<<p, s>>] = "exists" => MayQueueEvent(s)
    /\ pc[<<p, s>>] = "added" => s \in events

UnknownInv ==
  \A s \in unknown : status[s] = "Unknown" /\ pc[<<"categorize", s>>] = "idle"

BlocklistInv ==
  \A s \in blocklist : s \in Sanctioned /\ status[s] \in {"Pending", "Blocked"}

EventsInv ==
  /\ \A s \in events : status[s] \in {"Allowed", "AddedPOI"}
  /\ \A s \in queue : MayQueueEvent(s)

AddingInv ==
  /\ adding.step # "idle" => adding.shield \in Shield
  /\ adding.step = "event" => adding.shield \in queue
  /\ adding.step \in {"allowed", "added"} => adding.shield \in events

EnsureInv ==
  /\ ensure.step \in {"idle", "count"} => ensure.rest = {}
  /\ \A s \in ensure.rest : s \in events \/ status[s] = "AddedPOI"
  /\ ensure.step = "restore" =>
       /\ ensure.count \in Shield \ ensure.rest
       /\ ensure.count \notin events /\ status[ensure.count] = "AddedPOI"

\* The inductive invariant behind the safety properties: a row that a poller or
\* the event queue has read and is going to write still has a status from which
\* that write is a step forward.
IInv ==
  /\ TypeOK /\ TaskInv /\ UnknownInv /\ BlocklistInv /\ BlockedShieldsAreListed
  /\ EventsInv /\ AddingInv /\ EnsureInv

USE ConstantsAssumption DEF ConstantsAssumption, chain, rows, memory, eventQueue,
  bounds, vars, Goto, UpdateShieldStatus, WithStatus, NoEnsure, NotAdding

--------------------------------------------------------------------------------
\* A set of shields is finite and has at most MaxShield members.
LEMMA ShieldCount ==
  ASSUME NEW S, S \subseteq Shield
  PROVE  Cardinality(S) \in 0 .. MaxShield
<1>1. IsFiniteSet(Shield) /\ Cardinality(Shield) = MaxShield
  BY FS_Interval DEF Shield
<1>2. IsFiniteSet(S) /\ Cardinality(S) <= Cardinality(Shield)
  BY <1>1, FS_Subset
<1>3. QED
  BY <1>1, <1>2, FS_CardinalityType

(* One lemma per action: it keeps IInv.                                      *)

\* NewShield keeps IInv: the chain grows.
LEMMA NewShieldInv ==
  ASSUME IInv, NewShield
  PROVE  IInv'
<1> USE DEF IInv, NewShield
<1>1. TypeOK'
  BY DEF TypeOK
<1>2. TaskInv'
  BY DEF TaskInv, StepsOf, MayQueueEvent
<1>3. /\ UnknownInv' /\ BlocklistInv' /\ BlockedShieldsAreListed' /\ EventsInv'
      /\ AddingInv' /\ EnsureInv'
  BY DEF UnknownInv, BlocklistInv, BlockedShieldsAreListed, EventsInv,
    AddingInv, EnsureInv, MayQueueEvent
<1>4. QED
  BY <1>1, <1>2, <1>3

\* Age keeps IInv: time passes.
LEMMA AgeInv ==
  ASSUME IInv, NEW s \in Shield, Age(s)
  PROVE  IInv'
<1> USE DEF IInv, Age
<1>1. TypeOK'
  BY DEF TypeOK
<1>2. TaskInv'
  BY DEF TaskInv, StepsOf, MayQueueEvent
<1>3. /\ UnknownInv' /\ BlocklistInv' /\ BlockedShieldsAreListed' /\ EventsInv'
      /\ AddingInv' /\ EnsureInv'
  BY DEF UnknownInv, BlocklistInv, BlockedShieldsAreListed, EventsInv,
    AddingInv, EnsureInv, MayQueueEvent
<1>4. QED
  BY <1>1, <1>2, <1>3

\* QueueRound keeps IInv: a round of the queueing poller only starts tasks.
LEMMA QueueRoundInv ==
  ASSUME IInv, QueueRound
  PROVE  IInv'
<1> USE DEF IInv, QueueRound
<1>1. TypeOK'
  BY DEF TypeOK, Step, StartAll
<1>2. TaskInv'
  BY DEF TaskInv, StepsOf, MayQueueEvent, Task, Poller, StartAll
<1>3. UnknownInv'
  BY DEF TypeOK, UnknownInv, Task, Poller, StartAll
<1>4. /\ BlocklistInv' /\ BlockedShieldsAreListed' /\ EventsInv'
      /\ AddingInv' /\ EnsureInv'
  BY DEF BlocklistInv, BlockedShieldsAreListed, EventsInv, AddingInv, EnsureInv,
    MayQueueEvent
<1>5. QED
  BY <1>1, <1>2, <1>3, <1>4

\* InsertUnknownShield keeps IInv: only a shield without a row becomes unknown.
LEMMA InsertUnknownShieldInv ==
  ASSUME IInv, NEW s \in Shield, InsertUnknownShield(s)
  PROVE  IInv'
<1> USE DEF IInv, InsertUnknownShield
<1>1. TypeOK'
  BY DEF TypeOK, Step, Status
<1>2. TaskInv'
  BY DEF TaskInv, StepsOf, MayQueueEvent, Poller
<1>3. UnknownInv'
  BY DEF TypeOK, UnknownInv, Poller, Task
<1>4. BlocklistInv'
  BY DEF BlocklistInv
<1>5. BlockedShieldsAreListed'
  BY DEF BlockedShieldsAreListed
<1>6. EventsInv'
  BY DEF EventsInv, MayQueueEvent
<1>7. EnsureInv'
  BY DEF EnsureInv
<1>8. AddingInv'
  BY DEF AddingInv
<1>9. QED
  BY <1>1, <1>2, <1>3, <1>4, <1>5, <1>6, <1>7, <1>8

\* SaveStatus keeps IInv: the scan position moves to a block of the chain.
LEMMA SaveStatusInv ==
  ASSUME IInv, NEW s \in Shield, SaveStatus(s)
  PROVE  IInv'
<1> USE DEF IInv, SaveStatus
<1>1. TypeOK'
  BY DEF TypeOK, Step
<1>2. TaskInv'
  BY DEF TaskInv, StepsOf, MayQueueEvent, Poller
<1>3. UnknownInv'
  BY DEF TypeOK, UnknownInv, Task, Poller
<1>4. /\ BlocklistInv' /\ BlockedShieldsAreListed' /\ EventsInv'
      /\ AddingInv' /\ EnsureInv'
  BY DEF BlocklistInv, BlockedShieldsAreListed, EventsInv, AddingInv, EnsureInv,
    MayQueueEvent
<1>5. QED
  BY <1>1, <1>2, <1>3, <1>4

\* CategorizeRound keeps IInv: the batch holds unknown shields and no task is
\* running.
LEMMA CategorizeRoundInv ==
  ASSUME IInv, CategorizeRound
  PROVE  IInv'
<1> USE DEF IInv, CategorizeRound
<1>1. TypeOK'
  BY DEF TypeOK
<1>2. UnknownInv'
  BY DEF UnknownInv, Idle
<1>3. TaskInv'
  BY DEF TaskInv, StepsOf, MayQueueEvent
<1>4. /\ BlocklistInv' /\ BlockedShieldsAreListed' /\ EventsInv'
      /\ AddingInv' /\ EnsureInv'
  BY DEF BlocklistInv, BlockedShieldsAreListed, EventsInv, AddingInv, EnsureInv,
    MayQueueEvent
<1>5. QED
  BY <1>1, <1>2, <1>3, <1>4

\* NextUnknown keeps IInv: the next shield of the batch is still unknown.
LEMMA NextUnknownInv ==
  ASSUME IInv, NEW s \in Shield, NextUnknown(s)
  PROVE  IInv'
<1> USE DEF IInv, NextUnknown
<1>1. TypeOK'
  BY DEF TypeOK, Step
<1>2. TaskInv'
  BY DEF TaskInv, StepsOf, MayQueueEvent, Poller, UnknownInv
<1>3. UnknownInv'
  BY DEF TypeOK, UnknownInv, Task, Poller
<1>4. /\ BlocklistInv' /\ BlockedShieldsAreListed' /\ EventsInv'
      /\ AddingInv' /\ EnsureInv'
  BY DEF BlocklistInv, BlockedShieldsAreListed, EventsInv, AddingInv, EnsureInv,
    MayQueueEvent
<1>5. QED
  BY <1>1, <1>2, <1>3, <1>4

\* ReceiptWithoutTo keeps IInv: the round ends.
LEMMA ReceiptWithoutToInv ==
  ASSUME IInv, NEW s \in Shield, ReceiptWithoutTo(s)
  PROVE  IInv'
<1> USE DEF IInv, ReceiptWithoutTo
<1>1. TypeOK'
  BY DEF TypeOK, Step
<1>2. TaskInv'
  BY DEF TaskInv, StepsOf, MayQueueEvent, Poller
<1>3. UnknownInv'
  BY DEF UnknownInv
<1>4. /\ BlocklistInv' /\ BlockedShieldsAreListed' /\ EventsInv'
      /\ AddingInv' /\ EnsureInv'
  BY DEF BlocklistInv, BlockedShieldsAreListed, EventsInv, AddingInv, EnsureInv,
    MayQueueEvent
<1>5. QED
  BY <1>1, <1>2, <1>3, <1>4

\* Categorize keeps IInv: the shield is still unknown when its receipt is there.
LEMMA CategorizeInv ==
  ASSUME IInv, NEW s \in Shield, Categorize(s)
  PROVE  IInv'
<1> USE DEF IInv, Categorize
<1>1. TypeOK'
  BY DEF TypeOK, Step, Poller, Task
<1>2. TaskInv'
  BY DEF TaskInv, StepsOf, MayQueueEvent, Poller
<1>3. UnknownInv'
  BY DEF TypeOK, UnknownInv, Poller, Task
<1>4. /\ BlocklistInv' /\ BlockedShieldsAreListed' /\ EventsInv'
      /\ AddingInv' /\ EnsureInv'
  BY DEF BlocklistInv, BlockedShieldsAreListed, EventsInv, AddingInv, EnsureInv,
    MayQueueEvent
<1>5. QED
  BY <1>1, <1>2, <1>3, <1>4

\* MarkPending keeps IInv: an unknown shield becomes pending, and is in no
\* other batch.
LEMMA MarkPendingInv ==
  ASSUME IInv, NEW s \in Shield, MarkPending(s)
  PROVE  IInv'
<1> USE DEF IInv, MarkPending
<1>1. TypeOK'
  BY DEF TypeOK, Step, Status
<1>2. TaskInv'
  BY DEF TypeOK, TaskInv, StepsOf, MayQueueEvent, Task, Poller
<1>3. UnknownInv'
  BY DEF TypeOK, UnknownInv, Task, Poller
<1>4. BlocklistInv'
  BY DEF BlocklistInv
<1>5. BlockedShieldsAreListed'
  BY DEF BlockedShieldsAreListed
<1>6. EventsInv'
  BY DEF EventsInv, MayQueueEvent, TaskInv, Poller
<1>7. EnsureInv'
  BY DEF EnsureInv, TaskInv, Poller
<1>8. AddingInv'
  BY DEF AddingInv
<1>9. QED
  BY <1>1, <1>2, <1>3, <1>4, <1>5, <1>6, <1>7, <1>8

\* ValidateRound keeps IInv: the batch holds pending shields.
LEMMA ValidateRoundInv ==
  ASSUME IInv, ValidateRound
  PROVE  IInv'
<1> USE DEF IInv, ValidateRound
<1>1. TypeOK'
  BY DEF TypeOK, Step, StartAll
<1>2. TaskInv'
  BY DEF TaskInv, StepsOf, MayQueueEvent, Task, Poller, StartAll
<1>3. UnknownInv'
  BY DEF TypeOK, UnknownInv, Task, Poller, StartAll
<1>4. /\ BlocklistInv' /\ BlockedShieldsAreListed' /\ EventsInv'
      /\ AddingInv' /\ EnsureInv'
  BY DEF BlocklistInv, BlockedShieldsAreListed, EventsInv, AddingInv, EnsureInv,
    MayQueueEvent
<1>5. QED
  BY <1>1, <1>2, <1>3, <1>4

\* ValidateShield keeps IInv: the verdict on a shield is always the same.
LEMMA ValidateShieldInv ==
  ASSUME IInv, NEW s \in Shield, ValidateShield(s)
  PROVE  IInv'
<1> USE DEF IInv, ValidateShield
<1>1. TypeOK'
  BY DEF TypeOK, Step
<1>2. TaskInv'
  BY DEF TaskInv, StepsOf, MayQueueEvent, Poller
<1>3. UnknownInv'
  BY DEF TypeOK, UnknownInv, Task, Poller
<1>4. /\ BlocklistInv' /\ BlockedShieldsAreListed' /\ EventsInv'
      /\ AddingInv' /\ EnsureInv'
  BY DEF BlocklistInv, BlockedShieldsAreListed, EventsInv, AddingInv, EnsureInv,
    MayQueueEvent
<1>5. QED
  BY <1>1, <1>2, <1>3, <1>4

\* AddBlockedShield keeps IInv: a sanctioned pending shield is blocked.
LEMMA AddBlockedShieldInv ==
  ASSUME IInv, NEW s \in Shield, AddBlockedShield(s)
  PROVE  IInv'
<1> USE DEF IInv, AddBlockedShield
<1>1. TypeOK'
  BY DEF TypeOK, Step
<1>2. TaskInv'
  BY DEF TaskInv, StepsOf, MayQueueEvent, Poller
<1>3. UnknownInv'
  BY DEF TypeOK, UnknownInv, Task, Poller
<1>4. BlocklistInv'
  BY DEF BlocklistInv, TaskInv, Poller
<1>5. BlockedShieldsAreListed'
  BY DEF BlockedShieldsAreListed
<1>6. EventsInv' /\ AddingInv' /\ EnsureInv'
  BY DEF EventsInv, AddingInv, EnsureInv, MayQueueEvent
<1>7. QED
  BY <1>1, <1>2, <1>3, <1>4, <1>5, <1>6

\* MarkBlocked keeps IInv: the shield is pending and in the blocklist.
LEMMA MarkBlockedInv ==
  ASSUME IInv, NEW s \in Shield, MarkBlocked(s)
  PROVE  IInv'
<1> USE DEF IInv, MarkBlocked
<1>1. TypeOK'
  BY DEF TypeOK, Step, Status
<1>2. TaskInv'
  BY DEF TypeOK, TaskInv, StepsOf, MayQueueEvent, Task, Poller
<1>3. UnknownInv'
  BY DEF TypeOK, UnknownInv, TaskInv, Task, Poller
<1>4. BlocklistInv'
  BY DEF BlocklistInv
<1>5. BlockedShieldsAreListed'
  BY DEF BlockedShieldsAreListed, TaskInv, Poller
<1>6. EventsInv'
  BY DEF EventsInv, MayQueueEvent, TaskInv, Poller
<1>7. EnsureInv'
  BY DEF EnsureInv, TaskInv, Poller
<1>8. AddingInv'
  BY DEF AddingInv
<1>9. QED
  BY <1>1, <1>2, <1>3, <1>4, <1>5, <1>6, <1>7, <1>8

\* MarkAllowed keeps IInv: an unknown or pending shield that is not in the
\* blocklist is allowed.
LEMMA MarkAllowedInv ==
  ASSUME IInv, NEW p \in Poller, NEW s \in Shield, MarkAllowed(<<p, s>>)
  PROVE  IInv'
<1> USE DEF IInv, MarkAllowed
<1>1. TypeOK'
  BY DEF TypeOK, Step, Status
<1>2. TaskInv'
  BY DEF TypeOK, TaskInv, StepsOf, MayQueueEvent, Task, Poller
<1>3. UnknownInv'
  BY DEF TypeOK, UnknownInv, TaskInv, StepsOf, Task, Poller
<1>4. BlocklistInv'
  BY DEF BlocklistInv, TaskInv, StepsOf, Poller
<1>5. BlockedShieldsAreListed'
  BY DEF BlockedShieldsAreListed
<1>6. EventsInv'
  BY DEF EventsInv, MayQueueEvent
<1>7. EnsureInv'
  BY DEF EnsureInv, TaskInv, StepsOf, Poller
<1>8. AddingInv'
  BY DEF AddingInv
<1>9. QED
  BY <1>1, <1>2, <1>3, <1>4, <1>5, <1>6, <1>7, <1>8

\* AddRound keeps IInv: the batch holds allowed shields.
LEMMA AddRoundInv ==
  ASSUME IInv, AddRound
  PROVE  IInv'
<1> USE DEF IInv, AddRound
<1>1. TypeOK'
  BY DEF TypeOK, Step, StartAll
<1>2. TaskInv'
  BY DEF TaskInv, StepsOf, MayQueueEvent, Task, Poller, StartAll
<1>3. UnknownInv'
  BY DEF TypeOK, UnknownInv, Task, Poller, StartAll
<1>4. /\ BlocklistInv' /\ BlockedShieldsAreListed' /\ EventsInv'
      /\ AddingInv' /\ EnsureInv'
  BY DEF BlocklistInv, BlockedShieldsAreListed, EventsInv, AddingInv, EnsureInv,
    MayQueueEvent
<1>5. QED
  BY <1>1, <1>2, <1>3, <1>4

\* AddAllowedShield keeps IInv: the shield has an event or is still allowed.
LEMMA AddAllowedShieldInv ==
  ASSUME IInv, NEW p \in Poller, NEW s \in Shield, AddAllowedShield(<<p, s>>)
  PROVE  IInv'
<1> USE DEF IInv, AddAllowedShield
<1>1. TypeOK'
  <2>1. pc' \in [Task -> Step]
    BY DEF TypeOK, Step, Task
  <2>2. QED
    BY <2>1 DEF TypeOK, Status
<1>2. TaskInv'
  BY DEF TypeOK, TaskInv, StepsOf, MayQueueEvent, Task, Poller
<1>3. UnknownInv'
  BY DEF TypeOK, UnknownInv, Poller, Task
<1>4. EventsInv'
  BY DEF EventsInv, MayQueueEvent, TaskInv
<1>5. AddingInv'
  BY DEF AddingInv
<1>6. BlocklistInv' /\ BlockedShieldsAreListed' /\ EnsureInv'
  BY DEF BlocklistInv, BlockedShieldsAreListed, EnsureInv
<1>7. QED
  BY <1>1, <1>2, <1>3, <1>4, <1>5, <1>6

\* MarkAdded keeps IInv: the shield has an event.
LEMMA MarkAddedInv ==
  ASSUME IInv, NEW p \in Poller, NEW s \in Shield, MarkAdded(<<p, s>>)
  PROVE  IInv'
<1> USE DEF IInv, MarkAdded
<1>1. TypeOK'
  BY DEF TypeOK, Step, Status
<1>2. TaskInv'
  BY DEF TaskInv, StepsOf, MayQueueEvent, Poller, EventsInv
<1>3. UnknownInv'
  BY DEF TypeOK, UnknownInv, TaskInv, Task, Poller, EventsInv
<1>4. BlocklistInv'
  BY DEF BlocklistInv, TaskInv, EventsInv
<1>5. BlockedShieldsAreListed'
  BY DEF BlockedShieldsAreListed
<1>6. EventsInv'
  BY DEF EventsInv, MayQueueEvent, TaskInv
<1>7. EnsureInv'
  BY DEF EnsureInv
<1>8. AddingInv'
  BY DEF AddingInv
<1>9. QED
  BY <1>1, <1>2, <1>3, <1>4, <1>5, <1>6, <1>7, <1>8

\* CountEvents keeps IInv: counting changes no row.
LEMMA CountEventsInv ==
  ASSUME IInv, CountEvents
  PROVE  IInv'
<1> USE DEF IInv, CountEvents
<1>1. TypeOK'
  <2>1. Cardinality(events) \in 0 .. MaxShield
    BY ShieldCount DEF TypeOK
  <2>2. ensure' \in EnsureState
    BY <2>1 DEF EnsureState
  <2>3. QED
    BY <2>1, <2>2 DEF TypeOK, Status
<1>2. EnsureInv'
  BY DEF EnsureInv
<1>3. TaskInv'
  BY DEF TaskInv, StepsOf, MayQueueEvent
<1>4. /\ UnknownInv' /\ BlocklistInv' /\ BlockedShieldsAreListed'
      /\ EventsInv' /\ AddingInv'
  BY DEF UnknownInv, BlocklistInv, BlockedShieldsAreListed, EventsInv,
    AddingInv, MayQueueEvent
<1>5. QED
  BY <1>1, <1>2, <1>3, <1>4

\* CountAddedShields keeps IInv: the streamed shields are added ones.
LEMMA CountAddedShieldsInv ==
  ASSUME IInv, CountAddedShields
  PROVE  IInv'
<1> USE DEF IInv, CountAddedShields
<1>1. TypeOK'
  <2>1. NoEnsure \in EnsureState
    BY DEF EnsureState
  <2>2. [ensure EXCEPT !.step = "exists", !.rest = WithStatus("AddedPOI")]
          \in EnsureState
    BY DEF TypeOK, EnsureState
  <2>3. QED
    BY <2>1, <2>2 DEF TypeOK
<1>2. EnsureInv'
  BY DEF TypeOK, EnsureInv, StepsOf, Poller, AddingInv
<1>3. TaskInv'
  BY DEF TaskInv, StepsOf, MayQueueEvent
<1>4. /\ UnknownInv' /\ BlocklistInv' /\ BlockedShieldsAreListed'
      /\ EventsInv' /\ AddingInv'
  BY DEF UnknownInv, BlocklistInv, BlockedShieldsAreListed, EventsInv,
    AddingInv, MayQueueEvent
<1>5. QED
  BY <1>1, <1>2, <1>3, <1>4

\* EnsureEvent keeps IInv: a streamed shield without an event is still marked
\* as added.
LEMMA EnsureEventInv ==
  ASSUME IInv, NEW s \in Shield, EnsureEvent(s)
  PROVE  IInv'
<1> USE DEF IInv, EnsureEvent
<1>1. TypeOK'
  <2>1. ensure' \in EnsureState
    BY DEF TypeOK, EnsureState, Shield
  <2>2. QED
    BY <2>1 DEF TypeOK, Status
<1>2. EnsureInv'
  BY DEF EnsureInv
<1>3. TaskInv'
  BY DEF TaskInv, StepsOf, MayQueueEvent
<1>4. /\ UnknownInv' /\ BlocklistInv' /\ BlockedShieldsAreListed'
      /\ EventsInv' /\ AddingInv'
  BY DEF UnknownInv, BlocklistInv, BlockedShieldsAreListed, EventsInv,
    AddingInv, MayQueueEvent
<1>5. QED
  BY <1>1, <1>2, <1>3, <1>4

\* RestoreAllowed keeps IInv: a shield marked as added that has no event is
\* allowed again.
LEMMA RestoreAllowedInv ==
  ASSUME IInv, RestoreAllowed
  PROVE  IInv'
<1> USE DEF IInv, RestoreAllowed
<1>1. TypeOK'
  <2>1. ensure' \in EnsureState
    BY DEF TypeOK, EnsureState, Shield
  <2>2. status' \in [Shield -> Status]
    BY DEF TypeOK, Status
  <2>3. QED
    BY <2>1, <2>2 DEF TypeOK
<1>2. TaskInv'
  BY DEF TaskInv, MayQueueEvent, Poller, EnsureInv
<1>3. UnknownInv'
  BY DEF TypeOK, UnknownInv, EnsureInv
<1>4. BlocklistInv'
  BY DEF BlocklistInv, EnsureInv
<1>5. BlockedShieldsAreListed'
  BY DEF BlockedShieldsAreListed
<1>6. EventsInv'
  BY DEF EventsInv, MayQueueEvent
<1>7. EnsureInv'
  BY DEF EnsureInv
<1>8. AddingInv'
  BY DEF AddingInv
<1>9. QED
  BY <1>1, <1>2, <1>3, <1>4, <1>5, <1>6, <1>7, <1>8

\* StartAdding keeps IInv: the event queue takes one of its shields.
LEMMA StartAddingInv ==
  ASSUME IInv, NEW s \in Shield, StartAdding(s)
  PROVE  IInv'
<1> USE DEF IInv, StartAdding
<1>1. TypeOK'
  <2>1. adding' \in AddingState
    BY DEF TypeOK, AddingState, Shield
  <2>2. QED
    BY <2>1 DEF TypeOK, Status
<1>2. EventsInv'
  BY DEF EventsInv, MayQueueEvent
<1>3. AddingInv'
  BY DEF AddingInv
<1>4. TaskInv'
  BY DEF TaskInv, StepsOf, MayQueueEvent
<1>5. UnknownInv' /\ BlocklistInv' /\ BlockedShieldsAreListed' /\ EnsureInv'
  BY DEF UnknownInv, BlocklistInv, BlockedShieldsAreListed, EnsureInv
<1>6. QED
  BY <1>1, <1>2, <1>3, <1>4, <1>5

\* AddEvent keeps IInv: a queued shield gets its event.
LEMMA AddEventInv ==
  ASSUME IInv, AddEvent
  PROVE  IInv'
<1> USE DEF IInv, AddEvent
<1>1. TypeOK'
  <2>1. adding' \in AddingState
    BY DEF TypeOK, AddingState, Shield
  <2>2. QED
    BY <2>1 DEF TypeOK, AddingInv
<1>2. TaskInv'
  BY DEF TaskInv, MayQueueEvent
<1>3. EventsInv'
  BY DEF EventsInv, MayQueueEvent, AddingInv
<1>4. AddingInv'
  BY DEF AddingInv
<1>5. EnsureInv'
  BY DEF EnsureInv, EventsInv, AddingInv, MayQueueEvent
<1>6. UnknownInv' /\ BlocklistInv' /\ BlockedShieldsAreListed'
  BY DEF UnknownInv, BlocklistInv, BlockedShieldsAreListed
<1>7. QED
  BY <1>1, <1>2, <1>3, <1>4, <1>5, <1>6

\* FindAllowed keeps IInv: the row is read.
LEMMA FindAllowedInv ==
  ASSUME IInv, FindAllowed
  PROVE  IInv'
<1> USE DEF IInv, FindAllowed
<1>1. TypeOK'
  BY DEF TypeOK, AddingState
<1>2. AddingInv'
  BY DEF AddingInv
<1>3. TaskInv'
  BY DEF TaskInv, StepsOf, MayQueueEvent
<1>4. /\ UnknownInv' /\ BlocklistInv' /\ BlockedShieldsAreListed'
      /\ EventsInv' /\ EnsureInv'
  BY DEF UnknownInv, BlocklistInv, BlockedShieldsAreListed, EventsInv,
    EnsureInv, MayQueueEvent
<1>5. QED
  BY <1>1, <1>2, <1>3, <1>4

\* MarkAddedByQueue keeps IInv: the shield has an event.
LEMMA MarkAddedByQueueInv ==
  ASSUME IInv, MarkAddedByQueue
  PROVE  IInv'
<1> USE DEF IInv, MarkAddedByQueue
<1>1. TypeOK'
  <2>1. adding' \in AddingState
    BY DEF TypeOK, AddingState, Shield
  <2>2. status' \in [Shield -> Status]
    BY DEF TypeOK, Status
  <2>3. QED
    BY <2>1, <2>2 DEF TypeOK
<1>2. TaskInv'
  BY DEF TaskInv, MayQueueEvent, Poller, EventsInv, AddingInv
<1>3. UnknownInv'
  BY DEF TypeOK, UnknownInv, AddingInv, EventsInv
<1>4. BlocklistInv'
  BY DEF BlocklistInv, EventsInv, AddingInv
<1>5. BlockedShieldsAreListed'
  BY DEF BlockedShieldsAreListed
<1>6. EventsInv'
  BY DEF EventsInv, MayQueueEvent, AddingInv
<1>7. AddingInv'
  BY DEF AddingInv
<1>8. EnsureInv'
  BY DEF EnsureInv
<1>9. QED
  BY <1>1, <1>2, <1>3, <1>4, <1>5, <1>6, <1>7, <1>8

\* FailTask keeps IInv: a task ends early.
LEMMA FailTaskInv ==
  ASSUME IInv, NEW p \in Poller, NEW s \in Shield, FailTask(<<p, s>>)
  PROVE  IInv'
<1> USE DEF IInv, FailTask
<1>1. TypeOK'
  <2>1. pc' \in [Task -> Step]
    BY DEF TypeOK, Step
  <2>2. QED
    BY <2>1 DEF TypeOK, Status
<1>2. TaskInv'
  BY DEF TaskInv, StepsOf, MayQueueEvent, Poller
<1>3. UnknownInv'
  BY DEF TypeOK, UnknownInv, Task, Poller
<1>4. /\ BlocklistInv' /\ BlockedShieldsAreListed' /\ EventsInv'
      /\ AddingInv' /\ EnsureInv'
  BY DEF BlocklistInv, BlockedShieldsAreListed, EventsInv, AddingInv, EnsureInv,
    MayQueueEvent
<1>5. QED
  BY <1>1, <1>2, <1>3, <1>4

\* FailRound keeps IInv: a poller ends.
LEMMA FailRoundInv ==
  ASSUME IInv, NEW p \in Poller \cup {"ensure"}, FailRound(p)
  PROVE  IInv'
<1> USE DEF IInv, FailRound
<1>1. TypeOK'
  BY DEF TypeOK, EnsureState
<1>2. EnsureInv'
  BY DEF EnsureInv
<1>3. TaskInv'
  BY DEF TaskInv, StepsOf, MayQueueEvent
<1>4. /\ UnknownInv' /\ BlocklistInv' /\ BlockedShieldsAreListed'
      /\ EventsInv' /\ AddingInv'
  BY DEF UnknownInv, BlocklistInv, BlockedShieldsAreListed, EventsInv,
    AddingInv, MayQueueEvent
<1>5. QED
  BY <1>1, <1>2, <1>3, <1>4

\* FailAdding keeps IInv: the event stays queued.
LEMMA FailAddingInv ==
  ASSUME IInv, FailAdding
  PROVE  IInv'
<1> USE DEF IInv, FailAdding
<1>1. TypeOK'
  BY DEF TypeOK, AddingState
<1>2. AddingInv'
  BY DEF AddingInv
<1>3. TaskInv'
  BY DEF TaskInv, StepsOf, MayQueueEvent
<1>4. /\ UnknownInv' /\ BlocklistInv' /\ BlockedShieldsAreListed'
      /\ EventsInv' /\ EnsureInv'
  BY DEF UnknownInv, BlocklistInv, BlockedShieldsAreListed, EventsInv,
    EnsureInv, MayQueueEvent
<1>5. QED
  BY <1>1, <1>2, <1>3, <1>4

\* Crash keeps IInv: the memory is empty after a restart, which ends all tasks.
LEMMA CrashInv ==
  ASSUME IInv, Crash
  PROVE  IInv'
<1> USE DEF IInv, Crash
<1>1. TypeOK'
  <2>1. pc' \in [Task -> Step]
    BY DEF TypeOK, Step
  <2>2. ensure' \in EnsureState /\ adding' \in AddingState
    BY DEF EnsureState, AddingState
  <2>3. QED
    BY <2>1, <2>2 DEF TypeOK, Status
<1>2. TaskInv'
  BY DEF TaskInv, StepsOf, Task, Poller
<1>3. UnknownInv'
  BY DEF UnknownInv
<1>4. EventsInv'
  BY DEF EventsInv
<1>5. AddingInv'
  BY DEF AddingInv
<1>6. EnsureInv'
  BY DEF EnsureInv
<1>7. BlocklistInv' /\ BlockedShieldsAreListed'
  BY DEF BlocklistInv, BlockedShieldsAreListed
<1>8. QED
  BY <1>1, <1>2, <1>3, <1>4, <1>5, <1>6, <1>7
\* In the beginning there are no shields and no tasks.
LEMMA InitInv == Init => IInv
<1> SUFFICES ASSUME Init PROVE IInv
  OBVIOUS
<1> USE DEF Init
<1>1. TypeOK
  BY DEF TypeOK, Status, Step, EnsureState, AddingState
<1>2. TaskInv
  BY DEF TaskInv, Task, Poller, StepsOf
<1>3. UnknownInv /\ BlocklistInv /\ BlockedShieldsAreListed
  BY DEF UnknownInv, BlocklistInv, BlockedShieldsAreListed
<1>4. EventsInv /\ AddingInv /\ EnsureInv
  BY DEF EventsInv, AddingInv, EnsureInv
<1>5. QED
  BY <1>1, <1>2, <1>3, <1>4 DEF IInv

\* A stuttering step keeps IInv.
LEMMA StutterInv ==
  ASSUME IInv, UNCHANGED vars
  PROVE  IInv'
<1>1. TypeOK' /\ TaskInv'
  BY DEF IInv, TypeOK, TaskInv, MayQueueEvent
<1>2. UnknownInv' /\ BlocklistInv' /\ BlockedShieldsAreListed'
  BY DEF IInv, UnknownInv, BlocklistInv, BlockedShieldsAreListed
<1>3. EventsInv' /\ AddingInv' /\ EnsureInv'
  BY DEF IInv, EventsInv, MayQueueEvent, AddingInv, EnsureInv
<1>4. QED
  BY <1>1, <1>2, <1>3 DEF IInv

\* The steps by which three pollers allow and add a shield keep IInv.
LEMMA AllowStepInv ==
  ASSUME IInv, NEW p \in Poller, NEW s \in Shield, AllowStep(<<p, s>>)
  PROVE  IInv'
BY MarkAllowedInv, AddAllowedShieldInv, MarkAddedInv DEF AllowStep

\* Every step keeps IInv.
LEMMA NextInv == IInv /\ [Next]_vars => IInv'
<1> SUFFICES ASSUME IInv, [Next]_vars PROVE IInv'
  OBVIOUS
<1>1. CASE NewShield \/ \E s \in Shield : Age(s)
  BY <1>1, NewShieldInv, AgeInv
<1>2. CASE QueueStep
  BY <1>2, QueueRoundInv, InsertUnknownShieldInv, SaveStatusInv DEF QueueStep
<1>3. CASE CategorizeStep
  BY <1>3, CategorizeRoundInv, NextUnknownInv, ReceiptWithoutToInv, CategorizeInv,
     MarkPendingInv, AllowStepInv DEF CategorizeStep, Poller
<1>4. CASE ValidateStep
  BY <1>4, ValidateRoundInv, ValidateShieldInv, AddBlockedShieldInv, MarkBlockedInv,
     AllowStepInv DEF ValidateStep, Poller
<1>5. CASE AddStep
  BY <1>5, AddRoundInv, AllowStepInv DEF AddStep, Poller
<1>6. CASE EnsureStep
  BY <1>6, CountEventsInv, CountAddedShieldsInv, RestoreAllowedInv, EnsureEventInv
     DEF EnsureStep
<1>7. CASE EventQueueStep
  BY <1>7, StartAddingInv, AddEventInv, FindAllowedInv, MarkAddedByQueueInv
     DEF EventQueueStep
<1>8. CASE \E t \in Task : FailTask(t)
  BY <1>8, FailTaskInv DEF Task
<1>9. CASE \E p \in {"queue", "add", "ensure"} : FailRound(p)
  BY <1>9, FailRoundInv DEF Poller
<1>10. CASE FailAdding \/ Crash
  BY <1>10, FailAddingInv, CrashInv
<1>11. CASE UNCHANGED vars
  BY <1>11, StutterInv
<1>12. QED
  BY <1>1, <1>2, <1>3, <1>4, <1>5, <1>6, <1>7, <1>8, <1>9, <1>10, <1>11 DEF Next

--------------------------------------------------------------------------------
(* The theorems.                                                             *)

\* IInv holds in every reachable state.
THEOREM ShieldInvariance == Spec => []IInv
BY InitInv, NextInv, PTL DEF Spec

\* Rows, pollers and what they hand to the event queue hold what they should; the
\* scan cursors do not pass the chain.
THEOREM ShieldTypeOK == Spec => []TypeOK
<1>1. IInv => TypeOK
  BY DEF IInv
<1>2. QED
  BY <1>1, ShieldInvariance, PTL

\* Only shields that are allowed and not blocked have events or wait for them.
THEOREM EventsOnlyOfAllowedShields == Spec => []OnlyAllowedShieldsGetEvents
<1>1. IInv => OnlyAllowedShieldsGetEvents
  BY DEF IInv, EventsInv, MayQueueEvent, BlocklistInv, OnlyAllowedShieldsGetEvents
<1>2. QED
  BY <1>1, ShieldInvariance, PTL

\* A shield that its row shows as blocked is in the blocklist.
THEOREM BlockedRowsAreListed == Spec => []BlockedShieldsAreListed
<1>1. IInv => BlockedShieldsAreListed
  BY DEF IInv
<1>2. QED
  BY <1>1, ShieldInvariance, PTL

\* The change of a row from x to y that StatusesGoForward allows.
GoesForward ==
  \A s \in Shield : status'[s] # status[s] =>
    \/ Before(status[s], status'[s])
    \/ status[s] = "AddedPOI" /\ status'[s] = "Allowed" /\ s \notin events

\* The steps of the three pollers that allow shields write rows forward.
LEMMA AllowStepGoesForward ==
  ASSUME IInv, NEW p \in Poller, NEW s \in Shield, AllowStep(<<p, s>>)
  PROVE  GoesForward
<1>1. CASE MarkAllowed(<<p, s>>)
  <2>1. status[s] \in {"Unknown", "Pending"}
    BY <1>1 DEF MarkAllowed, IInv, TaskInv, Poller, StepsOf
  <2>2. QED
    BY <1>1, <2>1 DEF MarkAllowed, IInv, TypeOK, GoesForward, Before
<1>2. CASE AddAllowedShield(<<p, s>>)
  BY <1>2 DEF AddAllowedShield, GoesForward
<1>3. CASE MarkAdded(<<p, s>>)
  <2>1. status[s] \in {"Allowed", "AddedPOI"}
    BY <1>3 DEF MarkAdded, IInv, TaskInv, EventsInv
  <2>2. QED
    BY <1>3, <2>1 DEF MarkAdded, IInv, TypeOK, GoesForward, Before
<1>4. QED
  BY <1>1, <1>2, <1>3 DEF AllowStep

\* A row is never set back by a poller that read it before others wrote it.
THEOREM RowsGoForward == Spec => StatusesGoForward
<1>1. ASSUME IInv, [Next]_vars
      PROVE  [GoesForward]_vars
  <2>1. CASE UNCHANGED status
    BY <2>1 DEF GoesForward
  <2>2. ASSUME NEW s \in Shield, InsertUnknownShield(s)
        PROVE  GoesForward
    BY <1>1, <2>2 DEF InsertUnknownShield, IInv, TypeOK, GoesForward, Before
  <2>3. ASSUME NEW s \in Shield, MarkPending(s)
        PROVE  GoesForward
    BY <1>1, <2>3 DEF MarkPending, IInv, TypeOK, TaskInv, Poller, GoesForward, Before
  <2>4. ASSUME NEW s \in Shield, MarkBlocked(s)
        PROVE  GoesForward
    BY <1>1, <2>4 DEF MarkBlocked, IInv, TypeOK, TaskInv, Poller, GoesForward, Before
  <2>5. CASE RestoreAllowed
    BY <1>1, <2>5 DEF RestoreAllowed, IInv, TypeOK, EnsureInv, GoesForward
  <2>6. CASE MarkAddedByQueue
    BY <1>1, <2>6 DEF MarkAddedByQueue, IInv, TypeOK, AddingInv, EventsInv, GoesForward,
       Before
  <2>7. CASE NewShield \/ \E s \in Shield : Age(s)
    BY <2>1, <2>7 DEF NewShield, Age
  <2>8. CASE QueueStep
    BY <2>1, <2>2, <2>8 DEF QueueStep, QueueRound, SaveStatus
  <2>9. CASE CategorizeStep
    BY <1>1, <2>1, <2>3, <2>9, AllowStepGoesForward DEF CategorizeStep, Poller,
       CategorizeRound, NextUnknown, ReceiptWithoutTo, Categorize
  <2>10. CASE ValidateStep
    BY <1>1, <2>1, <2>4, <2>10, AllowStepGoesForward DEF ValidateStep, Poller,
       ValidateRound, ValidateShield, AddBlockedShield
  <2>11. CASE AddStep
    BY <1>1, <2>1, <2>11, AllowStepGoesForward DEF AddStep, Poller, AddRound
  <2>12. CASE EnsureStep
    BY <2>1, <2>5, <2>12 DEF EnsureStep, CountEvents, CountAddedShields, EnsureEvent
  <2>13. CASE EventQueueStep
    BY <2>1, <2>6, <2>13 DEF EventQueueStep, StartAdding, AddEvent, FindAllowed
  <2>14. CASE \/ \E t \in Task : FailTask(t)
              \/ \E p \in {"queue", "add", "ensure"} : FailRound(p)
              \/ FailAdding \/ Crash
    BY <2>1, <2>14 DEF FailTask, FailRound, FailAdding, Crash
  <2>15. QED
    BY <1>1, <2>1, <2>7, <2>8, <2>9, <2>10, <2>11, <2>12, <2>13, <2>14 DEF Next
<1>2. QED
  BY <1>1, ShieldInvariance, PTL DEF Spec, StatusesGoForward, GoesForward
================================================================================
