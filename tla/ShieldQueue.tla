------------------------------- MODULE ShieldQueue -------------------------------
(*****************************************************************************)
(* The list provider's pollers and the rows of the shield queue.  Five       *)
(* pollers run concurrently: they queue new shields, categorize the unknown  *)
(* ones, validate the pending ones, offer the allowed ones to the event      *)
(* queue, and check that added ones have events.  The event queue marks a    *)
(* shield itself once its event is stored.  Each reads rows of one status,   *)
(* awaits, and then writes a row without looking at it again.                *)
(*                                                                           *)
(* Shields are numbered in the order of their blocks and timestamps.  One    *)
(* (network, txidVersion) is modelled.                                       *)
(*****************************************************************************)
EXTENDS Integers, FiniteSets

CONSTANTS
  MaxShield,     \* number of shields on chain
  RelayAdapt,    \* shields made through the relay-adapt contract after unshields
  NoReceiptTo,   \* shields whose transaction receipt has no "to" address
  Sanctioned,    \* shields from addresses that shouldAllowShield refuses
  FailingStep,   \* awaits that may reject
  EventLoss,     \* subset of BOOLEAN: may a restart find the events deleted?
  MaxFailures,   \* bound on rejected calls
  MaxCrashes     \* bound on restarts

ASSUME ConstantsAssumption ==
  /\ MaxShield \in Nat /\ MaxFailures \in Nat /\ MaxCrashes \in Nat
  /\ RelayAdapt \subseteq 1 .. MaxShield /\ Sanctioned \subseteq 1 .. MaxShield
  /\ NoReceiptTo \subseteq 1 .. MaxShield /\ EventLoss \subseteq BOOLEAN

Shield == 1 .. MaxShield
Status == {"None", "Unknown", "Pending", "Allowed", "Blocked", "AddedPOI"}
Poller == {"queue", "categorize", "validate", "add"}
Task   == Poller \X Shield

VARIABLES
  onchain,    \* the wallet has scanned the shields 1 .. onchain
  old,        \* shields older than the pending period
  \* MongoDB
  status,     \* the row of each shield in the shield queue
  scanned,    \* latestBlockScanned
  blocklist,  \* blocked shields of the list
  events,     \* shields whose event is in the ordered events
  \* memory
  pc,         \* the await each poller's handling of a shield is suspended at
  batchEnd,   \* block of the last shield of the batch that is being queued
  unknown,    \* unknown shields still to be categorized in this round
  dead,       \* pollers that have thrown and do not run again
  ensure,     \* the poller ensureAddedShieldsHaveEvents: step, count, shields
  queue,      \* shields in the event queue
  adding,     \* the one whose event is being added, 0 if none, and the step
  \* bounds
  failures, crashes

chain   == <<onchain, old>>
rows    == <<status, scanned, blocklist, events>>
memory  == <<batchEnd, unknown, dead>>
eventQueue == <<queue, adding>>
bounds  == <<failures, crashes>>
vars    == <<chain, rows, pc, memory, ensure, eventQueue, bounds>>

Step == {"idle", "insert", "saveStatus", "classify", "pending", "validate",
         "block", "blockStatus", "allow", "exists", "added"}

WithStatus(x) == {s \in Shield : status[s] = x}
Idle(p) == \A s \in Shield : pc[<<p, s>>] = "idle"
Goto(t, s) == pc' = [pc EXCEPT ![t] = s]

\* updateShieldStatus replaces the row, whatever its status is by now.
UpdateShieldStatus(s, x) == status' = [status EXCEPT ![s] = x]

\* A round that handles all shields of S concurrently starts at step x.
StartAll(p, S, x) ==
  pc' = [t \in Task |-> IF t[1] = p /\ t[2] \in S THEN x ELSE pc[t]]

EnsureState == [step : {"idle", "count", "exists", "restore"},
                count : 0 .. MaxShield, rest : SUBSET Shield]
AddingState == [shield : 0 .. MaxShield,
                step : {"idle", "event", "allowed", "added"}]
NoEnsure == [step |-> "idle", count |-> 0, rest |-> {}]
NotAdding == [shield |-> 0, step |-> "idle"]

Init ==
  /\ onchain = 0 /\ old = {}
  /\ status = [s \in Shield |-> "None"] /\ scanned = 0
  /\ blocklist = {} /\ events = {}
  /\ pc = [t \in Task |-> "idle"]
  /\ batchEnd = 0 /\ unknown = {} /\ dead = {}
  /\ ensure = NoEnsure /\ queue = {} /\ adding = NotAdding
  /\ failures = 0 /\ crashes = 0

(* The chain and the clock. **************************************************)

NewShield ==
  /\ onchain < MaxShield
  /\ onchain' = onchain + 1
  /\ UNCHANGED <<old, rows, pc, memory, ensure, eventQueue, bounds>>

\* The pending period of a shield ends; shields age in order.
Age(s) ==
  /\ s \in (1 .. onchain) \ old /\ 1 .. s - 1 \subseteq old
  /\ old' = old \cup {s}
  /\ UNCHANGED <<onchain, rows, pc, memory, ensure, eventQueue, bounds>>

(* runQueueNewUnknownShieldsPoller *******************************************)

\* Mutant: the scan position is one past the last shield.
QueueRoundPastTheLast ==
  /\ "queue" \notin dead /\ Idle("queue")
  /\ onchain > 0
  /\ batchEnd' = onchain + 1
  /\ StartAll("queue", {s \in 1 .. onchain : s >= scanned}, "insert")
  /\ UNCHANGED <<chain, rows, unknown, dead, ensure, eventQueue, bounds>>

\* The shields from the latest scanned block on are queued concurrently.
QueueRound ==
  /\ "queue" \notin dead /\ Idle("queue")
  /\ onchain > 0
  /\ batchEnd' = onchain
  /\ StartAll("queue", {s \in 1 .. onchain : s >= scanned}, "insert")
  /\ UNCHANGED <<chain, rows, unknown, dead, ensure, eventQueue, bounds>>

\* Mutant: an existing row is replaced.
InsertUnknownShieldReplacing(s) ==
  /\ pc[<<"queue", s>>] = "insert"
  /\ UpdateShieldStatus(s, "Unknown")
  /\ Goto(<<"queue", s>>, "saveStatus")
  /\ UNCHANGED <<chain, scanned, blocklist, events, memory, ensure, eventQueue,
                 bounds>>

\* insertUnknownShield returns; a row that exists is kept.
InsertUnknownShield(s) ==
  /\ pc[<<"queue", s>>] = "insert"
  /\ status' = [status EXCEPT ![s] = IF @ = "None" THEN "Unknown" ELSE @]
  /\ Goto(<<"queue", s>>, "saveStatus")
  /\ UNCHANGED <<chain, scanned, blocklist, events, memory, ensure, eventQueue,
                 bounds>>

SaveStatus(s) ==
  /\ pc[<<"queue", s>>] = "saveStatus"
  /\ scanned' = batchEnd
  /\ Goto(<<"queue", s>>, "idle")
  /\ UNCHANGED <<chain, status, blocklist, events, memory, ensure, eventQueue,
                 bounds>>

(* runCategorizeUnknownShieldsPoller: one shield after the other. ************)

CategorizeRound ==
  /\ Idle("categorize") /\ unknown = {}
  /\ WithStatus("Unknown") # {}
  /\ unknown' = WithStatus("Unknown")
  /\ UNCHANGED <<chain, rows, pc, batchEnd, dead, ensure, eventQueue, bounds>>

\* A shield that is old by now becomes pending at once.
NextUnknown(s) ==
  /\ Idle("categorize")
  /\ s \in unknown /\ \A r \in unknown : s <= r
  /\ unknown' = unknown \ {s}
  /\ Goto(<<"categorize", s>>, IF s \in old THEN "pending" ELSE "classify")
  /\ UNCHANGED <<chain, rows, batchEnd, dead, ensure, eventQueue, bounds>>

\* The receipt and the statuses of the unshields are there.  A receipt without
\* a "to" address throws, which ends the round.
ReceiptWithoutTo(s) ==
  /\ pc[<<"categorize", s>>] = "classify" /\ s \in NoReceiptTo
  /\ Goto(<<"categorize", s>>, "idle") /\ unknown' = {}
  /\ UNCHANGED <<chain, rows, batchEnd, dead, ensure, eventQueue, bounds>>

\* After relay-adapt unshields, a shield is allowed if all of them have valid
\* proofs, and waits for a later round while they are missing and it is very
\* recent; every other shield becomes pending.
Categorize(s) ==
  /\ pc[<<"categorize", s>>] = "classify" /\ s \notin NoReceiptTo
  /\ \E x \in IF s \in RelayAdapt THEN {"allow", "idle", "pending"} ELSE {"pending"} :
       Goto(<<"categorize", s>>, x)
  /\ UNCHANGED <<chain, rows, memory, ensure, eventQueue, bounds>>

MarkPending(s) ==
  /\ pc[<<"categorize", s>>] = "pending"
  /\ UpdateShieldStatus(s, "Pending")
  /\ Goto(<<"categorize", s>>, "idle")
  /\ UNCHANGED <<chain, scanned, blocklist, events, memory, ensure, eventQueue,
                 bounds>>

(* runValidatePendingShieldsPoller: the shields of a batch concurrently. *****)

\* Mutant: the comparison with the pending period is turned around.
ValidateRoundOfRecent ==
  /\ Idle("validate")
  /\ WithStatus("Pending") \ old # {}
  /\ StartAll("validate", WithStatus("Pending") \ old, "validate")
  /\ UNCHANGED <<chain, rows, memory, ensure, eventQueue, bounds>>


ValidateRound ==
  /\ Idle("validate")
  /\ WithStatus("Pending") \cap old # {}
  /\ StartAll("validate", WithStatus("Pending") \cap old, "validate")
  /\ UNCHANGED <<chain, rows, memory, ensure, eventQueue, bounds>>

\* Mutant: the row is written before the blocklist, and nothing afterwards.
ValidateShieldBlockingRowOnly(s) ==
  /\ pc[<<"validate", s>>] = "validate"
  /\ Goto(<<"validate", s>>, IF s \in Sanctioned THEN "blockStatus" ELSE "allow")
  /\ UNCHANGED <<chain, rows, memory, ensure, eventQueue, bounds>>

\* shouldAllowShield returns.
ValidateShield(s) ==
  /\ pc[<<"validate", s>>] = "validate"
  /\ Goto(<<"validate", s>>, IF s \in Sanctioned THEN "block" ELSE "allow")
  /\ UNCHANGED <<chain, rows, memory, ensure, eventQueue, bounds>>

\* insertSignedBlockedShield returns.
AddBlockedShield(s) ==
  /\ pc[<<"validate", s>>] = "block"
  /\ blocklist' = blocklist \cup {s}
  /\ Goto(<<"validate", s>>, "blockStatus")
  /\ UNCHANGED <<chain, status, scanned, events, memory, ensure, eventQueue,
                 bounds>>

MarkBlocked(s) ==
  /\ pc[<<"validate", s>>] = "blockStatus"
  /\ UpdateShieldStatus(s, "Blocked")
  /\ Goto(<<"validate", s>>, "idle")
  /\ UNCHANGED <<chain, scanned, blocklist, events, memory, ensure, eventQueue,
                 bounds>>

(* allowShield and addAllowedShield; of three pollers. ***********************)

MarkAllowed(t) ==
  /\ pc[t] = "allow"
  /\ UpdateShieldStatus(t[2], "Allowed")
  /\ Goto(t, "exists")
  /\ UNCHANGED <<chain, scanned, blocklist, events, memory, ensure, eventQueue,
                 bounds>>

\* Mutant: pending shields are offered to the event queue too.
AddRoundOfPending ==
  /\ "add" \notin dead /\ Idle("add")
  /\ WithStatus("Allowed") \cup WithStatus("Pending") # {}
  /\ StartAll("add", WithStatus("Allowed") \cup WithStatus("Pending"), "exists")
  /\ UNCHANGED <<chain, rows, memory, ensure, eventQueue, bounds>>

\* runAddAllowedShieldsPoller: the allowed shields concurrently.
AddRound ==
  /\ "add" \notin dead /\ Idle("add")
  /\ WithStatus("Allowed") # {}
  /\ StartAll("add", WithStatus("Allowed"), "exists")
  /\ UNCHANGED <<chain, rows, memory, ensure, eventQueue, bounds>>

\* eventExists returns; without an event the shield is queued for one, unless
\* it is in the queue.
AddAllowedShield(t) ==
  /\ pc[t] = "exists"
  /\ IF t[2] \in events
       THEN Goto(t, "added") /\ UNCHANGED queue
       ELSE Goto(t, "idle") /\ queue' = queue \cup {t[2]}
  /\ UNCHANGED <<chain, rows, memory, ensure, adding, bounds>>

MarkAdded(t) ==
  /\ pc[t] = "added"
  /\ UpdateShieldStatus(t[2], "AddedPOI")
  /\ Goto(t, "idle")
  /\ UNCHANGED <<chain, scanned, blocklist, events, memory, ensure, eventQueue,
                 bounds>>

(* runEnsureAddedShieldsHaveEventsPoller *************************************)

CountEvents ==
  /\ "ensure" \notin dead /\ ensure.step = "idle"
  /\ ensure' = [step |-> "count", count |-> Cardinality(events), rest |-> {}]
  /\ UNCHANGED <<chain, rows, pc, memory, eventQueue, bounds>>

\* Mutant: fewer events than added shields are not noticed.
CountAddedShieldsOneSided ==
  /\ ensure.step = "count"
  /\ LET added == WithStatus("AddedPOI")
     IN  ensure' = IF ensure.count <= Cardinality(added) \/ added = {} THEN NoEnsure
                   ELSE [ensure EXCEPT !.step = "exists", !.rest = added]
  /\ UNCHANGED <<chain, rows, pc, memory, eventQueue, bounds>>

\* The counts are compared and the added shields streamed if they differ.
CountAddedShields ==
  /\ ensure.step = "count"
  /\ LET added == WithStatus("AddedPOI")
     IN  ensure' = IF ensure.count = Cardinality(added) \/ added = {} THEN NoEnsure
                   ELSE [ensure EXCEPT !.step = "exists", !.rest = added]
  /\ UNCHANGED <<chain, rows, pc, memory, eventQueue, bounds>>

\* One streamed shield s: eventExists, and the status is set back if it fails.
EnsureEvent(s) ==
  /\ ensure.step = "exists" /\ s \in ensure.rest
  /\ LET rest == ensure.rest \ {s}
     IN  ensure' = IF s \notin events
                     THEN [step |-> "restore", count |-> s, rest |-> rest]
                     ELSE IF rest = {} THEN NoEnsure ELSE [ensure EXCEPT !.rest = rest]
  /\ UNCHANGED <<chain, rows, pc, memory, eventQueue, bounds>>

RestoreAllowed ==
  /\ ensure.step = "restore"
  /\ UpdateShieldStatus(ensure.count, "Allowed")
  /\ ensure' = IF ensure.rest = {} THEN NoEnsure
               ELSE [step |-> "exists", count |-> 0, rest |-> ensure.rest]
  /\ UNCHANGED <<chain, scanned, blocklist, events, pc, memory, eventQueue, bounds>>

(* The event queue, as far as the shields see it. ****************************)

StartAdding(s) ==
  /\ adding = NotAdding /\ s \in queue
  /\ IF s \in events
       THEN queue' = queue \ {s} /\ UNCHANGED adding
       ELSE adding' = [shield |-> s, step |-> "event"] /\ UNCHANGED queue
  /\ UNCHANGED <<chain, rows, pc, memory, ensure, bounds>>

\* The event is stored and leaves the queue.
AddEvent ==
  /\ adding.step = "event"
  /\ events' = events \cup {adding.shield}
  /\ queue' = queue \ {adding.shield}
  /\ adding' = [adding EXCEPT !.step = "allowed"]
  /\ UNCHANGED <<chain, status, scanned, blocklist, pc, memory, ensure, bounds>>

\* getAllowedShieldByCommitmentHash returns.
FindAllowed ==
  /\ adding.step = "allowed"
  /\ adding' = IF status[adding.shield] = "Allowed"
                 THEN [adding EXCEPT !.step = "added"] ELSE NotAdding
  /\ UNCHANGED <<chain, rows, pc, memory, ensure, queue, bounds>>

MarkAddedByQueue ==
  /\ adding.step = "added"
  /\ UpdateShieldStatus(adding.shield, "AddedPOI")
  /\ adding' = NotAdding
  /\ UNCHANGED <<chain, scanned, blocklist, events, pc, memory, ensure, queue,
                 bounds>>

(* Failures. *****************************************************************)

\* An awaited call of a poller rejects.  queueShieldSafe and validateShield
\* catch it for the one shield and categorizeUnknownShields for the round;
\* elsewhere it ends the poller.
FailTask(t) ==
  /\ pc[t] # "idle" /\ pc[t] \in FailingStep
  /\ failures < MaxFailures
  /\ failures' = failures + 1
  /\ Goto(t, "idle")
  /\ unknown' = IF t[1] = "categorize" THEN {} ELSE unknown
  /\ dead' = IF t[1] = "add" \/ pc[t] = "saveStatus" THEN dead \cup {t[1]} ELSE dead
  /\ UNCHANGED <<chain, rows, batchEnd, ensure, eventQueue, crashes>>

\* The first call of a round, or any call of ensureAddedShieldsHaveEvents,
\* rejects, with nothing to catch it.
FailRound(p) ==
  /\ p \in {"queue", "add", "ensure"} \ dead /\ "idle" \in FailingStep
  /\ p \in Poller => Idle(p)
  /\ failures < MaxFailures
  /\ failures' = failures + 1
  /\ dead' = dead \cup {p}
  /\ ensure' = IF p = "ensure" THEN NoEnsure ELSE ensure
  /\ UNCHANGED <<chain, rows, pc, batchEnd, unknown, eventQueue, crashes>>

\* A rejected call of the event queue; an event not yet stored stays queued.
FailAdding ==
  /\ adding # NotAdding /\ failures < MaxFailures
  /\ failures' = failures + 1
  /\ adding' = NotAdding
  /\ UNCHANGED <<chain, rows, pc, memory, ensure, queue, crashes>>

\* The process restarts, possibly after its events were deleted.
Crash ==
  /\ crashes < MaxCrashes
  /\ crashes' = crashes + 1
  /\ \E lost \in EventLoss : events' = IF lost THEN {} ELSE events
  /\ pc' = [t \in Task |-> "idle"]
  /\ batchEnd' = 0 /\ unknown' = {} /\ dead' = {}
  /\ ensure' = NoEnsure /\ queue' = {} /\ adding' = NotAdding
  /\ UNCHANGED <<chain, status, scanned, blocklist, failures>>

--------------------------------------------------------------------------------
AllowStep(t) == MarkAllowed(t) \/ AddAllowedShield(t) \/ MarkAdded(t)

QueueStep == QueueRound \/ \E s \in Shield : InsertUnknownShield(s) \/ SaveStatus(s)

CategorizeStep ==
  \/ CategorizeRound
  \/ \E s \in Shield : \/ NextUnknown(s) \/ ReceiptWithoutTo(s)
                       \/ Categorize(s) \/ MarkPending(s)
                       \/ AllowStep(<<"categorize", s>>)

ValidateStep ==
  \/ ValidateRound
  \/ \E s \in Shield : \/ ValidateShield(s) \/ AddBlockedShield(s) \/ MarkBlocked(s)
                       \/ AllowStep(<<"validate", s>>)

AddStep == AddRound \/ \E s \in Shield : AllowStep(<<"add", s>>)

EnsureStep ==
  \/ CountEvents \/ CountAddedShields \/ RestoreAllowed
  \/ \E s \in Shield : EnsureEvent(s)

EventQueueStep ==
  \/ \E s \in Shield : StartAdding(s)
  \/ AddEvent \/ FindAllowed \/ MarkAddedByQueue

Next ==
  \/ NewShield \/ \E s \in Shield : Age(s)
  \/ QueueStep \/ CategorizeStep \/ ValidateStep \/ AddStep
  \/ EnsureStep \/ EventQueueStep
  \/ \E t \in Task : FailTask(t)
  \/ \E p \in {"queue", "add", "ensure"} : FailRound(p)
  \/ FailAdding
  \/ Crash

Spec == Init /\ [][Next]_vars

\* Every poller reschedules itself and its awaits return; time passes.
FairSpec ==
  /\ Spec
  /\ \A s \in Shield : WF_vars(Age(s))
  /\ WF_vars(QueueStep) /\ WF_vars(CategorizeStep) /\ WF_vars(ValidateStep)
  /\ WF_vars(AddStep) /\ WF_vars(EnsureStep) /\ WF_vars(EventQueueStep)

--------------------------------------------------------------------------------
(* Properties.                                                               *)

TypeOK ==
  /\ onchain \in 0 .. MaxShield /\ old \subseteq 1 .. onchain
  /\ status \in [Shield -> Status]
  /\ scanned \in 0 .. onchain /\ batchEnd \in 0 .. onchain
  /\ blocklist \subseteq Shield /\ events \subseteq Shield
  /\ pc \in [Task -> Step]
  /\ unknown \subseteq Shield /\ dead \subseteq Poller \cup {"ensure"}
  /\ ensure \in EnsureState /\ queue \subseteq Shield /\ adding \in AddingState
  /\ failures \in 0 .. MaxFailures /\ crashes \in 0 .. MaxCrashes

\* Only a shield that was allowed gets an event, and it is not one of those that
\* the list blocks, although blocking and allowing write two collections each.
OnlyAllowedShieldsGetEvents ==
  \A s \in queue \cup events :
    status[s] \in {"Allowed", "AddedPOI"} /\ s \notin blocklist

\* A shield that the queue shows as blocked is in the list's blocklist.
BlockedShieldsAreListed == WithStatus("Blocked") \subseteq blocklist

Before(x, y) ==
  \/ x = "None"
  \/ x = "Unknown" /\ y # "None"
  \/ x = "Pending" /\ y \in {"Allowed", "Blocked", "AddedPOI"}
  \/ x = "Allowed" /\ y = "AddedPOI"

\* A row never goes back to an earlier status, in spite of the writes of stale
\* rows: except that an added shield without an event is allowed again.
StatusesGoForward ==
  [][\A s \in Shield : status'[s] # status[s] =>
       \/ Before(status[s], status'[s])
       \/ status[s] = "AddedPOI" /\ status'[s] = "Allowed" /\ s \notin events]_vars

\* Every shield in the queue is blocked or added to the list in the end, whatever
\* call fails, and across a restart, unless a poller has thrown and ended.
ShieldIsSettled ==
  \A s \in Shield :
    status[s] = "Unknown" ~> status[s] = "Blocked" \/ s \in events \/ dead # {}

\* "Automatically trying to add the missing events" (list-provider.ts:573): an
\* added shield whose event was deleted gets it again, while all pollers run.
MissingEventIsRestored ==
  \A s \in Shield : status[s] = "AddedPOI" ~> s \in events \/ dead # {}

\* "Should add new shields to queue" (list-provider.test.ts:79): every shield the
\* wallet has found gets into the queue.
NewShieldIsQueued ==
  \A s \in Shield : s <= onchain ~> status[s] # "None"
================================================================================
