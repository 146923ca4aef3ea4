---------------------------- MODULE DispatchTrigger ----------------------------
(***************************************************************************)
(* When an order is handed to automatic dispatch: on approval if urgent,   *)
(* by the scanner once its claim window has passed unclaimed, or by an     *)
(* administrator.  Orders themselves move as OrderLifecycle allows (which  *)
(* OrderAssignment implements); a scanner runs in every service instance.  *)
(***************************************************************************)
EXTENDS OrderLifecycle, Naturals, FiniteSets, Sequences

CONSTANTS
  Scanners,      \* instances running ExpiredClaimWindowScanner
  DispatchAdmins, \* concurrent calls of triggerAutoDispatch
  AdminKeys,     \* "admin:<user>:<Idempotency-Key>"
  Urgent,        \* orders of priority URGENT
  BatchSize,     \* dispatch.auto.scan-batch-size
  NoEvent

\* What the constants have to be.
TriggerAssumption ==
  /\ Urgent \subseteq Orders
  /\ BatchSize \in Nat \ {0}
  /\ Scanners \cap DispatchAdmins = {}

Callers == Scanners \cup DispatchAdmins
Sources == {"approval", "deadline"} \cup AdminKeys
Events == [order: Orders, trigger: {"urgent", "claim_timeout", "manual"}, source: Sources]

NoEventAssumption == NoEvent \notin Events

VARIABLES
  deadlines,   \* approved orders by claim_deadline (a fixed delay after approval)
  passed,      \* how many of those deadlines lie in the past
  events,      \* dispatch_event_outbox, unique per event id
  batch,       \* the expired orders a scanner has still to trigger, by place in deadlines
  insert       \* the event a caller's transaction has read for and will insert

triggerVars == <<deadlines, passed, events, batch, insert>>
dispatchVars == <<lifecycleVars, triggerVars>>

DispatchInit ==
  /\ LifecycleInit
  /\ deadlines = <<>>
  /\ passed = 0
  /\ events = {}
  /\ batch = [s \in Scanners |-> {}]
  /\ insert = [p \in Callers |-> NoEvent]

-----------------------------------------------------------------------------

\* DispatchTriggerService.approve: the deadline, and the event of an urgent order.
Approve(o) ==
  /\ Fire(o, "APPROVE")
  /\ deadlines' = Append(deadlines, o)
  /\ events' = IF o \in Urgent
               THEN events \cup {[order |-> o, trigger |-> "urgent", source |-> "approval"]}
               ELSE events
  /\ UNCHANGED <<passed, batch, insert>>

\* Everything else that moves an order: creation, rejection, claims, completion.
OrderMoves(o) ==
  /\ \/ Create(o)
     \/ \E event \in {"REJECT", "COMPLETE"} : Fire(o, event)
     \/ \E w \in Workers, event \in {"MANUAL_CLAIM", "AUTO_ASSIGN"} : Assign(o, w, event)
  /\ UNCHANGED triggerVars

DeadlinePasses ==
  /\ passed < Len(deadlines)
  /\ passed' = passed + 1
  /\ UNCHANGED <<lifecycleVars, deadlines, events, batch, insert>>

IsDispatchable(o) == assignee[o] = NoWorker /\ CanTransition(stage[o], "AUTO_ASSIGN")

Expired(o) == \E i \in 1 .. passed : deadlines[i] = o

Unclaimed(o) == stage[o] = "WAITING_FOR_CLAIM" /\ assignee[o] = NoWorker

MutantDeadlineIgnored == {i \in 1 .. Len(deadlines) : Unclaimed(deadlines[i])}

\* MaintainRecordMapper.findExpiredClaimWindows
ExpiredUnclaimed == {i \in 1 .. passed : Unclaimed(deadlines[i])}

\* ORDER BY claim_deadline LIMIT
FirstBatch(found) == {i \in found : Cardinality({j \in found : j < i}) < BatchSize}

Scan(s) ==
  /\ batch[s] = {}
  /\ insert[s] = NoEvent
  /\ ExpiredUnclaimed # {}
  /\ batch' = [batch EXCEPT ![s] = FirstBatch(ExpiredUnclaimed)]
  /\ UNCHANGED <<lifecycleVars, deadlines, passed, events, insert>>

MutantEventIdWithoutOrder(s, o) ==
  IF Cardinality({e \in events : e.trigger = "claim_timeout"}) > 0 THEN NoEvent
  ELSE [order |-> o, trigger |-> "claim_timeout", source |-> "deadline"]

\* DispatchTriggerService.trigger reads the order and drops one that has moved on.
TimeoutEvent(s, o) ==
  IF IsDispatchable(o)
  THEN [order |-> o, trigger |-> "claim_timeout", source |-> "deadline"]
  ELSE NoEvent

TriggerNext(s) ==
  /\ insert[s] = NoEvent
  /\ \E i \in batch[s] :
       /\ \A j \in batch[s] : i <= j
       /\ insert' = [insert EXCEPT ![s] = TimeoutEvent(s, deadlines[i])]
       /\ batch' = [batch EXCEPT ![s] = @ \ {i}]
  /\ UNCHANGED <<lifecycleVars, deadlines, passed, events>>

\* triggerAutoDispatch by an authorised administrator
TriggerManually(a, o, key) ==
  /\ insert[a] = NoEvent
  /\ IsDispatchable(o)
  /\ insert' = [insert EXCEPT ![a] = [order |-> o, trigger |-> "manual", source |-> key]]
  /\ UNCHANGED <<lifecycleVars, deadlines, passed, events, batch>>

\* The insert of createEvent; a DuplicateKeyException counts as done.
InsertEvent(p) ==
  /\ insert[p] # NoEvent
  /\ events' = events \cup {insert[p]}
  /\ insert' = [insert EXCEPT ![p] = NoEvent]
  /\ UNCHANGED <<lifecycleVars, deadlines, passed, batch>>

DispatchNext ==
  \/ \E o \in Orders : Approve(o) \/ OrderMoves(o)
  \/ DeadlinePasses
  \/ \E s \in Scanners : Scan(s) \/ TriggerNext(s)
  \/ \E a \in DispatchAdmins, o \in Orders, key \in AdminKeys : TriggerManually(a, o, key)
  \/ \E p \in Callers : InsertEvent(p)

\* @Scheduled keeps scanning, a started call ends, and time passes.  Nothing makes
\* anybody claim an order.
DispatchSpec == DispatchInit /\ [][DispatchNext]_dispatchVars
FairDispatchSpec ==
  /\ DispatchSpec
  /\ WF_dispatchVars(DeadlinePasses)
  /\ \A s \in Scanners : WF_dispatchVars(Scan(s) \/ TriggerNext(s) \/ InsertEvent(s))
  /\ \A a \in DispatchAdmins : WF_dispatchVars(InsertEvent(a))

-----------------------------------------------------------------------------
(* Properties *)

\* Types of the deadlines, the outbox rows and the callers' local state.
DispatchType ==
  /\ stage \in [Orders -> DatabaseStatus]
  /\ assignee \in [Orders -> Workers \cup {NoWorker}]
  /\ deadlines \in Seq(Orders)
  /\ passed \in 0 .. Len(deadlines)
  /\ events \subseteq Events
  /\ batch \in [Scanners -> SUBSET (1 .. passed)]
  /\ insert \in [Callers -> Events \cup {NoEvent}]

\* An order leaves the exclusive claim window only by its own deadline: no timeout
\* event, inserted or about to be, for an order whose deadline has not passed.
WindowIsRespected ==
  \A e \in events \cup {insert[p] : p \in Callers} :
    e # NoEvent /\ e.trigger = "claim_timeout" => Expired(e.order)

\* MaintainRecord.claimDeadline: an order nobody claimed by its deadline is handed to
\* automatic dispatch.
ExpiredIsDispatched ==
  \A o \in Orders :
    (Expired(o) /\ stage[o] = "WAITING_FOR_CLAIM")
      ~> (stage[o] # "WAITING_FOR_CLAIM" \/ \E e \in events : e.order = o /\ e.trigger = "claim_timeout")

=============================================================================
