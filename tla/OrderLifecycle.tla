---------------------------- MODULE OrderLifecycle ----------------------------
(***************************************************************************)
(* What the maintenance-order service promises, with no locks, versions,   *)
(* transactions or retries: an order is created, approved or rejected,     *)
(* given once and for all to one worker, and completed by its record.      *)
(***************************************************************************)
EXTENDS OrderStatus

CONSTANTS Orders, Workers, NoWorker

VARIABLES stage,      \* stage[o]: the order's status, "ABSENT" before it exists
          assignee    \* assignee[o]: the worker it was given to, or NoWorker

lifecycleVars == <<stage, assignee>>

-----------------------------------------------------------------------------

\* Rows approved before the claim window existed are already waiting.
LifecycleInit ==
  /\ stage \in [Orders -> {"ABSENT", "WAITING_FOR_CLAIM"}]
  /\ assignee = [o \in Orders |-> NoWorker]

Create(o) ==
  /\ stage[o] = "ABSENT"
  /\ stage' = [stage EXCEPT ![o] = "PENDING_APPROVAL"]
  /\ UNCHANGED assignee

\* OrderLifecycleService.apply for the events that name no worker.
Fire(o, event) ==
  /\ CanTransition(stage[o], event)
  /\ stage' = [stage EXCEPT ![o] = TargetStatus(stage[o], event)]
  /\ UNCHANGED assignee

\* OrderLifecycleService.apply for MANUAL_CLAIM and AUTO_ASSIGN.
Assign(o, w, event) ==
  /\ CanTransition(stage[o], event)
  /\ assignee[o] = NoWorker
  /\ stage' = [stage EXCEPT ![o] = TargetStatus(stage[o], event)]
  /\ assignee' = [assignee EXCEPT ![o] = w]

LifecycleNext ==
  \E o \in Orders :
    \/ Create(o)
    \/ \E event \in {"APPROVE", "REJECT", "COMPLETE"} : Fire(o, event)
    \/ \E w \in Workers, event \in {"MANUAL_CLAIM", "AUTO_ASSIGN"} : Assign(o, w, event)

LifecycleSpec == LifecycleInit /\ [][LifecycleNext]_lifecycleVars

=============================================================================
