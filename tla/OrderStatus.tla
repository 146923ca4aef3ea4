------------------------------ MODULE OrderStatus ------------------------------
(***************************************************************************)
(* The states and events of a maintenance order and the transition table   *)
(* of OrderStateMachine.  "ABSENT" stands for an order with no row yet;    *)
(* "LEGACY_APPROVED" is the old database value that fromDatabase still     *)
(* reads as "waiting for a claim".                                         *)
(***************************************************************************)

MaintainOrderStatus ==
  {"PENDING_APPROVAL", "WAITING_FOR_CLAIM", "IN_PROGRESS", "COMPLETED", "REJECTED"}

DatabaseStatus == MaintainOrderStatus \cup {"LEGACY_APPROVED", "ABSENT"}

MaintainOrderEvent ==
  {"APPROVE", "REJECT", "MANUAL_CLAIM", "AUTO_ASSIGN", "COMPLETE"}

MutantApprovalWritesUnknownStatus ==
  [PENDING_APPROVAL  |-> [APPROVE      |-> "APPROVED",
                          REJECT       |-> "REJECTED"],
   WAITING_FOR_CLAIM |-> [MANUAL_CLAIM |-> "IN_PROGRESS",
                          AUTO_ASSIGN  |-> "IN_PROGRESS"],
   IN_PROGRESS       |-> [COMPLETE     |-> "COMPLETED"]]

Transitions ==
  [PENDING_APPROVAL  |-> [APPROVE      |-> "WAITING_FOR_CLAIM",
                          REJECT       |-> "REJECTED"],
   WAITING_FOR_CLAIM |-> [MANUAL_CLAIM |-> "IN_PROGRESS",
                          AUTO_ASSIGN  |-> "IN_PROGRESS"],
   IN_PROGRESS       |-> [COMPLETE     |-> "COMPLETED"]]

FromDatabase(status) ==
  IF status = "LEGACY_APPROVED" THEN "WAITING_FOR_CLAIM" ELSE status

CanTransition(status, event) ==
  /\ FromDatabase(status) \in DOMAIN Transitions
  /\ event \in DOMAIN Transitions[FromDatabase(status)]

TargetStatus(status, event) == Transitions[FromDatabase(status)][event]

=============================================================================
