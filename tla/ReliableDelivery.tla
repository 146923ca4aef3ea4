--------------------------- MODULE ReliableDelivery ---------------------------
(***************************************************************************)
(* What a transactional outbox promises: an event recorded with a business *)
(* change reaches the broker at least once, and is only given up on after  *)
(* it did.                                                                 *)
(***************************************************************************)
CONSTANT Events

VARIABLES recorded,    \* events whose business transaction has committed
          delivered,   \* events the broker has routed to a queue at least once
          settled      \* events nobody will send any more

deliveryVars == <<recorded, delivered, settled>>

DeliveryInit ==
  /\ recorded = {}
  /\ delivered = {}
  /\ settled = {}

RecordEvent(e) ==
  /\ recorded' = recorded \cup {e}
  /\ UNCHANGED <<delivered, settled>>

Deliver(e) ==
  /\ e \in recorded
  /\ delivered' = delivered \cup {e}
  /\ UNCHANGED <<recorded, settled>>

Settle(e) ==
  /\ e \in delivered
  /\ settled' = settled \cup {e}
  /\ UNCHANGED <<recorded, delivered>>

DeliveryNext == \E e \in Events : RecordEvent(e) \/ Deliver(e) \/ Settle(e)

DeliverySpec == DeliveryInit /\ [][DeliveryNext]_deliveryVars

=============================================================================
