---------------------------- MODULE OutboxPublisher ----------------------------
(***************************************************************************)
(* ReliableOutboxPublisher over one outbox table.  Every service instance  *)
(* runs a publisher on a timer; a batch finds due rows, and for each one   *)
(* claims it with a conditional update, sends it, waits for the broker's   *)
(* confirm, and marks the row.  The four outbox tables of the repository   *)
(* (dispatch, work-order knowledge, binding commands, binding results)     *)
(* share this publisher and have the same four statements.                 *)
(***************************************************************************)
EXTENDS Naturals, FiniteSets, SequencesExt

CONSTANTS
  Events,          \* outbox rows by id
  Publishers,
  BatchSize,       \* findPublishable's LIMIT
  MaxFaults        \* bound on lost confirms, refused messages and crashes

ASSUME PublisherAssumption ==
  /\ Events \subseteq Nat
  /\ BatchSize \in Nat \ {0}
  /\ MaxFaults \in Nat

VARIABLES
  mayStall,    \* whether a live publisher may hold a row past the stale limit; never changes
  status,      \* publish_status of each row, "ABSENT" before it is inserted
  due,         \* rows whose next_retry_at, or stale limit if PUBLISHING, has passed
  queued,      \* events the broker has routed to a queue (external)
  pc,          \* where each publisher is
  batch,       \* the rows of its batch still to do, the current one first
  fresh,       \* those of them no statement has changed since the batch was read
  fate,        \* what became of the message it is waiting on
  faults

vars == <<mayStall, status, due, queued, pc, batch, fresh, fate, faults>>
publisherVars == <<pc, batch, fresh, fate>>

PublishStatus == {"PENDING", "PUBLISHING", "FAILED", "PUBLISHED"}
Fates == {"acked", "returned", "nacked", "lost", "none"}

Init ==
  /\ mayStall \in BOOLEAN
  /\ status = [e \in Events |-> "ABSENT"]
  /\ due = {}
  /\ queued = {}
  /\ pc = [p \in Publishers |-> "idle"]
  /\ batch = [p \in Publishers |-> <<>>]
  /\ fresh = [p \in Publishers |-> {}]
  /\ fate = [p \in Publishers |-> "none"]
  /\ faults = 0

-----------------------------------------------------------------------------

\* The business transaction inserts the row; next_retry_at is its own time.
Record(e) ==
  /\ status[e] = "ABSENT"
  /\ status' = [status EXCEPT ![e] = "PENDING"]
  /\ due' = due \cup {e}
  /\ UNCHANGED <<queued, publisherVars, faults>>

Working(p) == pc[p] \in {"claimed", "sent"}

Holds(p, e) == Working(p) /\ Head(batch[p]) = e

\* The backoff of a failed row, or the stale limit of a claimed one, passes.
BecomeDue(e) ==
  /\ e \notin due
  /\ \/ status[e] = "FAILED"
     \/ status[e] = "PUBLISHING" /\ (mayStall \/ ~ \E p \in Publishers : Holds(p, e))
  /\ due' = due \cup {e}
  /\ UNCHANGED <<status, queued, publisherVars, faults>>

MutantPendingAndFailed == {e \in due : status[e] \in {"PENDING", "FAILED"}}

Publishable == {e \in due : status[e] \in {"PENDING", "FAILED", "PUBLISHING"}}

\* ORDER BY id LIMIT
Limited(rows) ==
  /\ \A i, j \in DOMAIN rows : i < j => rows[i] < rows[j]
  /\ \A e \in Publishable \ ToSet(rows) :
       Len(rows) = BatchSize /\ \A f \in ToSet(rows) : f < e

\* findPublishable
Find(p) ==
  /\ pc[p] = "idle"
  /\ Publishable # {}
  /\ pc' = [pc EXCEPT ![p] = "found"]
  /\ \E rows \in SeqOf(Publishable, BatchSize) :
       /\ Limited(rows)
       /\ batch' = [batch EXCEPT ![p] = rows]
       /\ fresh' = [fresh EXCEPT ![p] = ToSet(rows)]
  /\ UNCHANGED <<status, due, queued, fate, faults>>

\* A statement that changes a row ends its due time, and makes every other batch
\* read before it too old to claim the row.
Touch(e, newStatus) ==
  /\ status' = [status EXCEPT ![e] = newStatus]
  /\ due' = due \ {e}
  /\ fresh' = [p \in Publishers |-> fresh[p] \ {e}]

Advance(p) ==
  /\ pc' = [pc EXCEPT ![p] = IF Tail(batch[p]) = <<>> THEN "idle" ELSE "found"]
  /\ batch' = [batch EXCEPT ![p] = Tail(@)]

MutantClaimAlways(p, e) == TRUE

\* The WHERE of claimForPublishing, with the times of the batch.
CanClaim(p, e) == e \in fresh[p]

Claim(p) ==
  /\ pc[p] = "found"
  /\ CanClaim(p, Head(batch[p]))
  /\ Touch(Head(batch[p]), "PUBLISHING")
  /\ pc' = [pc EXCEPT ![p] = "claimed"]
  /\ UNCHANGED <<queued, batch, fate, faults>>

Skip(p) ==
  /\ pc[p] = "found"
  /\ ~ CanClaim(p, Head(batch[p]))
  /\ Advance(p)
  /\ UNCHANGED <<status, due, queued, fresh, fate, faults>>

\* The broker may queue the message and confirm it, confirm and return it as
\* unroutable, refuse it, or drop the connection before or after queueing it.
Send(p, f, routed) ==
  /\ pc[p] = "claimed"
  /\ f \in Fates \ {"none"}
  /\ f = "acked" => routed
  /\ f \in {"returned", "nacked"} => ~ routed
  /\ f = "acked" \/ faults < MaxFaults
  /\ faults' = IF f = "acked" THEN faults ELSE faults + 1
  /\ queued' = IF routed THEN queued \cup {Head(batch[p])} ELSE queued
  /\ fate' = [fate EXCEPT ![p] = f]
  /\ pc' = [pc EXCEPT ![p] = "sent"]
  /\ UNCHANGED <<status, due, batch, fresh>>

\* mark...: WHERE publish_status = 'PUBLISHING'
Mark(p, newStatus) ==
  LET e == Head(batch[p]) IN
  /\ IF status[e] = "PUBLISHING" THEN Touch(e, newStatus) ELSE UNCHANGED <<status, due, fresh>>
  /\ Advance(p)
  /\ fate' = [fate EXCEPT ![p] = "none"]
  /\ UNCHANGED queued

MutantAckIsEnough(f) == f \in {"acked", "returned"}

\* confirm.isAck() and nothing returned
Confirmed(f) == f = "acked"

MarkPublished(p) ==
  /\ pc[p] = "sent"
  /\ Confirmed(fate[p])
  /\ Mark(p, "PUBLISHED")
  /\ UNCHANGED faults

\* Any exception: a negative confirm, a returned message, a timeout (a late confirm
\* is not seen any more), or markPublished itself failing.
MarkFailed(p) ==
  /\ pc[p] = "sent"
  /\ Confirmed(fate[p]) => faults < MaxFaults
  /\ faults' = IF Confirmed(fate[p]) THEN faults + 1 ELSE faults
  /\ Mark(p, "FAILED")

\* The instance dies, or markFailed throws and ends the batch.
Crash(p) ==
  /\ pc[p] # "idle"
  /\ faults < MaxFaults
  /\ faults' = faults + 1
  /\ pc' = [pc EXCEPT ![p] = "idle"]
  /\ batch' = [batch EXCEPT ![p] = <<>>]
  /\ fresh' = [fresh EXCEPT ![p] = {}]
  /\ fate' = [fate EXCEPT ![p] = "none"]
  /\ UNCHANGED <<status, due, queued>>

Work(p) ==
  \/ Find(p)
  \/ Claim(p)
  \/ Skip(p)
  \/ \E f \in Fates, routed \in BOOLEAN : Send(p, f, routed)
  \/ MarkPublished(p)
  \/ MarkFailed(p)

Next ==
  /\ \/ \E e \in Events : Record(e) \/ BecomeDue(e)
     \/ \E p \in Publishers : Work(p) \/ Crash(p)
  /\ UNCHANGED mayStall

Spec == Init /\ [][Next]_vars

\* @Scheduled runs the publisher again and again, a batch ends, and time passes.
FairSpec ==
  /\ Spec
  /\ \A e \in Events : WF_vars(BecomeDue(e) /\ UNCHANGED mayStall)
  /\ \A p \in Publishers : WF_vars(Work(p) /\ UNCHANGED mayStall)

-----------------------------------------------------------------------------
(* Properties *)

\* Types of the table and of the publishers' local state; a batch respects the LIMIT.
TypeOK ==
  /\ mayStall \in BOOLEAN
  /\ status \in [Events -> PublishStatus \cup {"ABSENT"}]
  /\ due \subseteq Events
  /\ queued \subseteq Events
  /\ pc \in [Publishers -> {"idle", "found", "claimed", "sent"}]
  /\ batch \in [Publishers -> Seq(Events)]
  /\ \A p \in Publishers : Len(batch[p]) <= BatchSize
  /\ fresh \in [Publishers -> SUBSET Events]
  /\ fate \in [Publishers -> Fates]
  /\ faults \in 0 .. MaxFaults

Delivery == INSTANCE ReliableDelivery WITH
  recorded <- {e \in Events : status[e] # "ABSENT"},
  delivered <- queued,
  settled <- {e \in Events : status[e] = "PUBLISHED"}

\* A row is only marked PUBLISHED after the broker queued its message, and a
\* PUBLISHED row is never sent back to another state, whichever of two publishers
\* that both believe they hold the row marks it first.
ImplementsDelivery == Delivery!DeliverySpec

\* Publishers that keep within the stale limit never send one row side by side: the
\* one between its claim and its mark is alone and the row is still PUBLISHING, so
\* the mark, which names no owner, is its own.
HolderOwnsTheRow ==
  \A p \in Publishers, e \in Events :
    ~ mayStall /\ Holds(p, e) =>
      /\ status[e] = "PUBLISHING"
      /\ \A q \in Publishers \ {p} : ~ Holds(q, e)

\* Every committed event is published in the end, through lost confirms, returned
\* messages, crashes between send and mark, and claims abandoned by dead publishers.
EventuallyPublished ==
  \A e \in Events : status[e] = "PENDING" ~> status[e] = "PUBLISHED"

=============================================================================
