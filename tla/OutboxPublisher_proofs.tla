------------------------ MODULE OutboxPublisher_proofs ------------------------
(***************************************************************************)
(* Proofs about OutboxPublisher, for any rows, publishers, batch size and  *)
(* bound on faults, whether publishers may stall or not.                   *)
(***************************************************************************)
EXTENDS OutboxPublisher, TLAPS

\* A row that a batch may still claim is due: any statement on it ends that.
FreshIsPublishable == \A p \in Publishers : fresh[p] \subseteq Publishable

\* Rows are never removed, so what a batch has read is still there.
BatchIsRecorded ==
  \A p \in Publishers :
    /\ \A i \in DOMAIN batch[p] : status[batch[p][i]] # "ABSENT"
    /\ pc[p] # "idle" => batch[p] # <<>>

QueuedIsRecorded == \A e \in queued : status[e] # "ABSENT"

\* A publisher that was told of a delivery is right.
AckIsTrue == \A p \in Publishers : pc[p] = "sent" /\ fate[p] = "acked" => Head(batch[p]) \in queued

PublishedIsQueued == \A e \in Events : status[e] = "PUBLISHED" => e \in queued

\* Without stalls a row in hand is not due, so nobody else can claim it.
HeldIsNotDue ==
  ~ mayStall => \A p \in Publishers, e \in Events :
    Holds(p, e) => /\ status[e] = "PUBLISHING" /\ e \notin due
                   /\ \A q \in Publishers \ {p} : ~ Holds(q, e)

IInv ==
  /\ TypeOK
  /\ FreshIsPublishable
  /\ BatchIsRecorded
  /\ QueuedIsRecorded
  /\ AckIsTrue
  /\ PublishedIsQueued
  /\ HeldIsNotDue

-----------------------------------------------------------------------------

\* The row a publisher works on.
LEMMA HeadOfBatch ==
  ASSUME TypeOK, BatchIsRecorded, NEW p \in Publishers, pc[p] # "idle"
  PROVE  /\ Head(batch[p]) \in Events
         /\ status[Head(batch[p])] # "ABSENT"
         /\ Head(batch[p]) = batch[p][1]
         /\ Tail(batch[p]) \in Seq(Events) /\ Len(Tail(batch[p])) <= BatchSize
         /\ \A i \in DOMAIN Tail(batch[p]) :
              i + 1 \in DOMAIN batch[p] /\ Tail(batch[p])[i] = batch[p][i + 1]
<1>1. batch[p] \in Seq(Events) /\ batch[p] # <<>> /\ Len(batch[p]) <= BatchSize
  BY DEF TypeOK, BatchIsRecorded
<1>2. 1 \in DOMAIN batch[p] /\ Head(batch[p]) = batch[p][1] /\ Head(batch[p]) \in Events
  BY <1>1
<1>3. status[Head(batch[p])] # "ABSENT" BY <1>2 DEF BatchIsRecorded
<1>4. Tail(batch[p]) \in Seq(Events) /\ Len(Tail(batch[p])) = Len(batch[p]) - 1
  BY <1>1
<1>5. \A i \in DOMAIN Tail(batch[p]) :
        i + 1 \in DOMAIN batch[p] /\ Tail(batch[p])[i] = batch[p][i + 1]
  BY <1>1
<1> QED BY <1>1, <1>2, <1>3, <1>4, <1>5, PublisherAssumption

\* A new row.
LEMMA RecordStep ==
  ASSUME IInv, NEW e \in Events, Record(e), UNCHANGED mayStall PROVE IInv'
<1> USE DEF IInv, Record, publisherVars
<1>1. TypeOK' BY DEF TypeOK, PublishStatus
<1>2. FreshIsPublishable' BY DEF FreshIsPublishable, Publishable, TypeOK
<1>3. BatchIsRecorded'
  <2>1. \A p \in Publishers : \A i \in DOMAIN batch[p] : batch[p][i] \in Events
    BY DEF TypeOK
  <2> QED BY <2>1 DEF BatchIsRecorded, TypeOK
<1>4. QueuedIsRecorded' BY DEF QueuedIsRecorded, TypeOK
<1>5. AckIsTrue' BY DEF AckIsTrue
<1>6. PublishedIsQueued' BY DEF PublishedIsQueued, TypeOK
<1>7. HeldIsNotDue' BY DEF HeldIsNotDue, Holds, Working, TypeOK
<1> QED BY <1>1, <1>2, <1>3, <1>4, <1>5, <1>6, <1>7

\* Time passes for a row; without stalls, not for one in hand.
LEMMA BecomeDueStep ==
  ASSUME IInv, NEW e \in Events, BecomeDue(e), UNCHANGED mayStall PROVE IInv'
<1> USE DEF IInv, BecomeDue, publisherVars
<1>1. TypeOK' BY DEF TypeOK
<1>2. FreshIsPublishable' BY DEF FreshIsPublishable, Publishable
<1>3. BatchIsRecorded' BY DEF BatchIsRecorded
<1>4. QueuedIsRecorded' BY DEF QueuedIsRecorded
<1>5. AckIsTrue' BY DEF AckIsTrue
<1>6. PublishedIsQueued' BY DEF PublishedIsQueued
<1>7. HeldIsNotDue' BY DEF HeldIsNotDue, Holds, Working
<1> QED BY <1>1, <1>2, <1>3, <1>4, <1>5, <1>6, <1>7

\* A new batch holds publishable rows only, and at least one.
LEMMA FindStep ==
  ASSUME IInv, NEW p \in Publishers, Find(p), UNCHANGED mayStall PROVE IInv'
<1> USE DEF IInv
<1>1. PICK rows \in SeqOf(Publishable, BatchSize) :
        /\ Limited(rows)
        /\ batch' = [batch EXCEPT ![p] = rows]
        /\ fresh' = [fresh EXCEPT ![p] = ToSet(rows)]
  BY DEF Find
<1>2. PICK n \in 0 .. BatchSize : rows \in [1 .. n -> Publishable]
  BY <1>1 DEF SeqOf
<1>3. rows \in Seq(Publishable) /\ Len(rows) = n /\ DOMAIN rows = 1 .. n
  BY <1>2, PublisherAssumption
<1>4. Publishable \subseteq Events BY DEF Publishable, TypeOK
<1>5. rows \in Seq(Events) /\ Len(rows) <= BatchSize
  <2>1. rows \in [1 .. n -> Events] BY <1>2, <1>4
  <2>2. n \in Nat /\ n <= BatchSize BY PublisherAssumption
  <2>3. rows \in Seq(Events) BY <2>1, <2>2
  <2> QED BY <1>3, <2>2, <2>3
<1>6. ToSet(rows) \subseteq Publishable BY <1>2, <1>3 DEF ToSet
<1>7. rows # <<>>
  <2> SUFFICES ASSUME rows = <<>> PROVE FALSE OBVIOUS
  <2>1. ToSet(rows) = {} /\ Len(rows) = 0 BY DEF ToSet
  <2>2. PICK e \in Publishable : TRUE BY DEF Find
  <2>3. Len(rows) = BatchSize BY <1>1, <2>1, <2>2 DEF Limited
  <2> QED BY <2>1, <2>3, PublisherAssumption
<1>8. TypeOK' BY <1>1, <1>4, <1>5, <1>6 DEF TypeOK, Find
<1>9. FreshIsPublishable' BY <1>1, <1>6 DEF FreshIsPublishable, Publishable, Find, TypeOK
<1>10. BatchIsRecorded'
  <2>1. \A i \in DOMAIN rows : status[rows[i]] # "ABSENT" BY <1>2, <1>3 DEF Publishable
  <2> QED BY <1>1, <1>7, <2>1 DEF BatchIsRecorded, Find, TypeOK
<1>11. QueuedIsRecorded' BY DEF QueuedIsRecorded, Find
<1>12. AckIsTrue' BY <1>1 DEF AckIsTrue, Find, TypeOK
<1>13. PublishedIsQueued' BY DEF PublishedIsQueued, Find
<1>14. HeldIsNotDue' BY <1>1 DEF HeldIsNotDue, Holds, Working, Find, TypeOK
<1> QED BY <1>8, <1>9, <1>10, <1>11, <1>12, <1>13, <1>14

\* A claimed row was due, so no live publisher had it.
LEMMA ClaimStep ==
  ASSUME IInv, NEW p \in Publishers, Claim(p), UNCHANGED mayStall PROVE IInv'
<1> DEFINE e == Head(batch[p])
<1> USE DEF IInv
<1>1. e \in Events /\ status[e] # "ABSENT" BY HeadOfBatch DEF Claim
<1>2. e \in due /\ status[e] \in {"PENDING", "FAILED", "PUBLISHING"}
  BY DEF Claim, CanClaim, FreshIsPublishable, Publishable
<1>3. /\ status' = [status EXCEPT ![e] = "PUBLISHING"]
      /\ due' = due \ {e}
      /\ fresh' = [q \in Publishers |-> fresh[q] \ {e}]
      /\ pc' = [pc EXCEPT ![p] = "claimed"]
      /\ UNCHANGED <<queued, batch, fate, faults>>
  BY DEF Claim, Touch
<1> HIDE DEF e
<1>4. TypeOK' BY <1>1, <1>3 DEF TypeOK, PublishStatus
<1>5. FreshIsPublishable' BY <1>1, <1>3 DEF FreshIsPublishable, Publishable, TypeOK
<1>6. BatchIsRecorded'
  <2>1. pc[p] = "found" BY DEF Claim
  <2> QED BY <1>1, <1>3, <2>1 DEF BatchIsRecorded, TypeOK
<1>7. QueuedIsRecorded' BY <1>1, <1>3 DEF QueuedIsRecorded, TypeOK
<1>8. AckIsTrue' BY <1>3 DEF AckIsTrue, TypeOK
<1>9. PublishedIsQueued' BY <1>1, <1>3 DEF PublishedIsQueued, TypeOK
<1>10. HeldIsNotDue'
  <2> SUFFICES ASSUME ~ mayStall, NEW q \in Publishers, NEW f \in Events, Holds(q, f)'
               PROVE  /\ status'[f] = "PUBLISHING" /\ f \notin due'
                      /\ \A r \in Publishers \ {q} : ~ Holds(r, f)'
    BY DEF HeldIsNotDue
  <2>1. \A r \in Publishers : ~ Holds(r, e) BY <1>1, <1>2 DEF HeldIsNotDue
  <2>2. \A r \in Publishers, g \in Events : Holds(r, g)' <=> (r = p /\ g = e) \/ Holds(r, g)
    BY <1>1, <1>3 DEF Holds, Working, TypeOK, Claim, e
  <2> QED BY <1>1, <1>3, <2>1, <2>2 DEF HeldIsNotDue, TypeOK
<1> QED BY <1>4, <1>5, <1>6, <1>7, <1>8, <1>9, <1>10

\* What a publisher goes on with.
LEMMA AdvanceStep ==
  ASSUME TypeOK, BatchIsRecorded, NEW p \in Publishers, pc[p] # "idle", Advance(p)
  PROVE  /\ pc' \in [Publishers -> {"idle", "found", "claimed", "sent"}]
         /\ batch' \in [Publishers -> Seq(Events)]
         /\ \A q \in Publishers : Len(batch'[q]) <= BatchSize
         /\ pc'[p] \in {"idle", "found"}
         /\ \A q \in Publishers :
              /\ pc'[q] # "idle" => batch'[q] # <<>>
              /\ \A i \in DOMAIN batch'[q] : status[batch'[q][i]] # "ABSENT"
         /\ \A q \in Publishers \ {p} : pc'[q] = pc[q] /\ batch'[q] = batch[q]
<1> DEFINE rest == Tail(batch[p])
<1>1. rest \in Seq(Events) /\ Len(rest) <= BatchSize BY HeadOfBatch
<1>2. \A i \in DOMAIN rest : status[rest[i]] # "ABSENT" BY HeadOfBatch DEF BatchIsRecorded
<1>3. /\ pc' = [pc EXCEPT ![p] = IF rest = <<>> THEN "idle" ELSE "found"]
      /\ batch' = [batch EXCEPT ![p] = rest]
  BY DEF Advance
<1> HIDE DEF rest
<1> QED BY <1>1, <1>2, <1>3 DEF TypeOK, BatchIsRecorded

\* A row another publisher changed first is left alone.
LEMMA SkipStep ==
  ASSUME IInv, NEW p \in Publishers, Skip(p), UNCHANGED mayStall PROVE IInv'
<1> USE AdvanceStep DEF IInv, Skip
<1>1. TypeOK' BY DEF TypeOK
<1>2. FreshIsPublishable' BY DEF FreshIsPublishable, Publishable
<1>3. BatchIsRecorded' BY DEF BatchIsRecorded
<1>4. QueuedIsRecorded' BY DEF QueuedIsRecorded
<1>5. AckIsTrue' BY DEF AckIsTrue
<1>6. PublishedIsQueued' BY DEF PublishedIsQueued
<1>7. HeldIsNotDue'
  <2>1. \A q \in Publishers, f \in Events : Holds(q, f)' => Holds(q, f)
    BY DEF Holds, Working
  <2> QED BY <2>1 DEF HeldIsNotDue
<1> QED BY <1>1, <1>2, <1>3, <1>4, <1>5, <1>6, <1>7

\* A message is queued before its confirm, if it is.
LEMMA SendStep ==
  ASSUME IInv, NEW p \in Publishers, NEW f \in Fates, NEW routed \in BOOLEAN,
         Send(p, f, routed), UNCHANGED mayStall
  PROVE  IInv'
<1> USE DEF IInv
<1>1. Head(batch[p]) \in Events /\ status[Head(batch[p])] # "ABSENT" BY HeadOfBatch DEF Send
<1>2. TypeOK'
  <2>1. faults' \in 0 .. MaxFaults BY PublisherAssumption DEF TypeOK, Send
  <2>2. queued' \subseteq Events BY <1>1 DEF TypeOK, Send
  <2>3. /\ pc' \in [Publishers -> {"idle", "found", "claimed", "sent"}]
        /\ fate' \in [Publishers -> Fates]
    BY DEF TypeOK, Send
  <2> QED BY <2>1, <2>2, <2>3 DEF TypeOK, Send
<1>3. FreshIsPublishable' BY DEF FreshIsPublishable, Publishable, Send
<1>4. BatchIsRecorded' BY DEF BatchIsRecorded, TypeOK, Send
<1>5. QueuedIsRecorded' BY <1>1 DEF QueuedIsRecorded, Send
<1>6. AckIsTrue' BY DEF AckIsTrue, TypeOK, Send
<1>7. PublishedIsQueued' BY DEF PublishedIsQueued, Send
<1>8. HeldIsNotDue'
  <2>1. \A q \in Publishers, e \in Events : Holds(q, e)' => Holds(q, e)
    BY DEF Holds, Working, TypeOK, Send
  <2> QED BY <2>1 DEF HeldIsNotDue, Send
<1> QED BY <1>2, <1>3, <1>4, <1>5, <1>6, <1>7, <1>8

\* A mark changes a row that is PUBLISHING, and its publisher lets it go.
LEMMA MarkStep ==
  ASSUME IInv, NEW p \in Publishers, MarkPublished(p) \/ MarkFailed(p), UNCHANGED mayStall
  PROVE  IInv'
<1> DEFINE e == Head(batch[p])
<1> USE DEF IInv
<1>1. pc[p] = "sent" BY DEF MarkPublished, MarkFailed
<1>2. e \in Events /\ status[e] # "ABSENT" BY <1>1, HeadOfBatch
<1>3. PICK new \in {"PUBLISHED", "FAILED"} :
        Mark(p, new) /\ (new = "PUBLISHED" => fate[p] = "acked")
  BY DEF MarkPublished, MarkFailed, Confirmed
<1>4. new = "PUBLISHED" => e \in queued BY <1>1, <1>3 DEF AckIsTrue
<1>5. faults' \in 0 .. MaxFaults
  BY PublisherAssumption DEF MarkPublished, MarkFailed, TypeOK
<1>6. /\ \/ /\ status[e] = "PUBLISHING"
            /\ status' = [status EXCEPT ![e] = new]
            /\ due' = due \ {e}
            /\ fresh' = [q \in Publishers |-> fresh[q] \ {e}]
         \/ UNCHANGED <<status, due, fresh>>
      /\ Advance(p)
      /\ fate' = [fate EXCEPT ![p] = "none"]
      /\ UNCHANGED queued
  BY <1>3 DEF Mark, Touch
<1>7. /\ pc' \in [Publishers -> {"idle", "found", "claimed", "sent"}]
      /\ batch' \in [Publishers -> Seq(Events)]
      /\ \A q \in Publishers : Len(batch'[q]) <= BatchSize
      /\ pc'[p] \in {"idle", "found"}
      /\ \A q \in Publishers :
           /\ pc'[q] # "idle" => batch'[q] # <<>>
           /\ \A i \in DOMAIN batch'[q] : status[batch'[q][i]] # "ABSENT"
      /\ \A q \in Publishers \ {p} : pc'[q] = pc[q] /\ batch'[q] = batch[q]
  BY <1>1, <1>6, AdvanceStep
<1> HIDE DEF e
<1>8. TypeOK'
  <2>1. status' \in [Events -> PublishStatus \cup {"ABSENT"}] /\ due' \subseteq Events
    BY <1>2, <1>6 DEF TypeOK, PublishStatus
  <2>2. fresh' \in [Publishers -> SUBSET Events] BY <1>6 DEF TypeOK
  <2>3. fate' \in [Publishers -> Fates] BY <1>6 DEF TypeOK, Fates
  <2> QED BY <1>5, <1>6, <1>7, <2>1, <2>2, <2>3 DEF TypeOK
<1>9. FreshIsPublishable' BY <1>2, <1>6 DEF FreshIsPublishable, Publishable, TypeOK
<1>10. BatchIsRecorded'
  <2>1. \A f \in Events : status[f] # "ABSENT" => status'[f] # "ABSENT"
    BY <1>2, <1>6 DEF TypeOK
  <2>2. \A q \in Publishers : \A i \in DOMAIN batch'[q] : batch'[q][i] \in Events
    BY <1>7
  <2> QED BY <1>7, <2>1, <2>2 DEF BatchIsRecorded
<1>11. QueuedIsRecorded' BY <1>2, <1>6 DEF QueuedIsRecorded, TypeOK
<1>12. AckIsTrue' BY <1>6, <1>7 DEF AckIsTrue, TypeOK
<1>13. PublishedIsQueued' BY <1>2, <1>4, <1>6 DEF PublishedIsQueued, TypeOK
<1>14. HeldIsNotDue'
  <2> SUFFICES ASSUME ~ mayStall, NEW q \in Publishers, NEW f \in Events, Holds(q, f)'
               PROVE  /\ status'[f] = "PUBLISHING" /\ f \notin due'
                      /\ \A r \in Publishers \ {q} : ~ Holds(r, f)'
    BY DEF HeldIsNotDue
  <2>1. \A r \in Publishers, g \in Events : Holds(r, g)' => r # p /\ Holds(r, g)
    BY <1>7 DEF Holds, Working
  <2>2. Holds(p, e) BY <1>1 DEF Holds, Working, e
  <2>3. f # e BY <1>2, <2>1, <2>2 DEF HeldIsNotDue
  <2> QED BY <1>2, <1>6, <2>1, <2>3 DEF HeldIsNotDue, TypeOK
<1> QED BY <1>8, <1>9, <1>10, <1>11, <1>12, <1>13, <1>14

\* A dead publisher leaves its row as it is.
LEMMA CrashStep ==
  ASSUME IInv, NEW p \in Publishers, Crash(p), UNCHANGED mayStall PROVE IInv'
<1> USE DEF IInv, Crash
<1>1. TypeOK' BY PublisherAssumption DEF TypeOK, Fates
<1>2. FreshIsPublishable' BY DEF FreshIsPublishable, Publishable, TypeOK
<1>3. BatchIsRecorded' BY DEF BatchIsRecorded, TypeOK
<1>4. QueuedIsRecorded' BY DEF QueuedIsRecorded
<1>5. AckIsTrue' BY DEF AckIsTrue, TypeOK
<1>6. PublishedIsQueued' BY DEF PublishedIsQueued
<1>7. HeldIsNotDue' BY DEF HeldIsNotDue, Holds, Working, TypeOK
<1> QED BY <1>1, <1>2, <1>3, <1>4, <1>5, <1>6, <1>7

\* The invariant holds of every behaviour, for any constants.
THEOREM Invariance == Spec => []IInv
<1>1. Init => IInv
  BY PublisherAssumption DEF Init, IInv, TypeOK, FreshIsPublishable, BatchIsRecorded,
     QueuedIsRecorded, AckIsTrue, PublishedIsQueued, HeldIsNotDue, Holds, Working, Publishable,
     PublishStatus, Fates
<1>2. IInv /\ [Next]_vars => IInv'
  <2> SUFFICES ASSUME IInv, [Next]_vars PROVE IInv' OBVIOUS
  <2>1. CASE Next
    BY <2>1, RecordStep, BecomeDueStep, FindStep, ClaimStep, SkipStep, SendStep, MarkStep,
       CrashStep DEF Next, Work
  <2>2. CASE UNCHANGED vars
    BY <2>2 DEF vars, publisherVars, IInv, TypeOK, FreshIsPublishable, BatchIsRecorded,
       QueuedIsRecorded, AckIsTrue, PublishedIsQueued, HeldIsNotDue, Holds, Working, Publishable
  <2> QED BY <2>1, <2>2
<1> QED BY <1>1, <1>2, PTL DEF Spec

-----------------------------------------------------------------------------

\* A table's rows, and what the publishers hold, have their types.
THEOREM TypeCorrect == Spec => []TypeOK
<1>1. IInv => TypeOK BY DEF IInv
<1> QED BY <1>1, Invariance, PTL

\* Publishers that keep within the stale limit never send one row side by side, and each
\* marks a row that is still its own.
THEOREM OneHolder == Spec => []HolderOwnsTheRow
<1>1. IInv => HolderOwnsTheRow BY DEF IInv, HeldIsNotDue, HolderOwnsTheRow
<1> QED BY <1>1, Invariance, PTL

-----------------------------------------------------------------------------
(* OutboxPublisher implements ReliableDelivery *)

Recorded == {e \in Events : status[e] # "ABSENT"}
Settled == {e \in Events : status[e] = "PUBLISHED"}

\* No statement touches a row that is PUBLISHED, or takes a row away.
LEMMA RowsSettle ==
  ASSUME IInv, NEW p \in Publishers,
         Claim(p) \/ MarkPublished(p) \/ MarkFailed(p)
  PROVE  /\ UNCHANGED <<Recorded, queued>>
         /\ \/ UNCHANGED Settled
            \/ Head(batch[p]) \in queued /\ Settled' = Settled \cup {Head(batch[p])}
<1> DEFINE e == Head(batch[p])
<1> USE DEF IInv
<1>1. e \in Events /\ status[e] # "ABSENT"
  BY HeadOfBatch DEF Claim, MarkPublished, MarkFailed
<1>2. UNCHANGED queued BY DEF Claim, MarkPublished, MarkFailed, Mark
<1>3. \/ UNCHANGED status
      \/ /\ status[e] # "PUBLISHED"
         /\ \E new \in {"PUBLISHING", "PUBLISHED", "FAILED"} :
              /\ status' = [status EXCEPT ![e] = new]
              /\ new = "PUBLISHED" => e \in queued
  BY DEF Claim, CanClaim, FreshIsPublishable, Publishable, MarkPublished, MarkFailed, Mark,
         Touch, AckIsTrue, Confirmed
<1> HIDE DEF e
<1>4. UNCHANGED Recorded BY <1>1, <1>3 DEF Recorded, TypeOK
<1>5. UNCHANGED Settled \/ (e \in queued /\ Settled' = Settled \cup {e})
  BY <1>1, <1>3 DEF Settled, TypeOK
<1> QED BY <1>2, <1>4, <1>5 DEF e

\* Every recorded event is delivered at least once before it is given up, whatever
\* publishers crash, stall, or mark each other's rows.
THEOREM Refinement == Spec => ImplementsDelivery
<1>1. Init => Delivery!DeliveryInit
  BY DEF Init, Delivery!DeliveryInit
<1>2. IInv /\ [Next]_vars => [Delivery!DeliveryNext]_(Delivery!deliveryVars)
  <2> SUFFICES ASSUME IInv, [Next]_vars
               PROVE  \/ UNCHANGED <<Recorded, queued, Settled>>
                      \/ \E e \in Events :
                          \/ Recorded' = Recorded \cup {e} /\ UNCHANGED <<queued, Settled>>
                          \/ /\ e \in Recorded /\ queued' = queued \cup {e}
                             /\ UNCHANGED <<Recorded, Settled>>
                          \/ /\ e \in queued /\ Settled' = Settled \cup {e}
                             /\ UNCHANGED <<Recorded, queued>>
    BY DEF Delivery!DeliveryNext, Delivery!deliveryVars, Delivery!RecordEvent,
           Delivery!Deliver, Delivery!Settle, Recorded, Settled
  <2> USE DEF IInv
  <2>1. ASSUME NEW e \in Events, Record(e)
        PROVE  Recorded' = Recorded \cup {e} /\ UNCHANGED <<queued, Settled>>
    BY <2>1 DEF Record, Recorded, Settled, TypeOK
  <2>2. ASSUME NEW e \in Events, BecomeDue(e) PROVE UNCHANGED <<Recorded, queued, Settled>>
    BY <2>2 DEF BecomeDue, Recorded, Settled
  <2>3. ASSUME NEW p \in Publishers, Find(p) \/ Skip(p) \/ Crash(p)
        PROVE  UNCHANGED <<Recorded, queued, Settled>>
    BY <2>3 DEF Find, Skip, Crash, Recorded, Settled
  <2>4. ASSUME NEW p \in Publishers, NEW f \in Fates, NEW routed \in BOOLEAN, Send(p, f, routed)
        PROVE  /\ UNCHANGED <<Recorded, Settled>>
               /\ queued' = queued \/ (Head(batch[p]) \in Recorded /\
                                       queued' = queued \cup {Head(batch[p])})
    BY <2>4, HeadOfBatch DEF Send, Recorded, Settled
  <2>5. Recorded \subseteq Events /\ queued \subseteq Events BY DEF Recorded, TypeOK
  <2>6. CASE UNCHANGED vars BY <2>6 DEF vars, Recorded, Settled
  <2> QED BY <2>1, <2>2, <2>3, <2>4, <2>5, <2>6, RowsSettle DEF Next, Work
<1> QED BY <1>1, <1>2, Invariance, PTL DEF Spec, ImplementsDelivery, Delivery!DeliverySpec
===============================================================================
