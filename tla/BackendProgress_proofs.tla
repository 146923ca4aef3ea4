------------------------ MODULE BackendProgress_proofs ------------------------
(***************************************************************************)
(* Proofs about DispatchTrigger, for any orders, scanners, administrators  *)
(* and batch sizes, and about DeviceBindingSaga, for any devices, users,   *)
(* request ids, concurrent calls, consumers and faults.  Of the saga, what *)
(* holds whatever administrators do comes first; then what holds as long as *)
(* they leave alone whether a device is in use.                            *)
(***************************************************************************)
EXTENDS DeviceBindingSaga, DispatchTrigger, TLAPS

-------------------------------------------------------------------------------
(* DispatchTrigger *)

\* No timeout event, inserted or about to be, is ahead of its order's deadline; a scanner
\* only has expired orders in hand, which DispatchType says of its batch.
TriggerInv == DispatchType /\ WindowIsRespected

-----------------------------------------------------------------------------
(* Lemmas *)

\* The transition table leads from one status to another.
LEMMA TargetIsStatus ==
  ASSUME NEW s \in DatabaseStatus, NEW event, CanTransition(s, event)
  PROVE  TargetStatus(s, event) \in DatabaseStatus
BY DEF CanTransition, TargetStatus, FromDatabase, Transitions, DatabaseStatus,
       MaintainOrderStatus

\* Orders move from status to status, and only assignments name a worker.
LEMMA OrderTypes ==
  ASSUME DispatchType, NEW o \in Orders,
         \/ Create(o)
         \/ \E event : Fire(o, event)
         \/ \E w \in Workers : \E event : Assign(o, w, event)
  PROVE  /\ stage' \in [Orders -> DatabaseStatus]
         /\ assignee' \in [Orders -> Workers \cup {NoWorker}]
<1>1. stage[o] \in DatabaseStatus BY DEF DispatchType
<1>2. CASE Create(o)
  BY <1>2 DEF Create, DispatchType, DatabaseStatus, MaintainOrderStatus
<1>3. CASE \E event : Fire(o, event)
  <2>1. PICK event : Fire(o, event) BY <1>3
  <2>2. TargetStatus(stage[o], event) \in DatabaseStatus BY <1>1, <2>1, TargetIsStatus DEF Fire
  <2> QED BY <2>1, <2>2 DEF Fire, DispatchType
<1>4. CASE \E w \in Workers : \E event : Assign(o, w, event)
  <2>1. PICK w \in Workers : \E event : Assign(o, w, event) BY <1>4
  <2>2. PICK event : Assign(o, w, event) BY <2>1
  <2>3. TargetStatus(stage[o], event) \in DatabaseStatus
    BY <1>1, <2>2, TargetIsStatus DEF Assign
  <2> QED BY <2>2, <2>3 DEF Assign, DispatchType
<1> QED BY <1>2, <1>3, <1>4

\* Deadlines keep their place and do not come back: who has expired stays so.
LEMMA ExpiredStays ==
  ASSUME DispatchType, NEW o,
         \/ deadlines' = deadlines
         \/ \E p \in Orders : deadlines' = Append(deadlines, p),
         passed' \in Nat, passed <= passed'
  PROVE  Expired(o) => Expired(o)'
<1>1. \A i \in 1 .. passed : i \in 1 .. passed' /\ deadlines'[i] = deadlines[i]
  BY DEF DispatchType
<1> QED BY <1>1 DEF Expired

\* The events a caller has read for, or none, are all that a step adds.
LEMMA WindowStays ==
  ASSUME TriggerInv, NEW e,
         \/ deadlines' = deadlines
         \/ \E p \in Orders : deadlines' = Append(deadlines, p),
         passed' \in Nat, passed <= passed',
         \A f \in events' \cup {insert'[p] : p \in Callers} :
           \/ f \in events \cup {insert[p] : p \in Callers}
           \/ f = e,
         e # NoEvent /\ e.trigger = "claim_timeout" => Expired(e.order)'
  PROVE  WindowIsRespected'
<1> SUFFICES ASSUME NEW f \in events' \cup {insert'[p] : p \in Callers},
                    f # NoEvent, f.trigger = "claim_timeout"
             PROVE  Expired(f.order)'
  BY DEF WindowIsRespected
<1>1. CASE f \in events \cup {insert[p] : p \in Callers}
  <2>1. Expired(f.order) BY <1>1 DEF TriggerInv, WindowIsRespected
  <2> QED BY <2>1, ExpiredStays DEF TriggerInv
<1>2. CASE f = e BY <1>2
<1> QED BY <1>1, <1>2

-----------------------------------------------------------------------------
(* The steps *)

\* An approval appends a deadline and may record an urgent event.
LEMMA ApproveStep ==
  ASSUME TriggerInv, NEW o \in Orders, Approve(o) PROVE TriggerInv'
<1> DEFINE event == [order |-> o, trigger |-> "urgent", source |-> "approval"]
<1>1. /\ deadlines' = Append(deadlines, o) /\ UNCHANGED <<passed, batch, insert>>
      /\ events' \subseteq events \cup {event}
  BY DEF Approve
<1>2. event \in Events BY DEF Events, Sources
<1>3. /\ deadlines' \in Seq(Orders) /\ Len(deadlines') = Len(deadlines) + 1
      /\ passed \in Nat /\ passed <= Len(deadlines) /\ Len(deadlines) \in Nat
  BY <1>1 DEF TriggerInv, DispatchType
<1>4. /\ stage' \in [Orders -> DatabaseStatus]
      /\ assignee' \in [Orders -> Workers \cup {NoWorker}]
  BY OrderTypes DEF Approve, TriggerInv
<1>5. passed' \in 0 .. Len(deadlines') BY <1>1, <1>3
<1>6. DispatchType' BY <1>1, <1>2, <1>4, <1>3, <1>5 DEF TriggerInv, DispatchType
<1>7. event.trigger # "claim_timeout" OBVIOUS
<1> HIDE DEF event
<1>8. WindowIsRespected' BY <1>1, <1>3, <1>7, WindowStays
<1> QED BY <1>6, <1>8 DEF TriggerInv

\* A timeout event is read for an order in hand, which has expired.
LEMMA TriggerNextStep ==
  ASSUME TriggerInv, NEW s \in Scanners, TriggerNext(s) PROVE TriggerInv'
<1>1. PICK i \in batch[s] :
        /\ insert' = [insert EXCEPT ![s] = TimeoutEvent(s, deadlines[i])]
        /\ batch' = [batch EXCEPT ![s] = batch[s] \ {i}]
  BY DEF TriggerNext, TriggerInv, DispatchType
<1>2. PICK e : e = TimeoutEvent(s, deadlines[i]) OBVIOUS
<1>3. i \in 1 .. passed /\ passed \in Nat /\ passed <= Len(deadlines) /\ deadlines[i] \in Orders
  BY DEF TriggerInv, DispatchType
<1>4. /\ e \in Events \cup {NoEvent}
      /\ e # NoEvent => e.order = deadlines[i]
  BY <1>2, <1>3 DEF TimeoutEvent, Events, Sources
<1>5. e # NoEvent => Expired(e.order) BY <1>3, <1>4 DEF Expired
<1>6. UNCHANGED <<lifecycleVars, deadlines, passed, events>> BY DEF TriggerNext
<1>7. insert' \in [Callers -> Events \cup {NoEvent}]
      /\ \A p \in Callers : insert'[p] \in {insert[p], e}
  BY <1>1, <1>2, <1>4 DEF TriggerInv, DispatchType
<1>8. batch' \in [Scanners -> SUBSET (1 .. passed)] BY <1>1 DEF TriggerInv, DispatchType
<1>9. DispatchType' BY <1>6, <1>7, <1>8 DEF TriggerInv, DispatchType, lifecycleVars
<1>10. WindowIsRespected'
  <2>1. e # NoEvent /\ e.trigger = "claim_timeout" => Expired(e.order)'
    BY <1>5, <1>6 DEF Expired
  <2> QED BY <1>3, <1>6, <1>7, <2>1, WindowStays
<1> QED BY <1>9, <1>10 DEF TriggerInv

\* An administrator's event is no timeout event.
LEMMA TriggerManuallyStep ==
  ASSUME TriggerInv, NEW a \in DispatchAdmins, NEW o \in Orders, NEW key \in AdminKeys,
         TriggerManually(a, o, key)
  PROVE  TriggerInv'
<1> DEFINE e == [order |-> o, trigger |-> "manual", source |-> key]
<1>1. e \in Events /\ e.trigger # "claim_timeout" BY DEF Events, Sources
<1>2. /\ insert' = [insert EXCEPT ![a] = e]
      /\ UNCHANGED <<lifecycleVars, deadlines, passed, events, batch>>
  BY DEF TriggerManually
<1> HIDE DEF e
<1>3. insert' \in [Callers -> Events \cup {NoEvent}]
      /\ \A p \in Callers : insert'[p] \in {insert[p], e}
  BY <1>1, <1>2 DEF TriggerInv, DispatchType
<1>4. DispatchType' BY <1>2, <1>3 DEF TriggerInv, DispatchType, lifecycleVars
<1>5. WindowIsRespected'
  <2>1. passed \in Nat BY DEF TriggerInv, DispatchType
  <2> QED BY <1>1, <1>2, <1>3, <2>1, WindowStays
<1> QED BY <1>4, <1>5 DEF TriggerInv

\* The other steps record no event that was not read for.
LEMMA OtherTriggerStep ==
  ASSUME TriggerInv,
         \/ \E o \in Orders : OrderMoves(o)
         \/ DeadlinePasses
         \/ \E s \in Scanners : Scan(s)
         \/ \E p \in Callers : InsertEvent(p)
         \/ UNCHANGED dispatchVars
  PROVE  TriggerInv'
<1>0. passed \in Nat /\ passed <= Len(deadlines) /\ Len(deadlines) \in Nat
  BY DEF TriggerInv, DispatchType
<1>1. ASSUME NEW o \in Orders, OrderMoves(o) PROVE TriggerInv'
  <2>1. /\ stage' \in [Orders -> DatabaseStatus]
        /\ assignee' \in [Orders -> Workers \cup {NoWorker}]
    BY <1>1, OrderTypes DEF OrderMoves, TriggerInv
  <2> QED BY <1>1, <2>1 DEF OrderMoves, triggerVars, TriggerInv, DispatchType, WindowIsRespected, Expired
<1>2. CASE DeadlinePasses
  <2>1. /\ passed' = passed + 1 /\ passed' \in 0 .. Len(deadlines) /\ passed <= passed'
        /\ UNCHANGED <<lifecycleVars, deadlines, events, batch, insert>>
    BY <1>0, <1>2 DEF DeadlinePasses
  <2>2. batch' \in [Scanners -> SUBSET (1 .. passed')]
    <3>1. 1 .. passed \subseteq 1 .. passed' BY <1>0, <2>1
    <3> QED BY <2>1, <3>1 DEF TriggerInv, DispatchType
  <2>3. DispatchType' BY <2>1, <2>2 DEF TriggerInv, DispatchType, lifecycleVars
  <2>4. WindowIsRespected' BY <2>1, WindowStays
  <2> QED BY <2>3, <2>4 DEF TriggerInv
<1>3. ASSUME NEW s \in Scanners, Scan(s) PROVE TriggerInv'
  <2>1. FirstBatch(ExpiredUnclaimed) \subseteq 1 .. passed BY DEF FirstBatch, ExpiredUnclaimed
  <2>2. batch' \in [Scanners -> SUBSET (1 .. passed)] BY <1>3, <2>1 DEF Scan, TriggerInv, DispatchType
  <2>3. DispatchType' BY <1>3, <2>2 DEF Scan, TriggerInv, DispatchType, lifecycleVars
  <2> QED BY <1>3, <2>3 DEF Scan, TriggerInv, WindowIsRespected, Expired
<1>4. ASSUME NEW p \in Callers, InsertEvent(p) PROVE TriggerInv'
  <2>1. /\ insert[p] \in Events /\ events' = events \cup {insert[p]}
        /\ insert' = [insert EXCEPT ![p] = NoEvent]
        /\ UNCHANGED <<lifecycleVars, deadlines, passed, batch>>
    BY <1>4 DEF InsertEvent, TriggerInv, DispatchType
  <2>2. DispatchType' BY <2>1 DEF TriggerInv, DispatchType, lifecycleVars
  <2>3. \A q \in Callers : insert'[q] \in {insert[q], NoEvent} BY <2>1 DEF TriggerInv, DispatchType
  <2>4. WindowIsRespected' BY <1>0, <2>1, <2>3, WindowStays
  <2> QED BY <2>2, <2>4 DEF TriggerInv
<1>5. CASE UNCHANGED dispatchVars
  BY <1>5 DEF dispatchVars, triggerVars, lifecycleVars, TriggerInv, DispatchType, WindowIsRespected, Expired
<1> QED BY <1>1, <1>2, <1>3, <1>4, <1>5

\* At first nothing is approved, so nothing expires and nothing is recorded.
LEMMA InitTriggers == DispatchInit => TriggerInv
<1> SUFFICES ASSUME DispatchInit PROVE TriggerInv OBVIOUS
<1>1. DispatchType
  BY DEF DispatchInit, LifecycleInit, DispatchType, DatabaseStatus, MaintainOrderStatus
<1>2. WindowIsRespected BY DEF DispatchInit, WindowIsRespected
<1> QED BY <1>1, <1>2 DEF TriggerInv

-----------------------------------------------------------------------------
(* Theorems *)

\* The invariant holds in every reachable state.
THEOREM TriggerInvariance == DispatchSpec => []TriggerInv
<1>1. TriggerInv /\ [DispatchNext]_dispatchVars => TriggerInv'
  BY ApproveStep, TriggerNextStep, TriggerManuallyStep, OtherTriggerStep DEF DispatchNext
<1> QED BY <1>1, InitTriggers, PTL DEF DispatchSpec

\* The order rows, deadlines, outbox rows and callers' state are well formed.
THEOREM TriggerTypeCorrect == DispatchSpec => []DispatchType
<1>1. TriggerInv => DispatchType BY DEF TriggerInv
<1> QED BY <1>1, TriggerInvariance, PTL

\* No order is handed to automatic dispatch for a deadline that has not passed, whatever
\* scanners, administrators and repairmen do at once.
THEOREM WindowRespected == DispatchSpec => []WindowIsRespected
<1>1. TriggerInv => WindowIsRespected BY DEF TriggerInv
<1> QED BY <1>1, TriggerInvariance, PTL

-------------------------------------------------------------------------------
(* DeviceBindingSaga *)

FormStatus == {"IDLE", "IN_USE", "OTHER"}

EditType == edit \in [Admins -> {NoEdit} \cup [device : SUBSET Devices, status : FormStatus]]

Asked == {m.id : m \in requests}

\* Transactions of thread t by their kind.
Requesting(t) == txn[t] # NoTransaction /\ txn[t].kind = "request"
Handling(t) == txn[t] # NoTransaction /\ txn[t].kind = "handle"
Applying(t) == txn[t] # NoTransaction /\ txn[t].kind = "apply"

\* What a consumer works on was asked for, and decided, before.
ConsumedWasSent ==
  \A t \in Threads :
    /\ Handling(t) => txn[t].message \in requests
    /\ Applying(t) => txn[t].outcome \in commands

\* Request ids name one request, and a request has one command.
RequestsAreUnique == \A m, n \in requests : m.id = n.id => m = n

CommandsAreUnique ==
  /\ \A c \in commands : c.request \in requests
  /\ \A b, c \in commands : b.request.id = c.request.id => b = c

\* A request the device side has not decided is the one its relation waits for.
UnhandledIsPending ==
  \A m \in requests : ~ Handled(m) =>
    /\ relation[m.device] # NoRelation
    /\ relation[m.device].request = m.id
    /\ relation[m.device].status = Pending(m)

\* A row id, once used, stays with one user: what a call has read of a row still
\* tells whose it is.
RowIsOneUsers ==
  /\ \A d \in Devices : relation[d] # NoRelation => relation[d].row \in Asked \cup {NoRequest}
  /\ \A t \in Threads : Requesting(t) /\ txn[t].seen # NoRelation =>
       /\ txn[t].seen.row \in Asked \cup {NoRequest}
       /\ LET r == relation[txn[t].message.device]
          IN r # NoRelation /\ r.row = txn[t].seen.row => r.user = txn[t].seen.user

\* A relation never waits for an answer that cannot come: its pending request is in the
\* outbox under the same user, device and kind, whatever administrators do to the device.
PendingWasRequested ==
  \A d \in Devices :
    relation[d] # NoRelation /\ relation[d].status \in {"PENDING_BIND", "PENDING_UNBIND"} =>
      \E m \in requests :
        /\ m.id = relation[d].request
        /\ m.user = relation[d].user /\ m.device = d /\ Pending(m) = relation[d].status

SagaInv ==
  /\ TypeOK
  /\ EditType
  /\ ConsumedWasSent
  /\ RequestsAreUnique
  /\ CommandsAreUnique
  /\ PendingWasRequested
  /\ UnhandledIsPending
  /\ RowIsOneUsers

-----------------------------------------------------------------------------
(* Lemmas about the records *)

\* What a transaction holds, by its kind.
LEMMA TransactionFields ==
  ASSUME TypeOK, NEW t \in Threads
  PROVE  /\ Requesting(t) \/ Handling(t) =>
              txn[t].message \in Message /\ txn[t].seen \in Relations
         /\ Applying(t) => txn[t].outcome \in Outcome /\ txn[t].seen \in Relation
         /\ txn[t] = NoTransaction \/ Requesting(t) \/ Handling(t) \/ Applying(t)
<1>1. txn[t] \in Transaction \cup {NoTransaction} BY DEF TypeOK
<1> QED BY <1>1 DEF Transaction, Requesting, Handling, Applying

\* Messages and outcomes have their fields.
LEMMA MessageFields ==
  /\ \A m \in Message : /\ m.id \in Requests /\ m.user \in Users /\ m.device \in Devices
                        /\ m.type \in {"BIND", "UNBIND"}
  /\ \A c \in Outcome : c.request \in Message /\ c.succeeded \in BOOLEAN
BY DEF Message, Outcome

\* So do rows.
LEMMA RelationFields ==
  ASSUME NEW r \in Relation
  PROVE  /\ r.row \in Requests \cup {NoRequest} /\ r.user \in Users
         /\ r.status \in DeviceBindingStatus /\ r.request \in Requests \cup {NoRequest}
BY DEF Relation

\* A thread that ends its transaction.
LEMMA EndType ==
  ASSUME TypeOK, NEW t \in Threads, End(t)
  PROVE  /\ txn' \in [Threads -> Transaction \cup {NoTransaction}]
         /\ txn'[t] = NoTransaction
         /\ \A u \in Threads \ {t} : txn'[u] = txn[u]
BY DEF TypeOK, End

\* A thread that begins one.
LEMMA BeginType ==
  ASSUME TypeOK, NEW t \in Threads, NEW x \in Transaction, txn' = [txn EXCEPT ![t] = x]
  PROVE  /\ txn' \in [Threads -> Transaction \cup {NoTransaction}]
         /\ txn'[t] = x
         /\ \A u \in Threads \ {t} : txn'[u] = txn[u]
BY DEF TypeOK

-----------------------------------------------------------------------------
(* Every action keeps SagaInv *)

\* A call reads the row it will write by.
LEMMA ReadForRequestStep ==
  ASSUME SagaInv, NEW t \in Threads, NEW m \in Message, ReadForRequest(t, m) PROVE SagaInv'
<1> DEFINE x == [kind |-> "request", message |-> m, seen |-> relation[m.device]]
<1> USE DEF SagaInv, ReadForRequest, aclTables, deviceTables
<1>1. x \in Transaction BY MessageFields DEF Transaction, TypeOK
<1>2. /\ txn' \in [Threads -> Transaction \cup {NoTransaction}]
      /\ txn'[t] = x /\ x # NoTransaction /\ x.kind = "request"
      /\ \A u \in Threads \ {t} : txn'[u] = txn[u]
  BY <1>1, BeginType, AbsentAssumption
<1>3. TypeOK' BY <1>2 DEF TypeOK
<1>4. EditType' BY DEF EditType
<1>5. ConsumedWasSent' BY <1>2 DEF ConsumedWasSent, Handling, Applying
<1>6. RequestsAreUnique' /\ CommandsAreUnique' /\ PendingWasRequested' /\ UnhandledIsPending'
  BY DEF RequestsAreUnique, CommandsAreUnique, PendingWasRequested, UnhandledIsPending, Handled
<1>7. RowIsOneUsers'
  <2>1. \A u \in Threads \ {t} : Requesting(u)' = Requesting(u) /\ txn'[u] = txn[u]
    BY <1>2 DEF Requesting
  <2>2. txn'[t].seen = relation[m.device] /\ txn'[t].message = m /\ m.device \in Devices
    BY <1>2, MessageFields
  <2> QED BY <2>1, <2>2 DEF RowIsOneUsers, Asked
<1> QED BY <1>3, <1>4, <1>5, <1>6, <1>7

\* A row the request's transaction writes, and what it changes.
LEMMA CommitRequestEffect ==
  ASSUME SagaInv, NEW t \in Threads, CommitRequest(t)
  PROVE  LET m == txn[t].message
             seen == txn[t].seen
             d == m.device
             new == [row |-> IF seen = NoRelation THEN m.id ELSE seen.row, user |-> m.user,
                     status |-> Pending(m), request |-> m.id]
         IN /\ m \in Message /\ d \in Devices /\ new \in Relation
            /\ m.id \notin Asked
            /\ relation' = [relation EXCEPT ![d] = new]
            /\ requests' = requests \cup {m} /\ toDevice' = toDevice \cup {m}
            /\ \/ seen = NoRelation /\ relation[d] = NoRelation /\ m.type = "BIND"
               \/ /\ relation[d] \in Relation /\ seen \in Relation
                  /\ relation[d].row = seen.row /\ relation[d].status = seen.status
                  /\ relation[d].user = seen.user /\ m.user = seen.user
                  /\ seen.status = IF m.type = "BIND" THEN "FAILED" ELSE "ACTIVE"
<1> DEFINE m == txn[t].message
           seen == txn[t].seen
           d == m.device
           new == [row |-> IF seen = NoRelation THEN m.id ELSE seen.row, user |-> m.user,
                   status |-> Pending(m), request |-> m.id]
<1>1. Requesting(t) BY DEF CommitRequest, Requesting
<1>2. m \in Message /\ seen \in Relations BY <1>1, TransactionFields DEF SagaInv
<1>3. m.id \in Requests /\ m.user \in Users /\ d \in Devices BY <1>2, MessageFields
<1>4. seen = NoRelation \/ seen \in Relation BY <1>2 DEF Relations
<1>5. Pending(m) \in DeviceBindingStatus BY DEF Pending, DeviceBindingStatus
<1>6. (IF seen = NoRelation THEN m.id ELSE seen.row) \in Requests \cup {NoRequest}
  BY <1>3, <1>4, RelationFields
<1>7. new \in Relation BY <1>3, <1>5, <1>6 DEF Relation
<1>8. /\ relation' = [relation EXCEPT ![d] = new]
      /\ requests' = requests \cup {m} /\ toDevice' = toDevice \cup {m}
  BY DEF CommitRequest, OutboxRow
<1>9. m.id \notin Asked BY DEF CommitRequest, Accepts, IsNew, Asked
<1>10. relation[d] = NoRelation \/ relation[d] \in Relation
  BY <1>3 DEF SagaInv, TypeOK, Relations
<1>11. CASE MayInsert(m, seen) BY <1>2, <1>3, <1>7, <1>8, <1>9, <1>11 DEF MayInsert
<1>12. CASE MayTransition(m, seen)
  <2>1. /\ seen \in Relation /\ relation[d] \in Relation
        /\ relation[d].row = seen.row /\ relation[d].status = seen.status /\ seen.user = m.user
        /\ seen.status = IF m.type = "BIND" THEN "FAILED" ELSE "ACTIVE"
    BY <1>4, <1>10, <1>12 DEF MayTransition, StillMatches
  <2>2. relation[d].user = seen.user
    BY <1>1, <2>1, AbsentAssumption DEF SagaInv, RowIsOneUsers
  <2> QED BY <1>2, <1>3, <1>7, <1>8, <1>9, <2>1, <2>2
<1> QED BY <1>11, <1>12 DEF CommitRequest, Accepts

\* Other devices' relations, and which statuses are pending.
LEMMA PendingStatus ==
  /\ \A m : Pending(m) \in {"PENDING_BIND", "PENDING_UNBIND"}
  /\ \A m \in Message : m.type = (IF Pending(m) = "PENDING_BIND" THEN "BIND" ELSE "UNBIND")
BY MessageFields DEF Pending

\* It writes the row and the request together, or the row has changed and it writes nothing.
LEMMA CommitRequestStep ==
  ASSUME SagaInv, NEW t \in Threads, CommitRequest(t) PROVE SagaInv'
<1> DEFINE m == txn[t].message
           seen == txn[t].seen
           d == m.device
           new == [row |-> IF seen = NoRelation THEN m.id ELSE seen.row, user |-> m.user,
                   status |-> Pending(m), request |-> m.id]
<1>1. /\ m \in Message /\ d \in Devices /\ new \in Relation
      /\ m.id \notin Asked
      /\ relation' = [relation EXCEPT ![d] = new]
      /\ requests' = requests \cup {m} /\ toDevice' = toDevice \cup {m}
      /\ \/ seen = NoRelation /\ relation[d] = NoRelation /\ m.type = "BIND"
         \/ /\ relation[d] \in Relation /\ seen \in Relation
            /\ relation[d].row = seen.row /\ relation[d].status = seen.status
            /\ relation[d].user = seen.user /\ m.user = seen.user
            /\ seen.status = IF m.type = "BIND" THEN "FAILED" ELSE "ACTIVE"
  BY CommitRequestEffect
<1>2. /\ txn' \in [Threads -> Transaction \cup {NoTransaction}]
      /\ txn'[t] = NoTransaction
      /\ \A u \in Threads \ {t} : txn'[u] = txn[u]
  BY EndType DEF SagaInv, CommitRequest
<1>3. UNCHANGED <<device, commands, toAcl, edit, faults>>
  BY DEF CommitRequest, deviceTables
<1>4. relation \in [Devices -> Relations] BY DEF SagaInv, TypeOK
<1>5. /\ relation'[d] = new /\ new # NoRelation
      /\ \A e \in Devices \ {d} : relation'[e] = relation[e]
  BY <1>1, <1>4, AbsentAssumption
<1>6. new.request = m.id /\ new.user = m.user /\ new.status = Pending(m) OBVIOUS
<1>7. TypeOK'
  BY <1>1, <1>2, <1>3, <1>4 DEF SagaInv, TypeOK, Relations
<1>8. EditType' BY <1>3 DEF SagaInv, EditType
<1>9. ConsumedWasSent'
  BY <1>1, <1>2, <1>3 DEF SagaInv, ConsumedWasSent, Handling, Applying
<1>10. \A q \in requests : q.id # m.id BY <1>1 DEF Asked
<1>11. RequestsAreUnique' BY <1>1, <1>10 DEF SagaInv, RequestsAreUnique
<1>12. CommandsAreUnique' BY <1>1, <1>3 DEF SagaInv, CommandsAreUnique
<1> HIDE DEF m, seen, d, new
<1>13. PendingWasRequested'
  <2> SUFFICES ASSUME NEW e \in Devices, relation'[e] # NoRelation,
                      relation'[e].status \in {"PENDING_BIND", "PENDING_UNBIND"}
               PROVE  \E q \in requests' :
                        /\ q.id = relation'[e].request /\ q.user = relation'[e].user
                        /\ q.device = e /\ Pending(q) = relation'[e].status
    BY DEF PendingWasRequested
  <2>1. CASE e = d BY <1>1, <1>5, <1>6, <2>1 DEF d
  <2>2. CASE e # d BY <1>1, <1>5, <2>2 DEF SagaInv, PendingWasRequested
  <2> QED BY <2>1, <2>2
<1>14. UnhandledIsPending'
  <2> SUFFICES ASSUME NEW q \in requests', ~ Handled(q)
               PROVE  /\ relation'[q.device] # NoRelation
                      /\ relation'[q.device].request = q.id
                      /\ relation'[q.device].status = Pending(q)
    BY <1>3 DEF UnhandledIsPending, Handled
  <2>1. CASE q = m BY <1>5, <1>6, <2>1 DEF d
  <2>2. CASE q \in requests
    <3>1. relation[q.device] # NoRelation /\ relation[q.device].request = q.id
          /\ relation[q.device].status = Pending(q)
      BY <2>2 DEF SagaInv, UnhandledIsPending
    <3>2. q.device # d BY <1>1, <3>1, PendingStatus
    <3>3. q.device \in Devices BY <2>2, MessageFields DEF SagaInv, TypeOK
    <3> QED BY <1>5, <3>1, <3>2, <3>3
  <2> QED BY <1>1, <2>1, <2>2
<1>15. RowIsOneUsers'
  <2>1. Asked' = Asked \cup {m.id} BY <1>1 DEF Asked
  <2>2. m.id # NoRequest BY <1>1, MessageFields, SagaAssumption
  <2>3. /\ new.row \in Asked' \cup {NoRequest}
        /\ \/ new.row = m.id
           \/ /\ relation[d] # NoRelation /\ new.row = relation[d].row
              /\ new.user = relation[d].user
    <3>1. new.row = IF seen = NoRelation THEN m.id ELSE seen.row BY DEF new, seen
    <3> QED BY <1>1, <1>6, <2>1, <3>1, AbsentAssumption DEF SagaInv, RowIsOneUsers
  <2>4. \A e \in Devices : relation'[e] # NoRelation => relation'[e].row \in Asked' \cup {NoRequest}
    BY <1>5, <2>1, <2>3 DEF SagaInv, RowIsOneUsers
  <2>5. ASSUME NEW u \in Threads, Requesting(u)', txn'[u].seen # NoRelation
        PROVE  /\ txn'[u].seen.row \in Asked' \cup {NoRequest}
               /\ LET r == relation'[txn'[u].message.device]
                  IN r # NoRelation /\ r.row = txn'[u].seen.row => r.user = txn'[u].seen.user
    <3>1. u # t /\ txn'[u] = txn[u] /\ Requesting(u) BY <1>2, <2>5 DEF Requesting
    <3>2. txn[u].message.device \in Devices
      BY <3>1, TransactionFields, MessageFields DEF SagaInv
    <3>3. txn[u].seen.row \in Asked \cup {NoRequest}
      BY <2>5, <3>1 DEF SagaInv, RowIsOneUsers
    <3>4. txn[u].seen.row # m.id BY <1>1, <2>2, <3>3
    <3>5. LET r == relation[txn[u].message.device]
          IN r # NoRelation /\ r.row = txn[u].seen.row => r.user = txn[u].seen.user
      BY <2>5, <3>1 DEF SagaInv, RowIsOneUsers
    <3>6. CASE txn[u].message.device = d BY <1>5, <2>1, <2>3, <3>1, <3>3, <3>4, <3>5, <3>6
    <3>7. CASE txn[u].message.device # d BY <1>5, <2>1, <3>1, <3>2, <3>3, <3>5, <3>7
    <3> QED BY <3>6, <3>7
  <2> QED BY <2>4, <2>5 DEF RowIsOneUsers
<1> QED BY <1>7, <1>8, <1>9, <1>11, <1>12, <1>13, <1>14, <1>15 DEF SagaInv

\* A step that writes none of the three tables and starts no request.
LEMMA TablesUntouched ==
  ASSUME SagaInv, TypeOK', EditType', UNCHANGED <<relation, requests, commands>>,
         \A u \in Threads :
           \/ txn'[u] = txn[u]
           \/ /\ ~ Requesting(u)'
              /\ Handling(u)' => txn'[u].message \in requests
              /\ Applying(u)' => txn'[u].outcome \in commands
  PROVE  SagaInv'
<1> USE DEF SagaInv
<1>1. ConsumedWasSent' BY DEF ConsumedWasSent, Handling, Applying
<1>2. /\ RequestsAreUnique' /\ CommandsAreUnique' /\ PendingWasRequested'
      /\ UnhandledIsPending'
  BY DEF RequestsAreUnique, CommandsAreUnique, PendingWasRequested, UnhandledIsPending, Handled
<1>3. RowIsOneUsers'
  <2>1. \A u \in Threads : Requesting(u)' => Requesting(u) /\ txn'[u] = txn[u]
    BY DEF Requesting
  <2> QED BY <2>1 DEF RowIsOneUsers, Asked
<1> QED BY <1>1, <1>2, <1>3

\* A call that ends without writing.
LEMMA AnswerRequestStep ==
  ASSUME SagaInv, NEW t \in Threads, AnswerRequest(t) PROVE SagaInv'
<1> USE DEF SagaInv, AnswerRequest, aclTables, deviceTables
<1>1. TypeOK' BY EndType DEF TypeOK
<1>2. EditType' BY DEF EditType
<1> QED BY <1>1, <1>2, EndType, TablesUntouched DEF Requesting, Handling, Applying

\* The device side takes a request up.
LEMMA ReceiveRequestStep ==
  ASSUME SagaInv, NEW t \in Threads, NEW m \in toDevice, ReceiveRequest(t, m) PROVE SagaInv'
<1> DEFINE x == [kind |-> "handle", message |-> m, seen |-> NoRelation]
<1> USE DEF SagaInv, ReceiveRequest, aclTables, deviceTables
<1>1. m \in requests /\ m \in Message BY DEF TypeOK
<1>2. x \in Transaction BY <1>1 DEF Transaction, Relations
<1>3. EditType' BY DEF EditType
<1>4. CASE txn' = txn
  <2>1. TypeOK' BY <1>4 DEF TypeOK
  <2> QED BY <2>1, <1>3, <1>4, TablesUntouched
<1>5. CASE txn' = [txn EXCEPT ![t] = x]
  <2>1. /\ txn' \in [Threads -> Transaction \cup {NoTransaction}]
        /\ txn'[t] = x /\ \A u \in Threads \ {t} : txn'[u] = txn[u]
    BY <1>2, <1>5, BeginType
  <2>2. TypeOK' BY <2>1 DEF TypeOK
  <2>3. ~ Requesting(t)' /\ ~ Applying(t)' /\ txn'[t].message \in requests
    BY <1>1, <2>1 DEF Requesting, Applying
  <2> QED BY <2>1, <2>2, <2>3, <1>3, TablesUntouched
<1> QED BY <1>4, <1>5

\* It decides the request and records the command in one transaction.
LEMMA CommitHandleStep ==
  ASSUME SagaInv, NEW t \in Threads, CommitHandle(t) PROVE SagaInv'
<1> DEFINE m == txn[t].message
           outcome == [request |-> m, succeeded |-> Succeeds(m)]
<1>1. Handling(t) /\ m \in requests BY DEF CommitHandle, Handling, SagaInv, ConsumedWasSent
<1>2. m \in Message /\ m.device \in Devices BY <1>1, MessageFields DEF SagaInv, TypeOK
<1>3. outcome \in Outcome BY <1>2 DEF Outcome, Succeeds
<1>4. /\ txn' \in [Threads -> Transaction \cup {NoTransaction}]
      /\ txn'[t] = NoTransaction
      /\ \A u \in Threads \ {t} : txn'[u] = txn[u]
  BY EndType DEF SagaInv, CommitHandle
<1>5. /\ commands' = commands \cup {outcome} /\ toAcl' = toAcl \cup {outcome}
      /\ UNCHANGED <<relation, requests, toDevice, edit, faults>>
      /\ device' \in [Devices -> {"IDLE", "IN_USE", "OTHER", "GONE"}]
  BY <1>2 DEF CommitHandle, aclTables, SagaInv, TypeOK
<1>6. TypeOK' BY <1>3, <1>4, <1>5 DEF SagaInv, TypeOK
<1>7. EditType' BY <1>5 DEF SagaInv, EditType
<1>8. ConsumedWasSent'
  BY <1>4, <1>5 DEF SagaInv, ConsumedWasSent, Handling, Applying
<1>9. RequestsAreUnique' /\ PendingWasRequested'
  BY <1>5 DEF SagaInv, RequestsAreUnique, PendingWasRequested
<1>10. CommandsAreUnique'
  <2>1. \A c \in commands : c.request.id # m.id BY DEF CommitHandle, CommandIsNew, Handled
  <2> QED BY <1>1, <1>5, <2>1 DEF SagaInv, CommandsAreUnique
<1>11. UnhandledIsPending'
  <2>1. \A q \in requests : Handled(q) => Handled(q)' BY <1>5 DEF Handled
  <2> QED BY <1>5, <2>1 DEF SagaInv, UnhandledIsPending
<1>12. RowIsOneUsers'
  <2>1. \A u \in Threads : Requesting(u)' => Requesting(u) /\ txn'[u] = txn[u]
    BY <1>4 DEF Requesting
  <2> QED BY <1>5, <2>1 DEF SagaInv, RowIsOneUsers, Asked
<1> QED BY <1>6, <1>7, <1>8, <1>9, <1>10, <1>11, <1>12 DEF SagaInv

\* A decision rolled back leaves the request to be delivered again.
LEMMA RollbackHandleStep ==
  ASSUME SagaInv, NEW t \in Threads, RollbackHandle(t) PROVE SagaInv'
<1> USE DEF SagaInv, RollbackHandle, aclTables, deviceTables
<1>1. txn[t].message \in requests BY DEF ConsumedWasSent, Handling
<1>2. TypeOK' BY <1>1, EndType DEF TypeOK
<1>3. EditType' BY DEF EditType
<1> QED BY <1>2, <1>3, EndType, TablesUntouched DEF Requesting, Handling, Applying

\* The relation side takes a result up and reads the row.
LEMMA ReceiveResultStep ==
  ASSUME SagaInv, NEW t \in Threads, NEW c \in toAcl, ReceiveResult(t, c) PROVE SagaInv'
<1> DEFINE r == relation[c.request.device]
           x == [kind |-> "apply", outcome |-> c, seen |-> r]
<1> USE DEF SagaInv, ReceiveResult, aclTables, deviceTables
<1>1. c \in commands /\ c \in Outcome BY DEF TypeOK
<1>2. c.request.device \in Devices BY <1>1, MessageFields
<1>3. EditType' BY DEF EditType
<1>4. CASE txn' = txn
  <2>1. TypeOK' BY <1>4 DEF TypeOK
  <2> QED BY <2>1, <1>3, <1>4, TablesUntouched
<1>5. CASE Awaits(r, c) /\ txn' = [txn EXCEPT ![t] = x]
  <2>1. r \in Relation BY <1>2, <1>5 DEF Awaits, TypeOK, Relations
  <2>2. x \in Transaction BY <1>1, <2>1 DEF Transaction
  <2>3. /\ txn' \in [Threads -> Transaction \cup {NoTransaction}]
        /\ txn'[t] = x /\ \A u \in Threads \ {t} : txn'[u] = txn[u]
    BY <1>5, <2>2, BeginType
  <2>4. TypeOK' BY <2>3 DEF TypeOK
  <2>5. ~ Requesting(t)' /\ ~ Handling(t)' /\ txn'[t].outcome \in commands
    BY <1>1, <2>3 DEF Requesting, Handling
  <2> QED BY <2>3, <2>4, <2>5, <1>3, TablesUntouched
<1> QED BY <1>4, <1>5

\* A result that is applied answers the relation's request.
LEMMA CommitResultEffect ==
  ASSUME SagaInv, NEW t \in Threads, CommitResult(t)
  PROVE  LET c == txn[t].outcome
             d == c.request.device
         IN /\ c \in commands /\ c \in Outcome /\ d \in Devices
            /\ UNCHANGED <<requests, device, commands, toDevice, toAcl, edit, faults>>
            /\ \/ UNCHANGED relation
               \/ /\ relation[d] \in Relation
                  /\ relation[d].request = c.request.id
                  /\ relation[d].status = Pending(c.request)
                  /\ relation' = [relation EXCEPT ![d] = Resolved(relation[d], c)]
<1> DEFINE c == txn[t].outcome
           d == c.request.device
<1>1. c \in commands /\ c \in Outcome /\ d \in Devices
  BY MessageFields DEF CommitResult, Applying, SagaInv, ConsumedWasSent, TypeOK
<1>2. relation[d] # NoRelation => relation[d] \in Relation
  BY <1>1 DEF SagaInv, TypeOK, Relations
<1> QED BY <1>1, <1>2 DEF CommitResult, Awaits, deviceTables

\* The result leaves the row its identity and user, and lets it wait no longer.
LEMMA ResolvedRow ==
  ASSUME NEW r \in Relation, NEW c \in Outcome
  PROVE  \/ Resolved(r, c) = NoRelation /\ c.request.type = "UNBIND" /\ c.succeeded
         \/ /\ Resolved(r, c) \in Relation /\ Resolved(r, c) # NoRelation
            /\ Resolved(r, c).row = r.row /\ Resolved(r, c).user = r.user
            /\ Resolved(r, c).status =
                 IF c.succeeded \/ c.request.type = "UNBIND" THEN "ACTIVE" ELSE "FAILED"
<1> DEFINE s == IF c.succeeded \/ c.request.type = "UNBIND" THEN "ACTIVE" ELSE "FAILED"
           new == [r EXCEPT !.status = s]
<1>1. new \in Relation /\ new.row = r.row /\ new.user = r.user /\ new.status = s
  BY DEF Relation, DeviceBindingStatus
<1> QED BY <1>1, AbsentAssumption DEF Resolved

\* It resolves the row if the result is still the one waited for.
LEMMA CommitResultStep ==
  ASSUME SagaInv, NEW t \in Threads, CommitResult(t) PROVE SagaInv'
<1> DEFINE c == txn[t].outcome
           d == c.request.device
           new == Resolved(relation[d], c)
<1>1. /\ c \in commands /\ c \in Outcome /\ d \in Devices
      /\ UNCHANGED <<requests, device, commands, toDevice, toAcl, edit, faults>>
      /\ \/ UNCHANGED relation
         \/ /\ relation[d] \in Relation
            /\ relation[d].request = c.request.id
            /\ relation[d].status = Pending(c.request)
            /\ relation' = [relation EXCEPT ![d] = new]
  BY CommitResultEffect
<1>2. /\ txn' \in [Threads -> Transaction \cup {NoTransaction}]
      /\ txn'[t] = NoTransaction
      /\ \A u \in Threads \ {t} : txn'[u] = txn[u]
  BY EndType DEF SagaInv, CommitResult
<1>3. EditType' BY <1>1 DEF SagaInv, EditType
<1> HIDE DEF c, d, new
<1>4. CASE UNCHANGED relation
  <2>1. TypeOK' BY <1>1, <1>2, <1>4 DEF SagaInv, TypeOK
  <2> QED BY <1>1, <1>2, <1>3, <1>4, <2>1, TablesUntouched DEF Requesting, Handling, Applying
<1>5. CASE ~ UNCHANGED relation
  <2>1. /\ relation[d] \in Relation /\ relation[d] # NoRelation
        /\ relation[d].request = c.request.id
        /\ relation[d].status = Pending(c.request)
    BY <1>1, <1>5, AbsentAssumption
  <2>2. \/ new = NoRelation
        \/ /\ new \in Relation /\ new.row = relation[d].row /\ new.user = relation[d].user
           /\ new.status \in {"ACTIVE", "FAILED"}
    BY <1>1, <2>1, ResolvedRow DEF new
  <2>3. relation'[d] = new /\ \A e \in Devices \ {d} : relation'[e] = relation[e]
    BY <1>1, <1>5 DEF SagaInv, TypeOK
  <2>4. TypeOK'
    BY <1>1, <1>2, <1>5, <2>2 DEF SagaInv, TypeOK, Relations
  <2>5. ConsumedWasSent'
    BY <1>1, <1>2 DEF SagaInv, ConsumedWasSent, Handling, Applying
  <2>6. RequestsAreUnique' /\ CommandsAreUnique'
    BY <1>1 DEF SagaInv, RequestsAreUnique, CommandsAreUnique
  <2>7. PendingWasRequested'
    BY <1>1, <2>2, <2>3 DEF SagaInv, PendingWasRequested
  <2>8. UnhandledIsPending'
    <3> SUFFICES ASSUME NEW q \in requests, ~ Handled(q)
                 PROVE  /\ relation'[q.device] # NoRelation
                        /\ relation'[q.device].request = q.id
                        /\ relation'[q.device].status = Pending(q)
      BY <1>1 DEF UnhandledIsPending, Handled
    <3>1. /\ relation[q.device] # NoRelation /\ relation[q.device].request = q.id
          /\ relation[q.device].status = Pending(q)
      BY DEF SagaInv, UnhandledIsPending
    <3>2. q.device # d BY <1>1, <2>1, <3>1 DEF Handled
    <3>3. q.device \in Devices BY MessageFields DEF SagaInv, TypeOK
    <3> QED BY <2>3, <3>1, <3>2, <3>3
  <2>9. RowIsOneUsers'
    <3>1. \A u \in Threads : Requesting(u)' => Requesting(u) /\ txn'[u] = txn[u]
      BY <1>2 DEF Requesting
    <3>2. \A e \in Devices : relation'[e] # NoRelation =>
            /\ relation[e] # NoRelation /\ relation'[e].row = relation[e].row
            /\ relation'[e].user = relation[e].user
      BY <2>1, <2>2, <2>3
    <3>3. \A u \in Threads : Requesting(u) => txn[u].message.device \in Devices
      BY TransactionFields, MessageFields DEF SagaInv
    <3> QED BY <1>1, <3>1, <3>2, <3>3 DEF SagaInv, RowIsOneUsers, Asked
  <2> QED BY <1>3, <2>4, <2>5, <2>6, <2>7, <2>8, <2>9 DEF SagaInv
<1> QED BY <1>4, <1>5

\* A message that was handled comes again.
LEMMA RedeliverStep ==
  ASSUME SagaInv, Redeliver PROVE SagaInv'
<1> USE SagaAssumption DEF SagaInv, Redeliver, aclTables, deviceTables
<1>1. TypeOK' BY DEF TypeOK
<1>2. EditType' BY DEF EditType
<1> QED BY <1>1, <1>2, TablesUntouched

\* A consumer crashes and its message comes again.
LEMMA CrashConsumerStep ==
  ASSUME SagaInv, NEW t \in Threads, CrashConsumer(t) PROVE SagaInv'
<1> USE SagaAssumption DEF SagaInv, CrashConsumer, aclTables, deviceTables
<1>1. /\ txn[t].kind = "handle" => txn[t].message \in requests
      /\ txn[t].kind = "apply" => txn[t].outcome \in commands
  BY DEF ConsumedWasSent, Handling, Applying
<1>2. TypeOK' BY <1>1, EndType DEF TypeOK
<1>3. EditType' BY DEF EditType
<1> QED BY <1>2, <1>3, EndType, TablesUntouched DEF Requesting, Handling, Applying

\* What administrators read and write is the device table alone.
LEMMA AdminStep ==
  ASSUME SagaInv, NEW a \in Admins,
         (\E d \in Devices : ReadForEdit(a, d) \/ DeleteDevice(a, d)) \/ WriteEdit(a)
  PROVE  SagaInv'
<1> USE DEF SagaInv
<1>1. /\ UNCHANGED <<relation, requests, commands, toDevice, toAcl, txn, faults>>
      /\ device' \in [Devices -> {"IDLE", "IN_USE", "OTHER", "GONE"}]
      /\ EditType'
  <2>1. ASSUME NEW d \in Devices, ReadForEdit(a, d)
        PROVE  device' = device /\ EditType'
    <3>1. PICK s \in FormStatuses \cup {device[d]} :
            edit' = [edit EXCEPT ![a] = [device |-> {d}, status |-> s]]
      BY <2>1 DEF ReadForEdit
    <3>2. s \in FormStatus BY <2>1, SagaAssumption DEF ReadForEdit, TypeOK, FormStatus
    <3>3. [device |-> {d}, status |-> s] \in [device : SUBSET Devices, status : FormStatus]
      BY <3>2
    <3> QED BY <2>1, <3>1, <3>3 DEF ReadForEdit, EditType, deviceTables
  <2>2. ASSUME NEW d \in Devices, DeleteDevice(a, d)
        PROVE  device' \in [Devices -> {"IDLE", "IN_USE", "OTHER", "GONE"}] /\ EditType'
    BY <2>2 DEF DeleteDevice, TypeOK, EditType
  <2>3. ASSUME WriteEdit(a)
        PROVE  device' \in [Devices -> {"IDLE", "IN_USE", "OTHER", "GONE"}] /\ EditType'
    <3>1. edit[a].status \in FormStatus BY <2>3 DEF WriteEdit, EditType
    <3> QED BY <2>3, <3>1 DEF WriteEdit, TypeOK, EditType, FormStatus
  <2> QED BY <2>1, <2>2, <2>3 DEF TypeOK, ReadForEdit, DeleteDevice, WriteEdit, aclTables, deviceTables
<1>2. TypeOK' BY <1>1 DEF TypeOK
<1> QED BY <1>1, <1>2, TablesUntouched

\* No request has been made at first.
LEMMA SagaInvInit == Init => SagaInv
<1> SUFFICES ASSUME Init PROVE SagaInv OBVIOUS
<1>1. \A u \in Users : LegacyRelation(u) \in Relation /\ LegacyRelation(u).row = NoRequest
                     /\ LegacyRelation(u).status = "ACTIVE"
  BY DEF LegacyRelation, Relation, DeviceBindingStatus
<1>2. TypeOK BY <1>1, SagaAssumption DEF Init, TypeOK, Relations
<1>3. EditType BY DEF Init, EditType
<1>4. \A t \in Threads : ~ Requesting(t) /\ ~ Handling(t) /\ ~ Applying(t)
  BY DEF Init, Requesting, Handling, Applying
<1>5. ConsumedWasSent /\ RowIsOneUsers
  BY <1>1, <1>4 DEF Init, ConsumedWasSent, RowIsOneUsers
<1>6. RequestsAreUnique /\ CommandsAreUnique /\ PendingWasRequested /\ UnhandledIsPending
  BY <1>1 DEF Init, RequestsAreUnique, CommandsAreUnique, PendingWasRequested,
              UnhandledIsPending
<1> QED BY <1>2, <1>3, <1>5, <1>6 DEF SagaInv

\* Every step keeps SagaInv, administrators' edits and deletions included.
LEMMA SagaInvNext == SagaInv /\ [Next]_vars => SagaInv'
<1> SUFFICES ASSUME SagaInv, [Next]_vars PROVE SagaInv' OBVIOUS
<1>1. CASE Next
  <2>1. Clients \subseteq Threads /\ Consumers \subseteq Threads BY DEF Threads
  <2> QED BY <1>1, <2>1, ReadForRequestStep, CommitRequestStep, AnswerRequestStep,
             ReceiveRequestStep, CommitHandleStep, RollbackHandleStep, ReceiveResultStep,
             CommitResultStep, RedeliverStep, CrashConsumerStep, AdminStep DEF Next, Consume
<1>2. CASE UNCHANGED vars
  <2>1. TypeOK' /\ EditType' BY <1>2 DEF vars, SagaInv, TypeOK, EditType
  <2> QED BY <1>2, <2>1, TablesUntouched DEF vars
<1> QED BY <1>1, <1>2

\* The invariant of both databases, whatever administrators do.
THEOREM Invariance == Spec => []SagaInv
BY SagaInvInit, SagaInvNext, PTL DEF Spec

-----------------------------------------------------------------------------
(* Whatever administrators do *)

\* Both databases, the messages and the open transactions are always well formed.
THEOREM TypeCorrect == Spec => []TypeOK
<1>1. SagaInv => TypeOK BY DEF SagaInv
<1> QED BY <1>1, Invariance, PTL

-----------------------------------------------------------------------------
(* As long as administrators leave alone whether a device is in use *)

InUse(d) == device[d] = "IN_USE"

\* Edits and deletions change neither a free device into one in use nor the reverse: forms
\* without the status whose device was not bound or released meanwhile, repairs of free
\* devices, deletions of free devices.
AdminsLeaveUse ==
  \A a \in Admins :
    WriteEdit(a) \/ (\E d \in Devices : DeleteDevice(a, d))
      => \A d \in Devices : InUse(d)' = InUse(d)

\* An unbinding is only asked for by who has the device, so it cannot fail.
UnbindSucceeds == \A c \in commands : c.request.type = "UNBIND" => c.succeeded

UseInv == RelationMatchesDevice /\ UnbindSucceeds

Owner ==
  [d \in Devices |-> IF InUse(d) /\ relation[d] # NoRelation THEN relation[d].user ELSE Nobody]

\* Holding depends on the relation and the decided commands only.
LEMMA UseUntouched ==
  ASSUME UseInv, UNCHANGED <<relation, commands>>, \A d \in Devices : InUse(d)' = InUse(d)
  PROVE  UseInv' /\ UNCHANGED Owner
<1>1. \A d \in Devices : Holding(d)' = Holding(d) BY DEF Holding
<1> QED BY <1>1 DEF UseInv, RelationMatchesDevice, UnbindSucceeds, InUse, Owner

\* A request changes who waits, never who has the device.
LEMMA CommitRequestUse ==
  ASSUME SagaInv, UseInv, NEW t \in Threads, CommitRequest(t)
  PROVE  UseInv' /\ UNCHANGED Owner
<1> DEFINE m == txn[t].message
           seen == txn[t].seen
           new == [row |-> IF seen = NoRelation THEN m.id ELSE seen.row, user |-> m.user,
                   status |-> Pending(m), request |-> m.id]
<1>0. m.device \in Devices BY CommitRequestEffect
<1> PICK d \in Devices : d = m.device BY <1>0
<1>1. /\ m \in Message /\ new \in Relation
      /\ m.id \notin Asked
      /\ relation' = [relation EXCEPT ![d] = new]
      /\ \/ relation[d] = NoRelation /\ m.type = "BIND"
         \/ /\ relation[d] \in Relation /\ m.user = relation[d].user
            /\ relation[d].status = IF m.type = "BIND" THEN "FAILED" ELSE "ACTIVE"
  BY CommitRequestEffect
<1>2. UNCHANGED <<device, commands>> BY DEF CommitRequest, deviceTables
<1>3. \A c \in commands : c.request.id # m.id
  BY <1>1 DEF SagaInv, CommandsAreUnique, Asked
<1>4. new # NoRelation /\ new.request = m.id /\ new.user = m.user /\ new.status = Pending(m)
  BY <1>1, AbsentAssumption
<1> HIDE DEF m, seen, new
<1>5. relation'[d] = new /\ \A e \in Devices \ {d} : relation'[e] = relation[e]
  BY <1>1 DEF SagaInv, TypeOK
<1>6. \A e \in Devices \ {d} : Holding(e)' = Holding(e)
  BY <1>2, <1>5 DEF Holding
<1>7. Holding(d) <=> m.type = "UNBIND"
  BY <1>1, AbsentAssumption, MessageFields DEF Holding
<1>8. Holding(d)' <=> m.type = "UNBIND"
  BY <1>1, <1>2, <1>3, <1>4, <1>5, MessageFields DEF Holding, Pending
<1>9. UseInv' BY <1>2, <1>6, <1>7, <1>8 DEF UseInv, RelationMatchesDevice, UnbindSucceeds
<1>10. \A e \in Devices : Owner'[e] = Owner[e]
  <2>1. \A e \in Devices \ {d} : Owner'[e] = Owner[e] BY <1>2, <1>5 DEF Owner, InUse
  <2>2. CASE m.type = "UNBIND"
    BY <1>1, <1>2, <1>4, <1>5, <2>2, AbsentAssumption DEF Owner, InUse
  <2>3. CASE m.type # "UNBIND"
    BY <1>1, <1>2, <1>7, <2>3 DEF UseInv, RelationMatchesDevice, Owner, InUse
  <2> QED BY <2>1, <2>2, <2>3
<1>11. UNCHANGED Owner BY <1>10 DEF Owner
<1> QED BY <1>9, <1>11

\* The device side decides the request its relation waits for, so a bind takes a free
\* device and an unbind gives back one in use.
LEMMA CommitHandleUse ==
  ASSUME SagaInv, UseInv, NEW t \in Threads, CommitHandle(t)
  PROVE  /\ UseInv'
         /\ \/ UNCHANGED Owner
            \/ \E d \in Devices :
                 \/ Owner[d] # Nobody /\ Owner' = [Owner EXCEPT ![d] = Nobody]
                 \/ \E u \in Users : Owner[d] = Nobody /\ Owner' = [Owner EXCEPT ![d] = u]
<1> DEFINE m == txn[t].message
           outcome == [request |-> m, succeeded |-> Succeeds(m)]
<1>1. m \in requests BY DEF CommitHandle, Handling, SagaInv, ConsumedWasSent
<1>2. m \in Message /\ m.device \in Devices /\ m.type \in {"BIND", "UNBIND"}
  BY <1>1, MessageFields DEF SagaInv, TypeOK
<1> PICK d \in Devices : d = m.device BY <1>2
<1>3. ~ Handled(m) BY DEF CommitHandle, CommandIsNew
<1>4. /\ relation[d] # NoRelation /\ relation[d].request = m.id /\ relation[d].status = Pending(m)
      /\ relation[d].user \in Users
  <2>1. relation[d] # NoRelation /\ relation[d].request = m.id /\ relation[d].status = Pending(m)
    BY <1>1, <1>3 DEF SagaInv, UnhandledIsPending
  <2> QED BY <1>2, <2>1, RelationFields DEF SagaInv, TypeOK, Relations
<1>5. /\ device' = IF Succeeds(m)
                   THEN [device EXCEPT ![d] = IF m.type = "BIND" THEN "IN_USE" ELSE "IDLE"]
                   ELSE device
      /\ commands' = commands \cup {outcome}
      /\ UNCHANGED relation
  BY DEF CommitHandle, aclTables
<1>6. outcome.request.id = m.id /\ outcome.request.type = m.type
      /\ outcome.succeeded = Succeeds(m)
  OBVIOUS
<1>7. Succeeds(m) <=> device[d] = IF m.type = "BIND" THEN "IDLE" ELSE "IN_USE"
  BY DEF Succeeds
<1> HIDE DEF m, outcome
<1>8. \A e \in Devices \ {d} : device'[e] = device[e] BY <1>5
<1>9. \A e \in Devices \ {d} : Holding(e)' = Holding(e)
  <2> SUFFICES ASSUME NEW e \in Devices, e # d PROVE Holding(e)' = Holding(e) OBVIOUS
  <2>1. CASE relation[e] # NoRelation /\ relation[e].status \in {"PENDING_BIND", "PENDING_UNBIND"}
    <3>1. PICK q \in requests : q.id = relation[e].request /\ q.device = e
      BY <2>1 DEF SagaInv, PendingWasRequested
    <3>2. q.id # m.id BY <1>1, <3>1 DEF SagaInv, RequestsAreUnique
    <3> QED BY <1>5, <1>6, <3>1, <3>2 DEF Holding
  <2>2. CASE ~ (relation[e] # NoRelation
                /\ relation[e].status \in {"PENDING_BIND", "PENDING_UNBIND"})
    BY <1>5, <2>2 DEF Holding
  <2> QED BY <2>1, <2>2
<1>10. Holding(d) <=> m.type = "UNBIND"
  BY <1>2, <1>3, <1>4 DEF Holding, Pending, Handled
<1>11. InUse(d) <=> m.type = "UNBIND"
  BY <1>2, <1>10 DEF UseInv, RelationMatchesDevice, InUse
<1>12. Holding(d)' <=> m.type = "BIND" /\ Succeeds(m)
  <2>1. outcome \in commands' /\ \A c \in commands' : c.request.id = m.id => c = outcome
    BY <1>3, <1>5 DEF Handled
  <2> QED BY <1>2, <1>4, <1>5, <1>6, <2>1 DEF Holding, Pending
<1>13. InUse(d)' <=> m.type = "BIND" /\ Succeeds(m)
  BY <1>2, <1>5, <1>7, <1>11 DEF InUse, SagaInv, TypeOK
<1>14. UnbindSucceeds'
  BY <1>5, <1>6, <1>7, <1>11 DEF UseInv, UnbindSucceeds, InUse
<1>15. RelationMatchesDevice'
  BY <1>2, <1>8, <1>9, <1>12, <1>13 DEF UseInv, RelationMatchesDevice, InUse
<1>16. \A e \in Devices \ {d} : Owner'[e] = Owner[e] BY <1>5, <1>8 DEF Owner, InUse
<1>17. Owner[d] = IF m.type = "UNBIND" THEN relation[d].user ELSE Nobody
  BY <1>2, <1>4, <1>11 DEF Owner
<1>18. Owner'[d] = IF m.type = "BIND" /\ Succeeds(m) THEN relation[d].user ELSE Nobody
  BY <1>2, <1>4, <1>5, <1>13 DEF Owner
<1>19. Owner' = [Owner EXCEPT ![d] = Owner'[d]] BY <1>2, <1>16 DEF Owner
<1>20. CASE m.type = "UNBIND"
  BY <1>2, <1>4, <1>17, <1>18, <1>19, <1>20, SagaAssumption, <1>14, <1>15 DEF UseInv
<1>21. CASE m.type = "BIND" /\ Succeeds(m)
  BY <1>2, <1>4, <1>17, <1>18, <1>19, <1>21, <1>14, <1>15 DEF UseInv
<1>22. CASE m.type = "BIND" /\ ~ Succeeds(m)
  <2>1. UNCHANGED <<device, relation>> BY <1>5, <1>22
  <2> QED BY <1>14, <1>15, <2>1 DEF UseInv, Owner, InUse
<1> QED BY <1>2, <1>20, <1>21, <1>22

\* The relation learns what the device side decided; nobody gains or loses a device by it.
LEMMA CommitResultUse ==
  ASSUME SagaInv, UseInv, NEW t \in Threads, CommitResult(t)
  PROVE  UseInv' /\ UNCHANGED Owner
<1> DEFINE c == txn[t].outcome
           new == Resolved(relation[c.request.device], c)
<1>0. c.request.device \in Devices BY CommitResultEffect
<1> PICK d \in Devices : d = c.request.device BY <1>0
<1>1. /\ c \in commands /\ c \in Outcome
      /\ UNCHANGED <<device, commands>>
      /\ \/ UNCHANGED relation
         \/ /\ relation[d] \in Relation
            /\ relation[d].request = c.request.id
            /\ relation[d].status = Pending(c.request)
            /\ relation' = [relation EXCEPT ![d] = new]
  BY CommitResultEffect
<1> HIDE DEF c
<1>2. CASE UNCHANGED relation BY <1>1, <1>2, UseUntouched DEF InUse
<1>3. CASE ~ UNCHANGED relation
  <2>1. /\ relation[d] \in Relation /\ relation[d] # NoRelation
        /\ relation[d].request = c.request.id
        /\ relation[d].status = Pending(c.request)
    BY <1>1, <1>3, AbsentAssumption
  <2>2. relation'[d] = new /\ \A e \in Devices \ {d} : relation'[e] = relation[e]
    BY <1>1, <1>3 DEF SagaInv, TypeOK
  <2>3. /\ c.request.type \in {"BIND", "UNBIND"}
        /\ c.request.type = "UNBIND" => c.succeeded
    BY <1>1, MessageFields DEF UseInv, UnbindSucceeds
  <2>4. /\ c.request.type = "UNBIND" => new = NoRelation
        /\ c.request.type = "BIND" =>
             /\ new # NoRelation /\ new.user = relation[d].user
             /\ new.status = IF c.succeeded THEN "ACTIVE" ELSE "FAILED"
    BY <1>1, <2>1, <2>3, ResolvedRow DEF Resolved
  <2> HIDE DEF new
  <2>5. Holding(d) <=> c.request.type = "BIND" /\ c.succeeded
    <3>1. \A b \in commands : b.request.id = c.request.id => b = c
      BY <1>1 DEF SagaInv, CommandsAreUnique
    <3> QED BY <1>1, <2>1, <2>3, <3>1 DEF Holding, Pending
  <2>6. Holding(d)' <=> c.request.type = "BIND" /\ c.succeeded
    BY <2>2, <2>3, <2>4 DEF Holding
  <2>7. \A e \in Devices \ {d} : Holding(e)' = Holding(e) BY <1>1, <2>2 DEF Holding
  <2>8. UseInv'
    BY <1>1, <2>5, <2>6, <2>7 DEF UseInv, RelationMatchesDevice, UnbindSucceeds
  <2>9. \A e \in Devices \ {d} : Owner'[e] = Owner[e] BY <1>1, <2>2 DEF Owner, InUse
  <2>10. Owner'[d] = Owner[d]
    <3>1. CASE c.request.type = "BIND" BY <1>1, <2>1, <2>2, <2>4, <3>1 DEF Owner, InUse
    <3>2. CASE c.request.type = "UNBIND"
      <4>1. ~ InUse(d) BY <1>1, <2>5, <3>2 DEF UseInv, RelationMatchesDevice, InUse
      <4> QED BY <1>1, <4>1 DEF Owner, InUse
    <3> QED BY <2>3, <3>1, <3>2
  <2>11. UNCHANGED Owner BY <2>9, <2>10 DEF Owner
  <2> QED BY <2>8, <2>11
<1> QED BY <1>2, <1>3

\* Every step keeps the invariant, and gives or takes at most one device.
LEMMA UseStep ==
  ASSUME SagaInv, UseInv, [Next]_vars, [AdminsLeaveUse]_vars
  PROVE  /\ UseInv'
         /\ \/ UNCHANGED Owner
            \/ \E d \in Devices :
                 \/ Owner[d] # Nobody /\ Owner' = [Owner EXCEPT ![d] = Nobody]
                 \/ \E u \in Users : Owner[d] = Nobody /\ Owner' = [Owner EXCEPT ![d] = u]
<1>1. Clients \subseteq Threads /\ Consumers \subseteq Threads BY DEF Threads
<1>2. CASE UNCHANGED vars BY <1>2, UseUntouched DEF vars, InUse
<1>3. ASSUME NEW t \in Clients, \E m \in Message : ReadForRequest(t, m)
      PROVE  UseInv' /\ UNCHANGED Owner
  BY <1>3, UseUntouched DEF ReadForRequest, aclTables, deviceTables, InUse
<1>4. ASSUME NEW t \in Clients, AnswerRequest(t) PROVE UseInv' /\ UNCHANGED Owner
  BY <1>4, UseUntouched DEF AnswerRequest, aclTables, deviceTables, InUse
<1>5. ASSUME NEW t \in Consumers,
             \/ \E m \in toDevice : ReceiveRequest(t, m)
             \/ RollbackHandle(t)
             \/ \E c \in toAcl : ReceiveResult(t, c)
             \/ CrashConsumer(t)
      PROVE  UseInv' /\ UNCHANGED Owner
  BY <1>5, UseUntouched DEF ReceiveRequest, RollbackHandle, ReceiveResult, CrashConsumer,
     aclTables, deviceTables, InUse
<1>6. CASE Redeliver BY <1>6, UseUntouched DEF Redeliver, aclTables, deviceTables, InUse
<1>7. ASSUME NEW a \in Admins, NEW d \in Devices, ReadForEdit(a, d)
      PROVE  UseInv' /\ UNCHANGED Owner
  BY <1>7, UseUntouched DEF ReadForEdit, aclTables, deviceTables, InUse
<1>8. ASSUME NEW a \in Admins, WriteEdit(a) \/ \E d \in Devices : DeleteDevice(a, d)
      PROVE  UseInv' /\ UNCHANGED Owner
  <2>1. UNCHANGED <<relation, commands>> BY <1>8 DEF WriteEdit, DeleteDevice, aclTables
  <2>2. \A d \in Devices : InUse(d)' = InUse(d)
    <3>1. CASE AdminsLeaveUse BY <1>8, <3>1 DEF AdminsLeaveUse
    <3>2. CASE UNCHANGED vars BY <3>2 DEF vars, InUse
    <3> QED BY <3>1, <3>2
  <2> QED BY <2>1, <2>2, UseUntouched
<1> QED BY <1>1, <1>2, <1>3, <1>4, <1>5, <1>6, <1>7, <1>8, CommitRequestUse, CommitHandleUse,
           CommitResultUse DEF Next, Consume

\* At first who has an active relation has the device.
LEMMA UseInvInit == Init => UseInv
<1> SUFFICES ASSUME Init PROVE UseInv OBVIOUS
<1>1. \A d \in Devices : relation[d] # NoRelation => relation[d].status = "ACTIVE"
  BY DEF Init, LegacyRelation
<1> QED BY <1>1 DEF Init, UseInv, RelationMatchesDevice, UnbindSucceeds, Holding

\* The databases agree, and unbinding never fails, while administrators keep to that.
LEMMA UseInvariance == Spec /\ [][AdminsLeaveUse]_vars => []UseInv
BY Invariance, UseInvInit, UseStep, PTL DEF Spec

\* A device is in use exactly when its relation, with the messages in flight, says that
\* somebody holds it.
THEOREM DatabasesAgree == Spec /\ [][AdminsLeaveUse]_vars => []RelationMatchesDevice
<1>1. UseInv => RelationMatchesDevice BY DEF UseInv
<1> QED BY <1>1, UseInvariance, PTL

\* A device passes from nobody to one user and back, never between users.
THEOREM Refinement == Spec /\ [][AdminsLeaveUse]_vars => ImplementsOwnership
<1>1. Init => Ownership!OwnershipInit
  <2> SUFFICES ASSUME Init, NEW d \in Devices
               PROVE  device[d] = "IN_USE" /\ relation[d] # NoRelation => relation[d].user \in Users
    BY DEF Ownership!OwnershipInit
  <2> QED BY DEF Init, LegacyRelation
<1>2. SagaInv /\ UseInv /\ [Next]_vars /\ [AdminsLeaveUse]_vars
        => [Ownership!OwnershipNext]_Owner
  BY UseStep DEF Ownership!OwnershipNext, Ownership!Take, Ownership!GiveBack, Owner, InUse
<1> QED BY <1>1, <1>2, Invariance, UseInvariance, PTL
       DEF Spec, ImplementsOwnership, Ownership!OwnershipSpec, Owner, InUse

\* Without administrators nothing has to be asked of them: both hold of the saga alone.
THEOREM WithoutAdmins ==
  ASSUME Admins = {}
  PROVE  Spec => []RelationMatchesDevice /\ ImplementsOwnership
<1>1. [Next]_vars => [AdminsLeaveUse]_vars BY DEF AdminsLeaveUse
<1> QED BY <1>1, DatabasesAgree, Refinement, PTL DEF Spec
===============================================================================
