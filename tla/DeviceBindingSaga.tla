--------------------------- MODULE DeviceBindingSaga ---------------------------
(***************************************************************************)
(* Binding a device to a user is a saga over two databases.  service-acl   *)
(* keeps the relation (one row per device) and an outbox of requests;      *)
(* service-device keeps the device status, the commands it has executed    *)
(* and an outbox of results.  Requests and results travel through RabbitMQ *)
(* at least once and in any order (OutboxPublisher), so each side checks   *)
(* again what it is told.                                                  *)
(*                                                                         *)
(* Every transaction is a read step and a commit step; unique keys and the *)
(* WHERE clauses of updates see what is committed at the commit.           *)
(***************************************************************************)
EXTENDS Naturals, FiniteSets

CONSTANTS
  Devices, Users, Nobody,
  Requests,          \* request ids: Idempotency-Key headers and random UUIDs
  NoRequest,         \* request_id of relations older than the saga
  NoRelation, NoTransaction,
  Clients,           \* concurrent calls of addDeviceToUser and removeDeviceFromUser
  Consumers,         \* consumers of the two queues
  Admins,            \* concurrent calls of updateDeviceInstance
  FormStatuses,      \* statuses an administrator's form may carry
  MaxFaults          \* bound on redeliveries and crashed consumers

ASSUME SagaAssumption ==
  /\ Nobody \notin Users
  /\ NoRequest \notin Requests
  /\ Clients \cap Consumers = {}
  /\ FormStatuses \subseteq {"IDLE", "IN_USE", "OTHER"}
  /\ MaxFaults \in Nat

Threads == Clients \cup Consumers

\* DeviceBindingRequestedEventV1, without its envelope
Message == [id: Requests, type: {"BIND", "UNBIND"}, user: Users, device: Devices]
Outcome == [request: Message, succeeded: BOOLEAN]

DeviceBindingStatus == {"PENDING_BIND", "ACTIVE", "PENDING_UNBIND", "FAILED"}

\* A row's identity (its auto-increment id) is the request that inserted it.
Relation == [row: Requests \cup {NoRequest}, user: Users, status: DeviceBindingStatus,
             request: Requests \cup {NoRequest}]
Relations == Relation \cup {NoRelation}
Transaction == [kind: {"request", "handle"}, message: Message, seen: Relations]
               \cup [kind: {"apply"}, outcome: Outcome, seen: Relation]

ASSUME AbsentAssumption == NoRelation \notin Relation /\ NoTransaction \notin Transaction

VARIABLES
  relation,    \* devicetousers by device
  requests,    \* device_binding_outbox
  device,      \* status of each deviceinstance, "GONE" once deleted
  commands,    \* device_binding_command and its result outbox row
  toDevice,    \* requests in flight to service-device
  toAcl,       \* results in flight to service-acl
  txn,         \* each thread's open transaction
  edit,        \* what an administrator's call read and will write
  faults

vars == <<relation, requests, device, commands, toDevice, toAcl, txn, edit, faults>>
aclTables == <<relation, requests>>
deviceTables == <<device, commands>>

NoEdit == [device |-> {}, status |-> "NONE"]

LegacyRelation(u) ==
  [row |-> NoRequest, user |-> u, status |-> "ACTIVE", request |-> NoRequest]

\* Devices are free, under repair, or were handed out before the saga existed.
Init ==
  /\ device \in [Devices -> {"IDLE", "IN_USE", "OTHER"}]
  /\ relation \in [Devices -> {NoRelation} \cup {LegacyRelation(u) : u \in Users}]
  /\ \A d \in Devices : relation[d] # NoRelation <=> device[d] = "IN_USE"
  /\ requests = {}
  /\ commands = {}
  /\ toDevice = {}
  /\ toAcl = {}
  /\ txn = [t \in Threads |-> NoTransaction]
  /\ edit = [a \in Admins |-> NoEdit]
  /\ faults = 0

End(t) == txn' = [txn EXCEPT ![t] = NoTransaction]

-----------------------------------------------------------------------------
(* DeviceBindingSagaService.requestBind and requestUnbind *)

ReadForRequest(t, m) ==
  /\ txn[t] = NoTransaction
  /\ txn' = [txn EXCEPT ![t] = [kind |-> "request", message |-> m, seen |-> relation[m.device]]]
  /\ UNCHANGED <<aclTables, deviceTables, toDevice, toAcl, edit, faults>>

\* DevicetousersMapper.transition: WHERE id and binding_status are what was read
StillMatches(d, seen) ==
  relation[d] # NoRelation /\ relation[d].row = seen.row /\ relation[d].status = seen.status

MutantDeviceNotUnique(m, seen) == m.type = "BIND" /\ seen = NoRelation

\* The insert of a first binding: device_id and request_id are unique.
MayInsert(m, seen) ==
  /\ m.type = "BIND"
  /\ seen = NoRelation
  /\ relation[m.device] = NoRelation

MayTransition(m, seen) ==
  /\ seen # NoRelation
  /\ seen.user = m.user
  /\ seen.status = IF m.type = "BIND" THEN "FAILED" ELSE "ACTIVE"
  /\ StillMatches(m.device, seen)

Pending(m) == IF m.type = "BIND" THEN "PENDING_BIND" ELSE "PENDING_UNBIND"

\* The request id is unique in the outbox: a reused one rolls the transaction back.
IsNew(m) == \A q \in requests : q.id # m.id

\* createOutbox
OutboxRow(m) == {m}

Accepts(t) ==
  LET m == txn[t].message
      seen == txn[t].seen
  IN IsNew(m) /\ (MayInsert(m, seen) \/ MayTransition(m, seen))

CommitRequest(t) ==
  LET m == txn[t].message
      row == IF txn[t].seen = NoRelation THEN m.id ELSE txn[t].seen.row
  IN
  /\ txn[t] # NoTransaction /\ txn[t].kind = "request"
  /\ Accepts(t)
  /\ relation' = [relation EXCEPT ![m.device] =
                    [row |-> row, user |-> m.user, status |-> Pending(m), request |-> m.id]]
  /\ requests' = requests \cup OutboxRow(m)
  /\ toDevice' = toDevice \cup OutboxRow(m)
  /\ End(t)
  /\ UNCHANGED <<deviceTables, toAcl, edit, faults>>

\* Already applied, already pending, a conflict, or a rollback: nothing is written.
AnswerRequest(t) ==
  /\ txn[t] # NoTransaction /\ txn[t].kind = "request"
  /\ ~ Accepts(t)
  /\ End(t)
  /\ UNCHANGED <<aclTables, deviceTables, toDevice, toAcl, edit, faults>>

-----------------------------------------------------------------------------
(* DeviceBindingCommandService.handle *)

Handled(m) == \E c \in commands : c.request.id = m.id

\* A request whose command exists is acknowledged and dropped.
ReceiveRequest(t, m) ==
  /\ txn[t] = NoTransaction
  /\ m \in toDevice
  /\ toDevice' = toDevice \ {m}
  /\ txn' = IF Handled(m) THEN txn
            ELSE [txn EXCEPT ![t] = [kind |-> "handle", message |-> m, seen |-> NoRelation]]
  /\ UNCHANGED <<aclTables, deviceTables, toAcl, edit, faults>>

\* transitionStatus updates one row
Succeeds(m) == device[m.device] = IF m.type = "BIND" THEN "IDLE" ELSE "IN_USE"

\* request_id is unique in device_binding_command
CommandIsNew(m) == ~ Handled(m)

CommitHandle(t) ==
  LET m == txn[t].message
      outcome == [request |-> m, succeeded |-> Succeeds(m)]
  IN
  /\ txn[t] # NoTransaction /\ txn[t].kind = "handle"
  /\ CommandIsNew(m)
  /\ device' = IF Succeeds(m)
               THEN [device EXCEPT ![m.device] = IF m.type = "BIND" THEN "IN_USE" ELSE "IDLE"]
               ELSE device
  /\ commands' = commands \cup {outcome}
  /\ toAcl' = toAcl \cup {outcome}
  /\ End(t)
  /\ UNCHANGED <<aclTables, toDevice, edit, faults>>

\* DuplicateKeyException: the device update is rolled back and the message requeued.
RollbackHandle(t) ==
  /\ txn[t] # NoTransaction /\ txn[t].kind = "handle"
  /\ ~ CommandIsNew(txn[t].message)
  /\ toDevice' = toDevice \cup {txn[t].message}
  /\ End(t)
  /\ UNCHANGED <<aclTables, deviceTables, toAcl, edit, faults>>

-----------------------------------------------------------------------------
(* DeviceBindingSagaService.applyResult *)

MutantAwaitsAnyRequest(r, outcome) ==
  r # NoRelation /\ r.status = Pending(outcome.request)

Awaits(r, outcome) ==
  /\ r # NoRelation
  /\ r.request = outcome.request.id
  /\ r.status = Pending(outcome.request)

\* A result nobody waits for is acknowledged and dropped.
ReceiveResult(t, outcome) ==
  LET r == relation[outcome.request.device] IN
  /\ txn[t] = NoTransaction
  /\ outcome \in toAcl
  /\ toAcl' = toAcl \ {outcome}
  /\ txn' = IF Awaits(r, outcome)
            THEN [txn EXCEPT ![t] = [kind |-> "apply", outcome |-> outcome, seen |-> r]]
            ELSE txn
  /\ UNCHANGED <<aclTables, deviceTables, toDevice, edit, faults>>

MutantFailedUnbindNotCompensated(seen, outcome) ==
  IF outcome.request.type = "UNBIND" /\ outcome.succeeded THEN NoRelation
  ELSE [seen EXCEPT !.status =
          IF outcome.succeeded THEN "ACTIVE"
          ELSE IF outcome.request.type = "BIND" THEN "FAILED" ELSE @]

\* The row after the result: a finished unbinding deletes it, a failed one is
\* compensated back to ACTIVE.
Resolved(seen, outcome) ==
  IF outcome.request.type = "UNBIND" /\ outcome.succeeded THEN NoRelation
  ELSE [seen EXCEPT !.status =
          IF outcome.succeeded \/ outcome.request.type = "UNBIND" THEN "ACTIVE" ELSE "FAILED"]

\* applyResult, completeUnbind: WHERE id, request_id and binding_status
CommitResult(t) ==
  LET outcome == txn[t].outcome
      d == outcome.request.device
  IN
  /\ txn[t] # NoTransaction /\ txn[t].kind = "apply"
  /\ relation' = IF Awaits(relation[d], outcome) /\ relation[d].row = txn[t].seen.row
                 THEN [relation EXCEPT ![d] = Resolved(relation[d], outcome)]
                 ELSE relation
  /\ End(t)
  /\ UNCHANGED <<requests, deviceTables, toDevice, toAcl, edit, faults>>

-----------------------------------------------------------------------------
(* Delivery and crashes (external) *)

Redeliver ==
  /\ faults < MaxFaults
  /\ faults' = faults + 1
  /\ \/ \E m \in requests : toDevice' = toDevice \cup {m} /\ UNCHANGED toAcl
     \/ \E c \in commands : toAcl' = toAcl \cup {c} /\ UNCHANGED toDevice
  /\ UNCHANGED <<aclTables, deviceTables, txn, edit>>

\* A consumer dies before its commit; RabbitMQ requeues what it had not acknowledged.
CrashConsumer(t) ==
  /\ txn[t] # NoTransaction /\ txn[t].kind \in {"handle", "apply"}
  /\ faults < MaxFaults
  /\ faults' = faults + 1
  /\ toDevice' = IF txn[t].kind = "handle" THEN toDevice \cup {txn[t].message} ELSE toDevice
  /\ toAcl' = IF txn[t].kind = "apply" THEN toAcl \cup {txn[t].outcome} ELSE toAcl
  /\ End(t)
  /\ UNCHANGED <<aclTables, deviceTables, edit>>

-----------------------------------------------------------------------------
(* DeviceInstanceInfo: administrators edit and delete devices *)

\* getById and mergeMissingFields: a form without a status keeps the one it read.
ReadForEdit(a, d) ==
  /\ edit[a] = NoEdit
  /\ device[d] # "GONE"
  /\ \E s \in FormStatuses \cup {device[d]} :
       edit' = [edit EXCEPT ![a] = [device |-> {d}, status |-> s]]
  /\ UNCHANGED <<aclTables, deviceTables, toDevice, toAcl, txn, faults>>

\* updateById writes every field of the merged entity.
WriteEdit(a) ==
  /\ edit[a] # NoEdit
  /\ device' = [d \in Devices |->
                  IF d \in edit[a].device /\ device[d] # "GONE" THEN edit[a].status ELSE device[d]]
  /\ edit' = [edit EXCEPT ![a] = NoEdit]
  /\ UNCHANGED <<aclTables, commands, toDevice, toAcl, txn, faults>>

DeleteDevice(a, d) ==
  /\ edit[a] = NoEdit
  /\ device[d] # "GONE"
  /\ device' = [device EXCEPT ![d] = "GONE"]
  /\ UNCHANGED <<aclTables, commands, toDevice, toAcl, txn, edit, faults>>

-----------------------------------------------------------------------------

Consume(t) ==
  \/ \E m \in toDevice : ReceiveRequest(t, m)
  \/ CommitHandle(t)
  \/ RollbackHandle(t)
  \/ \E outcome \in toAcl : ReceiveResult(t, outcome)
  \/ CommitResult(t)

Next ==
  \/ \E t \in Clients :
       \/ \E m \in Message : ReadForRequest(t, m)
       \/ CommitRequest(t)
       \/ AnswerRequest(t)
  \/ \E t \in Consumers : Consume(t) \/ CrashConsumer(t)
  \/ Redeliver
  \/ \E a \in Admins :
       \/ \E d \in Devices : ReadForEdit(a, d) \/ DeleteDevice(a, d)
       \/ WriteEdit(a)

Spec == Init /\ [][Next]_vars

\* The listeners keep consuming; nothing makes users or administrators act.
FairSpec == Spec /\ \A t \in Consumers : WF_vars(Consume(t))

-----------------------------------------------------------------------------
(* Properties *)

\* Types of the two databases, the messages in flight and the open transactions.
TypeOK ==
  /\ relation \in [Devices -> Relations]
  /\ requests \subseteq Message
  /\ device \in [Devices -> {"IDLE", "IN_USE", "OTHER", "GONE"}]
  /\ commands \subseteq Outcome
  /\ toDevice \subseteq requests
  /\ toAcl \subseteq commands
  /\ txn \in [Threads -> Transaction \cup {NoTransaction}]
  /\ faults \in 0 .. MaxFaults

\* The relation's view of who has the device: active, bound at the device but not told
\* yet, or asked to give it back and the device not told yet.
Holding(d) ==
  LET r == relation[d]
      succeeded == \E c \in commands : c.request.id = r.request /\ c.succeeded
      handled == \E c \in commands : c.request.id = r.request
  IN r # NoRelation /\
     \/ r.status = "ACTIVE"
     \/ r.status = "PENDING_BIND" /\ succeeded
     \/ r.status = "PENDING_UNBIND" /\ ~ handled

\* The two databases agree at every moment once messages in flight are counted: a
\* device is in use exactly when its relation says somebody holds it.
RelationMatchesDevice ==
  \A d \in Devices : device[d] = "IN_USE" <=> Holding(d)

Ownership == INSTANCE DeviceOwnership WITH
  owner <- [d \in Devices |->
              IF device[d] = "IN_USE" /\ relation[d] # NoRelation
              THEN relation[d].user ELSE Nobody]

\* However requests and results are repeated, delayed or reordered, a device passes
\* from nobody to one user and back, never from one user to another.
ImplementsOwnership == Ownership!OwnershipSpec

\* isActiveOwner: a user whose relation is ACTIVE has a device that is in use, unless it
\* was deleted.
ActiveMeansInUse ==
  \A d \in Devices :
    relation[d] # NoRelation /\ relation[d].status = "ACTIVE"
      => device[d] \in {"IN_USE", "GONE"}

\* A pending relation is resolved in the end, even when the device was edited or deleted.
PendingIsResolved ==
  \A d \in Devices, r \in Requests :
    (relation[d] # NoRelation /\ relation[d].request = r
       /\ relation[d].status \in {"PENDING_BIND", "PENDING_UNBIND"})
    ~> ~ (relation[d] # NoRelation /\ relation[d].request = r
            /\ relation[d].status \in {"PENDING_BIND", "PENDING_UNBIND"})

=============================================================================
