---------------------------- MODULE OrderAssignment ----------------------------
(***************************************************************************)
(* How service-device gives a maintenance order to exactly one worker.     *)
(*                                                                         *)
(* Threads of any number of service instances serve approvals, manual      *)
(* claims, automatic assignment commands and completions against one       *)
(* database: maintain_record, maintain_order_claim (unique per order and   *)
(* per request id), dispatch_assignment (unique per idempotency key and    *)
(* per dispatch id), and the two outbox tables.  Claims and assignments    *)
(* also take the Redisson lock of the order, with tryLock() and no wait;   *)
(* a request it turns away changes nothing and has no action here.         *)
(*                                                                         *)
(* A transaction is a read step and a commit step.  The database runs at   *)
(* its default REPEATABLE READ, so all plain reads see the state of the    *)
(* first one; updates and unique keys see what is committed, and their row *)
(* locks make the write phases of two transactions on one order serial.    *)
(***************************************************************************)
EXTENDS OrderStatus, Naturals, FiniteSets

CONSTANTS
  Orders, Workers, NoWorker,
  Keys,              \* request ids of claims and idempotency keys of commands
  Dispatches,        \* dispatch ids
  Threads,           \* request threads, over all service instances
  Free, Orphan,      \* a lock nobody holds; a lock whose holder has died
  NoCommand,
  ClaimCommands,     \* the manual claims users may send
  AssignCommands,    \* the assignment commands the agent may send
  Eligible,          \* <<order, worker>>: profile active, on duty, region and skill match
  Capacity,          \* capacity of each worker's dispatch profile
  Urgent,            \* orders of priority URGENT
  LegacyOrders,      \* orders whose row predates the claim window
  LockMayBeLost      \* whether Redis may drop a lock its live holder relies on

ASSUME CommandAssumption ==
  /\ ClaimCommands \subseteq
       [kind: {"claim"}, order: Orders, worker: Workers, key: Keys]
  /\ AssignCommands \subseteq
       [kind: {"assign"}, order: Orders, worker: Workers, key: Keys,
        dispatch: Dispatches, expected: Nat]

ASSUME WorkerAssumption ==
  /\ NoWorker \notin Workers
  /\ Eligible \subseteq Orders \X Workers
  /\ Capacity \in [Workers -> Nat]

ASSUME LockAssumption ==
  /\ Free \notin Threads
  /\ Orphan \notin Threads
  /\ Free # Orphan
  /\ LockMayBeLost \in BOOLEAN

ASSUME OrderAssumption == Urgent \subseteq Orders /\ LegacyOrders \subseteq Orders

ApproveCommands == [kind: {"approve"}, order: Orders, approved: BOOLEAN]
CompleteCommands == [kind: {"complete"}, order: Orders]
LockedCommands == ClaimCommands \cup AssignCommands
Commands == LockedCommands \cup ApproveCommands \cup CompleteCommands

ASSUME NoCommandAssumption == NoCommand \notin Commands

-----------------------------------------------------------------------------

VARIABLES
  order,            \* maintain_record: status, worker (miantain_id) and version
  claims,           \* maintain_order_claim
  assignments,      \* dispatch_assignment: the command (its hash) and its receipt
  dispatchOutbox,   \* dispatch_event_outbox rows written by approvals
  knowledgeOutbox,  \* work_order_knowledge_outbox rows written by completions
  lock,             \* lock[o]: the thread holding order:lock:<o>, Free or Orphan
  pc,               \* where each thread is in its handler
  cmd,              \* the request each thread serves
  snap,             \* the order row each thread read
  reply,            \* the receipt each thread has decided on
  refused           \* commands that were given a final refusal (history)

tables == <<order, claims, assignments, dispatchOutbox, knowledgeOutbox>>
threadVars == <<pc, cmd, snap, reply>>
vars == <<tables, lock, threadVars, refused>>

Row == [status: DatabaseStatus, worker: Workers \cup {NoWorker}, version: Nat]
ClaimRow == [order: Orders, worker: Workers, key: Keys]
ReceiptStatus == {"ACCEPTED", "ALREADY_APPLIED", "VERSION_CONFLICT", "REJECTED"}
AssignmentRow == [command: AssignCommands, status: ReceiptStatus]
EventRow == [order: Orders, version: Nat]

\* A claim is answered SUCCESS, IDEMPOTENT_SUCCESS or one of several refusals.
Replies == ReceiptStatus \cup {"SUCCESS", "IDEMPOTENT_SUCCESS", "REFUSED", "ERROR", "NONE"}
Locations == {"idle", "entered", "writing", "conflict", "leaving"}

AbsentRow == [status |-> "ABSENT", worker |-> NoWorker, version |-> 0]
LegacyRow == [AbsentRow EXCEPT !.status = "LEGACY_APPROVED"]

Init ==
  /\ order = [o \in Orders |-> IF o \in LegacyOrders THEN LegacyRow ELSE AbsentRow]
  /\ claims = {}
  /\ assignments = {}
  /\ dispatchOutbox = {}
  /\ knowledgeOutbox = {}
  /\ lock = [o \in Orders |-> Free]
  /\ pc = [t \in Threads |-> "idle"]
  /\ cmd = [t \in Threads |-> NoCommand]
  /\ snap = [t \in Threads |-> AbsentRow]
  /\ reply = [t \in Threads |-> "NONE"]
  /\ refused = {}

-----------------------------------------------------------------------------
(* The thread's bookkeeping. *)

Begin(t, c, location, row) ==
  /\ pc' = [pc EXCEPT ![t] = location]
  /\ cmd' = [cmd EXCEPT ![t] = c]
  /\ snap' = [snap EXCEPT ![t] = row]
  /\ UNCHANGED reply

\* The transaction has read; its write and the receipt it will give are decided.
Decide(t, row, receipt) ==
  /\ pc' = [pc EXCEPT ![t] = "writing"]
  /\ snap' = [snap EXCEPT ![t] = row]
  /\ reply' = [reply EXCEPT ![t] = receipt]
  /\ UNCHANGED <<cmd, refused>>

\* The receipt is final and only the finally block is left.
Answer(t, receipt) ==
  /\ pc' = [pc EXCEPT ![t] = "leaving"]
  /\ reply' = [reply EXCEPT ![t] = receipt]
  /\ refused' = IF cmd[t].kind = "assign" /\ receipt \in {"REJECTED", "VERSION_CONFLICT"}
                THEN refused \cup {cmd[t]} ELSE refused
  /\ UNCHANGED <<cmd, snap>>

Finish(t) ==
  /\ pc' = [pc EXCEPT ![t] = "idle"]
  /\ cmd' = [cmd EXCEPT ![t] = NoCommand]
  /\ snap' = [snap EXCEPT ![t] = AbsentRow]
  /\ reply' = [reply EXCEPT ![t] = "NONE"]

\* updateById with @Version: null fields of the entity are not written.
UpdateById(row, entity) ==
  [status  |-> entity.status,
   worker  |-> IF entity.worker = NoWorker THEN row.worker ELSE entity.worker,
   version |-> entity.version + 1]

\* OrderLifecycleService.apply with the handlers that set or leave the worker.
MutantApplyKeepsWorker(row, event, w) ==
  [row EXCEPT !.status = TargetStatus(row.status, event)]

Apply(row, event, w) ==
  [row EXCEPT !.status = TargetStatus(row.status, event), !.worker = w]

MutantNoVersionCheck(t) == TRUE

\* WHERE version = the version that was read
VersionMatches(t) == order[cmd[t].order].version = snap[t].version

NextVersion(t) == [order |-> cmd[t].order, version |-> snap[t].version + 1]

-----------------------------------------------------------------------------
(* Creation, approval and completion take no lock. *)

CreateOrder(o) ==
  /\ order[o].status = "ABSENT"
  /\ order' = [order EXCEPT ![o].status = "PENDING_APPROVAL"]
  /\ UNCHANGED <<claims, assignments, dispatchOutbox, knowledgeOutbox, lock, threadVars, refused>>

ReadForApproval(t, c) ==
  /\ pc[t] = "idle"
  /\ order[c.order].status = "PENDING_APPROVAL"
  /\ Begin(t, c, "writing", order[c.order])
  /\ UNCHANGED <<tables, lock, refused>>

MutantEventOnRejection(t) == IF cmd[t].order \in Urgent THEN {NextVersion(t)} ELSE {}

UrgentEvent(t) ==
  IF cmd[t].approved /\ cmd[t].order \in Urgent THEN {NextVersion(t)} ELSE {}

\* An approval and the event of an urgent order are one transaction.
CommitApproval(t) ==
  LET c == cmd[t]
      entity == Apply(snap[t], IF c.approved THEN "APPROVE" ELSE "REJECT", snap[t].worker)
  IN
  /\ pc[t] = "writing"
  /\ c.kind = "approve"
  /\ IF VersionMatches(t)
     THEN /\ order' = [order EXCEPT ![c.order] = UpdateById(@, entity)]
          /\ dispatchOutbox' = dispatchOutbox \cup UrgentEvent(t)
     ELSE UNCHANGED <<order, dispatchOutbox>>
  /\ Finish(t)
  /\ UNCHANGED <<claims, assignments, knowledgeOutbox, lock, refused>>

ReadForCompletion(t, c) ==
  /\ pc[t] = "idle"
  /\ CanTransition(order[c.order].status, "COMPLETE")
  /\ Begin(t, c, "writing", order[c.order])
  /\ UNCHANGED <<tables, lock, refused>>

\* A completion and its knowledge event are one transaction.
CommitCompletion(t) ==
  LET c == cmd[t]
      entity == Apply(snap[t], "COMPLETE", snap[t].worker)
  IN
  /\ pc[t] = "writing"
  /\ c.kind = "complete"
  /\ IF VersionMatches(t)
     THEN /\ order' = [order EXCEPT ![c.order] = UpdateById(@, entity)]
          /\ knowledgeOutbox' = knowledgeOutbox \cup {NextVersion(t)}
     ELSE UNCHANGED <<order, knowledgeOutbox>>
  /\ Finish(t)
  /\ UNCHANGED <<claims, assignments, dispatchOutbox, lock, refused>>

-----------------------------------------------------------------------------
(* The order lock. *)

Acquire(t, c) ==
  /\ pc[t] = "idle"
  /\ lock[c.order] = Free
  /\ lock' = [lock EXCEPT ![c.order] = t]
  /\ Begin(t, c, "entered", AbsentRow)
  /\ UNCHANGED <<tables, refused>>

MutantKeepLock(t) == lock

\* finally: unlock only what this thread still holds.
Unlock(t) ==
  IF lock[cmd[t].order] = t THEN [lock EXCEPT ![cmd[t].order] = Free] ELSE lock

Leave(t) ==
  /\ pc[t] = "leaving"
  /\ lock' = Unlock(t)
  /\ Finish(t)
  /\ UNCHANGED <<tables, refused>>

\* The watchdog of a dead holder stops renewing; Redis may also lose a live lock.
ExpireLock(o) ==
  /\ lock[o] = Orphan \/ (LockMayBeLost /\ lock[o] \in Threads)
  /\ lock' = [lock EXCEPT ![o] = Free]
  /\ UNCHANGED <<tables, threadVars, refused>>

\* The service instance dies: its transaction is rolled back, its locks stay.
Crash(t) ==
  /\ pc[t] # "idle"
  /\ lock' = [o \in Orders |-> IF lock[o] = t THEN Orphan ELSE lock[o]]
  /\ Finish(t)
  /\ UNCHANGED <<tables, refused>>

\* Any other exception (a dependency, a deadlock victim): rolled back, answered 5xx.
FailTransaction(t) ==
  /\ pc[t] \in {"entered", "writing"}
  /\ cmd[t].kind \in {"claim", "assign"}
  /\ Answer(t, "ERROR")
  /\ UNCHANGED <<tables, lock>>

-----------------------------------------------------------------------------
(* MaintainRecordServiceImpl.claimOrder *)

ClaimRowOf(c) == [order |-> c.order, worker |-> c.worker, key |-> c.key]

ClaimConflict(c) == \E k \in claims : k.order = c.order \/ k.key = c.key

ReplayClaim(t) ==
  LET c == cmd[t] IN
  /\ pc[t] = "entered"
  /\ c.kind = "claim"
  /\ \E k \in claims :
       /\ k.key = c.key
       /\ Answer(t, IF k.order = c.order /\ k.worker = c.worker
                    THEN "IDEMPOTENT_SUCCESS" ELSE "REFUSED")
  /\ UNCHANGED <<tables, lock>>

Claimable(c) ==
  /\ ~ \E k \in claims : k.order = c.order
  /\ CanTransition(order[c.order].status, "MANUAL_CLAIM")
  /\ order[c.order].worker = NoWorker

ReadForClaim(t) ==
  LET c == cmd[t] IN
  /\ pc[t] = "entered"
  /\ c.kind = "claim"
  /\ ~ \E k \in claims : k.key = c.key
  /\ IF Claimable(c)
     THEN Decide(t, order[c.order], "SUCCESS")
     ELSE Answer(t, "REFUSED")
  /\ UNCHANGED <<tables, lock>>

CommitClaim(t) ==
  LET c == cmd[t]
      entity == Apply(snap[t], "MANUAL_CLAIM", c.worker)
  IN
  /\ pc[t] = "writing"
  /\ c.kind = "claim"
  /\ ~ ClaimConflict(c)
  /\ VersionMatches(t)
  /\ claims' = claims \cup {ClaimRowOf(c)}
  /\ order' = [order EXCEPT ![c.order] = UpdateById(@, entity)]
  /\ Answer(t, "SUCCESS")
  /\ UNCHANGED <<assignments, dispatchOutbox, knowledgeOutbox, lock>>

\* DuplicateKeyException, or ClaimOrderConflictException from the optimistic lock.
AbortClaim(t) ==
  LET c == cmd[t] IN
  /\ pc[t] = "writing"
  /\ c.kind = "claim"
  /\ ClaimConflict(c) \/ ~ VersionMatches(t)
  /\ Answer(t, "ERROR")
  /\ UNCHANGED <<tables, lock>>

-----------------------------------------------------------------------------
(* DispatchTransactionService.assign under DispatchCommandService.assign *)

SameKey(c) == {r \in assignments : r.command.key = c.key}
SameDispatch(c) == {r \in assignments : r.command.dispatch = c.dispatch}

\* The row a replay answers from: by idempotency key first, then by dispatch id.
Previous(c) == IF SameKey(c) # {} THEN SameKey(c) ELSE SameDispatch(c)

MutantReplayIgnoresHash(row, c) ==
  IF row.status = "ACCEPTED" THEN "ALREADY_APPLIED" ELSE row.status

ReplayStatus(row, c) ==
  IF row.command # c THEN "REJECTED"
  ELSE IF row.status = "ACCEPTED" THEN "ALREADY_APPLIED" ELSE row.status

ReplayAssign(t) ==
  LET c == cmd[t] IN
  /\ pc[t] = "entered"
  /\ c.kind = "assign"
  /\ \E r \in Previous(c) : Answer(t, ReplayStatus(r, c))
  /\ UNCHANGED <<tables, lock>>

\* MaintainRecordMapper.countActiveOrders
ActiveOrders(w) == {o \in Orders : order[o].worker = w /\ order[o].status = "IN_PROGRESS"}

WorkerEligible(c) ==
  /\ <<c.order, c.worker>> \in Eligible
  /\ Cardinality(ActiveOrders(c.worker)) < Capacity[c.worker]

\* The receipt the reads lead to; ACCEPTED still has to win the update.
Decision(c) ==
  LET row == order[c.order] IN
  IF row.status = "ABSENT" \/ row.worker # NoWorker \/ row.status = "IN_PROGRESS"
    THEN "REJECTED"
  ELSE IF c.expected # row.version
    THEN "VERSION_CONFLICT"
  ELSE IF CanTransition(row.status, "AUTO_ASSIGN") /\ WorkerEligible(c)
    THEN "ACCEPTED"
  ELSE "REJECTED"

ReadForAssign(t) ==
  LET c == cmd[t] IN
  /\ pc[t] = "entered"
  /\ c.kind = "assign"
  /\ Previous(c) = {}
  /\ Decide(t, order[c.order], Decision(c))
  /\ UNCHANGED <<tables, lock>>

\* assignIfVersionMatches updates one row
UpdateMatches(c) ==
  /\ order[c.order].version = c.expected
  /\ order[c.order].worker = NoWorker
  /\ order[c.order].status \in {"LEGACY_APPROVED", "WAITING_FOR_CLAIM"}

MutantAssignedKeepsVersion(row, c) ==
  [status |-> "IN_PROGRESS", worker |-> c.worker, version |-> row.version]

AssignedRow(row, c) ==
  [status |-> "IN_PROGRESS", worker |-> c.worker, version |-> row.version + 1]

Assigns(t) == reply[t] = "ACCEPTED" /\ UpdateMatches(cmd[t])

\* The receipt row violates a unique key, or the claim row of an assignment does.
DuplicateKey(t) ==
  LET c == cmd[t] IN
  \/ SameKey(c) \cup SameDispatch(c) # {}
  \/ Assigns(t) /\ ClaimConflict(c)

CommitAssignment(t) ==
  LET c == cmd[t] IN
  /\ pc[t] = "writing"
  /\ c.kind = "assign"
  /\ Assigns(t)
  /\ ~ DuplicateKey(t)
  /\ order' = [order EXCEPT ![c.order] = AssignedRow(@, c)]
  /\ claims' = claims \cup {ClaimRowOf(c)}
  /\ assignments' = assignments \cup {[command |-> c, status |-> "ACCEPTED"]}
  /\ Answer(t, "ACCEPTED")
  /\ UNCHANGED <<dispatchOutbox, knowledgeOutbox, lock>>

MutantRefusalNotPersisted(c, receipt) == {}

\* rejectAndPersist
RefusalRow(c, receipt) == {[command |-> c, status |-> receipt]}

\* A refusal decided by the reads, or an update that matched no row: the re-read
\* sees the same snapshot, so the loser records VERSION_CONFLICT.
CommitRefusal(t) ==
  LET c == cmd[t]
      receipt == IF reply[t] = "ACCEPTED" THEN "VERSION_CONFLICT" ELSE reply[t]
  IN
  /\ pc[t] = "writing"
  /\ c.kind = "assign"
  /\ ~ Assigns(t)
  /\ ~ DuplicateKey(t)
  /\ assignments' = assignments \cup RefusalRow(c, receipt)
  /\ Answer(t, receipt)
  /\ UNCHANGED <<order, claims, dispatchOutbox, knowledgeOutbox, lock>>

RollbackDuplicate(t) ==
  /\ pc[t] = "writing"
  /\ cmd[t].kind = "assign"
  /\ DuplicateKey(t)
  /\ pc' = [pc EXCEPT ![t] = "conflict"]
  /\ UNCHANGED <<tables, lock, cmd, snap, reply, refused>>

\* catch DuplicateKeyException: look the key up after the rollback.
ResolveDuplicate(t) ==
  LET c == cmd[t] IN
  /\ pc[t] = "conflict"
  /\ Answer(t, IF \E r \in SameKey(c) : r.command = c THEN "ALREADY_APPLIED" ELSE "REJECTED")
  /\ UNCHANGED <<tables, lock>>

-----------------------------------------------------------------------------

\* What a thread does once it has started on a request.
Progress(t) ==
  \/ CommitApproval(t)
  \/ CommitCompletion(t)
  \/ ReplayClaim(t)
  \/ ReadForClaim(t)
  \/ CommitClaim(t)
  \/ AbortClaim(t)
  \/ ReplayAssign(t)
  \/ ReadForAssign(t)
  \/ CommitAssignment(t)
  \/ CommitRefusal(t)
  \/ RollbackDuplicate(t)
  \/ ResolveDuplicate(t)
  \/ Leave(t)

Next ==
  \/ \E o \in Orders : CreateOrder(o) \/ ExpireLock(o)
  \/ \E t \in Threads :
       \/ \E c \in ApproveCommands : ReadForApproval(t, c)
       \/ \E c \in CompleteCommands : ReadForCompletion(t, c)
       \/ \E c \in LockedCommands : Acquire(t, c)
       \/ Progress(t)
       \/ Crash(t)
       \/ FailTransaction(t)

Spec == Init /\ [][Next]_vars

\* A request thread is scheduled until it answers; Redis expires an unrenewed lock.
FairSpec ==
  /\ Spec
  /\ \A t \in Threads : WF_vars(Progress(t))
  /\ \A o \in Orders : WF_vars(lock[o] = Orphan /\ ExpireLock(o))

-----------------------------------------------------------------------------
(* Properties *)

\* Types of the tables, the locks and the threads' local state.
TypeOK ==
  /\ order \in [Orders -> Row]
  /\ claims \subseteq ClaimRow
  /\ assignments \subseteq AssignmentRow
  /\ dispatchOutbox \subseteq EventRow
  /\ knowledgeOutbox \subseteq EventRow
  /\ lock \in [Orders -> Threads \cup {Free, Orphan}]
  /\ pc \in [Threads -> Locations]
  /\ cmd \in [Threads -> Commands \cup {NoCommand}]
  /\ snap \in [Threads -> Row]
  /\ reply \in [Threads -> Replies]
  /\ refused \subseteq AssignCommands

\* An order carries a worker exactly when there is a claim row for it, the row
\* names that worker, and there is never a second row: claimOrder and assign write
\* the two tables in different orders and only one of them may win.
ClaimMatchesOrder ==
  /\ \A o \in Orders :
       (order[o].worker # NoWorker) <=> (\E k \in claims : k.order = o)
  /\ \A k \in claims : k.worker = order[k.order].worker
  /\ \A k1, k2 \in claims : k1.order = k2.order => k1 = k2

\* At most one assignment command is ever ACCEPTED for an order, and the order
\* belongs to the worker that command named, whatever was retried or duplicated.
AcceptedIsTheAssignment ==
  \A r1 \in assignments :
    r1.status = "ACCEPTED" =>
      /\ order[r1.command.order].worker = r1.command.worker
      /\ order[r1.command.order].version > r1.command.expected
      /\ \A r2 \in assignments :
           r2.status = "ACCEPTED" /\ r2.command.order = r1.command.order => r1 = r2

\* A command that was once answered REJECTED or VERSION_CONFLICT never takes effect
\* afterwards, so a caller may act on the refusal.  (ORDER_BUSY_RETRYABLE, the answer of
\* a request that did not get the lock, is not such a refusal.)
RefusalIsFinal ==
  \A r \in assignments : r.status = "ACCEPTED" => r.command \notin refused

\* A caller told of success (first answer or replay) finds the order with its worker.
SuccessReceiptIsTrue ==
  \A t \in Threads :
    pc[t] = "leaving" /\ reply[t] \in {"ACCEPTED", "ALREADY_APPLIED", "SUCCESS", "IDEMPOTENT_SUCCESS"}
      => order[cmd[t].order].worker = cmd[t].worker

\* The outbox rows and the order row they announce commit together: an urgent order
\* that left approval has its dispatch event, a completed order has one knowledge
\* event carrying the row's version, and nothing else has either.
OutboxMatchesOrder ==
  /\ \A o \in Urgent \ LegacyOrders :
       order[o].status \in {"WAITING_FOR_CLAIM", "IN_PROGRESS", "COMPLETED"}
         <=> \E e \in dispatchOutbox : e.order = o
  /\ \A o \in Orders :
       {e.version : e \in {k \in knowledgeOutbox : k.order = o}} =
         IF order[o].status = "COMPLETED" THEN {order[o].version} ELSE {}

\* The lifecycle the service promises: OrderLifecycle, read through the database values.
Lifecycle == INSTANCE OrderLifecycle WITH
  stage <- [o \in Orders |-> FromDatabase(order[o].status)],
  assignee <- [o \in Orders |-> order[o].worker]

\* Every interleaving of claims, commands, retries, crashes and lost locks is a
\* behaviour of the lifecycle: one assignment per order, never undone.
ImplementsLifecycle == Lifecycle!LifecycleSpec

\* Worker capacity, as assign checks it: an automatic assignment goes to a worker that
\* still has room when it takes effect.
AssignmentLeavesRoom ==
  [][\A t \in Threads :
       CommitAssignment(t) =>
         Cardinality(ActiveOrders(cmd[t].worker)) < Capacity[cmd[t].worker]]_vars

\* A lock left behind by a dead instance does not block the order for ever.
LockIsReleased == \A o \in Orders : lock[o] # Free ~> lock[o] = Free

=============================================================================
