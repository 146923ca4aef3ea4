------------------------ MODULE OrderAssignment_proofs ------------------------
(***************************************************************************)
(* Proofs about OrderAssignment, for any orders, workers, commands and     *)
(* threads, with or without reliable locks.  Only SuccessIsTrue is about   *)
(* the lock: versions and unique keys alone give an order one worker.      *)
(***************************************************************************)
EXTENDS OrderAssignment, TLAPS

\* Commands that a receipt or a claim row keeps out for ever.
Blocked(c) == SameKey(c) \cup SameDispatch(c) # {} \/ ClaimConflict(c)

Waiting == {"WAITING_FOR_CLAIM", "LEGACY_APPROVED"}

\* What a thread has read stays true of the row until the version moves.
SnapshotIsOld(t) ==
  /\ snap[t].version <= order[cmd[t].order].version
  /\ (snap[t].version = order[cmd[t].order].version /\ snap[t].status # "ABSENT")
       => snap[t] = order[cmd[t].order]

\* What a thread that is about to write has read, by the kind of its command.
ReadyToWrite(t) ==
  /\ cmd[t].kind = "approve" => snap[t].status = "PENDING_APPROVAL"
  /\ cmd[t].kind = "complete" => snap[t].status = "IN_PROGRESS"
  /\ cmd[t].kind = "claim" => snap[t].status \in Waiting /\ snap[t].worker = NoWorker
  /\ cmd[t].kind = "assign" => reply[t] \in {"ACCEPTED", "VERSION_CONFLICT", "REJECTED"}

ThreadInv ==
  \A t \in Threads :
    /\ pc[t] # "idle" => cmd[t] \in Commands
    /\ pc[t] \in {"entered", "leaving"} => cmd[t] \in LockedCommands
    /\ pc[t] = "conflict" => cmd[t] \in AssignCommands /\ Blocked(cmd[t])
    /\ pc[t] = "writing" => ReadyToWrite(t) /\ SnapshotIsOld(t)

KeysAreUnique ==
  \A r1, r2 \in assignments : r1.command.key = r2.command.key => r1 = r2

AcceptedHasClaim ==
  \A r \in assignments :
    r.status = "ACCEPTED" =>
      /\ ClaimRowOf(r.command) \in claims
      /\ order[r.command.order].version > r.command.expected

AcceptedOncePerOrder ==
  \A r1, r2 \in assignments :
    r1.status = "ACCEPTED" /\ r2.status = "ACCEPTED" /\ r1.command.order = r2.command.order
      => r1 = r2

RefusedIsBlocked == \A c \in refused : Blocked(c)

OnlyLegacyIsLegacy ==
  \A o \in Orders : order[o].status = "LEGACY_APPROVED" => o \in LegacyOrders

IInv ==
  /\ TypeOK
  /\ ThreadInv
  /\ ClaimMatchesOrder
  /\ KeysAreUnique
  /\ AcceptedHasClaim
  /\ AcceptedOncePerOrder
  /\ RefusedIsBlocked
  /\ RefusalIsFinal
  /\ OnlyLegacyIsLegacy
  /\ OutboxMatchesOrder

-----------------------------------------------------------------------------
(* The command sets and the transition table *)

\* The kind of a command tells which set it comes from, and so which fields it has.
LEMMA CommandKinds ==
  ASSUME NEW c \in Commands
  PROVE  /\ c.order \in Orders
         /\ c.kind \in {"approve", "complete", "claim", "assign"}
         /\ c.kind = "approve" => c \in ApproveCommands /\ c.approved \in BOOLEAN
         /\ c.kind = "claim" => c \in ClaimCommands
         /\ c.kind = "assign" => c \in AssignCommands
         /\ c \in LockedCommands => c.kind \in {"claim", "assign"}
  BY CommandAssumption DEF Commands, LockedCommands, ApproveCommands, CompleteCommands

\* The fields of claims and of assignment commands.
LEMMA CommandFields ==
  /\ \A c \in ClaimCommands :
       c.kind = "claim" /\ c.order \in Orders /\ c.worker \in Workers /\ c.key \in Keys
  /\ \A c \in AssignCommands :
       /\ c.kind = "assign" /\ c.order \in Orders /\ c.worker \in Workers /\ c.key \in Keys
       /\ c.expected \in Nat
  BY CommandAssumption

\* OrderStateMachine's table, one event at a time.
LEMMA TransitionTable ==
  ASSUME NEW s \in DatabaseStatus
  PROVE  /\ CanTransition(s, "COMPLETE") => s = "IN_PROGRESS"
         /\ CanTransition(s, "MANUAL_CLAIM") => s \in Waiting
         /\ CanTransition(s, "AUTO_ASSIGN") => s \in Waiting
  BY DEF CanTransition, FromDatabase, Transitions, DatabaseStatus, MaintainOrderStatus, Waiting

\* The status each event leads to.
LEMMA Targets ==
  /\ TargetStatus("PENDING_APPROVAL", "APPROVE") = "WAITING_FOR_CLAIM"
  /\ TargetStatus("PENDING_APPROVAL", "REJECT") = "REJECTED"
  /\ TargetStatus("IN_PROGRESS", "COMPLETE") = "COMPLETED"
  /\ \A s \in Waiting : TargetStatus(s, "MANUAL_CLAIM") = "IN_PROGRESS"
  BY DEF TargetStatus, FromDatabase, Transitions, Waiting

-----------------------------------------------------------------------------
(* What the writing transactions do to the order row *)

\* An approval that wins its version check moves a pending order and nothing else.
LEMMA ApprovalStep ==
  ASSUME TypeOK, ThreadInv, NEW t \in Threads, CommitApproval(t)
  PROVE  LET o == cmd[t].order IN
         /\ o \in Orders
         /\ \/ UNCHANGED <<order, dispatchOutbox>>
            \/ /\ order[o].status = "PENDING_APPROVAL"
               /\ order' = [order EXCEPT ![o] =
                    [status  |-> IF cmd[t].approved THEN "WAITING_FOR_CLAIM" ELSE "REJECTED",
                     worker  |-> order[o].worker,
                     version |-> order[o].version + 1]]
               /\ dispatchOutbox' = dispatchOutbox \cup UrgentEvent(t)
               /\ NextVersion(t) = [order |-> o, version |-> order[o].version + 1]
<1> DEFINE o == cmd[t].order
           event == IF cmd[t].approved THEN "APPROVE" ELSE "REJECT"
           entity == Apply(snap[t], event, snap[t].worker)
<1>1. cmd[t] \in Commands /\ o \in Orders /\ cmd[t].approved \in BOOLEAN
  BY CommandKinds DEF ThreadInv, CommitApproval
<1>2. CASE ~ VersionMatches(t)
  BY <1>1, <1>2 DEF CommitApproval
<1>3. CASE VersionMatches(t)
  <2>1. snap[t].status = "PENDING_APPROVAL" /\ SnapshotIsOld(t)
    BY DEF ThreadInv, CommitApproval, ReadyToWrite
  <2>2. snap[t] = order[o]
    BY <1>3, <2>1 DEF SnapshotIsOld, VersionMatches
  <2>3. order[o] \in Row
    BY <1>1 DEF TypeOK
  <2>4. order' = [order EXCEPT ![o] = UpdateById(order[o], entity)]
    BY <1>3 DEF CommitApproval
  <2>5. entity = [order[o] EXCEPT !.status = TargetStatus("PENDING_APPROVAL", event)]
    BY <2>1, <2>2, <2>3 DEF Apply, Row
  <2>6. TargetStatus("PENDING_APPROVAL", event) =
          IF cmd[t].approved THEN "WAITING_FOR_CLAIM" ELSE "REJECTED"
    BY <1>1, Targets
  <2>7. UpdateById(order[o], entity) =
          [status  |-> IF cmd[t].approved THEN "WAITING_FOR_CLAIM" ELSE "REJECTED",
           worker  |-> order[o].worker,
           version |-> order[o].version + 1]
    BY <2>3, <2>5, <2>6 DEF UpdateById, Row
  <2>8. dispatchOutbox' = dispatchOutbox \cup UrgentEvent(t)
    BY <1>3 DEF CommitApproval
  <2>9. NextVersion(t) = [order |-> o, version |-> order[o].version + 1]
    BY <2>2 DEF NextVersion
  <2> QED BY <1>1, <2>1, <2>2, <2>4, <2>7, <2>8, <2>9
<1> QED BY <1>2, <1>3

\* A completion that wins its version check completes an order in progress.
LEMMA CompletionStep ==
  ASSUME TypeOK, ThreadInv, NEW t \in Threads, CommitCompletion(t)
  PROVE  LET o == cmd[t].order IN
         /\ o \in Orders
         /\ \/ UNCHANGED <<order, knowledgeOutbox>>
            \/ /\ order[o].status = "IN_PROGRESS"
               /\ order' = [order EXCEPT ![o] =
                    [status  |-> "COMPLETED",
                     worker  |-> order[o].worker,
                     version |-> order[o].version + 1]]
               /\ knowledgeOutbox' =
                    knowledgeOutbox \cup {[order |-> o, version |-> order[o].version + 1]}
<1> DEFINE o == cmd[t].order
           entity == Apply(snap[t], "COMPLETE", snap[t].worker)
<1>1. cmd[t] \in Commands /\ o \in Orders
  BY CommandKinds DEF ThreadInv, CommitCompletion
<1>2. CASE ~ VersionMatches(t)
  BY <1>1, <1>2 DEF CommitCompletion
<1>3. CASE VersionMatches(t)
  <2>1. snap[t].status = "IN_PROGRESS" /\ SnapshotIsOld(t)
    BY DEF ThreadInv, CommitCompletion, ReadyToWrite
  <2>2. snap[t] = order[o]
    BY <1>3, <2>1 DEF SnapshotIsOld, VersionMatches
  <2>3. order[o] \in Row
    BY <1>1 DEF TypeOK
  <2>4. order' = [order EXCEPT ![o] = UpdateById(order[o], entity)]
    BY <1>3 DEF CommitCompletion
  <2>5. entity = [order[o] EXCEPT !.status = "COMPLETED"]
    BY <2>1, <2>2, <2>3, Targets DEF Apply, Row
  <2>6. UpdateById(order[o], entity) =
          [status |-> "COMPLETED", worker |-> order[o].worker, version |-> order[o].version + 1]
    BY <2>3, <2>5 DEF UpdateById, Row
  <2>7. knowledgeOutbox' =
          knowledgeOutbox \cup {[order |-> o, version |-> order[o].version + 1]}
    BY <1>3, <2>2 DEF CommitCompletion, NextVersion
  <2> QED BY <1>1, <2>1, <2>2, <2>4, <2>6, <2>7
<1> QED BY <1>2, <1>3

\* A claim that commits finds an order that waits, has no worker and no claim row.
LEMMA ClaimStep ==
  ASSUME TypeOK, ThreadInv, NEW t \in Threads, CommitClaim(t)
  PROVE  LET c == cmd[t]
             o == cmd[t].order
         IN
         /\ c \in ClaimCommands /\ o \in Orders
         /\ order[o].status \in Waiting /\ order[o].worker = NoWorker
         /\ order' = [order EXCEPT ![o] =
              [status |-> "IN_PROGRESS", worker |-> c.worker, version |-> order[o].version + 1]]
         /\ claims' = claims \cup {ClaimRowOf(c)}
<1> DEFINE c == cmd[t]
           o == cmd[t].order
           entity == Apply(snap[t], "MANUAL_CLAIM", c.worker)
<1>1. c \in ClaimCommands /\ o \in Orders /\ c.worker \in Workers
  BY CommandKinds, CommandFields DEF ThreadInv, CommitClaim
<1>2. snap[t].status \in Waiting /\ snap[t].worker = NoWorker /\ SnapshotIsOld(t)
  BY DEF ThreadInv, CommitClaim, ReadyToWrite
<1>3. snap[t] = order[o]
  BY <1>2 DEF SnapshotIsOld, VersionMatches, CommitClaim, Waiting
<1>4. order[o] \in Row
  BY <1>1 DEF TypeOK
<1>5. entity = [order[o] EXCEPT !.status = "IN_PROGRESS", !.worker = c.worker]
  BY <1>2, <1>3, <1>4, Targets DEF Apply, Row
<1>6. UpdateById(order[o], entity) =
        [status |-> "IN_PROGRESS", worker |-> c.worker, version |-> order[o].version + 1]
  BY <1>1, <1>4, <1>5, WorkerAssumption DEF UpdateById, Row
<1> QED BY <1>1, <1>2, <1>3, <1>6 DEF CommitClaim

\* So does an assignment, which also leaves its receipt.
LEMMA AssignmentStep ==
  ASSUME TypeOK, ThreadInv, NEW t \in Threads, CommitAssignment(t)
  PROVE  LET c == cmd[t]
             o == cmd[t].order
         IN
         /\ c \in AssignCommands /\ o \in Orders
         /\ order[o].status \in Waiting /\ order[o].worker = NoWorker
         /\ order[o].version = c.expected
         /\ order' = [order EXCEPT ![o] =
              [status |-> "IN_PROGRESS", worker |-> c.worker, version |-> order[o].version + 1]]
         /\ claims' = claims \cup {ClaimRowOf(c)}
         /\ assignments' = assignments \cup {[command |-> c, status |-> "ACCEPTED"]}
         /\ ~ Blocked(c)
<1>1. cmd[t] \in AssignCommands /\ cmd[t].order \in Orders
  BY CommandKinds, CommandFields DEF ThreadInv, CommitAssignment
<1>2. ~ Blocked(cmd[t])
  BY DEF CommitAssignment, DuplicateKey, Blocked
<1> QED BY <1>1, <1>2
        DEF CommitAssignment, Assigns, UpdateMatches, AssignedRow, Waiting

\* A refusal leaves its receipt, under a key and a dispatch id that were free.
LEMMA RefusalStep ==
  ASSUME TypeOK, ThreadInv, NEW t \in Threads, CommitRefusal(t)
  PROVE  LET c == cmd[t]
             receipt == IF reply[t] = "ACCEPTED" THEN "VERSION_CONFLICT" ELSE reply[t]
         IN
         /\ c \in AssignCommands
         /\ receipt \in {"VERSION_CONFLICT", "REJECTED"}
         /\ assignments' = assignments \cup {[command |-> c, status |-> receipt]}
         /\ SameKey(c) = {}
         /\ refused' = refused \cup {c}
<1>1. cmd[t] \in AssignCommands
  BY CommandKinds DEF ThreadInv, CommitRefusal
<1>2. reply[t] \in {"ACCEPTED", "VERSION_CONFLICT", "REJECTED"}
  BY DEF ThreadInv, CommitRefusal, ReadyToWrite
<1>3. SameKey(cmd[t]) = {}
  BY DEF CommitRefusal, DuplicateKey
<1> QED BY <1>1, <1>2, <1>3 DEF CommitRefusal, RefusalRow, Answer

\* Every other step leaves the tables alone.
LEMMA Writers ==
  ASSUME [Next]_vars
  PROVE  \/ UNCHANGED tables
         \/ \E o \in Orders : CreateOrder(o)
         \/ \E t \in Threads :
              \/ CommitApproval(t) \/ CommitCompletion(t) \/ CommitClaim(t)
              \/ CommitAssignment(t) \/ CommitRefusal(t)
<1>1. CASE UNCHANGED vars
  BY <1>1 DEF vars, tables
<1>2. ASSUME NEW o \in Orders, ExpireLock(o)
      PROVE  UNCHANGED tables
  BY <1>2 DEF ExpireLock
<1>3. ASSUME NEW t \in Threads,
             \/ \E c \in ApproveCommands : ReadForApproval(t, c)
             \/ \E c \in CompleteCommands : ReadForCompletion(t, c)
             \/ \E c \in LockedCommands : Acquire(t, c)
             \/ Crash(t) \/ FailTransaction(t)
      PROVE  UNCHANGED tables
  BY <1>3 DEF ReadForApproval, ReadForCompletion, Acquire, Crash, FailTransaction
<1>4. ASSUME NEW t \in Threads, Progress(t)
      PROVE  \/ UNCHANGED tables
             \/ CommitApproval(t) \/ CommitCompletion(t) \/ CommitClaim(t)
             \/ CommitAssignment(t) \/ CommitRefusal(t)
  BY <1>4 DEF Progress, ReplayClaim, ReadForClaim, AbortClaim, ReplayAssign, ReadForAssign,
              RollbackDuplicate, ResolveDuplicate, Leave
<1> QED BY <1>1, <1>2, <1>3, <1>4 DEF Next

-----------------------------------------------------------------------------
(* Type correctness *)

TablesOK ==
  /\ order \in [Orders -> Row]
  /\ claims \subseteq ClaimRow
  /\ assignments \subseteq AssignmentRow
  /\ dispatchOutbox \subseteq EventRow
  /\ knowledgeOutbox \subseteq EventRow

LocalsOK ==
  /\ lock \in [Orders -> Threads \cup {Free, Orphan}]
  /\ pc \in [Threads -> Locations]
  /\ cmd \in [Threads -> Commands \cup {NoCommand}]
  /\ snap \in [Threads -> Row]
  /\ reply \in [Threads -> Replies]
  /\ refused \subseteq AssignCommands

\* Every transaction writes well-formed rows.
LEMMA TablesTyped ==
  ASSUME TypeOK, ThreadInv, [Next]_vars
  PROVE  TablesOK'
<1>1. TablesOK
  BY DEF TypeOK, TablesOK
<1>2. CASE UNCHANGED tables
  BY <1>1, <1>2 DEF TablesOK, tables
<1>3. ASSUME NEW o \in Orders, CreateOrder(o)
      PROVE  TablesOK'
  <2>1. [order[o] EXCEPT !.status = "PENDING_APPROVAL"] \in Row
    BY <1>1 DEF TablesOK, Row, DatabaseStatus, MaintainOrderStatus
  <2>2. order' = [order EXCEPT ![o] = [order[o] EXCEPT !.status = "PENDING_APPROVAL"]]
    BY <1>3 DEF CreateOrder
  <2> QED BY <1>1, <1>3, <2>1, <2>2 DEF TablesOK, CreateOrder
<1>4. ASSUME NEW t \in Threads, CommitApproval(t)
      PROVE  TablesOK'
  <2> DEFINE o == cmd[t].order
  <2>1. UNCHANGED <<claims, assignments, knowledgeOutbox>>
    BY <1>4 DEF CommitApproval
  <2>2. CASE UNCHANGED <<order, dispatchOutbox>>
    BY <1>1, <2>1, <2>2 DEF TablesOK
  <2>3. CASE ~ UNCHANGED <<order, dispatchOutbox>>
    <3>1. /\ o \in Orders
          /\ order' = [order EXCEPT ![o] =
               [status  |-> IF cmd[t].approved THEN "WAITING_FOR_CLAIM" ELSE "REJECTED",
                worker  |-> order[o].worker,
                version |-> order[o].version + 1]]
          /\ dispatchOutbox' = dispatchOutbox \cup UrgentEvent(t)
          /\ NextVersion(t) = [order |-> o, version |-> order[o].version + 1]
      BY <1>4, <2>3, ApprovalStep
    <3>2. order[o] \in Row
      BY <1>1, <3>1 DEF TablesOK
    <3>3. order' \in [Orders -> Row]
      BY <1>1, <3>1, <3>2 DEF TablesOK, Row, DatabaseStatus, MaintainOrderStatus
    <3>4. UrgentEvent(t) \subseteq EventRow
      BY <3>1, <3>2 DEF UrgentEvent, EventRow, Row
    <3> QED BY <1>1, <2>1, <3>1, <3>3, <3>4 DEF TablesOK
  <2> QED BY <2>2, <2>3
<1>5. ASSUME NEW t \in Threads, CommitCompletion(t)
      PROVE  TablesOK'
  <2> DEFINE o == cmd[t].order
  <2>1. UNCHANGED <<claims, assignments, dispatchOutbox>>
    BY <1>5 DEF CommitCompletion
  <2>2. CASE UNCHANGED <<order, knowledgeOutbox>>
    BY <1>1, <2>1, <2>2 DEF TablesOK
  <2>3. CASE ~ UNCHANGED <<order, knowledgeOutbox>>
    <3>1. /\ o \in Orders
          /\ order' = [order EXCEPT ![o] =
               [status |-> "COMPLETED", worker |-> order[o].worker, version |-> order[o].version + 1]]
          /\ knowledgeOutbox' =
               knowledgeOutbox \cup {[order |-> o, version |-> order[o].version + 1]}
      BY <1>5, <2>3, CompletionStep
    <3>2. order[o] \in Row
      BY <1>1, <3>1 DEF TablesOK
    <3>3. order' \in [Orders -> Row]
      BY <1>1, <3>1, <3>2 DEF TablesOK, Row, DatabaseStatus, MaintainOrderStatus
    <3>4. [order |-> o, version |-> order[o].version + 1] \in EventRow
      BY <3>1, <3>2 DEF EventRow, Row
    <3> QED BY <1>1, <2>1, <3>1, <3>3, <3>4 DEF TablesOK
  <2> QED BY <2>2, <2>3
<1>6. ASSUME NEW t \in Threads, CommitClaim(t)
      PROVE  TablesOK'
  <2> DEFINE o == cmd[t].order
             row == [status |-> "IN_PROGRESS", worker |-> cmd[t].worker, version |-> order[o].version + 1]
  <2>1. /\ cmd[t] \in ClaimCommands /\ o \in Orders
        /\ order' = [order EXCEPT ![o] = row]
        /\ claims' = claims \cup {ClaimRowOf(cmd[t])}
    BY <1>6, ClaimStep
  <2>2. row \in Row
    BY <1>1, <2>1, CommandFields DEF TablesOK, Row, DatabaseStatus, MaintainOrderStatus
  <2>3. ClaimRowOf(cmd[t]) \in ClaimRow
    BY <2>1, CommandFields DEF ClaimRowOf, ClaimRow
  <2> QED BY <1>1, <1>6, <2>1, <2>2, <2>3 DEF TablesOK, CommitClaim
<1>7. ASSUME NEW t \in Threads, CommitAssignment(t)
      PROVE  TablesOK'
  <2> DEFINE o == cmd[t].order
             row == [status |-> "IN_PROGRESS", worker |-> cmd[t].worker, version |-> order[o].version + 1]
  <2>1. /\ cmd[t] \in AssignCommands /\ o \in Orders
        /\ order' = [order EXCEPT ![o] = row]
        /\ claims' = claims \cup {ClaimRowOf(cmd[t])}
        /\ assignments' = assignments \cup {[command |-> cmd[t], status |-> "ACCEPTED"]}
    BY <1>7, AssignmentStep
  <2>2. row \in Row
    BY <1>1, <2>1, CommandFields DEF TablesOK, Row, DatabaseStatus, MaintainOrderStatus
  <2>3. ClaimRowOf(cmd[t]) \in ClaimRow
    BY <2>1, CommandFields DEF ClaimRowOf, ClaimRow
  <2>4. [command |-> cmd[t], status |-> "ACCEPTED"] \in AssignmentRow
    BY <2>1 DEF AssignmentRow, ReceiptStatus
  <2> QED BY <1>1, <1>7, <2>1, <2>2, <2>3, <2>4 DEF TablesOK, CommitAssignment
<1>8. ASSUME NEW t \in Threads, CommitRefusal(t)
      PROVE  TablesOK'
  <2> DEFINE receipt == IF reply[t] = "ACCEPTED" THEN "VERSION_CONFLICT" ELSE reply[t]
  <2>1. /\ cmd[t] \in AssignCommands
        /\ receipt \in {"VERSION_CONFLICT", "REJECTED"}
        /\ assignments' = assignments \cup {[command |-> cmd[t], status |-> receipt]}
    BY <1>8, RefusalStep
  <2>2. [command |-> cmd[t], status |-> receipt] \in AssignmentRow
    BY <2>1 DEF AssignmentRow, ReceiptStatus
  <2> QED BY <1>1, <1>8, <2>1, <2>2 DEF TablesOK, CommitRefusal
<1> QED BY <1>2, <1>3, <1>4, <1>5, <1>6, <1>7, <1>8, Writers

\* Every step keeps the locks and the threads' local state well formed.
LEMMA LocalsTyped ==
  ASSUME TypeOK, ThreadInv, [Next]_vars
  PROVE  LocalsOK'
<1>1. LocalsOK /\ order \in [Orders -> Row]
  BY DEF TypeOK, LocalsOK
<1>2. AbsentRow \in Row
  BY DEF AbsentRow, Row, DatabaseStatus
<1>3. CASE UNCHANGED vars
  BY <1>1, <1>3 DEF LocalsOK, vars, threadVars
<1>4. ASSUME NEW o \in Orders, CreateOrder(o) \/ ExpireLock(o)
      PROVE  LocalsOK'
  BY <1>1, <1>4 DEF LocalsOK, CreateOrder, ExpireLock, threadVars
<1>5. ASSUME NEW t \in Threads,
             \/ \E c \in ApproveCommands : ReadForApproval(t, c)
             \/ \E c \in CompleteCommands : ReadForCompletion(t, c)
      PROVE  LocalsOK'
  <2>1. PICK c \in Commands : Begin(t, c, "writing", order[c.order]) /\ UNCHANGED <<lock, refused>>
    BY <1>5 DEF ReadForApproval, ReadForCompletion, Commands
  <2>2. order[c.order] \in Row
    BY <1>1, CommandKinds
  <2> QED BY <1>1, <2>1, <2>2 DEF LocalsOK, Begin, Locations
<1>6. ASSUME NEW t \in Threads, NEW c \in LockedCommands, Acquire(t, c)
      PROVE  LocalsOK'
  BY <1>1, <1>2, <1>6 DEF LocalsOK, Acquire, Begin, Commands, Locations
<1>7. ASSUME NEW t \in Threads, Finish(t), UNCHANGED refused, lock' \in [Orders -> Threads \cup {Free, Orphan}]
      PROVE  LocalsOK'
  BY <1>1, <1>2, <1>7 DEF LocalsOK, Finish, Locations, Replies
<1>8. ASSUME NEW t \in Threads, NEW receipt \in Replies, cmd[t] \in LockedCommands,
             Answer(t, receipt), UNCHANGED lock
      PROVE  LocalsOK'
  <2>1. refused' \subseteq AssignCommands
    BY <1>1, <1>8, CommandKinds DEF LocalsOK, Answer, Commands
  <2> QED BY <1>1, <1>8, <2>1 DEF LocalsOK, Answer, Locations
<1>9. ASSUME NEW t \in Threads, NEW row \in Row, NEW receipt \in Replies,
             Decide(t, row, receipt), UNCHANGED lock
      PROVE  LocalsOK'
  BY <1>1, <1>9 DEF LocalsOK, Decide, Locations
<1>10. ASSUME NEW t \in Threads, pc[t] # "idle", cmd[t].kind \in {"claim", "assign"}
       PROVE  cmd[t] \in LockedCommands /\ order[cmd[t].order] \in Row
  BY <1>1, <1>10, CommandKinds DEF ThreadInv, LockedCommands
<1>11. ASSUME NEW t \in Threads, CommitApproval(t) \/ CommitCompletion(t) \/ Leave(t) \/ Crash(t)
       PROVE  LocalsOK'
  BY <1>1, <1>7, <1>11
     DEF LocalsOK, CommitApproval, CommitCompletion, Leave, Crash, Unlock
<1>12. ASSUME NEW t \in Threads,
              FailTransaction(t) \/ ReplayClaim(t) \/ CommitClaim(t) \/ AbortClaim(t)
       PROVE  LocalsOK'
  BY <1>8, <1>10, <1>12
     DEF FailTransaction, ReplayClaim, CommitClaim, AbortClaim, Replies
<1>13. ASSUME NEW t \in Threads, ReadForClaim(t)
       PROVE  LocalsOK'
  BY <1>8, <1>9, <1>10, <1>13 DEF ReadForClaim, Replies
<1>14. ASSUME NEW t \in Threads, ReplayAssign(t)
       PROVE  LocalsOK'
  <2>1. \A r \in Previous(cmd[t]) : ReplayStatus(r, cmd[t]) \in Replies
    BY DEF TypeOK, Previous, SameKey, SameDispatch, ReplayStatus, AssignmentRow,
           ReceiptStatus, Replies
  <2> QED BY <1>8, <1>10, <1>14, <2>1 DEF ReplayAssign
<1>15. ASSUME NEW t \in Threads, ReadForAssign(t)
       PROVE  LocalsOK'
  <2>1. Decision(cmd[t]) \in Replies
    BY DEF Decision, Replies, ReceiptStatus
  <2> QED BY <1>9, <1>10, <1>15, <2>1 DEF ReadForAssign
<1>16. ASSUME NEW t \in Threads, CommitAssignment(t) \/ CommitRefusal(t) \/ ResolveDuplicate(t)
       PROVE  LocalsOK'
  <2>1. cmd[t] \in LockedCommands
    BY <1>10, <1>16 DEF CommitAssignment, CommitRefusal, ResolveDuplicate, ThreadInv, LockedCommands
  <2>2. reply[t] \in Replies
    BY <1>1 DEF LocalsOK
  <2> QED BY <1>8, <1>16, <2>1, <2>2
          DEF CommitAssignment, CommitRefusal, ResolveDuplicate, Replies, ReceiptStatus
<1>17. ASSUME NEW t \in Threads, RollbackDuplicate(t)
       PROVE  LocalsOK'
  BY <1>1, <1>17 DEF LocalsOK, RollbackDuplicate, Locations
<1> QED
  BY <1>3, <1>4, <1>5, <1>6, <1>11, <1>12, <1>13, <1>14, <1>15, <1>16, <1>17
     DEF Next, Progress

\* A step keeps all types.
LEMMA TypeStep ==
  ASSUME TypeOK, ThreadInv, [Next]_vars
  PROVE  TypeOK'
  BY TablesTyped, LocalsTyped DEF TypeOK, TablesOK, LocalsOK

-----------------------------------------------------------------------------
(* The threads *)

\* Claim and receipt rows are never deleted, and a row that keeps its version after
\* its creation has not changed.
LEMMA TablesGrow ==
  ASSUME TypeOK, ThreadInv, [Next]_vars
  PROVE  /\ claims \subseteq claims'
         /\ assignments \subseteq assignments'
         /\ \A o \in Orders :
              /\ order[o].version <= order'[o].version
              /\ order'[o].version = order[o].version /\ order[o].status # "ABSENT"
                   => order'[o] = order[o]
<1> DEFINE Grows ==
             \A o \in Orders :
               /\ order[o].version <= order'[o].version
               /\ order'[o].version = order[o].version /\ order[o].status # "ABSENT"
                    => order'[o] = order[o]
<1>1. order \in [Orders -> Row] /\ \A o \in Orders : order[o].version \in Nat
  BY DEF TypeOK, Row
<1>2. CASE UNCHANGED tables
  BY <1>1, <1>2 DEF tables
<1>3. ASSUME NEW o \in Orders, CreateOrder(o)
      PROVE  Grows /\ UNCHANGED <<claims, assignments>>
  <2>1. order' = [order EXCEPT ![o] = [order[o] EXCEPT !.status = "PENDING_APPROVAL"]]
    BY <1>3 DEF CreateOrder
  <2>2. order'[o].version = order[o].version
    BY <1>1, <2>1 DEF Row
  <2> QED BY <1>1, <1>3, <2>1, <2>2 DEF CreateOrder
<1>4. ASSUME NEW o \in Orders, NEW row, row.version = order[o].version + 1,
             order' = [order EXCEPT ![o] = row]
      PROVE  Grows
  BY <1>1, <1>4
<1>5. ASSUME UNCHANGED order
      PROVE  Grows
  BY <1>1, <1>5
<1>6. ASSUME NEW t \in Threads, CommitApproval(t)
      PROVE  Grows /\ UNCHANGED <<claims, assignments>>
  <2> DEFINE o == cmd[t].order
             row == [status  |-> IF cmd[t].approved THEN "WAITING_FOR_CLAIM" ELSE "REJECTED",
                     worker  |-> order[o].worker,
                     version |-> order[o].version + 1]
  <2>1. o \in Orders /\ (UNCHANGED order \/ order' = [order EXCEPT ![o] = row])
    BY <1>6, ApprovalStep
  <2> HIDE DEF o
  <2>2. row.version = order[o].version + 1
    OBVIOUS
  <2> HIDE DEF row
  <2> QED BY <1>4, <1>5, <1>6, <2>1, <2>2 DEF CommitApproval
<1>7. ASSUME NEW t \in Threads, CommitCompletion(t)
      PROVE  Grows /\ UNCHANGED <<claims, assignments>>
  <2> DEFINE o == cmd[t].order
             row == [status |-> "COMPLETED", worker |-> order[o].worker, version |-> order[o].version + 1]
  <2>1. o \in Orders /\ (UNCHANGED order \/ order' = [order EXCEPT ![o] = row])
    BY <1>7, CompletionStep
  <2> HIDE DEF o
  <2>2. row.version = order[o].version + 1
    OBVIOUS
  <2> HIDE DEF row
  <2> QED BY <1>4, <1>5, <1>7, <2>1, <2>2 DEF CommitCompletion
<1>8. ASSUME NEW t \in Threads, CommitClaim(t)
      PROVE  Grows /\ claims \subseteq claims' /\ UNCHANGED assignments
  <2> DEFINE o == cmd[t].order
             row == [status |-> "IN_PROGRESS", worker |-> cmd[t].worker, version |-> order[o].version + 1]
  <2>1. o \in Orders /\ order' = [order EXCEPT ![o] = row]
    BY <1>8, ClaimStep
  <2> HIDE DEF o
  <2>2. row.version = order[o].version + 1
    OBVIOUS
  <2> HIDE DEF row
  <2> QED BY <1>4, <1>8, <2>1, <2>2, ClaimStep DEF CommitClaim
<1>9. ASSUME NEW t \in Threads, CommitAssignment(t)
      PROVE  Grows /\ claims \subseteq claims' /\ assignments \subseteq assignments'
  <2> DEFINE o == cmd[t].order
             row == [status |-> "IN_PROGRESS", worker |-> cmd[t].worker, version |-> order[o].version + 1]
  <2>1. o \in Orders /\ order' = [order EXCEPT ![o] = row]
    BY <1>9, AssignmentStep
  <2> HIDE DEF o
  <2>2. row.version = order[o].version + 1
    OBVIOUS
  <2> HIDE DEF row
  <2> QED BY <1>4, <1>9, <2>1, <2>2, AssignmentStep
<1>10. ASSUME NEW t \in Threads, CommitRefusal(t)
       PROVE  Grows /\ UNCHANGED claims /\ assignments \subseteq assignments'
  BY <1>5, <1>10, RefusalStep DEF CommitRefusal
<1> QED BY <1>2, <1>3, <1>5, <1>6, <1>7, <1>8, <1>9, <1>10, Writers DEF tables

\* A command that is blocked stays blocked.
LEMMA BlockedForEver ==
  ASSUME TypeOK, ThreadInv, [Next]_vars, NEW c, Blocked(c)
  PROVE  Blocked(c)'
  BY TablesGrow DEF Blocked, SameKey, SameDispatch, ClaimConflict

\* What ThreadInv says of one thread.
ThreadOK(t) ==
  /\ pc[t] # "idle" => cmd[t] \in Commands
  /\ pc[t] \in {"entered", "leaving"} => cmd[t] \in LockedCommands
  /\ pc[t] = "conflict" => cmd[t] \in AssignCommands /\ Blocked(cmd[t])
  /\ pc[t] = "writing" => ReadyToWrite(t) /\ SnapshotIsOld(t)

\* The steps of other threads leave a thread's local invariant true.
LEMMA OtherThread ==
  ASSUME TypeOK, ThreadInv, [Next]_vars, NEW t \in Threads,
         pc'[t] = pc[t], cmd'[t] = cmd[t], snap'[t] = snap[t], reply'[t] = reply[t]
  PROVE  ThreadOK(t)'
<1>1. ThreadOK(t)
  BY DEF ThreadInv, ThreadOK
<1>2. pc'[t] = "conflict" => Blocked(cmd[t])'
  BY <1>1, BlockedForEver DEF ThreadOK
<1>3. pc'[t] = "writing" => ReadyToWrite(t)'
  BY <1>1 DEF ThreadOK, ReadyToWrite
<1>4. ASSUME pc[t] = "writing"
      PROVE  SnapshotIsOld(t)'
  <2> DEFINE o == cmd[t].order
  <2>1. o \in Orders /\ SnapshotIsOld(t)
    BY <1>1, <1>4, CommandKinds DEF ThreadOK
  <2>2. snap[t].version \in Nat /\ order[o].version \in Nat /\ order'[o].version \in Nat
    BY <2>1, TypeStep DEF TypeOK, Row
  <2>3. order[o].version <= order'[o].version
    BY <2>1, TablesGrow
  <2>4. snap[t].version <= order'[o].version
    BY <2>1, <2>2, <2>3 DEF SnapshotIsOld
  <2>5. ASSUME snap[t].version = order'[o].version, snap[t].status # "ABSENT"
        PROVE  snap[t] = order'[o]
    <3>1. snap[t].version = order[o].version /\ order'[o].version = order[o].version
      BY <2>1, <2>2, <2>3, <2>5 DEF SnapshotIsOld
    <3>2. snap[t] = order[o]
      BY <2>1, <2>5, <3>1 DEF SnapshotIsOld
    <3> QED BY <2>1, <2>5, <3>1, <3>2, TablesGrow
  <2> QED BY <2>4, <2>5 DEF SnapshotIsOld
<1> QED BY <1>1, <1>2, <1>3, <1>4 DEF ThreadOK

\* A row that was just read is the row.
LEMMA FreshSnapshot ==
  ASSUME TypeOK, NEW t \in Threads, UNCHANGED order,
         cmd'[t].order \in Orders, snap'[t] = order[cmd'[t].order]
  PROVE  SnapshotIsOld(t)'
<1>1. order[cmd'[t].order].version \in Nat
  BY DEF TypeOK, Row
<1> QED BY <1>1 DEF SnapshotIsOld

\* Every step keeps what the threads know about their commands and snapshots.
LEMMA ThreadStep ==
  ASSUME TypeOK, ThreadInv, [Next]_vars
  PROVE  ThreadInv'
<1> USE DEF threadVars
<1>0. SUFFICES ASSUME NEW u \in Threads PROVE ThreadOK(u)'
  BY DEF ThreadInv, ThreadOK
<1>1. /\ pc \in [Threads -> Locations] /\ cmd \in [Threads -> Commands \cup {NoCommand}]
      /\ snap \in [Threads -> Row] /\ reply \in [Threads -> Replies]
  BY DEF TypeOK
<1>2. CASE UNCHANGED threadVars
  BY <1>2, OtherThread
<1>3. ASSUME NEW t \in Threads, Finish(t)
      PROVE  ThreadOK(u)'
  <2>1. CASE u = t
    BY <1>1, <1>3, <2>1 DEF Finish, ThreadOK
  <2>2. CASE u # t
    BY <1>1, <1>3, <2>2, OtherThread DEF Finish
  <2> QED BY <2>1, <2>2
<1>4. ASSUME NEW t \in Threads, NEW receipt, cmd[t] \in LockedCommands, Answer(t, receipt)
      PROVE  ThreadOK(u)'
  <2>1. CASE u = t
    BY <1>1, <1>4, <2>1 DEF Answer, ThreadOK, Commands
  <2>2. CASE u # t
    BY <1>1, <1>4, <2>2, OtherThread DEF Answer
  <2> QED BY <2>1, <2>2
<1>5. ASSUME NEW t \in Threads, pc[t] = "entered" \/ (pc[t] # "idle" /\ cmd[t].kind \in {"claim", "assign"})
      PROVE  cmd[t] \in LockedCommands /\ cmd[t] \in Commands
  BY <1>5, CommandKinds DEF ThreadInv, LockedCommands, Commands
<1>6. ASSUME NEW t \in Threads, NEW c \in Commands, Begin(t, c, "writing", order[c.order]),
             UNCHANGED order,
             \/ c.kind = "approve" /\ order[c.order].status = "PENDING_APPROVAL"
             \/ c.kind = "complete" /\ order[c.order].status = "IN_PROGRESS"
      PROVE  ThreadOK(u)'
  <2>1. CASE u = t
    <3>1. pc'[t] = "writing" /\ cmd'[t] = c /\ snap'[t] = order[c.order]
      BY <1>1, <1>6 DEF Begin
    <3>2. SnapshotIsOld(t)'
      BY <1>6, <3>1, CommandKinds, FreshSnapshot
    <3>3. ReadyToWrite(t)'
      BY <1>6, <3>1 DEF ReadyToWrite
    <3> QED BY <2>1, <3>1, <3>2, <3>3 DEF ThreadOK
  <2>2. CASE u # t
    BY <1>1, <1>6, <2>2, OtherThread DEF Begin
  <2> QED BY <2>1, <2>2
<1>7. ASSUME NEW t \in Threads, \E c \in ApproveCommands : ReadForApproval(t, c)
      PROVE  ThreadOK(u)'
  <2>1. PICK c \in ApproveCommands : ReadForApproval(t, c)
    BY <1>7
  <2>2. c \in Commands /\ c.kind = "approve"
    BY DEF ApproveCommands, Commands
  <2> QED BY <1>6, <2>1, <2>2 DEF ReadForApproval, tables
<1>8. ASSUME NEW t \in Threads, \E c \in CompleteCommands : ReadForCompletion(t, c)
      PROVE  ThreadOK(u)'
  <2>1. PICK c \in CompleteCommands : ReadForCompletion(t, c)
    BY <1>8
  <2>2. c \in Commands /\ c.kind = "complete" /\ c.order \in Orders
    BY DEF CompleteCommands, Commands
  <2>3. order[c.order].status = "IN_PROGRESS"
    BY <2>1, <2>2, TransitionTable DEF ReadForCompletion, TypeOK, Row
  <2> QED BY <1>6, <2>1, <2>2, <2>3 DEF ReadForCompletion, tables
<1>9. ASSUME NEW t \in Threads, NEW c \in LockedCommands, Acquire(t, c)
      PROVE  ThreadOK(u)'
  <2>1. CASE u = t
    BY <1>1, <1>9, <2>1 DEF Acquire, Begin, ThreadOK, Commands
  <2>2. CASE u # t
    BY <1>1, <1>9, <2>2, OtherThread DEF Acquire, Begin
  <2> QED BY <2>1, <2>2
<1>10. ASSUME NEW t \in Threads, NEW receipt, Decide(t, order[cmd[t].order], receipt),
              UNCHANGED order, cmd[t] \in LockedCommands,
              \/ /\ cmd[t].kind = "claim"
                 /\ order[cmd[t].order].status \in Waiting /\ order[cmd[t].order].worker = NoWorker
              \/ cmd[t].kind = "assign" /\ receipt \in {"ACCEPTED", "VERSION_CONFLICT", "REJECTED"}
       PROVE  ThreadOK(u)'
  <2>1. CASE u = t
    <3>1. /\ pc'[t] = "writing" /\ cmd'[t] = cmd[t] /\ snap'[t] = order[cmd[t].order]
          /\ reply'[t] = receipt
      BY <1>1, <1>10 DEF Decide
    <3>2. cmd[t] \in Commands
      BY <1>10 DEF Commands
    <3>3. SnapshotIsOld(t)'
      BY <1>10, <3>1, <3>2, CommandKinds, FreshSnapshot
    <3>4. ReadyToWrite(t)'
      BY <1>10, <3>1 DEF ReadyToWrite
    <3> QED BY <2>1, <3>1, <3>2, <3>3, <3>4 DEF ThreadOK
  <2>2. CASE u # t
    BY <1>1, <1>10, <2>2, OtherThread DEF Decide
  <2> QED BY <2>1, <2>2
<1>11. ASSUME NEW t \in Threads, ReadForClaim(t)
       PROVE  ThreadOK(u)'
  <2>1. cmd[t] \in LockedCommands /\ cmd[t].order \in Orders
    BY <1>5, <1>11, CommandKinds DEF ReadForClaim
  <2>2. CASE Claimable(cmd[t])
    <3>1. order[cmd[t].order].status \in Waiting /\ order[cmd[t].order].worker = NoWorker
      BY <2>1, <2>2, TransitionTable DEF Claimable, TypeOK, Row
    <3> QED BY <1>10, <1>11, <2>1, <2>2, <3>1 DEF ReadForClaim, tables
  <2>3. CASE ~ Claimable(cmd[t])
    BY <1>4, <1>11, <2>1, <2>3 DEF ReadForClaim
  <2> QED BY <2>2, <2>3
<1>12. ASSUME NEW t \in Threads, ReadForAssign(t)
       PROVE  ThreadOK(u)'
  <2>1. cmd[t] \in LockedCommands
    BY <1>5, <1>12 DEF ReadForAssign
  <2>2. Decision(cmd[t]) \in {"ACCEPTED", "VERSION_CONFLICT", "REJECTED"}
    BY DEF Decision
  <2> QED BY <1>10, <1>12, <2>1, <2>2 DEF ReadForAssign, tables
<1>13. ASSUME NEW t \in Threads, RollbackDuplicate(t)
       PROVE  ThreadOK(u)'
  <2>1. CASE u = t
    <3>1. cmd[t] \in AssignCommands /\ cmd[t] \in Commands
      BY <1>13, CommandKinds DEF RollbackDuplicate, ThreadInv
    <3>2. Blocked(cmd[t])
      BY <1>13 DEF RollbackDuplicate, DuplicateKey, Blocked
    <3>3. pc'[t] = "conflict" /\ cmd'[t] = cmd[t] /\ UNCHANGED <<claims, assignments>>
      BY <1>1, <1>13 DEF RollbackDuplicate, tables
    <3>4. Blocked(cmd[t])'
      BY <3>2, <3>3 DEF Blocked, SameKey, SameDispatch, ClaimConflict
    <3> QED BY <2>1, <3>1, <3>3, <3>4 DEF ThreadOK
  <2>2. CASE u # t
    BY <1>1, <1>13, <2>2, OtherThread DEF RollbackDuplicate
  <2> QED BY <2>1, <2>2
<1>14. ASSUME NEW t \in Threads,
              CommitApproval(t) \/ CommitCompletion(t) \/ Leave(t) \/ Crash(t)
       PROVE  ThreadOK(u)'
  BY <1>3, <1>14 DEF CommitApproval, CommitCompletion, Leave, Crash
<1>15. ASSUME NEW t \in Threads,
              \/ FailTransaction(t) \/ ReplayClaim(t) \/ CommitClaim(t) \/ AbortClaim(t)
              \/ ReplayAssign(t) \/ CommitAssignment(t) \/ CommitRefusal(t) \/ ResolveDuplicate(t)
       PROVE  ThreadOK(u)'
  <2>1. cmd[t] \in LockedCommands
    BY <1>5, <1>15
       DEF FailTransaction, ReplayClaim, CommitClaim, AbortClaim, ReplayAssign,
           CommitAssignment, CommitRefusal, ResolveDuplicate, ThreadInv, LockedCommands
  <2> QED BY <1>4, <1>15, <2>1
          DEF FailTransaction, ReplayClaim, CommitClaim, AbortClaim, ReplayAssign,
              CommitAssignment, CommitRefusal, ResolveDuplicate
<1>16. ASSUME NEW o \in Orders, CreateOrder(o) \/ ExpireLock(o)
       PROVE  ThreadOK(u)'
  BY <1>2, <1>16 DEF CreateOrder, ExpireLock
<1> QED
  BY <1>2, <1>7, <1>8, <1>9, <1>11, <1>12, <1>13, <1>14, <1>15, <1>16 DEF Next, Progress, vars

-----------------------------------------------------------------------------
(* One worker and one claim per order *)

\* A transaction that gives an order without a worker to one, with its claim row,
\* keeps the two tables in step.
LEMMA GivenOnce ==
  ASSUME TypeOK, ClaimMatchesOrder, NEW o \in Orders, NEW k \in ClaimRow, NEW row,
         k.order = o, order[o].worker = NoWorker, row.worker = k.worker,
         order' = [order EXCEPT ![o] = row], claims' = claims \cup {k}
  PROVE  ClaimMatchesOrder'
<1>1. order \in [Orders -> Row] /\ claims \subseteq ClaimRow /\ k.worker \in Workers
  BY DEF TypeOK, ClaimRow
<1>2. ~ \E k1 \in claims : k1.order = o
  BY DEF ClaimMatchesOrder
<1>3. order'[o].worker = k.worker /\ \A p \in Orders \ {o} : order'[p] = order[p]
  BY <1>1
<1>4. \A p \in Orders : (order'[p].worker # NoWorker) <=> (\E k1 \in claims' : k1.order = p)
  BY <1>1, <1>3, WorkerAssumption DEF ClaimMatchesOrder
<1>5. \A k1 \in claims' : k1.worker = order'[k1.order].worker
  BY <1>1, <1>2, <1>3 DEF ClaimMatchesOrder, ClaimRow
<1>6. \A k1, k2 \in claims' : k1.order = k2.order => k1 = k2
  BY <1>1, <1>2 DEF ClaimMatchesOrder
<1> QED BY <1>4, <1>5, <1>6 DEF ClaimMatchesOrder

\* A row that keeps its worker changes nothing for the claims.
LEMMA WorkerKept ==
  ASSUME TypeOK, ClaimMatchesOrder, UNCHANGED claims,
         \A o \in Orders : order'[o].worker = order[o].worker
  PROVE  ClaimMatchesOrder'
  BY DEF ClaimMatchesOrder, TypeOK, ClaimRow

\* Every step keeps claims and orders in step.
LEMMA ClaimInvStep ==
  ASSUME TypeOK, ThreadInv, ClaimMatchesOrder, [Next]_vars
  PROVE  ClaimMatchesOrder'
<1>1. order \in [Orders -> Row]
  BY DEF TypeOK
<1>2. CASE UNCHANGED tables
  BY <1>2, WorkerKept DEF tables
<1>3. ASSUME NEW o \in Orders, CreateOrder(o)
      PROVE  ClaimMatchesOrder'
  <2>1. order' = [order EXCEPT ![o] = [order[o] EXCEPT !.status = "PENDING_APPROVAL"]]
    BY <1>3 DEF CreateOrder
  <2>2. order'[o].worker = order[o].worker
    BY <1>1, <2>1 DEF Row
  <2> QED BY <1>1, <1>3, <2>1, <2>2, WorkerKept DEF CreateOrder
<1>4. ASSUME NEW t \in Threads, CommitApproval(t)
      PROVE  ClaimMatchesOrder'
  <2> DEFINE o == cmd[t].order
             row == [status  |-> IF cmd[t].approved THEN "WAITING_FOR_CLAIM" ELSE "REJECTED",
                     worker  |-> order[o].worker,
                     version |-> order[o].version + 1]
  <2>1. o \in Orders /\ (UNCHANGED order \/ order' = [order EXCEPT ![o] = row])
    BY <1>4, ApprovalStep
  <2>2. \A p \in Orders : order'[p].worker = order[p].worker
    BY <1>1, <2>1
  <2> QED BY <1>4, <2>2, WorkerKept DEF CommitApproval
<1>5. ASSUME NEW t \in Threads, CommitCompletion(t)
      PROVE  ClaimMatchesOrder'
  <2> DEFINE o == cmd[t].order
             row == [status |-> "COMPLETED", worker |-> order[o].worker, version |-> order[o].version + 1]
  <2>1. o \in Orders /\ (UNCHANGED order \/ order' = [order EXCEPT ![o] = row])
    BY <1>5, CompletionStep
  <2>2. \A p \in Orders : order'[p].worker = order[p].worker
    BY <1>1, <2>1
  <2> QED BY <1>5, <2>2, WorkerKept DEF CommitCompletion
<1>6. ASSUME NEW t \in Threads, CommitClaim(t) \/ CommitAssignment(t)
      PROVE  ClaimMatchesOrder'
  <2> DEFINE o == cmd[t].order
             row == [status |-> "IN_PROGRESS", worker |-> cmd[t].worker, version |-> order[o].version + 1]
             k == ClaimRowOf(cmd[t])
  <2>1. /\ o \in Orders /\ order[o].worker = NoWorker
        /\ order' = [order EXCEPT ![o] = row] /\ claims' = claims \cup {k}
        /\ cmd[t] \in ClaimCommands \/ cmd[t] \in AssignCommands
    BY <1>6, ClaimStep, AssignmentStep
  <2>2. k \in ClaimRow /\ k.order = o /\ row.worker = k.worker
    BY <2>1, CommandFields DEF ClaimRowOf, ClaimRow
  <2> HIDE DEF row, k
  <2> QED BY <2>1, <2>2, GivenOnce
<1>7. ASSUME NEW t \in Threads, CommitRefusal(t)
      PROVE  ClaimMatchesOrder'
  BY <1>7, WorkerKept DEF CommitRefusal
<1> QED BY <1>2, <1>3, <1>4, <1>5, <1>6, <1>7, Writers

-----------------------------------------------------------------------------
(* Receipts *)

\* Only an assignment or a refusal adds a receipt.
LEMMA ReceiptsOnly ==
  ASSUME [Next]_vars
  PROVE  \/ UNCHANGED assignments
         \/ \E t \in Threads : CommitAssignment(t) \/ CommitRefusal(t)
  BY Writers DEF tables, CreateOrder, CommitApproval, CommitCompletion, CommitClaim

\* A receipt's key is new when the receipt is written.
LEMMA KeysStep ==
  ASSUME TypeOK, ThreadInv, KeysAreUnique, [Next]_vars
  PROVE  KeysAreUnique'
<1>1. CASE UNCHANGED assignments
  BY <1>1 DEF KeysAreUnique
<1>2. ASSUME NEW c, NEW s, SameKey(c) = {},
             assignments' = assignments \cup {[command |-> c, status |-> s]}
      PROVE  KeysAreUnique'
  BY <1>2 DEF KeysAreUnique, SameKey
<1>3. ASSUME NEW t \in Threads, CommitAssignment(t)
      PROVE  KeysAreUnique'
  <2>1. /\ assignments' = assignments \cup {[command |-> cmd[t], status |-> "ACCEPTED"]}
        /\ ~ Blocked(cmd[t])
    BY <1>3, AssignmentStep
  <2>2. SameKey(cmd[t]) = {}
    BY <2>1 DEF Blocked
  <2> QED BY <1>2, <2>1, <2>2
<1>4. ASSUME NEW t \in Threads, CommitRefusal(t)
      PROVE  KeysAreUnique'
  BY <1>2, <1>4, RefusalStep
<1> QED BY <1>1, <1>3, <1>4, ReceiptsOnly

\* An accepted receipt has its claim row and is behind the row's version, for ever.
LEMMA AcceptedStep ==
  ASSUME TypeOK, ThreadInv, AcceptedHasClaim, [Next]_vars
  PROVE  AcceptedHasClaim'
<1>1. ASSUME NEW r \in assignments, r.status = "ACCEPTED"
      PROVE  /\ ClaimRowOf(r.command) \in claims'
             /\ order'[r.command.order].version > r.command.expected
  <2>1. r.command.order \in Orders /\ r.command.expected \in Nat
    BY CommandFields DEF TypeOK, AssignmentRow
  <2>2. order[r.command.order].version \in Nat /\ order'[r.command.order].version \in Nat
    BY <2>1, TypeStep DEF TypeOK, Row
  <2> QED BY <1>1, <2>1, <2>2, TablesGrow DEF AcceptedHasClaim
<1>2. ASSUME NEW t \in Threads, CommitAssignment(t)
      PROVE  AcceptedHasClaim'
  <2> DEFINE c == cmd[t]
             o == c.order
  <2>1. /\ o \in Orders /\ order[o].version = c.expected
        /\ order' = [order EXCEPT ![o] =
             [status |-> "IN_PROGRESS", worker |-> c.worker, version |-> order[o].version + 1]]
        /\ claims' = claims \cup {ClaimRowOf(c)}
        /\ assignments' = assignments \cup {[command |-> c, status |-> "ACCEPTED"]}
    BY <1>2, AssignmentStep
  <2>2. order \in [Orders -> Row] /\ order[o].version \in Nat
    BY <2>1 DEF TypeOK, Row
  <2>3. order'[o].version = order[o].version + 1
    BY <2>1, <2>2
  <2>4. ASSUME NEW r \in assignments', r.status = "ACCEPTED"
        PROVE  /\ ClaimRowOf(r.command) \in claims'
               /\ order'[r.command.order].version > r.command.expected
    <3>1. CASE r \in assignments
      BY <1>1, <2>4, <3>1
    <3>2. CASE r = [command |-> c, status |-> "ACCEPTED"]
      BY <2>1, <2>2, <2>3, <3>2
    <3> QED BY <2>1, <2>4, <3>1, <3>2
  <2> QED BY <2>4 DEF AcceptedHasClaim, ClaimRowOf
<1>3. ASSUME NEW t \in Threads, CommitRefusal(t)
      PROVE  AcceptedHasClaim'
  <2>1. \A r \in assignments' : r.status = "ACCEPTED" => r \in assignments
    BY <1>3, RefusalStep
  <2> QED BY <1>1, <2>1 DEF AcceptedHasClaim, ClaimRowOf
<1>4. CASE UNCHANGED assignments
  BY <1>1, <1>4 DEF AcceptedHasClaim, ClaimRowOf
<1> QED BY <1>2, <1>3, <1>4, ReceiptsOnly

\* An order whose command was accepted has a worker, so no second command is.
LEMMA AcceptedOnceStep ==
  ASSUME TypeOK, ThreadInv, ClaimMatchesOrder, AcceptedHasClaim, AcceptedOncePerOrder, [Next]_vars
  PROVE  AcceptedOncePerOrder'
<1>1. ASSUME NEW t \in Threads, CommitAssignment(t)
      PROVE  AcceptedOncePerOrder'
  <2>1. /\ cmd[t].order \in Orders /\ order[cmd[t].order].worker = NoWorker
        /\ assignments' = assignments \cup {[command |-> cmd[t], status |-> "ACCEPTED"]}
    BY <1>1, AssignmentStep
  <2>2. \A r \in assignments : r.status = "ACCEPTED" => r.command.order # cmd[t].order
    BY <2>1 DEF AcceptedHasClaim, ClaimMatchesOrder, ClaimRowOf
  <2> QED BY <2>1, <2>2 DEF AcceptedOncePerOrder
<1>2. ASSUME NEW t \in Threads, CommitRefusal(t)
      PROVE  AcceptedOncePerOrder'
  BY <1>2, RefusalStep DEF AcceptedOncePerOrder
<1> QED BY <1>1, <1>2, ReceiptsOnly DEF AcceptedOncePerOrder

-----------------------------------------------------------------------------
(* Refusals *)

\* Where a command is refused for good: a receipt or a claim row already keeps it
\* out, and it has not been accepted.
LEMMA RefusalsAreNew ==
  ASSUME TypeOK, ThreadInv, KeysAreUnique, RefusalIsFinal, [Next]_vars,
         NEW c \in refused' \ refused
  PROVE  Blocked(c)' /\ ~ \E r \in assignments' : r.status = "ACCEPTED" /\ r.command = c
<1>1. PICK t \in Threads :
        /\ c = cmd[t]
        /\ ReplayAssign(t) \/ CommitRefusal(t) \/ ResolveDuplicate(t)
  <2>1. ASSUME NEW t \in Threads, NEW receipt, Answer(t, receipt),
               cmd[t].kind = "claim" \/ receipt \notin {"REJECTED", "VERSION_CONFLICT"}
        PROVE  UNCHANGED refused
    BY <2>1 DEF Answer
  <2>2. ASSUME NEW t \in Threads, ~ (ReplayAssign(t) \/ CommitRefusal(t) \/ ResolveDuplicate(t)), Progress(t)
        PROVE  UNCHANGED refused
    <3>1. CASE ReplayClaim(t) \/ ReadForClaim(t) \/ CommitClaim(t) \/ AbortClaim(t)
      BY <2>1, <3>1 DEF ReplayClaim, ReadForClaim, CommitClaim, AbortClaim, Decide
    <3>2. CASE CommitAssignment(t)
      BY <2>1, <3>2 DEF CommitAssignment
    <3>3. CASE \/ CommitApproval(t) \/ CommitCompletion(t) \/ ReadForAssign(t)
               \/ RollbackDuplicate(t) \/ Leave(t)
      BY <3>3 DEF CommitApproval, CommitCompletion, ReadForAssign, RollbackDuplicate, Leave, Decide
    <3> QED BY <2>2, <3>1, <3>2, <3>3 DEF Progress
  <2>3. ASSUME NEW t \in Threads,
               \/ \E d \in ApproveCommands : ReadForApproval(t, d)
               \/ \E d \in CompleteCommands : ReadForCompletion(t, d)
               \/ \E d \in LockedCommands : Acquire(t, d)
               \/ Crash(t) \/ FailTransaction(t)
        PROVE  UNCHANGED refused
    BY <2>1, <2>3 DEF ReadForApproval, ReadForCompletion, Acquire, Crash, FailTransaction
  <2>4. ASSUME NEW o \in Orders, CreateOrder(o) \/ ExpireLock(o)
        PROVE  UNCHANGED refused
    BY <2>4 DEF CreateOrder, ExpireLock
  <2>5. PICK t \in Threads : ReplayAssign(t) \/ CommitRefusal(t) \/ ResolveDuplicate(t)
    BY <2>2, <2>3, <2>4 DEF Next, vars
  <2>6. refused' \subseteq refused \cup {cmd[t]}
    BY <2>5 DEF ReplayAssign, CommitRefusal, ResolveDuplicate, Answer
  <2> QED BY <2>5, <2>6
<1>2. CASE ReplayAssign(t)
  <2>1. PICK r \in Previous(c) : Answer(t, ReplayStatus(r, c))
    BY <1>1, <1>2 DEF ReplayAssign
  <2>2. ReplayStatus(r, c) \in {"REJECTED", "VERSION_CONFLICT"} /\ UNCHANGED <<claims, assignments>>
    BY <1>1, <1>2, <2>1 DEF Answer, ReplayAssign, tables
  <2>3. Blocked(c)'
    BY <2>1, <2>2 DEF Blocked, Previous, SameKey, SameDispatch, ClaimConflict
  <2>4. ASSUME NEW q \in assignments, q.status = "ACCEPTED", q.command = c
        PROVE  FALSE
    <3>1. q \in SameKey(c)
      BY <2>4 DEF SameKey
    <3>2. r = q
      BY <2>1, <3>1 DEF Previous, SameKey, KeysAreUnique
    <3> QED BY <2>2, <2>4, <3>2 DEF ReplayStatus
  <2> QED BY <2>2, <2>3, <2>4
<1>3. CASE CommitRefusal(t)
  <2> DEFINE receipt == IF reply[t] = "ACCEPTED" THEN "VERSION_CONFLICT" ELSE reply[t]
  <2>1. /\ receipt \in {"VERSION_CONFLICT", "REJECTED"} /\ SameKey(c) = {}
        /\ assignments' = assignments \cup {[command |-> c, status |-> receipt]}
    BY <1>1, <1>3, RefusalStep
  <2> HIDE DEF receipt
  <2>2. [command |-> c, status |-> receipt] \in SameKey(c)'
    BY <2>1 DEF SameKey
  <2>3. Blocked(c)'
    BY <2>2 DEF Blocked
  <2> QED BY <2>1, <2>3 DEF SameKey
<1>4. CASE ResolveDuplicate(t)
  <2>1. UNCHANGED <<claims, assignments>> /\ Blocked(c)
    BY <1>1, <1>4 DEF ResolveDuplicate, ThreadInv, tables
  <2>2. Blocked(c)'
    BY <2>1 DEF Blocked, SameKey, SameDispatch, ClaimConflict
  <2>3. ~ \E r \in SameKey(c) : r.command = c
    BY <1>1, <1>4 DEF ResolveDuplicate, Answer
  <2> QED BY <2>1, <2>2, <2>3 DEF SameKey
<1> QED BY <1>1, <1>2, <1>3, <1>4

\* A refused command stays blocked.
LEMMA RefusedStep ==
  ASSUME TypeOK, ThreadInv, KeysAreUnique, RefusalIsFinal, RefusedIsBlocked, [Next]_vars
  PROVE  RefusedIsBlocked'
<1>1. ASSUME NEW c \in refused'
      PROVE  Blocked(c)'
  <2>1. CASE c \in refused
    BY <2>1, BlockedForEver DEF RefusedIsBlocked
  <2>2. CASE c \notin refused
    BY <2>2, RefusalsAreNew
  <2> QED BY <2>1, <2>2
<1> QED BY <1>1 DEF RefusedIsBlocked, Blocked, SameKey, SameDispatch, ClaimConflict

\* So it is never accepted.
LEMMA RefusalStepFinal ==
  ASSUME TypeOK, ThreadInv, KeysAreUnique, RefusalIsFinal, RefusedIsBlocked, [Next]_vars
  PROVE  RefusalIsFinal'
<1>1. SUFFICES ASSUME NEW r \in assignments', r.status = "ACCEPTED", r.command \in refused'
               PROVE  FALSE
  BY DEF RefusalIsFinal
<1>2. r.command \in refused
  BY <1>1, RefusalsAreNew
<1>3. r \notin assignments
  BY <1>1, <1>2 DEF RefusalIsFinal
<1>4. CASE \E t \in Threads : CommitAssignment(t)
  <2>1. PICK t \in Threads : CommitAssignment(t)
    BY <1>4
  <2>2. /\ assignments' = assignments \cup {[command |-> cmd[t], status |-> "ACCEPTED"]}
        /\ ~ Blocked(cmd[t])
    BY <2>1, AssignmentStep
  <2>3. r.command = cmd[t]
    BY <1>1, <1>3, <2>2
  <2> QED BY <1>2, <2>2, <2>3 DEF RefusedIsBlocked
<1>5. CASE \E t \in Threads : CommitRefusal(t)
  BY <1>1, <1>3, <1>5, RefusalStep
<1> QED BY <1>1, <1>3, <1>4, <1>5, ReceiptsOnly

-----------------------------------------------------------------------------
(* Outboxes *)

\* No step writes the legacy status.
LEMMA LegacyStep ==
  ASSUME TypeOK, ThreadInv, OnlyLegacyIsLegacy, [Next]_vars
  PROVE  OnlyLegacyIsLegacy'
<1>1. order \in [Orders -> Row]
  BY DEF TypeOK
<1>2. ASSUME NEW o \in Orders, NEW row, row.status # "LEGACY_APPROVED",
             UNCHANGED order \/ order' = [order EXCEPT ![o] = row]
      PROVE  OnlyLegacyIsLegacy'
  BY <1>1, <1>2 DEF OnlyLegacyIsLegacy
<1>3. CASE UNCHANGED tables
  BY <1>3 DEF OnlyLegacyIsLegacy, tables
<1>4. ASSUME NEW o \in Orders, CreateOrder(o)
      PROVE  OnlyLegacyIsLegacy'
  <2>1. order' = [order EXCEPT ![o] = [order[o] EXCEPT !.status = "PENDING_APPROVAL"]]
    BY <1>4 DEF CreateOrder
  <2>2. [order[o] EXCEPT !.status = "PENDING_APPROVAL"].status = "PENDING_APPROVAL"
    BY <1>1 DEF Row
  <2> QED BY <1>2, <2>1, <2>2
<1>5. ASSUME NEW t \in Threads, CommitApproval(t)
      PROVE  OnlyLegacyIsLegacy'
  <2> DEFINE o == cmd[t].order
             row == [status  |-> IF cmd[t].approved THEN "WAITING_FOR_CLAIM" ELSE "REJECTED",
                     worker  |-> order[o].worker,
                     version |-> order[o].version + 1]
  <2>1. o \in Orders /\ (UNCHANGED order \/ order' = [order EXCEPT ![o] = row])
    BY <1>5, ApprovalStep
  <2>2. row.status # "LEGACY_APPROVED"
    OBVIOUS
  <2> HIDE DEF row
  <2> QED BY <1>2, <2>1, <2>2
<1>6. ASSUME NEW t \in Threads, CommitCompletion(t)
      PROVE  OnlyLegacyIsLegacy'
  <2> DEFINE o == cmd[t].order
             row == [status |-> "COMPLETED", worker |-> order[o].worker, version |-> order[o].version + 1]
  <2>1. o \in Orders /\ (UNCHANGED order \/ order' = [order EXCEPT ![o] = row])
    BY <1>6, CompletionStep
  <2>2. row.status # "LEGACY_APPROVED"
    OBVIOUS
  <2> HIDE DEF row
  <2> QED BY <1>2, <2>1, <2>2
<1>7. ASSUME NEW t \in Threads, CommitClaim(t) \/ CommitAssignment(t)
      PROVE  OnlyLegacyIsLegacy'
  <2> DEFINE o == cmd[t].order
             row == [status |-> "IN_PROGRESS", worker |-> cmd[t].worker, version |-> order[o].version + 1]
  <2>1. o \in Orders /\ order' = [order EXCEPT ![o] = row]
    BY <1>7, ClaimStep, AssignmentStep
  <2>2. row.status # "LEGACY_APPROVED"
    OBVIOUS
  <2> HIDE DEF row
  <2> QED BY <1>2, <2>1, <2>2
<1>8. ASSUME NEW t \in Threads, CommitRefusal(t)
      PROVE  OnlyLegacyIsLegacy'
  BY <1>8 DEF CommitRefusal, OnlyLegacyIsLegacy
<1> QED BY <1>3, <1>4, <1>5, <1>6, <1>7, <1>8, Writers

\* The two halves of OutboxMatchesOrder for one order.
Left == {"WAITING_FOR_CLAIM", "IN_PROGRESS", "COMPLETED"}

DispatchOK(o) ==
  o \in Urgent \ LegacyOrders =>
    (order[o].status \in Left <=> \E e \in dispatchOutbox : e.order = o)

KnowledgeOK(o) ==
  {e.version : e \in {k \in knowledgeOutbox : k.order = o}} =
    IF order[o].status = "COMPLETED" THEN {order[o].version} ELSE {}

\* The outboxes follow the orders one by one.
LEMMA OutboxPerOrder ==
  OutboxMatchesOrder <=> \A o \in Orders : DispatchOK(o) /\ KnowledgeOK(o)
  BY OrderAssumption DEF OutboxMatchesOrder, DispatchOK, KnowledgeOK, Left

\* An order that stays as it is, with the events it has, stays in step.
LEMMA OutboxKept ==
  ASSUME NEW o \in Orders, DispatchOK(o), KnowledgeOK(o), order'[o] = order[o],
         \A e \in dispatchOutbox' \ dispatchOutbox : e.order # o,
         \A e \in knowledgeOutbox' \ knowledgeOutbox : e.order # o,
         dispatchOutbox \subseteq dispatchOutbox', knowledgeOutbox \subseteq knowledgeOutbox'
  PROVE  DispatchOK(o)' /\ KnowledgeOK(o)'
<1>1. {k \in knowledgeOutbox' : k.order = o} = {k \in knowledgeOutbox : k.order = o}
  OBVIOUS
<1> QED BY <1>1 DEF DispatchOK, KnowledgeOK, Left

\* A step that moves an order without completing it or taking it out of or into Left
\* needs no event.
LEMMA MoveKept ==
  ASSUME NEW o \in Orders, DispatchOK(o), KnowledgeOK(o),
         UNCHANGED <<dispatchOutbox, knowledgeOutbox>>,
         order[o].status # "COMPLETED", order'[o].status # "COMPLETED",
         o \in Urgent \ LegacyOrders => (order[o].status \in Left <=> order'[o].status \in Left)
  PROVE  DispatchOK(o)' /\ KnowledgeOK(o)'
  BY DEF DispatchOK, KnowledgeOK, Left

\* Order rows and outbox rows commit together.
LEMMA OutboxStep ==
  ASSUME TypeOK, ThreadInv, OnlyLegacyIsLegacy, OutboxMatchesOrder, [Next]_vars
  PROVE  OutboxMatchesOrder'
<1>0. SUFFICES ASSUME NEW p \in Orders PROVE DispatchOK(p)' /\ KnowledgeOK(p)'
  BY OrderAssumption DEF OutboxMatchesOrder, DispatchOK, KnowledgeOK, Left
<1>1. /\ order \in [Orders -> Row] /\ DispatchOK(p) /\ KnowledgeOK(p)
      /\ \A e \in dispatchOutbox \cup knowledgeOutbox : e.order \in Orders
  BY OutboxPerOrder DEF TypeOK, EventRow
<1>2. CASE UNCHANGED tables
  BY <1>1, <1>2, OutboxKept DEF tables
<1>3. ASSUME NEW o \in Orders, CreateOrder(o)
      PROVE  DispatchOK(p)' /\ KnowledgeOK(p)'
  <2>1. /\ order[o].status = "ABSENT" /\ UNCHANGED <<dispatchOutbox, knowledgeOutbox>>
        /\ order' = [order EXCEPT ![o] = [order[o] EXCEPT !.status = "PENDING_APPROVAL"]]
    BY <1>3 DEF CreateOrder
  <2>2. order'[o].status = "PENDING_APPROVAL"
    BY <1>1, <2>1 DEF Row
  <2>3. CASE p = o
    BY <1>1, <2>1, <2>2, <2>3, MoveKept DEF Left
  <2>4. CASE p # o
    BY <1>1, <2>1, <2>4, OutboxKept
  <2> QED BY <2>3, <2>4
<1>4. ASSUME NEW t \in Threads, CommitApproval(t)
      PROVE  DispatchOK(p)' /\ KnowledgeOK(p)'
  <2> DEFINE o == cmd[t].order
             row == [status  |-> IF cmd[t].approved THEN "WAITING_FOR_CLAIM" ELSE "REJECTED",
                     worker  |-> order[o].worker,
                     version |-> order[o].version + 1]
  <2>1. UNCHANGED knowledgeOutbox
    BY <1>4 DEF CommitApproval
  <2>2. CASE UNCHANGED <<order, dispatchOutbox>>
    BY <1>1, <2>1, <2>2, OutboxKept
  <2>3. CASE ~ UNCHANGED <<order, dispatchOutbox>>
    <3>1. /\ o \in Orders /\ order[o].status = "PENDING_APPROVAL"
          /\ order' = [order EXCEPT ![o] = row]
          /\ dispatchOutbox' = dispatchOutbox \cup UrgentEvent(t)
          /\ NextVersion(t) = [order |-> o, version |-> order[o].version + 1]
      BY <1>4, <2>3, ApprovalStep
    <3>2. order'[o] = row
      BY <1>1, <3>1
    <3>3. UrgentEvent(t) =
            IF cmd[t].approved /\ o \in Urgent
            THEN {[order |-> o, version |-> order[o].version + 1]} ELSE {}
      BY <3>1 DEF UrgentEvent
    <3>4. CASE p # o
      <4>1. order'[p] = order[p]
        BY <1>1, <3>1, <3>4
      <4>2. \A e \in dispatchOutbox' \ dispatchOutbox : e.order # p
        BY <3>1, <3>3, <3>4
      <4>3. dispatchOutbox \subseteq dispatchOutbox'
        BY <3>1
      <4> QED BY <1>1, <2>1, <4>1, <4>2, <4>3, OutboxKept
    <3>5. CASE p = o
      <4>1. KnowledgeOK(p)'
        BY <1>1, <2>1, <3>1, <3>2, <3>5 DEF KnowledgeOK
      <4>2. ~ cmd[t].approved => order'[o].status = "REJECTED" /\ UNCHANGED dispatchOutbox
        BY <3>1, <3>2, <3>3
      <4>3. cmd[t].approved /\ o \in Urgent
              => order'[o].status = "WAITING_FOR_CLAIM" /\ \E e \in dispatchOutbox' : e.order = o
        BY <3>1, <3>2, <3>3
      <4>4. DispatchOK(p)'
        BY <1>1, <3>1, <3>5, <4>2, <4>3 DEF DispatchOK, Left
      <4> QED BY <4>1, <4>4
    <3> QED BY <3>4, <3>5
  <2> QED BY <2>2, <2>3
<1>5. ASSUME NEW t \in Threads, CommitCompletion(t)
      PROVE  DispatchOK(p)' /\ KnowledgeOK(p)'
  <2> DEFINE o == cmd[t].order
             row == [status |-> "COMPLETED", worker |-> order[o].worker, version |-> order[o].version + 1]
             event == [order |-> o, version |-> order[o].version + 1]
  <2>1. UNCHANGED dispatchOutbox
    BY <1>5 DEF CommitCompletion
  <2>2. CASE UNCHANGED <<order, knowledgeOutbox>>
    BY <1>1, <2>1, <2>2, OutboxKept
  <2>3. CASE ~ UNCHANGED <<order, knowledgeOutbox>>
    <3>1. /\ o \in Orders /\ order[o].status = "IN_PROGRESS"
          /\ order' = [order EXCEPT ![o] = row]
          /\ knowledgeOutbox' = knowledgeOutbox \cup {event}
      BY <1>5, <2>3, CompletionStep
    <3>2. order'[o] = row
      BY <1>1, <3>1
    <3>3. CASE p # o
      BY <1>1, <2>1, <3>1, <3>3, OutboxKept
    <3>4. CASE p = o
      <4>1. {k \in knowledgeOutbox : k.order = o} = {}
        BY <1>1, <3>1, <3>4 DEF KnowledgeOK
      <4>2. {k \in knowledgeOutbox' : k.order = o} = {event}
        BY <3>1, <4>1
      <4>3. KnowledgeOK(p)'
        <5>1. /\ order'[p].status = "COMPLETED"
              /\ order'[p].version = order[o].version + 1
          BY <3>2, <3>4
        <5>2. {e.version : e \in {event}} = {order[o].version + 1}
          OBVIOUS
        <5>3. {e.version : e \in {k \in knowledgeOutbox' : k.order = p}} = {order'[p].version}
          BY <3>4, <4>2, <5>1, <5>2
        <5> QED BY <5>1, <5>3 DEF KnowledgeOK
      <4>4. DispatchOK(p)'
        BY <1>1, <2>1, <3>1, <3>2, <3>4 DEF DispatchOK, Left
      <4> QED BY <4>3, <4>4
    <3> QED BY <3>3, <3>4
  <2> QED BY <2>2, <2>3
<1>6. ASSUME NEW t \in Threads, CommitClaim(t) \/ CommitAssignment(t)
      PROVE  DispatchOK(p)' /\ KnowledgeOK(p)'
  <2> DEFINE o == cmd[t].order
             row == [status |-> "IN_PROGRESS", worker |-> cmd[t].worker, version |-> order[o].version + 1]
  <2>1. o \in Orders /\ order[o].status \in Waiting /\ order' = [order EXCEPT ![o] = row]
    BY <1>6, ClaimStep, AssignmentStep
  <2>2. UNCHANGED <<dispatchOutbox, knowledgeOutbox>>
    BY <1>6 DEF CommitClaim, CommitAssignment
  <2>3. order'[o].status = "IN_PROGRESS"
    BY <1>1, <2>1
  <2>4. CASE p = o
    BY <1>1, <2>1, <2>2, <2>3, <2>4, MoveKept DEF Left, Waiting, OnlyLegacyIsLegacy
  <2>5. CASE p # o
    BY <1>1, <2>1, <2>2, <2>5, OutboxKept
  <2> QED BY <2>4, <2>5
<1>7. ASSUME NEW t \in Threads, CommitRefusal(t)
      PROVE  DispatchOK(p)' /\ KnowledgeOK(p)'
  BY <1>1, <1>7, OutboxKept DEF CommitRefusal
<1> QED BY <1>2, <1>3, <1>4, <1>5, <1>6, <1>7, Writers

-----------------------------------------------------------------------------
(* The theorems *)

\* The initial states.
LEMMA InitInv == Init => IInv
<1> SUFFICES ASSUME Init PROVE IInv
  OBVIOUS
<1>1. \A o \in Orders : order[o] \in Row /\ order[o].worker = NoWorker
        /\ order[o].status \in {"ABSENT", "LEGACY_APPROVED"}
        /\ (order[o].status = "LEGACY_APPROVED" => o \in LegacyOrders)
  BY DEF Init, AbsentRow, LegacyRow, Row, DatabaseStatus
<1>2. TypeOK
  BY <1>1 DEF Init, TypeOK, AbsentRow, Row, DatabaseStatus, Locations, Replies
<1>3. ThreadInv
  BY DEF Init, ThreadInv
<1>4. ClaimMatchesOrder
  BY <1>1 DEF Init, ClaimMatchesOrder
<1>5. OutboxMatchesOrder
  BY <1>1, OrderAssumption DEF Init, OutboxMatchesOrder
<1>6. KeysAreUnique /\ AcceptedHasClaim /\ AcceptedOncePerOrder /\ RefusedIsBlocked /\ RefusalIsFinal
  BY DEF Init, KeysAreUnique, AcceptedHasClaim, AcceptedOncePerOrder, RefusedIsBlocked, RefusalIsFinal
<1>7. OnlyLegacyIsLegacy
  BY <1>1 DEF OnlyLegacyIsLegacy
<1> QED BY <1>2, <1>3, <1>4, <1>5, <1>6, <1>7 DEF IInv

\* Every step.
LEMMA NextInv == IInv /\ [Next]_vars => IInv'
  BY TypeStep, ThreadStep, ClaimInvStep, KeysStep, AcceptedStep, AcceptedOnceStep,
     RefusedStep, RefusalStepFinal, LegacyStep, OutboxStep
     DEF IInv

\* The inductive invariant holds in every state of every behaviour.
THEOREM Invariance == Spec => []IInv
  BY InitInv, NextInv, PTL DEF Spec

\* The tables, locks and threads are well formed for any orders, commands and threads.
THEOREM TypeCorrect == Spec => []TypeOK
<1>1. IInv => TypeOK
  BY DEF IInv
<1> QED BY <1>1, Invariance, PTL

\* An order has a worker exactly when it has its one claim row, which names the worker,
\* for any number of competing claims and commands and even when locks are lost.
THEOREM OneClaimPerOrder == Spec => []ClaimMatchesOrder
<1>1. IInv => ClaimMatchesOrder
  BY DEF IInv
<1> QED BY <1>1, Invariance, PTL

\* An order has at most one accepted command, and belongs to the worker it named.
THEOREM AcceptedIsTrue == Spec => []AcceptedIsTheAssignment
<1>1. IInv => AcceptedIsTheAssignment
  BY DEF IInv, AcceptedIsTheAssignment, AcceptedHasClaim, AcceptedOncePerOrder,
         ClaimMatchesOrder, ClaimRowOf
<1> QED BY <1>1, Invariance, PTL

\* A command that was ever refused for good is never accepted.
THEOREM RefusedForEver == Spec => []RefusalIsFinal
<1>1. IInv => RefusalIsFinal
  BY DEF IInv
<1> QED BY <1>1, Invariance, PTL

\* Outbox rows and the order rows they announce always agree.
THEOREM OutboxInStep == Spec => []OutboxMatchesOrder
<1>1. IInv => OutboxMatchesOrder
  BY DEF IInv
<1> QED BY <1>1, Invariance, PTL

-----------------------------------------------------------------------------
(* Receipts, when live holders keep their locks *)

\* A receipt that tells the caller the order is his.
Success == {"ACCEPTED", "ALREADY_APPLIED", "SUCCESS", "IDEMPOTENT_SUCCESS"}

\* The order went to the command's worker; claim rows stay.
Given(c) == \E k \in claims : k.order = c.order /\ k.worker = c.worker

Locked(t) == pc[t] # "idle" /\ cmd[t].kind \in {"claim", "assign"}

\* A thread under its lock is alone with its order, so nobody carries out its command
\* while it does: the lookup after a duplicate key never finds the command itself.
KeptOK(t) ==
  /\ Locked(t) => lock[cmd[t].order] = t
  /\ pc[t] \in {"writing", "conflict"} /\ cmd[t].kind = "assign" =>
       \A r \in assignments : r.command # cmd[t]
  /\ pc[t] = "leaving" /\ reply[t] \in Success => Given(cmd[t])

ReceiptsStored ==
  \A r \in assignments : r.status \in {"ACCEPTED", "VERSION_CONFLICT", "REJECTED"}

KeptInv == ReceiptsStored /\ \A t \in Threads : KeptOK(t)

\* Only the outcomes of an assignment and of a refusal are stored.
LEMMA ReceiptsStoredStep ==
  ASSUME TypeOK, ThreadInv, ReceiptsStored, [Next]_vars
  PROVE  ReceiptsStored'
<1>1. CASE UNCHANGED assignments BY <1>1 DEF ReceiptsStored
<1>2. ASSUME NEW t \in Threads, CommitAssignment(t) PROVE ReceiptsStored'
  <2>1. assignments' = assignments \cup {[command |-> cmd[t], status |-> "ACCEPTED"]}
    BY <1>2, AssignmentStep
  <2> QED BY <2>1 DEF ReceiptsStored
<1>3. ASSUME NEW t \in Threads, CommitRefusal(t) PROVE ReceiptsStored'
  <2>1. reply[t] \in {"ACCEPTED", "VERSION_CONFLICT", "REJECTED"}
    BY <1>3 DEF ThreadInv, CommitRefusal, ReadyToWrite
  <2> QED BY <1>3, <2>1 DEF CommitRefusal, RefusalRow, ReceiptsStored
<1> QED BY <1>1, <1>2, <1>3, ReceiptsOnly

\* A thread that stands still under its lock, while nobody carries out its command.
LEMMA KeptByOthers ==
  ASSUME IInv, KeptInv, [Next]_vars, NEW t \in Threads,
         pc'[t] = pc[t], cmd'[t] = cmd[t], reply'[t] = reply[t],
         Locked(t) => lock'[cmd[t].order] = lock[cmd[t].order],
         \A r \in assignments' \ assignments : Locked(t) => r.command # cmd[t]
  PROVE  KeptOK(t)'
<1>1. KeptOK(t) BY DEF KeptInv
<1>2. claims \subseteq claims' BY TablesGrow DEF IInv
<1>3. Given(cmd[t]) => Given(cmd[t])' BY <1>2 DEF Given
<1>4. (Locked(t) => lock[cmd[t].order] = t)' BY <1>1 DEF KeptOK, Locked
<1>5. pc'[t] \in {"writing", "conflict"} /\ cmd'[t].kind = "assign" =>
        \A r \in assignments' : r.command # cmd'[t]
  BY <1>1 DEF KeptOK, Locked
<1> QED BY <1>1, <1>3, <1>4, <1>5 DEF KeptOK

\* Two threads under their locks are not about the same order.
LEMMA LockedApart ==
  ASSUME KeptInv, NEW t \in Threads, NEW u \in Threads, u # t, Locked(t), Locked(u)
  PROVE  cmd[t].order # cmd[u].order
BY DEF KeptInv, KeptOK

\* A thread answers.
LEMMA KeptAnswer ==
  ASSUME IInv, KeptInv, [Next]_vars, NEW t \in Threads, NEW receipt, Locked(t),
         Answer(t, receipt), UNCHANGED lock, receipt \in Success => Given(cmd[t])',
         \A r \in assignments' \ assignments : r.command = cmd[t]
  PROVE  \A u \in Threads : KeptOK(u)'
<1> SUFFICES ASSUME NEW u \in Threads PROVE KeptOK(u)' OBVIOUS
<1>1. /\ pc' = [pc EXCEPT ![t] = "leaving"] /\ cmd' = cmd
      /\ reply' = [reply EXCEPT ![t] = receipt]
  BY DEF Answer
<1>2. CASE u = t
  <2>1. pc'[t] = "leaving" /\ reply'[t] = receipt /\ cmd'[t] = cmd[t]
    BY <1>1 DEF IInv, TypeOK
  <2>2. lock'[cmd[t].order] = t BY DEF KeptInv, KeptOK
  <2>3. receipt \in Success => Given(cmd[t])' OBVIOUS
  <2> QED BY <1>2, <2>1, <2>2, <2>3 DEF KeptOK, Locked
<1>3. CASE u # t
  <2>1. pc'[u] = pc[u] /\ cmd'[u] = cmd[u] /\ reply'[u] = reply[u]
    BY <1>1, <1>3 DEF IInv, TypeOK
  <2>2. Locked(u) => cmd[t].order # cmd[u].order BY <1>3, LockedApart
  <2> QED BY <2>1, <2>2, KeptByOthers
<1> QED BY <1>2, <1>3

\* A thread takes up a request or lets go of one.
LEMMA KeptTurn ==
  ASSUME IInv, KeptInv, [Next]_vars, NEW t \in Threads, NEW c, NEW location,
         UNCHANGED assignments,
         pc' = [pc EXCEPT ![t] = location], cmd' = [cmd EXCEPT ![t] = c],
         \A u \in Threads \ {t} : reply'[u] = reply[u],
         \A u \in Threads \ {t} : Locked(u) => lock'[cmd[u].order] = lock[cmd[u].order],
         \/ location = "idle"
         \/ location = "writing" /\ c.kind \in {"approve", "complete"}
         \/ location = "entered" /\ lock'[c.order] = t
  PROVE  \A u \in Threads : KeptOK(u)'
<1> SUFFICES ASSUME NEW u \in Threads PROVE KeptOK(u)' OBVIOUS
<1>1. CASE u = t
  <2>1. pc'[t] = location /\ cmd'[t] = c BY DEF IInv, TypeOK
  <2> QED BY <1>1, <2>1 DEF KeptOK, Locked
<1>2. CASE u # t
  <2>1. pc'[u] = pc[u] /\ cmd'[u] = cmd[u] BY <1>2 DEF IInv, TypeOK
  <2> QED BY <1>2, <2>1, KeptByOthers
<1> QED BY <1>1, <1>2

\* A thread reads and goes on to write, or finds a duplicate key.
LEMMA KeptMove ==
  ASSUME IInv, KeptInv, [Next]_vars, NEW t \in Threads, NEW location, Locked(t),
         UNCHANGED <<assignments, lock, cmd>>,
         pc' = [pc EXCEPT ![t] = location], location \in {"writing", "conflict"},
         \A u \in Threads \ {t} : reply'[u] = reply[u],
         cmd[t].kind = "assign" => \A r \in assignments : r.command # cmd[t]
  PROVE  \A u \in Threads : KeptOK(u)'
<1> SUFFICES ASSUME NEW u \in Threads PROVE KeptOK(u)' OBVIOUS
<1>1. CASE u = t
  <2>1. pc'[t] = location /\ cmd'[t] = cmd[t] BY DEF IInv, TypeOK
  <2>2. lock'[cmd[t].order] = t BY DEF KeptInv, KeptOK
  <2> QED BY <1>1, <2>1, <2>2 DEF KeptOK, Locked
<1>2. CASE u # t
  <2>1. pc'[u] = pc[u] /\ cmd'[u] = cmd[u] BY <1>2 DEF IInv, TypeOK
  <2> QED BY <1>2, <2>1, KeptByOthers
<1> QED BY <1>1, <1>2

\* The claim row an assignment or a claim found or wrote.
LEMMA AcceptedIsGiven ==
  ASSUME IInv, NEW r \in assignments, r.status = "ACCEPTED" PROVE Given(r.command)
BY DEF IInv, AcceptedHasClaim, Given, ClaimRowOf

\* The steps of a claim.
LEMMA KeptByClaims ==
  ASSUME IInv, KeptInv, [Next]_vars, NEW t \in Threads,
         ReplayClaim(t) \/ ReadForClaim(t) \/ CommitClaim(t) \/ AbortClaim(t)
  PROVE  \A u \in Threads : KeptOK(u)'
<1>1. Locked(t) BY DEF ReplayClaim, ReadForClaim, CommitClaim, AbortClaim, Locked
<1>2. CASE ReplayClaim(t)
  <2>1. PICK k \in claims :
          Answer(t, IF k.order = cmd[t].order /\ k.worker = cmd[t].worker
                    THEN "IDEMPOTENT_SUCCESS" ELSE "REFUSED")
    BY <1>2 DEF ReplayClaim
  <2>2. PICK receipt :
          /\ Answer(t, receipt)
          /\ receipt \in Success => k.order = cmd[t].order /\ k.worker = cmd[t].worker
    BY <2>1 DEF Success
  <2>3. cmd' = cmd /\ claims' = claims /\ UNCHANGED <<lock, assignments>>
    BY <1>2, <2>2 DEF ReplayClaim, Answer, tables
  <2>4. receipt \in Success => Given(cmd[t])' BY <2>2, <2>3 DEF Given
  <2> QED BY <1>1, <2>2, <2>3, <2>4, KeptAnswer
<1>3. CASE ReadForClaim(t)
  <2>1. CASE Decide(t, order[cmd[t].order], "SUCCESS")
    <3>1. cmd[t].kind # "assign" BY <1>3 DEF ReadForClaim
    <3> QED BY <1>1, <1>3, <2>1, <3>1, KeptMove DEF Decide, ReadForClaim, tables, IInv, TypeOK
  <2>2. CASE Answer(t, "REFUSED")
    <3>1. "REFUSED" \notin Success BY DEF Success
    <3> QED BY <1>1, <1>3, <2>2, <3>1, KeptAnswer DEF ReadForClaim, tables
  <2> QED BY <1>3, <2>1, <2>2 DEF ReadForClaim
<1>4. CASE CommitClaim(t)
  <2>1. claims' = claims \cup {ClaimRowOf(cmd[t])} /\ cmd' = cmd
    BY <1>4 DEF CommitClaim, Answer
  <2>2. Given(cmd[t])'
    <3>1. PICK k : k = ClaimRowOf(cmd[t]) OBVIOUS
    <3>2. k.order = cmd[t].order /\ k.worker = cmd[t].worker BY <3>1 DEF ClaimRowOf
    <3> QED BY <2>1, <3>1, <3>2 DEF Given
  <2> QED BY <1>1, <1>4, <2>2, KeptAnswer DEF CommitClaim
<1>5. CASE AbortClaim(t)
  <2>1. "ERROR" \notin Success BY DEF Success
  <2> QED BY <1>1, <1>5, <2>1, KeptAnswer DEF AbortClaim, tables
<1> QED BY <1>2, <1>3, <1>4, <1>5

\* The steps of an assignment command.
LEMMA KeptByAssignments ==
  ASSUME IInv, KeptInv, [Next]_vars, NEW t \in Threads,
         \/ ReplayAssign(t) \/ ReadForAssign(t) \/ CommitAssignment(t)
         \/ CommitRefusal(t) \/ RollbackDuplicate(t) \/ ResolveDuplicate(t)
  PROVE  \A u \in Threads : KeptOK(u)'
<1>1. Locked(t) /\ cmd[t].kind = "assign"
  <2>1. CASE ResolveDuplicate(t)
    <3>1. cmd[t] \in AssignCommands BY <2>1 DEF ResolveDuplicate, IInv, ThreadInv
    <3> QED BY <2>1, <3>1, CommandFields DEF ResolveDuplicate, Locked
  <2> QED BY <2>1 DEF ReplayAssign, ReadForAssign, CommitAssignment, CommitRefusal,
                      RollbackDuplicate, Locked
<1>2. CASE ReplayAssign(t)
  <2>1. PICK r \in Previous(cmd[t]) : Answer(t, ReplayStatus(r, cmd[t]))
    BY <1>2 DEF ReplayAssign
  <2>2. r \in assignments BY DEF Previous, SameKey, SameDispatch
  <2>3. PICK receipt : receipt = ReplayStatus(r, cmd[t]) OBVIOUS
  <2>4. r.status \in {"ACCEPTED", "VERSION_CONFLICT", "REJECTED"}
    BY <2>2 DEF KeptInv, ReceiptsStored
  <2>5. receipt \in Success => r.command = cmd[t] /\ r.status = "ACCEPTED"
    BY <2>3, <2>4 DEF ReplayStatus, Success
  <2>6. receipt \in Success => Given(cmd[t]) BY <2>2, <2>5, AcceptedIsGiven
  <2>7. cmd' = cmd /\ claims' = claims /\ UNCHANGED <<lock, assignments>>
    BY <1>2, <2>1 DEF ReplayAssign, Answer, tables
  <2>8. receipt \in Success => Given(cmd[t])' BY <2>6, <2>7 DEF Given
  <2> QED BY <1>1, <2>1, <2>3, <2>7, <2>8, KeptAnswer
<1>3. CASE ReadForAssign(t)
  <2>1. \A r \in assignments : r.command # cmd[t]
    BY <1>3 DEF ReadForAssign, Previous, SameKey, SameDispatch
  <2> QED BY <1>1, <1>3, <2>1, KeptMove DEF ReadForAssign, Decide, tables, IInv, TypeOK
<1>4. CASE CommitAssignment(t)
  <2>1. /\ claims' = claims \cup {ClaimRowOf(cmd[t])} /\ cmd' = cmd /\ UNCHANGED lock
        /\ assignments' = assignments \cup {[command |-> cmd[t], status |-> "ACCEPTED"]}
        /\ Answer(t, "ACCEPTED")
    BY <1>4 DEF CommitAssignment, Answer
  <2>2. Given(cmd[t])'
    <3>1. PICK k : k = ClaimRowOf(cmd[t]) OBVIOUS
    <3>2. k.order = cmd[t].order /\ k.worker = cmd[t].worker BY <3>1 DEF ClaimRowOf
    <3> QED BY <2>1, <3>1, <3>2 DEF Given
  <2>3. \A r \in assignments' \ assignments : r.command = cmd[t] BY <2>1
  <2> QED BY <1>1, <2>1, <2>2, <2>3, KeptAnswer
<1>5. CASE CommitRefusal(t)
  <2>1. PICK receipt \in {"VERSION_CONFLICT", "REJECTED"} :
          /\ assignments' = assignments \cup {[command |-> cmd[t], status |-> receipt]}
          /\ Answer(t, receipt) /\ UNCHANGED lock
    <3>1. reply[t] \in {"ACCEPTED", "VERSION_CONFLICT", "REJECTED"}
      BY <1>5 DEF IInv, ThreadInv, CommitRefusal, ReadyToWrite
    <3> QED BY <1>5, <3>1 DEF CommitRefusal, RefusalRow
  <2>2. \A r \in assignments' \ assignments : r.command = cmd[t] BY <2>1
  <2>3. receipt \notin Success BY DEF Success
  <2> QED BY <1>1, <2>1, <2>2, <2>3, KeptAnswer
<1>6. CASE RollbackDuplicate(t)
  <2>1. \A r \in assignments : r.command # cmd[t]
    BY <1>1, <1>6 DEF RollbackDuplicate, KeptInv, KeptOK
  <2> QED BY <1>1, <1>6, <2>1, KeptMove DEF RollbackDuplicate, tables
<1>7. CASE ResolveDuplicate(t)
  <2>1. \A r \in SameKey(cmd[t]) : r.command # cmd[t]
    BY <1>1, <1>7 DEF ResolveDuplicate, KeptInv, KeptOK, SameKey
  <2>2. Answer(t, "REJECTED") BY <1>7, <2>1 DEF ResolveDuplicate
  <2>3. "REJECTED" \notin Success BY DEF Success
  <2> QED BY <1>1, <1>7, <2>2, <2>3, KeptAnswer DEF ResolveDuplicate, tables
<1> QED BY <1>2, <1>3, <1>4, <1>5, <1>6, <1>7

\* Every step, while Redis drops no lock of a live holder.
LEMMA KeptStep ==
  ASSUME ~LockMayBeLost, IInv, KeptInv, [Next]_vars
  PROVE  KeptInv'
<1>1. ReceiptsStored' BY ReceiptsStoredStep DEF IInv, KeptInv
<1> SUFFICES \A u \in Threads : KeptOK(u)' BY <1>1 DEF KeptInv
<1>2. ASSUME UNCHANGED <<assignments, lock, threadVars>>
      PROVE  \A u \in Threads : KeptOK(u)'
  BY <1>2, KeptByOthers DEF threadVars
<1>3. CASE UNCHANGED vars BY <1>2, <1>3 DEF vars, tables
<1>4. ASSUME NEW o \in Orders, CreateOrder(o) PROVE \A u \in Threads : KeptOK(u)'
  BY <1>2, <1>4 DEF CreateOrder
<1>5. ASSUME NEW o \in Orders, ExpireLock(o) PROVE \A u \in Threads : KeptOK(u)'
  <2>1. lock[o] = Orphan /\ lock' = [lock EXCEPT ![o] = Free]
        /\ UNCHANGED <<assignments, threadVars>>
    BY <1>5 DEF ExpireLock, tables
  <2>2. \A u \in Threads : Locked(u) => lock[cmd[u].order] = u BY DEF KeptInv, KeptOK
  <2>3. \A u \in Threads : Locked(u) => lock'[cmd[u].order] = lock[cmd[u].order]
    BY <2>1, <2>2, LockAssumption DEF IInv, TypeOK
  <2> QED BY <2>1, <2>3, KeptByOthers DEF threadVars
<1>6. ASSUME NEW t \in Threads, NEW c,
             \/ c \in ApproveCommands /\ ReadForApproval(t, c)
             \/ c \in CompleteCommands /\ ReadForCompletion(t, c)
      PROVE  \A u \in Threads : KeptOK(u)'
  <2>1. c.kind \in {"approve", "complete"} BY <1>6 DEF ApproveCommands, CompleteCommands
  <2> QED BY <1>6, <2>1, KeptTurn DEF ReadForApproval, ReadForCompletion, Begin, tables
<1>7. ASSUME NEW t \in Threads, NEW c \in LockedCommands, Acquire(t, c)
      PROVE  \A u \in Threads : KeptOK(u)'
  <2>1. /\ lock[c.order] = Free /\ lock' = [lock EXCEPT ![c.order] = t]
        /\ Begin(t, c, "entered", AbsentRow) /\ UNCHANGED assignments
    BY <1>7 DEF Acquire, tables
  <2>2. c.order \in Orders BY CommandFields DEF LockedCommands
  <2>3. \A u \in Threads : Locked(u) => lock[cmd[u].order] = u BY DEF KeptInv, KeptOK
  <2>4. \A u \in Threads : Locked(u) => lock'[cmd[u].order] = lock[cmd[u].order]
    BY <2>1, <2>3, LockAssumption DEF IInv, TypeOK
  <2>5. lock'[c.order] = t BY <2>1, <2>2 DEF IInv, TypeOK
  <2> QED BY <2>1, <2>4, <2>5, KeptTurn DEF Begin
<1>8. ASSUME NEW t \in Threads, Crash(t) PROVE \A u \in Threads : KeptOK(u)'
  <2>1. /\ lock' = [o \in Orders |-> IF lock[o] = t THEN Orphan ELSE lock[o]]
        /\ Finish(t) /\ UNCHANGED assignments
    BY <1>8 DEF Crash, tables
  <2>2. \A u \in Threads : Locked(u) => lock[cmd[u].order] = u /\ cmd[u].order \in Orders
    BY CommandKinds DEF KeptInv, KeptOK, Locked, IInv, ThreadInv
  <2>3. \A u \in Threads \ {t} : Locked(u) => lock'[cmd[u].order] = lock[cmd[u].order]
    BY <2>1, <2>2
  <2>4. \A u \in Threads \ {t} : reply'[u] = reply[u] BY <2>1 DEF Finish, IInv, TypeOK
  <2> QED BY <2>1, <2>3, <2>4, KeptTurn DEF Finish
<1>9. ASSUME NEW t \in Threads, CommitApproval(t) \/ CommitCompletion(t)
      PROVE  \A u \in Threads : KeptOK(u)'
  <2>1. Finish(t) /\ UNCHANGED <<assignments, lock>>
    BY <1>9 DEF CommitApproval, CommitCompletion
  <2>2. \A u \in Threads \ {t} : reply'[u] = reply[u] BY <2>1 DEF Finish, IInv, TypeOK
  <2> QED BY <2>1, <2>2, KeptTurn DEF Finish
<1>10. ASSUME NEW t \in Threads, Leave(t) PROVE \A u \in Threads : KeptOK(u)'
  <2>1. lock' = Unlock(t) /\ Finish(t) /\ UNCHANGED assignments BY <1>10 DEF Leave, tables
  <2>2. Locked(t) BY <1>10, CommandKinds DEF Leave, Locked, IInv, ThreadInv
  <2>3. \A u \in Threads \ {t} : Locked(u) => lock'[cmd[u].order] = lock[cmd[u].order]
    BY <2>1, <2>2, LockedApart DEF Unlock, IInv, TypeOK
  <2>4. \A u \in Threads \ {t} : reply'[u] = reply[u] BY <2>1 DEF Finish, IInv, TypeOK
  <2> QED BY <2>1, <2>3, <2>4, KeptTurn DEF Finish
<1>11. ASSUME NEW t \in Threads, FailTransaction(t) PROVE \A u \in Threads : KeptOK(u)'
  <2>1. "ERROR" \notin Success BY DEF Success
  <2> QED BY <1>11, <2>1, KeptAnswer DEF FailTransaction, Locked, tables
<1>12. ASSUME NEW t \in Threads, Progress(t) PROVE \A u \in Threads : KeptOK(u)'
  BY <1>9, <1>10, <1>12, KeptByClaims, KeptByAssignments DEF Progress
<1> QED BY <1>3, <1>4, <1>5, <1>6, <1>7, <1>8, <1>11, <1>12 DEF Next

\* A caller told of success finds the order with his worker, when Redis keeps the locks of
\* live holders: whatever is retried, answered from a replay or after a duplicate key, and
\* although threads crash and locks of the dead are freed.
THEOREM SuccessIsTrue == ASSUME ~LockMayBeLost PROVE Spec => []SuccessReceiptIsTrue
<1>1. Init => KeptInv BY DEF Init, KeptInv, KeptOK, Locked, ReceiptsStored
<1>2. IInv /\ KeptInv /\ [Next]_vars => KeptInv' BY KeptStep
<1>3. IInv /\ KeptInv => SuccessReceiptIsTrue
  <2> SUFFICES ASSUME IInv, KeptInv, NEW t \in Threads, pc[t] = "leaving", reply[t] \in Success
               PROVE  order[cmd[t].order].worker = cmd[t].worker
    BY DEF SuccessReceiptIsTrue, Success
  <2>1. PICK k \in claims : k.order = cmd[t].order /\ k.worker = cmd[t].worker
    BY DEF KeptInv, KeptOK, Given
  <2> QED BY <2>1 DEF IInv, ClaimMatchesOrder
<1> QED BY <1>1, <1>2, <1>3, Invariance, PTL DEF Spec

-----------------------------------------------------------------------------
(* The detailed specification implements OrderLifecycle *)

Stage == [o \in Orders |-> FromDatabase(order[o].status)]
Assignee == [o \in Orders |-> order[o].worker]

\* A write of one row is a write of one stage and one assignee.
LEMMA MappedWrite ==
  ASSUME order \in [Orders -> Row], NEW o \in Orders, NEW s, NEW w, NEW v,
         order' = [order EXCEPT ![o] = [status |-> s, worker |-> w, version |-> v]]
  PROVE  /\ Stage' = [Stage EXCEPT ![o] = FromDatabase(s)]
         /\ Assignee' = [Assignee EXCEPT ![o] = w]
<1>1. \A p \in Orders :
        /\ p # o => order'[p] = order[p]
        /\ p = o => order'[p].status = s /\ order'[p].worker = w
  OBVIOUS
<1> QED BY <1>1 DEF Stage, Assignee

\* The abstract table is the concrete one.
LEMMA LifecycleTable ==
  /\ Lifecycle!CanTransition("PENDING_APPROVAL", "APPROVE")
  /\ Lifecycle!CanTransition("PENDING_APPROVAL", "REJECT")
  /\ Lifecycle!CanTransition("IN_PROGRESS", "COMPLETE")
  /\ Lifecycle!CanTransition("WAITING_FOR_CLAIM", "MANUAL_CLAIM")
  /\ Lifecycle!TargetStatus("PENDING_APPROVAL", "APPROVE") = "WAITING_FOR_CLAIM"
  /\ Lifecycle!TargetStatus("PENDING_APPROVAL", "REJECT") = "REJECTED"
  /\ Lifecycle!TargetStatus("IN_PROGRESS", "COMPLETE") = "COMPLETED"
  /\ Lifecycle!TargetStatus("WAITING_FOR_CLAIM", "MANUAL_CLAIM") = "IN_PROGRESS"
  BY DEF Lifecycle!CanTransition, Lifecycle!TargetStatus, Lifecycle!FromDatabase, Lifecycle!Transitions

\* A write of a stage that keeps the assignee is an event that names no worker.
LEMMA MappedFire ==
  ASSUME NEW o \in Orders, NEW event \in {"APPROVE", "REJECT", "COMPLETE"}, NEW s,
         Lifecycle!CanTransition(Stage[o], event),
         Lifecycle!TargetStatus(Stage[o], event) = s,
         Stage' = [Stage EXCEPT ![o] = s],
         Assignee' = Assignee
  PROVE  Lifecycle!LifecycleNext
<1>1. Lifecycle!Fire(o, event)
  BY DEF Lifecycle!Fire, Stage, Assignee
<1> QED BY <1>1 DEF Lifecycle!LifecycleNext

\* A write of a stage and an assignee is a claim.
LEMMA MappedAssign ==
  ASSUME NEW o \in Orders, NEW w \in Workers,
         Stage[o] = "WAITING_FOR_CLAIM", Assignee[o] = NoWorker,
         Stage' = [Stage EXCEPT ![o] = "IN_PROGRESS"],
         Assignee' = [Assignee EXCEPT ![o] = w]
  PROVE  Lifecycle!LifecycleNext
<1>1. Lifecycle!Assign(o, w, "MANUAL_CLAIM")
  BY LifecycleTable DEF Lifecycle!Assign, Stage, Assignee
<1> QED BY <1>1 DEF Lifecycle!LifecycleNext

\* Every step of the service is a step of the lifecycle or leaves it unchanged: an
\* approval, a claim, an assignment or a completion that commits is the abstract event,
\* and whatever a lost race, a retry or a crash does is a stutter.
LEMMA LifecycleStep ==
  ASSUME TypeOK, ThreadInv, [Next]_vars
  PROVE  [Lifecycle!LifecycleNext]_Lifecycle!lifecycleVars
<1> USE DEF Lifecycle!lifecycleVars
<1>1. order \in [Orders -> Row]
  BY DEF TypeOK
<1>2. \A o \in Orders : Stage[o] = FromDatabase(order[o].status) /\ Assignee[o] = order[o].worker
  BY DEF Stage, Assignee
<1>3. CASE UNCHANGED order
  BY <1>3
<1>4. ASSUME NEW o \in Orders, CreateOrder(o)
      PROVE  Lifecycle!LifecycleNext
  <2>1. /\ order[o].status = "ABSENT"
        /\ order' = [order EXCEPT ![o] = [order[o] EXCEPT !.status = "PENDING_APPROVAL"]]
    BY <1>4 DEF CreateOrder
  <2>2. order' = [order EXCEPT ![o] =
          [status |-> "PENDING_APPROVAL", worker |-> order[o].worker, version |-> order[o].version]]
    <3>1. [order[o] EXCEPT !.status = "PENDING_APPROVAL"] =
            [status |-> "PENDING_APPROVAL", worker |-> order[o].worker, version |-> order[o].version]
      BY <1>1 DEF Row
    <3> QED BY <2>1, <3>1
  <2>3. /\ Stage' = [Stage EXCEPT ![o] = FromDatabase("PENDING_APPROVAL")]
        /\ Assignee' = [Assignee EXCEPT ![o] = order[o].worker]
    BY <1>1, <2>2, MappedWrite
  <2>4. Stage[o] = "ABSENT" /\ Assignee' = Assignee
    BY <1>2, <2>1, <2>3 DEF FromDatabase, Assignee
  <2>5. Lifecycle!Create(o)
    BY <2>3, <2>4 DEF Lifecycle!Create, Stage, Assignee, FromDatabase
  <2> QED BY <2>5 DEF Lifecycle!LifecycleNext
<1>5. ASSUME NEW t \in Threads, CommitApproval(t), ~ UNCHANGED order
      PROVE  Lifecycle!LifecycleNext
  <2> DEFINE o == cmd[t].order
             event == IF cmd[t].approved THEN "APPROVE" ELSE "REJECT"
             row == [status  |-> IF cmd[t].approved THEN "WAITING_FOR_CLAIM" ELSE "REJECTED",
                     worker  |-> order[o].worker,
                     version |-> order[o].version + 1]
  <2>1. o \in Orders /\ order[o].status = "PENDING_APPROVAL" /\ order' = [order EXCEPT ![o] = row]
    BY <1>5, ApprovalStep
  <2>2. /\ row.status = Lifecycle!TargetStatus("PENDING_APPROVAL", event)
        /\ FromDatabase(row.status) = row.status
        /\ Lifecycle!CanTransition("PENDING_APPROVAL", event)
        /\ event \in {"APPROVE", "REJECT", "COMPLETE"}
    BY LifecycleTable DEF FromDatabase
  <2>3. /\ Stage' = [Stage EXCEPT ![o] = FromDatabase(row.status)]
        /\ Assignee' = [Assignee EXCEPT ![o] = order[o].worker]
    BY <1>1, <2>1, MappedWrite
  <2>4. Stage[o] = "PENDING_APPROVAL" /\ Assignee' = Assignee
    BY <1>2, <2>1, <2>3 DEF FromDatabase, Assignee
  <2> QED BY <2>1, <2>2, <2>3, <2>4, MappedFire
<1>6. ASSUME NEW t \in Threads, CommitCompletion(t), ~ UNCHANGED order
      PROVE  Lifecycle!LifecycleNext
  <2> DEFINE o == cmd[t].order
             row == [status |-> "COMPLETED", worker |-> order[o].worker, version |-> order[o].version + 1]
  <2>1. o \in Orders /\ order[o].status = "IN_PROGRESS" /\ order' = [order EXCEPT ![o] = row]
    BY <1>6, CompletionStep
  <2>2. FromDatabase("COMPLETED") = "COMPLETED"
    BY DEF FromDatabase
  <2>3. /\ Stage' = [Stage EXCEPT ![o] = FromDatabase("COMPLETED")]
        /\ Assignee' = [Assignee EXCEPT ![o] = order[o].worker]
    BY <1>1, <2>1, MappedWrite
  <2>4. Stage[o] = "IN_PROGRESS" /\ Assignee' = Assignee
    BY <1>2, <2>1, <2>3 DEF FromDatabase, Assignee
  <2> QED BY <2>1, <2>2, <2>3, <2>4, MappedFire, LifecycleTable
<1>7. ASSUME NEW t \in Threads, CommitClaim(t) \/ CommitAssignment(t)
      PROVE  Lifecycle!LifecycleNext
  <2> DEFINE o == cmd[t].order
             row == [status |-> "IN_PROGRESS", worker |-> cmd[t].worker, version |-> order[o].version + 1]
  <2>1. /\ o \in Orders /\ cmd[t].worker \in Workers
        /\ order[o].status \in Waiting /\ order[o].worker = NoWorker
        /\ order' = [order EXCEPT ![o] = row]
    BY <1>7, ClaimStep, AssignmentStep, CommandFields
  <2>3. /\ Stage' = [Stage EXCEPT ![o] = "IN_PROGRESS"]
        /\ Assignee' = [Assignee EXCEPT ![o] = cmd[t].worker]
    BY <1>1, <2>1, MappedWrite DEF FromDatabase
  <2>4. Stage[o] = "WAITING_FOR_CLAIM" /\ Assignee[o] = NoWorker
    BY <1>2, <2>1 DEF FromDatabase, Waiting
  <2> QED BY <2>1, <2>3, <2>4, MappedAssign
<1>8. ASSUME NEW t \in Threads, CommitRefusal(t)
      PROVE  UNCHANGED order
  BY <1>8 DEF CommitRefusal
<1>9. UNCHANGED tables => UNCHANGED order
  BY DEF tables
<1> QED BY <1>3, <1>4, <1>5, <1>6, <1>7, <1>8, <1>9, Writers

\* The service implements the lifecycle: an order is given once and for all to one
\* worker, whatever claims, commands, retries, crashes and lost locks interleave.
THEOREM Refinement == Spec => ImplementsLifecycle
<1>1. Init => Lifecycle!LifecycleInit
  BY DEF Init, Lifecycle!LifecycleInit, AbsentRow, LegacyRow, FromDatabase
<1>2. IInv /\ [Next]_vars => [Lifecycle!LifecycleNext]_Lifecycle!lifecycleVars
  BY LifecycleStep DEF IInv
<1> QED BY <1>1, <1>2, Invariance, PTL DEF Spec, ImplementsLifecycle, Lifecycle!LifecycleSpec

=============================================================================
