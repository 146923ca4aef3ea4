--------------------------- MODULE DispatchRuntime ---------------------------
(***************************************************************************)
(* The dispatch agent's runtime graph (flowfix_agent/dispatch/runtime):    *)
(* snapshot, decide, approve, execute, verify, audit.  The graph keeps one *)
(* checkpointed thread for each dispatch event.  Calls of start, resume    *)
(* and retry run the graph from the newest checkpoint of a thread; several *)
(* calls may run on one thread at once, and each works on the values it    *)
(* loaded.                                                                 *)
(*                                                                         *)
(* An event has one dispatch id, so both name the thread.  The order       *)
(* service is seen through its HTTP contract: a command has its effect     *)
(* when the service handles it, which may be after the agent gave up       *)
(* waiting for the answer.                                                 *)
(***************************************************************************)
EXTENDS Naturals, FiniteSets

CONSTANTS
  Events,      \* dispatch events
  Orders,
  Workers,
  Calls,       \* slots for concurrent calls of the runtime
  OrderOf,     \* the order an event is about
  NoOne,       \* the absent worker
  None,        \* an absent value
  MaxInputs,   \* bound: snapshots read and answers given for one event
  MaxFaults    \* bound: failed tool calls and crashes

ASSUME EventAssumption == OrderOf \in [Events -> Orders]

ASSUME WorkerAssumption == NoOne \notin Workers

ASSUME BoundAssumption == MaxInputs \in Nat /\ MaxFaults \in Nat

VARIABLES
  proposals,    \* the events that are proposals of an investigation; never changes
  order,        \* order service: the row of each order
  assignments,  \* order service: the dispatch_assignment row of each event
  inFlight,     \* commands the agent no longer waits for
  decisions,    \* decision repository
  thread,       \* newest checkpoint of each thread
  audit,        \* audit file: the status written for each event
  call,         \* the calls being run
  sent,         \* history: commands sent, with the kind of call that sent them
  approvals,    \* history: <<event, worker>> a reviewer approved
  inputs,       \* history: snapshots read and answers given for each event
  faults        \* history: faults so far

service == <<order, assignments, inFlight>>
agent == <<decisions, thread, audit, call>>
history == <<sent, approvals, inputs, faults>>
vars == <<proposals, service, agent, history>>

MaybeWorker == Workers \cup {NoOne}

RuntimeStatus == {"received", "snapshot_frozen", "decision_ready", "awaiting_approval",
                  "approved", "denied", "executing", "verified", "audited", "failed"}

Nodes == {"load_snapshot", "decide", "mark_approval", "human_approval",
          "execute", "verify", "audit"}

\* The tool nodes: each waits for an answer of the order service or a file.
ToolNodes == {"load_snapshot", "execute", "verify", "audit"}

\* What decide is given.  `captured' is the time of the snapshot: the order
\* service stamps every answer, so no two snapshots of an event are equal.
Snapshot == [captured : Nat, version : Nat, worker : MaybeWorker, eligible : SUBSET Workers]

\* A decision names its input fingerprint by the input itself.
Decision == [input : Snapshot, outcome : {"assign", "manual", "rejected"},
             selected : MaybeWorker]

Answer == [approved : BOOLEAN, worker : MaybeWorker]

Command == [event : Events, worker : Workers, version : Nat]

\* The receipts, of "accepted", "already_applied", "version_conflict" and
\* "rejected", that say the order is the worker's.
Applied == {"accepted", "already_applied"}

\* The values of a checkpoint.  `answer' is a resume value not yet consumed.
Values == [next : Nodes \cup {"end"}, status : RuntimeStatus,
           snap : Snapshot \cup {None}, decision : Decision \cup {None},
           approval : Answer \cup {None}, command : Command \cup {None},
           answer : Answer \cup {None}]

Blank == [next |-> "load_snapshot", status |-> "received", snap |-> None,
          decision |-> None, approval |-> None, command |-> None,
          answer |-> None]

\* A call resumes with a denial, or is another: start, retry, or resume with an approval.
Kinds == {"run", "deny"}

\* A call that runs.  `before' is the checkpoint before its newest one.
Running == [event : Events, kind : Kinds, values : Values, before : Values \cup {None}]

AssignmentRow == [worker : Workers, version : Nat,
                  status : {"accepted", "version_conflict", "rejected"}]

\* None is told from every value it stands in for.
ASSUME AbsentAssumption ==
  /\ None \notin Snapshot /\ None \notin Decision /\ None \notin Answer
  /\ None \notin Command /\ None \notin Values /\ None \notin Running
  /\ None \notin AssignmentRow /\ None \notin RuntimeStatus

\* An order as the contract shows it (toOrderStatus); its version counts its changes.
OrderRow == [status : {"PENDING_DISPATCH", "ASSIGNED", "COMPLETED"},
             version : Nat, worker : MaybeWorker]

TypeOK ==
  /\ order \in [Orders -> OrderRow]
  /\ assignments \in [Events -> AssignmentRow \cup {None}]
  /\ inFlight \subseteq Command
  /\ decisions \in [Events -> Decision \cup {None}]
  /\ thread \in [Events -> Values \cup {None}]
  /\ audit \in [Events -> RuntimeStatus \cup {None}]
  /\ call \in [Calls -> Running \cup {None}]
  /\ sent \subseteq (Kinds \X Command)
  /\ approvals \subseteq (Events \X Workers)
  /\ proposals \subseteq Events
  /\ inputs \in [Events -> 0..MaxInputs]
  /\ faults \in 0..MaxFaults

Init ==
  /\ proposals \in SUBSET Events
  /\ order = [o \in Orders |-> [status |-> "PENDING_DISPATCH", version |-> 0, worker |-> NoOne]]
  /\ assignments = [e \in Events |-> None]
  /\ inFlight = {}
  /\ decisions = [e \in Events |-> None]
  /\ thread = [e \in Events |-> None]
  /\ audit = [e \in Events |-> None]
  /\ call = [c \in Calls |-> None]
  /\ sent = {}
  /\ approvals = {}
  /\ inputs = [e \in Events |-> 0]
  /\ faults = 0

-----------------------------------------------------------------------------
\* Running a call

Input(e) == inputs[e] < MaxInputs /\ inputs' = [inputs EXCEPT ![e] = @ + 1]

\* The call c stands before node n.
At(c, n) == call[c] # None /\ call[c].values.next = n

\* Begins a call that runs the thread of e from values v.
Begin(c, e, kind, v) ==
  /\ call[c] = None
  /\ call' = [call EXCEPT ![c] = [event |-> e, kind |-> kind, values |-> v, before |-> None]]
  /\ thread' = [thread EXCEPT ![e] = v]

\* A node has finished: its values are the thread's new checkpoint, and a
\* resume value belongs to the checkpoint that was left.
Checkpoint(c, v) ==
  LET new == [v EXCEPT !.answer = None] IN
  /\ thread' = [thread EXCEPT ![call[c].event] = new]
  /\ call' = [call EXCEPT ![c] =
       IF new.next = "end" THEN None ELSE [call[c] EXCEPT !.values = new, !.before = call[c].values]]

\* The call returns or raises, and the thread stays where it is.
Stop(c) ==
  /\ call' = [call EXCEPT ![c] = None]
  /\ UNCHANGED thread

Fault == faults < MaxFaults /\ faults' = faults + 1

-----------------------------------------------------------------------------
\* The operations

\* The values an earlier start left stay, apart from those the input sets.
Restarted(e) ==
  IF thread[e] = None THEN Blank
  ELSE [thread[e] EXCEPT !.next = "load_snapshot", !.status = "received", !.answer = None]

\* to_runtime_input asks for an approval whatever the proposal says; other starts do not.
RequiresApproval(e) == e \in proposals

Start(c, e) ==
  /\ inputs[e] < MaxInputs
  /\ Begin(c, e, "run", Restarted(e))
  /\ UNCHANGED <<service, decisions, audit, history>>

\* Answers a reviewer can send: an approval names a worker, and the worker of a
\* denial is never looked at.
ValidAnswers == {a \in Answer : a.approved <=> a.worker # NoOne}

\* _owned_state: only a thread that was started is resumed or retried.
Owned(e) == thread[e] # None

\* An answer that comes after the approval expired is refused and changes nothing.
Resume(c, e, a) ==
  /\ Owned(e)
  /\ Input(e)
  /\ Begin(c, e, IF a.approved THEN "run" ELSE "deny", [thread[e] EXCEPT !.answer = a])
  /\ approvals' = IF a.approved THEN approvals \cup {<<e, a.worker>>} ELSE approvals
  /\ UNCHANGED <<service, decisions, audit, sent, faults>>

\* A retry of a finished thread runs no node, so it is no step.
Retry(c, e) ==
  /\ Owned(e)
  /\ thread[e].next # "end"
  /\ Begin(c, e, "run", thread[e])
  /\ UNCHANGED <<service, decisions, audit, history>>

\* The checkpoint of a finished thread has no next node.
Finished(c) ==
  /\ At(c, "end")
  /\ Stop(c)
  /\ UNCHANGED <<service, decisions, audit, history>>

-----------------------------------------------------------------------------
\* The nodes

\* The order as the service answers it now, and workers it lists.
SnapshotOf(e, eligible) ==
  [captured |-> inputs[e] + 1, version |-> order[OrderOf[e]].version,
   worker |-> order[OrderOf[e]].worker, eligible |-> eligible]

\* The order and the workers who pass Java's filter and the skill's.
LoadSnapshot(c) ==
  LET e == call[c].event IN
  /\ At(c, "load_snapshot")
  /\ Input(e)
  /\ \E eligible \in SUBSET Workers :
       Checkpoint(c, [call[c].values EXCEPT
         !.next = "decide",
         !.status = "snapshot_frozen",
         !.snap = SnapshotOf(e, eligible)])
  /\ UNCHANGED <<service, decisions, audit, sent, approvals, faults>>

\* What the decision kernel may answer: scores and thresholds are left open.
Outcomes(s) ==
  LET Choice(outcome, w) == [input |-> s, outcome |-> outcome, selected |-> w] IN
  IF s.worker # NoOne THEN {Choice("rejected", NoOne)}
  ELSE {Choice("manual", NoOne)} \cup {Choice("assign", w) : w \in s.eligible}

Candidates(d) == IF d.outcome = "rejected" THEN {} ELSE d.input.eligible

\* The saved decision of the event wins over the one just made.
MutantLatestDecision(e, s) == Outcomes(s)
Decided(e, s) == IF decisions[e] = None THEN Outcomes(s) ELSE {decisions[e]}

MutantApprovalOptional(e, d) ==
  IF d.outcome = "assign" THEN "execute"
  ELSE IF Candidates(d) # {} THEN "mark_approval" ELSE "audit"

RouteDecision(e, d) ==
  IF d.outcome = "assign" /\ ~RequiresApproval(e) THEN "execute"
  ELSE IF Candidates(d) # {} THEN "mark_approval" ELSE "audit"

Decide(c) ==
  LET e == call[c].event
      v == call[c].values IN
  /\ At(c, "decide")
  /\ \E d \in Decided(e, v.snap) :
       /\ d.input = v.snap
       /\ decisions' = [decisions EXCEPT ![e] = d]
       /\ Checkpoint(c, [v EXCEPT
            !.next = RouteDecision(e, d),
            !.status = IF Candidates(d) = {} THEN "denied" ELSE "decision_ready",
            !.decision = d])
  /\ UNCHANGED <<service, audit, history>>

\* IdempotencyConflictError: the event was decided from other input.
DecideConflict(c) ==
  /\ At(c, "decide")
  /\ \A d \in Decided(call[c].event, call[c].values.snap) : d.input # call[c].values.snap
  /\ Stop(c)
  /\ UNCHANGED <<service, decisions, audit, history>>

MarkApproval(c) ==
  /\ At(c, "mark_approval")
  /\ Checkpoint(c, [call[c].values EXCEPT !.next = "human_approval",
                                          !.status = "awaiting_approval"])
  /\ UNCHANGED <<service, decisions, audit, history>>

\* No answer: the interrupt ends the call and the thread stays before the node.
Interrupt(c) ==
  /\ At(c, "human_approval")
  /\ call[c].values.answer = None
  /\ Stop(c)
  /\ UNCHANGED <<service, decisions, audit, history>>

MutantAnyWorker(v) == TRUE
ValidApproval(v) == v.answer.approved => v.answer.worker \in Candidates(v.decision)

RouteApproval(answer) == IF answer.approved THEN "execute" ELSE "audit"

HumanApproval(c) ==
  LET v == call[c].values IN
  /\ At(c, "human_approval")
  /\ v.answer # None
  /\ IF ValidApproval(v)
     THEN Checkpoint(c, [v EXCEPT
            !.next = RouteApproval(v.answer),
            !.status = IF v.answer.approved THEN "approved" ELSE "denied",
            !.approval = v.answer])
     ELSE Stop(c)
  /\ UNCHANGED <<service, decisions, audit, history>>

ChosenWorker(v) == IF v.approval # None THEN v.approval.worker ELSE v.decision.selected

CommandOf(e, v) ==
  [event |-> e, worker |-> ChosenWorker(v), version |-> v.decision.input.version]

\* The row of an order that was free and is now w's.
Taken(row, w) == [status |-> "ASSIGNED", version |-> row.version + 1, worker |-> w]

MutantOrderNotChecked(m, eligible) == IF eligible THEN "accepted" ELSE "rejected"

\* What the order service makes of a command for an event it has no row of.
Verdict(m, eligible) ==
  LET o == order[OrderOf[m.event]] IN
  CASE o.worker # NoOne                               -> "rejected"
    [] o.worker = NoOne /\ o.version # m.version      -> "version_conflict"
    [] o.worker = NoOne /\ o.version = m.version      ->
         IF eligible THEN "accepted" ELSE "rejected"

ReplayReceipt(row, m) ==
  IF row.worker # m.worker \/ row.version # m.version THEN "rejected"
  ELSE IF row.status = "accepted" THEN "already_applied" ELSE row.status

ReceiptOf(m, eligible) ==
  IF assignments[m.event] = None THEN Verdict(m, eligible)
  ELSE ReplayReceipt(assignments[m.event], m)

\* The effect of a command at the order service.
Handle(m, eligible) ==
  IF assignments[m.event] # None THEN UNCHANGED <<order, assignments>>
  ELSE LET verdict == Verdict(m, eligible) IN
       /\ assignments' = [assignments EXCEPT ![m.event] =
            [worker |-> m.worker, version |-> m.version, status |-> verdict]]
       /\ order' = IF verdict = "accepted"
                   THEN [order EXCEPT ![OrderOf[m.event]] = Taken(@, m.worker)]
                   ELSE order

\* Verify follows only an applied command.
RouteReceipt(receipt) == IF receipt \in Applied THEN "verify" ELSE "audit"

\* The values after execute.
Executed(v, m, receipt) ==
  [v EXCEPT !.next = RouteReceipt(receipt),
            !.status = IF receipt \in Applied THEN "executing" ELSE "failed",
            !.command = m]

\* A command leaves the agent.
Send(c, m) ==
  /\ At(c, "execute")
  /\ sent' = sent \cup {<<call[c].kind, m>>}
  /\ UNCHANGED <<decisions, audit, approvals, inputs>>

Execute(c) ==
  LET m == CommandOf(call[c].event, call[c].values) IN
  /\ Send(c, m)
  /\ \E eligible \in BOOLEAN :
       /\ Handle(m, eligible)
       /\ Checkpoint(c, Executed(call[c].values, m, ReceiptOf(m, eligible)))
  /\ UNCHANGED <<inFlight, faults>>

\* ORDER_BUSY_RETRYABLE: the order's lock is taken, the command has no effect.
ExecuteBusy(c) ==
  LET m == CommandOf(call[c].event, call[c].values) IN
  /\ Fault
  /\ Send(c, m)
  /\ Checkpoint(c, Executed(call[c].values, m, "rejected"))
  /\ UNCHANGED service

\* The answer does not come in time.  The gateway tries again or gives up; the
\* command may still be on its way.
ExecuteLost(c) ==
  LET m == CommandOf(call[c].event, call[c].values) IN
  /\ Fault
  /\ Send(c, m)
  /\ inFlight' = inFlight \cup {m}
  /\ Stop(c) \/ UNCHANGED <<call, thread>>
  /\ UNCHANGED <<order, assignments>>

\* The outcome of an event: its row and the order, read together.
OutcomeIsAssigned(e, m) ==
  /\ assignments[e] # None
  /\ assignments[e].status = "accepted"
  /\ order[OrderOf[e]].status \in {"ASSIGNED", "COMPLETED"}
  /\ assignments[e].worker = order[OrderOf[e]].worker
  /\ assignments[e].version < order[OrderOf[e]].version
  /\ order[OrderOf[e]].worker = m.worker
  /\ order[OrderOf[e]].version > m.version

Verify(c) ==
  LET v == call[c].values IN
  /\ At(c, "verify")
  /\ Checkpoint(c, [v EXCEPT
       !.next = "audit",
       !.status = IF OutcomeIsAssigned(call[c].event, v.command) THEN "verified" ELSE "failed"])
  /\ UNCHANGED <<service, decisions, audit, history>>

\* publish_dispatch_audit: the file keeps the first line of an event.
Published(e, status) == [audit EXCEPT ![e] = IF @ = None THEN status ELSE @]

Audit(c) ==
  LET v == call[c].values IN
  /\ At(c, "audit")
  /\ audit' = Published(call[c].event, v.status)
  /\ Checkpoint(c, [v EXCEPT
       !.next = "end",
       !.status = IF v.status = "verified" THEN "audited" ELSE v.status])
  /\ UNCHANGED <<service, decisions, history>>

\* A tool call fails without an effect, for the last time the gateway tries.
ToolFails(c) ==
  /\ \E n \in ToolNodes : At(c, n)
  /\ Fault
  /\ Stop(c)
  /\ UNCHANGED <<service, decisions, audit, sent, approvals, inputs>>

-----------------------------------------------------------------------------
\* Failures and the rest of the world

\* The process of the call dies.  Checkpoints are written behind the running
\* node, so the newest one of this call may be lost.
Crash(c) ==
  LET e == call[c].event IN
  /\ call[c] # None
  /\ Fault
  /\ call' = [call EXCEPT ![c] = None]
  /\ \/ UNCHANGED thread
     \/ /\ call[c].before # None
        /\ thread[e] = call[c].values
        /\ thread' = [thread EXCEPT ![e] = call[c].before]
  /\ UNCHANGED <<service, decisions, audit, sent, approvals, inputs>>

\* A command the agent gave up reaches the order service after all.
DeliverLate(m) ==
  /\ \E eligible \in BOOLEAN : Handle(m, eligible)
  /\ inFlight' = inFlight \ {m}
  /\ UNCHANGED <<agent, history>>

\* A repairman claims the order himself.
ClaimByHand(o, w) ==
  /\ order[o].worker = NoOne
  /\ order' = [order EXCEPT ![o] = Taken(@, w)]
  /\ UNCHANGED <<assignments, inFlight, agent, history>>

\* The worker completes his order, which is one more change of it.
Complete(o) ==
  /\ order[o].status = "ASSIGNED"
  /\ order' = [order EXCEPT ![o].status = "COMPLETED", ![o].version = @ + 1]
  /\ UNCHANGED <<assignments, inFlight, agent, history>>

-----------------------------------------------------------------------------
Node(c) ==
  \/ LoadSnapshot(c) \/ Decide(c) \/ DecideConflict(c)
  \/ MarkApproval(c) \/ Interrupt(c) \/ HumanApproval(c)
  \/ Execute(c) \/ ExecuteBusy(c) \/ ExecuteLost(c)
  \/ Verify(c) \/ Audit(c) \/ Finished(c)

Next ==
  /\ \/ \E c \in Calls, e \in Events : Start(c, e) \/ Retry(c, e)
     \/ \E c \in Calls, e \in Events, a \in ValidAnswers : Resume(c, e, a)
     \/ \E c \in Calls : Node(c) \/ ToolFails(c) \/ Crash(c)
     \/ \E m \in inFlight : DeliverLate(m)
     \/ \E o \in Orders, w \in Workers : ClaimByHand(o, w)
     \/ \E o \in Orders : Complete(o)
  /\ UNCHANGED proposals

Spec == Init /\ [][Next]_vars

-----------------------------------------------------------------------------
\* Properties

\* Every command carries out the one decision of its event, whoever sent it
\* and however often the thread was restarted, retried or resumed: it has the
\* version that was decided on and a worker who was a candidate then.
CommandsMatchDecision ==
  \A x \in sent :
    LET m == x[2]
        d == decisions[m.event] IN
    /\ d # None
    /\ m.version = d.input.version
    /\ m.worker \in Candidates(d)
    /\ m.worker = d.selected \/ <<m.event, m.worker>> \in approvals

\* For an investigation's proposal no command is sent that a reviewer did not
\* approve, even when the decision could be carried out without one.
ProposalsNeedApproval ==
  \A x \in sent :
    x[2].event \in proposals => <<x[2].event, x[2].worker>> \in approvals

\* The order is as the assignment left it, or its worker has completed it since.
AssignmentStands(row, o) ==
  \/ o = [status |-> "ASSIGNED", version |-> row.version + 1, worker |-> row.worker]
  \/ o = [status |-> "COMPLETED", version |-> row.version + 2, worker |-> row.worker]

\* What a thread or the audit file calls verified is so at the order service:
\* the event's command was accepted, its worker has the order, and between the
\* version decided on and now nothing changed it but the assignment and its
\* worker's completion, however late the outcome was read.
VerifiedIsTrue ==
  \A e \in Events :
    (audit[e] = "verified" \/ (thread[e] # None /\ thread[e].status \in {"verified", "audited"}))
      => /\ assignments[e] # None
         /\ assignments[e].status = "accepted"
         /\ AssignmentStands(assignments[e], order[OrderOf[e]])

\* The checkpoints and running calls that belong to an event.
ValuesOf(e) ==
  ({thread[e]} \ {None}) \cup
  {call[c].values : c \in {k \in Calls : call[k] # None /\ call[k].event = e}}

\* An event is decided once: whatever decision a checkpoint or a running call
\* holds is the saved one, also when the event was started again meanwhile.
OneDecision ==
  \A e \in Events : \A v \in ValuesOf(e) :
    v.decision # None => v.decision = decisions[e]

\* A reviewer who denies makes the runtime send nothing (proposal_bridge.py:
\* "a denial ends in the audit and writes nothing").
DenyNeverWrites == \A x \in sent : x[1] # "deny"
=============================================================================
