----------------------- MODULE DispatchRuntime_proofs -----------------------
(***************************************************************************)
(* Proofs about DispatchRuntime, for any events, orders, workers, calls at *)
(* once, snapshots, answers and faults.                                    *)
(***************************************************************************)
EXTENDS DispatchRuntime, TLAPS

\* The order service accepted the event's command.
Accepted(e) == assignments[e] # None /\ assignments[e].status = "accepted"

\* The order of an accepted command is its worker's, and only he has changed it since.
AcceptedHolds ==
  \A e \in Events : Accepted(e) => AssignmentStands(assignments[e], order[OrderOf[e]])

\* The saved decision is one the kernel can make, from a snapshot that was read.
DecisionsMade ==
  \A e \in Events : decisions[e] # None =>
    /\ decisions[e].input.captured <= inputs[e]
    /\ decisions[e].outcome = "assign" =>
         decisions[e].selected \in decisions[e].input.eligible

\* Who is chosen, before a command is sent, is a candidate and approved where it must be.
MayExecute(e, v) ==
  /\ v.decision # None
  /\ \/ v.approval = None /\ v.decision.outcome = "assign" /\ e \notin proposals
     \/ /\ v.approval # None /\ v.approval.approved
        /\ v.approval.worker \in Candidates(v.decision)
        /\ <<e, v.approval.worker>> \in approvals

\* What the values of a checkpoint of e say is still so, however old they are.  A thread
\* that was decided meets another snapshot when it is started again, so it does not get
\* past decide with an approval of its former life.
Good(e, v) ==
  /\ v.decision # None => v.decision = decisions[e]
  /\ v.snap # None => v.snap.captured <= inputs[e]
  /\ v.next = "decide" => v.snap # None /\ (v.decision # None => v.snap # v.decision.input)
  /\ v.approval # None => v.decision # None
  /\ v.next \in {"mark_approval", "human_approval"} => v.decision # None
  /\ v.next = "execute" => MayExecute(e, v)
  /\ v.next = "verify" => v.command # None
  /\ v.answer # None /\ v.answer.approved => <<e, v.answer.worker>> \in approvals
  /\ v.status \in {"verified", "audited"} => Accepted(e)

\* The values a thread or a running call of e has, the checkpoint a crash falls back to
\* included.
Holds(e, v) ==
  \/ thread[e] = v
  \/ \E c \in Calls : /\ call[c] # None /\ call[c].event = e
                      /\ v \in {call[c].values, call[c].before}

CheckpointsGood == \A e \in Events, v \in Values : Holds(e, v) => Good(e, v)

AuditTrue == \A e \in Events : audit[e] = "verified" => Accepted(e)

IInv ==
  /\ TypeOK
  /\ DecisionsMade
  /\ CheckpointsGood
  /\ AcceptedHolds
  /\ AuditTrue
  /\ CommandsMatchDecision
  /\ ProposalsNeedApproval

-----------------------------------------------------------------------------
(* Lemmas *)

\* The fields of a checkpoint's values.
LEMMA ValuesFields ==
  ASSUME NEW v \in Values
  PROVE  /\ v.next \in Nodes \cup {"end"} /\ v.status \in RuntimeStatus
         /\ v.snap \in Snapshot \cup {None} /\ v.decision \in Decision \cup {None}
         /\ v.approval \in Answer \cup {None} /\ v.command \in Command \cup {None}
         /\ v.answer \in Answer \cup {None}
BY DEF Values

\* The fields of a call that runs.
LEMMA CallFields ==
  ASSUME TypeOK, NEW c \in Calls, call[c] # None
  PROVE  /\ call[c] \in Running /\ call[c].event \in Events /\ call[c].kind \in Kinds
         /\ call[c].values \in Values /\ call[c].before \in Values \cup {None}
BY DEF TypeOK, Running

\* A step never takes back a decision, an approval or an acceptance.
Monotone ==
  /\ inputs' \in [Events -> 0 .. MaxInputs]
  /\ \A e \in Events :
       /\ decisions[e] # None => decisions'[e] = decisions[e]
       /\ inputs[e] <= inputs'[e]
       /\ Accepted(e) => Accepted(e)'
  /\ approvals \subseteq approvals'
  /\ proposals' = proposals

\* So what old values say stays true.
LEMMA GoodStays ==
  ASSUME TypeOK, Monotone, NEW e \in Events, NEW v \in Values, Good(e, v)
  PROVE  Good(e, v)'
<1>1. v.snap \in Snapshot \cup {None} /\ v.decision \in Decision \cup {None} BY ValuesFields
<1>2. v.snap # None => v.snap.captured \in Nat /\ v.snap.captured <= inputs[e]
  BY <1>1 DEF Good, Snapshot
<1>3. v.snap # None => v.snap.captured <= inputs'[e]
  <2>1. inputs[e] \in Nat /\ inputs'[e] \in Nat /\ inputs[e] <= inputs'[e]
    BY BoundAssumption DEF TypeOK, Monotone
  <2> QED BY <1>2, <2>1
<1>4. v.decision # None => v.decision = decisions'[e] BY <1>1 DEF Good, Monotone
<1>5. MayExecute(e, v) => MayExecute(e, v)' BY DEF MayExecute, Monotone
<1>6. v.status \in {"verified", "audited"} => Accepted(e)' BY DEF Good, Monotone
<1>7. v.answer # None /\ v.answer.approved => <<e, v.answer.worker>> \in approvals'
  BY DEF Good, Monotone
<1> QED BY <1>3, <1>4, <1>5, <1>6, <1>7 DEF Good

\* A step keeps the checkpoints good if what they hold was held before or is good now.
LEMMA CheckpointsStay ==
  ASSUME TypeOK, Monotone, CheckpointsGood,
         \A e \in Events, v \in Values : Holds(e, v)' => Holds(e, v) \/ Good(e, v)'
  PROVE  CheckpointsGood'
<1> SUFFICES ASSUME NEW e \in Events, NEW v \in Values, Holds(e, v)' PROVE Good(e, v)'
  BY DEF CheckpointsGood
<1>1. CASE Holds(e, v) BY <1>1, GoodStays DEF CheckpointsGood
<1>2. CASE Good(e, v)' BY <1>2
<1> QED BY <1>1, <1>2

\* A call that has reached new values, which become the thread's checkpoint.
LEMMA CheckpointMoves ==
  ASSUME TypeOK, CheckpointsGood, Monotone,
         NEW c \in Calls, call[c] # None, NEW v \in Values, Checkpoint(c, v),
         NEW e \in Events, e = call[c].event, NEW w \in Values, w = [v EXCEPT !.answer = None],
         Good(e, w)'
  PROVE  /\ thread' \in [Events -> Values \cup {None}]
         /\ call' \in [Calls -> Running \cup {None}]
         /\ CheckpointsGood'
<1> DEFINE new == IF w.next = "end" THEN None
                  ELSE [call[c] EXCEPT !.values = w, !.before = call[c].values]
<1>1. thread' = [thread EXCEPT ![e] = w] /\ call' = [call EXCEPT ![c] = new]
  BY DEF Checkpoint
<1>2. new = None \/ (/\ new \in Running /\ new.event = e /\ new.values = w
                     /\ new.before = call[c].values)
  BY CallFields DEF Running
<1> HIDE DEF new
<1>3. /\ thread' \in [Events -> Values \cup {None}]
      /\ call' \in [Calls -> Running \cup {None}]
      /\ call'[c] = new /\ \A k \in Calls \ {c} : call'[k] = call[k]
      /\ thread'[e] = w /\ \A f \in Events \ {e} : thread'[f] = thread[f]
  BY <1>1, <1>2 DEF TypeOK
<1>4. ASSUME NEW f \in Events, NEW u \in Values, Holds(f, u)'
      PROVE  Holds(f, u) \/ Good(f, u)'
  <2>1. CASE thread'[f] = u BY <1>3, <2>1 DEF Holds
  <2>2. ASSUME NEW k \in Calls, call'[k] # None, call'[k].event = f,
               u \in {call'[k].values, call'[k].before}
        PROVE  Holds(f, u) \/ Good(f, u)'
    <3>1. CASE k = c BY <1>2, <1>3, <2>2, <3>1 DEF Holds
    <3>2. CASE k # c BY <1>3, <2>2, <3>2 DEF Holds
    <3> QED BY <3>1, <3>2
  <2> QED BY <1>4, <2>1, <2>2 DEF Holds
<1> QED BY <1>3, <1>4, CheckpointsStay

\* A call that begins, from values that become the thread's checkpoint.
LEMMA BeginMoves ==
  ASSUME TypeOK, CheckpointsGood, Monotone,
         NEW c \in Calls, NEW e \in Events, NEW kind \in Kinds, NEW w \in Values,
         Good(e, w)', Begin(c, e, kind, w)
  PROVE  /\ thread' \in [Events -> Values \cup {None}]
         /\ call' \in [Calls -> Running \cup {None}]
         /\ CheckpointsGood'
<1> DEFINE new == [event |-> e, kind |-> kind, values |-> w, before |-> None]
<1>1. new \in Running /\ new.event = e /\ new.values = w /\ new.before = None BY DEF Running
<1>2. call' = [call EXCEPT ![c] = new] /\ thread' = [thread EXCEPT ![e] = w] BY DEF Begin
<1> HIDE DEF new
<1>3. /\ thread' \in [Events -> Values \cup {None}]
      /\ call' \in [Calls -> Running \cup {None}]
      /\ call'[c] = new /\ \A k \in Calls \ {c} : call'[k] = call[k]
      /\ thread'[e] = w /\ \A f \in Events \ {e} : thread'[f] = thread[f]
  BY <1>1, <1>2 DEF TypeOK
<1>4. ASSUME NEW f \in Events, NEW u \in Values, Holds(f, u)'
      PROVE  Holds(f, u) \/ Good(f, u)'
  <2>1. CASE thread'[f] = u BY <1>3, <2>1 DEF Holds
  <2>2. ASSUME NEW k \in Calls, call'[k] # None, call'[k].event = f,
               u \in {call'[k].values, call'[k].before}
        PROVE  Holds(f, u) \/ Good(f, u)'
    <3>1. CASE k = c
      <4>1. u = w /\ f = e BY <1>1, <1>3, <2>2, <3>1, AbsentAssumption
      <4> QED BY <4>1
    <3>2. CASE k # c BY <1>3, <2>2, <3>2 DEF Holds
    <3> QED BY <3>1, <3>2
  <2> QED BY <1>4, <2>1, <2>2 DEF Holds
<1> QED BY <1>3, <1>4, CheckpointsStay

\* A call that ends, and a thread that stays or falls back to the call's checkpoint before.
LEMMA StopMoves ==
  ASSUME TypeOK, CheckpointsGood, Monotone,
         NEW c \in Calls, call' = [call EXCEPT ![c] = None],
         \/ thread' = thread
         \/ /\ call[c] # None /\ call[c].before # None
            /\ thread' = [thread EXCEPT ![call[c].event] = call[c].before]
  PROVE  /\ thread' \in [Events -> Values \cup {None}]
         /\ call' \in [Calls -> Running \cup {None}]
         /\ CheckpointsGood'
<1>1. /\ call' \in [Calls -> Running \cup {None}]
      /\ \A k \in Calls : call'[k] # None => call'[k] = call[k]
  BY DEF TypeOK
<1>2. /\ thread' \in [Events -> Values \cup {None}]
      /\ \A f \in Events : \/ thread'[f] = thread[f]
                           \/ call[c] # None /\ call[c].event = f /\ thread'[f] = call[c].before
  <2>0. thread \in [Events -> Values \cup {None}] BY DEF TypeOK
  <2>1. CASE thread' = thread BY <2>0, <2>1
  <2>2. CASE /\ call[c] # None /\ call[c].before # None
             /\ thread' = [thread EXCEPT ![call[c].event] = call[c].before]
    <3>1. PICK e \in Events, v \in Values : e = call[c].event /\ v = call[c].before
      BY <2>2, CallFields
    <3>2. thread' = [thread EXCEPT ![e] = v] BY <2>2, <3>1
    <3> QED BY <2>0, <2>2, <3>1, <3>2
  <2> QED BY <2>1, <2>2
<1>3. \A f \in Events, u \in Values : Holds(f, u)' => Holds(f, u)
  BY <1>1, <1>2 DEF Holds
<1> QED BY <1>1, <1>2, <1>3, CheckpointsStay

\* A step that keeps the service's tables keeps what was accepted.
LEMMA ServiceStays ==
  ASSUME AcceptedHolds, UNCHANGED <<order, assignments>>
  PROVE  AcceptedHolds' /\ \A e \in Events : Accepted(e) => Accepted(e)'
BY DEF AcceptedHolds, Accepted

\* What the order service does with a command: an accepted one takes a free order.
LEMMA HandleStep ==
  ASSUME TypeOK, AcceptedHolds, NEW m \in Command, NEW eligible \in BOOLEAN,
         Handle(m, eligible)
  PROVE  /\ order' \in [Orders -> OrderRow]
         /\ assignments' \in [Events -> AssignmentRow \cup {None}]
         /\ AcceptedHolds'
         /\ \A e \in Events : Accepted(e) => Accepted(e)'
<1> DEFINE verdict == Verdict(m, eligible)
           row == [worker |-> m.worker, version |-> m.version, status |-> verdict]
           o == OrderOf[m.event]
<1>1. CASE assignments[m.event] # None
  BY <1>1, ServiceStays DEF Handle, TypeOK
<1>2. CASE assignments[m.event] = None
  <2>1. m.event \in Events /\ m.worker \in Workers /\ m.version \in Nat BY DEF Command
  <2>2. o \in Orders /\ order[o].version \in Nat /\ order[o].worker \in MaybeWorker
    BY <2>1, EventAssumption DEF TypeOK, OrderRow
  <2>3. verdict \in {"accepted", "version_conflict", "rejected"} /\
        (verdict = "accepted" => order[o].worker = NoOne /\ order[o].version = m.version)
    BY DEF Verdict
  <2>4. /\ assignments' = [assignments EXCEPT ![m.event] = row]
        /\ order' = IF verdict = "accepted"
                    THEN [order EXCEPT ![o] = Taken(order[o], m.worker)]
                    ELSE order
    BY <1>2 DEF Handle
  <2>5. row \in AssignmentRow /\ row # None
    BY <2>1, <2>3, AbsentAssumption DEF AssignmentRow
  <2>6. row.worker = m.worker /\ row.version = m.version /\ row.status = verdict OBVIOUS
  <2> HIDE DEF verdict, row, o
  <2>7. assignments' \in [Events -> AssignmentRow \cup {None}] BY <2>4, <2>5 DEF TypeOK
  <2>8. order' \in [Orders -> OrderRow]
    <3>1. Taken(order[o], m.worker) \in OrderRow
      BY <2>1, <2>2 DEF MaybeWorker, OrderRow, Taken
    <3> QED BY <2>4, <3>1 DEF TypeOK
  <2>9. assignments'[m.event] = row
        /\ \A e \in Events \ {m.event} : assignments'[e] = assignments[e]
    BY <2>1, <2>4 DEF TypeOK
  <2>10. \A e \in Events : Accepted(e) => e # m.event /\ assignments'[e] = assignments[e]
    BY <1>2, <2>9 DEF Accepted
  <2>11. ASSUME NEW e \in Events, Accepted(e)'
         PROVE  AssignmentStands(assignments'[e], order'[OrderOf[e]])
    <3>1. CASE e = m.event
      <4>1. verdict = "accepted" BY <2>6, <2>9, <2>11, <3>1 DEF Accepted
      <4> QED BY <2>2, <2>3, <2>4, <2>6, <2>9, <3>1, <4>1 DEF TypeOK, o,
           Taken, AssignmentStands
    <3>2. CASE e # m.event
      <4>1. Accepted(e) /\ assignments'[e] = assignments[e] BY <2>9, <2>11, <3>2 DEF Accepted
      <4>2. AssignmentStands(assignments[e], order[OrderOf[e]]) BY <4>1 DEF AcceptedHolds
      <4>3. assignments[e].worker \in Workers BY <4>1 DEF TypeOK, Accepted, AssignmentRow
      <4>4. order[OrderOf[e]].worker # NoOne
        BY <4>2, <4>3, WorkerAssumption DEF AssignmentStands
      <4>5. OrderOf[e] # o \/ verdict # "accepted" BY <2>3, <4>4
      <4>6. order'[OrderOf[e]] = order[OrderOf[e]]
        BY <2>4, <4>5, EventAssumption DEF TypeOK
      <4> QED BY <4>1, <4>2, <4>6
    <3> QED BY <3>1, <3>2
  <2>12. AcceptedHolds' BY <2>11 DEF AcceptedHolds
  <2>13. \A e \in Events : Accepted(e) => Accepted(e)' BY <2>10 DEF Accepted
  <2> QED BY <2>7, <2>8, <2>12, <2>13
<1> QED BY <1>1, <1>2

\* Commands that were sent stay matched and approved.
LEMMA CommandsStay ==
  ASSUME TypeOK, Monotone, CommandsMatchDecision, ProposalsNeedApproval, UNCHANGED sent
  PROVE  CommandsMatchDecision' /\ ProposalsNeedApproval'
<1>1. \A x \in sent : x[2] \in Command /\ x[2].event \in Events BY DEF TypeOK, Command
<1>2. \A x \in sent : decisions'[x[2].event] = decisions[x[2].event]
  BY <1>1 DEF CommandsMatchDecision, Monotone
<1>3. CommandsMatchDecision' BY <1>2 DEF CommandsMatchDecision, Monotone
<1>4. ProposalsNeedApproval' BY DEF ProposalsNeedApproval, Monotone
<1> QED BY <1>3, <1>4

\* Decisions that stay, while inputs are only counted up, stay made.
LEMMA DecisionsStay ==
  ASSUME TypeOK, DecisionsMade, Monotone, UNCHANGED decisions PROVE DecisionsMade'
<1>1. \A e \in Events : inputs[e] \in Nat /\ inputs'[e] \in Nat /\ inputs[e] <= inputs'[e]
  BY BoundAssumption DEF TypeOK, Monotone
<1>2. \A e \in Events : decisions[e] # None => decisions[e].input.captured \in Nat
  BY DEF TypeOK, Decision, Snapshot
<1> QED BY <1>1, <1>2 DEF DecisionsMade

\* A step that touches neither inputs nor approvals nor the service is monotone.
LEMMA QuietIsMonotone ==
  ASSUME TypeOK, UNCHANGED <<proposals, inputs, order, assignments>>,
         \/ UNCHANGED decisions
         \/ \E e \in Events, d \in Decision :
              decisions' = [decisions EXCEPT ![e] = d] /\ decisions[e] \in {None, d},
         approvals \subseteq approvals'
  PROVE  Monotone
<1>1. \A e \in Events : inputs[e] <= inputs'[e] BY BoundAssumption DEF TypeOK
<1>2. \A e \in Events : decisions[e] # None => decisions'[e] = decisions[e] BY DEF TypeOK
<1> QED BY <1>1, <1>2 DEF Monotone, TypeOK, Accepted


-----------------------------------------------------------------------------
(* The steps *)

\* A step that keeps the service, the decisions, the audit file and what was sent.
LEMMA QuietStep ==
  ASSUME IInv, Monotone, UNCHANGED <<service, decisions, audit, sent>>,
         faults' = faults \/ Fault, approvals' \subseteq Events \X Workers,
         thread' \in [Events -> Values \cup {None}],
         call' \in [Calls -> Running \cup {None}],
         CheckpointsGood'
  PROVE  IInv'
<1>1. faults' \in 0 .. MaxFaults BY BoundAssumption DEF IInv, TypeOK, Fault
<1>2. TypeOK' BY <1>1 DEF IInv, TypeOK, Monotone, service
<1>3. AcceptedHolds' BY ServiceStays DEF IInv, service
<1>4. AuditTrue' BY DEF IInv, AuditTrue, Monotone
<1>5. DecisionsMade' BY DecisionsStay DEF IInv
<1>6. CommandsMatchDecision' /\ ProposalsNeedApproval' BY CommandsStay DEF IInv
<1> QED BY <1>2, <1>3, <1>4, <1>5, <1>6 DEF IInv

\* A quiet step in which a call reaches new values.
LEMMA QuietCheckpoint ==
  ASSUME IInv, UNCHANGED <<proposals, service, decisions, audit, history>>,
         NEW c \in Calls, call[c] # None,
         NEW e \in Events, e = call[c].event, NEW v \in Values, Checkpoint(c, v),
         NEW w \in Values, w = [v EXCEPT !.answer = None], Good(e, w)
  PROVE  IInv'
<1>1. Monotone BY QuietIsMonotone DEF IInv, service, history
<1>2. Good(e, w)' BY <1>1, GoodStays DEF IInv
<1>3. /\ thread' \in [Events -> Values \cup {None}]
      /\ call' \in [Calls -> Running \cup {None}] /\ CheckpointsGood'
  BY <1>1, <1>2, CheckpointMoves DEF IInv
<1> QED BY <1>1, <1>3, QuietStep DEF history, IInv, TypeOK

\* A quiet step in which a call ends.
LEMMA QuietStop ==
  ASSUME IInv, UNCHANGED <<proposals, service, decisions, audit, sent, approvals, inputs>>,
         faults' = faults \/ Fault,
         NEW c \in Calls, call' = [call EXCEPT ![c] = None],
         \/ thread' = thread
         \/ /\ call[c] # None /\ call[c].before # None
            /\ thread' = [thread EXCEPT ![call[c].event] = call[c].before]
  PROVE  IInv'
<1>1. Monotone BY QuietIsMonotone DEF IInv, service
<1>2. /\ thread' \in [Events -> Values \cup {None}]
      /\ call' \in [Calls -> Running \cup {None}] /\ CheckpointsGood'
  BY <1>1, StopMoves DEF IInv
<1> QED BY <1>1, <1>2, QuietStep DEF IInv, TypeOK

\* The values a running call works on are good.
LEMMA CallIsGood ==
  ASSUME IInv, NEW c \in Calls, call[c] # None
  PROVE  /\ call[c].event \in Events /\ call[c].values \in Values
         /\ Good(call[c].event, call[c].values)
BY CallFields DEF IInv, CheckpointsGood, Holds

\* start begins with what an earlier start left.
LEMMA StartStep ==
  ASSUME IInv, NEW c \in Calls, NEW e \in Events, Start(c, e), UNCHANGED proposals
  PROVE  IInv'
<1>1. Monotone BY QuietIsMonotone DEF Start, IInv, service, history
<1>2. PICK w : w = Restarted(e) OBVIOUS
<1>3. w \in Values /\ Good(e, w)
  <2>1. CASE thread[e] = None
    <3>1. w = Blank BY <1>2, <2>1 DEF Restarted
    <3>2. w \in Values BY <3>1 DEF Blank, Values, Nodes, RuntimeStatus
    <3>3. Good(e, w) BY <3>1 DEF Blank, Good
    <3> QED BY <3>2, <3>3
  <2>2. CASE thread[e] # None
    <3>1. PICK v \in Values : v = thread[e] BY <2>2 DEF IInv, TypeOK
    <3>2. Good(e, v) BY <3>1 DEF IInv, CheckpointsGood, Holds
    <3>3. w = [v EXCEPT !.next = "load_snapshot", !.status = "received", !.answer = None]
      BY <1>2, <2>2, <3>1 DEF Restarted
    <3>4. w \in Values BY <3>3 DEF Values, Nodes, RuntimeStatus
    <3>5. /\ w.next = "load_snapshot" /\ w.status = "received" /\ w.answer = None
          /\ w.snap = v.snap /\ w.decision = v.decision /\ w.approval = v.approval
      BY <3>3 DEF Values
    <3> QED BY <3>2, <3>4, <3>5 DEF Good
  <2> QED BY <2>1, <2>2
<1>4. Good(e, w)' BY <1>1, <1>3, GoodStays DEF IInv
<1>5. Begin(c, e, "run", w) BY <1>2 DEF Start
<1>6. /\ thread' \in [Events -> Values \cup {None}]
      /\ call' \in [Calls -> Running \cup {None}] /\ CheckpointsGood'
  BY <1>1, <1>3, <1>4, <1>5, BeginMoves DEF IInv, Kinds
<1> QED BY <1>1, <1>6, QuietStep DEF Start, history, IInv, TypeOK

\* retry runs the thread from where it stands.
LEMMA RetryStep ==
  ASSUME IInv, NEW c \in Calls, NEW e \in Events, Retry(c, e), UNCHANGED proposals
  PROVE  IInv'
<1>1. Monotone BY QuietIsMonotone DEF Retry, IInv, service, history
<1>2. PICK w \in Values : w = thread[e] BY DEF Retry, Owned, IInv, TypeOK
<1>3. Good(e, w) BY <1>2 DEF IInv, CheckpointsGood, Holds
<1>4. Good(e, w)' BY <1>1, <1>3, GoodStays DEF IInv
<1>5. Begin(c, e, "run", w) BY <1>2 DEF Retry
<1>6. /\ thread' \in [Events -> Values \cup {None}]
      /\ call' \in [Calls -> Running \cup {None}] /\ CheckpointsGood'
  BY <1>1, <1>4, <1>5, BeginMoves DEF IInv, Kinds
<1> QED BY <1>1, <1>6, QuietStep DEF Retry, history, IInv, TypeOK

\* resume runs it with a reviewer's answer, which is on record when it approves.
LEMMA ResumeStep ==
  ASSUME IInv, NEW c \in Calls, NEW e \in Events, NEW a \in ValidAnswers, Resume(c, e, a),
         UNCHANGED proposals
  PROVE  IInv'
<1>1. /\ a \in Answer /\ a.approved \in BOOLEAN /\ (a.approved => a.worker \in Workers)
      /\ a # None
  BY AbsentAssumption DEF ValidAnswers, Answer, MaybeWorker
<1>2. /\ approvals' \subseteq Events \X Workers /\ approvals \subseteq approvals'
      /\ (a.approved => <<e, a.worker>> \in approvals')
  BY <1>1 DEF Resume, IInv, TypeOK
<1>3. Monotone
  <2>1. inputs[e] \in 0 .. MaxInputs /\ inputs[e] < MaxInputs
        /\ inputs' = [inputs EXCEPT ![e] = inputs[e] + 1]
    BY DEF Resume, Input, IInv, TypeOK
  <2>2. inputs[e] + 1 \in 0 .. MaxInputs BY <2>1, BoundAssumption
  <2>3. inputs' \in [Events -> 0 .. MaxInputs] BY <2>1, <2>2 DEF IInv, TypeOK
  <2>4. \A f \in Events : inputs[f] <= inputs'[f]
    BY <2>1, BoundAssumption DEF IInv, TypeOK
  <2> QED BY <1>2, <2>3, <2>4 DEF Monotone, Resume, service, Accepted
<1>4. PICK v \in Values : v = thread[e] BY DEF Resume, Owned, IInv, TypeOK
<1>5. Good(e, v)' BY <1>3, <1>4, GoodStays DEF IInv, CheckpointsGood, Holds
<1>6. PICK w : w = [v EXCEPT !.answer = a] OBVIOUS
<1>7. w \in Values BY <1>1, <1>6 DEF Values
<1>8. /\ w.next = v.next /\ w.status = v.status /\ w.answer = a /\ w.snap = v.snap
      /\ w.decision = v.decision /\ w.approval = v.approval /\ w.command = v.command
  BY <1>6 DEF Values
<1>9. Good(e, w)'
  <2>1. MayExecute(e, v)' => MayExecute(e, w)' BY <1>8 DEF MayExecute
  <2> QED BY <1>2, <1>5, <1>8, <2>1 DEF Good
<1>10. PICK kind \in Kinds : Begin(c, e, kind, w)
  BY <1>4, <1>6 DEF Resume, Kinds
<1>11. /\ thread' \in [Events -> Values \cup {None}]
       /\ call' \in [Calls -> Running \cup {None}] /\ CheckpointsGood'
  BY <1>3, <1>7, <1>9, <1>10, BeginMoves DEF IInv
<1> QED BY <1>2, <1>3, <1>11, QuietStep DEF Resume

\* A new snapshot is not the one the event was decided from: it was captured later.
LEMMA LoadSnapshotStep ==
  ASSUME IInv, NEW c \in Calls, LoadSnapshot(c), UNCHANGED proposals
  PROVE  IInv'
<1>1. PICK e \in Events, v \in Values : e = call[c].event /\ v = call[c].values
  BY CallIsGood DEF LoadSnapshot, At
<1>2. call[c] # None /\ Good(e, v) BY <1>1, CallIsGood DEF LoadSnapshot, At
<1>3. PICK eligible \in SUBSET Workers :
        Checkpoint(c, [v EXCEPT !.next = "decide", !.status = "snapshot_frozen",
                                !.snap = SnapshotOf(e, eligible)])
  BY <1>1 DEF LoadSnapshot
<1>4. PICK s : s = SnapshotOf(e, eligible) OBVIOUS
<1>5. inputs[e] \in Nat /\ inputs[e] < MaxInputs /\ inputs' = [inputs EXCEPT ![e] = inputs[e] + 1]
  BY <1>1, BoundAssumption DEF LoadSnapshot, Input, IInv, TypeOK
<1>6. s \in Snapshot /\ s.captured = inputs[e] + 1
  <2>1. OrderOf[e] \in Orders BY EventAssumption
  <2>2. order[OrderOf[e]].version \in Nat /\ order[OrderOf[e]].worker \in MaybeWorker
    BY <2>1 DEF IInv, TypeOK, OrderRow
  <2>3. inputs[e] + 1 \in Nat BY <1>5
  <2> QED BY <1>4, <2>2, <2>3 DEF SnapshotOf, Snapshot
<1>7. Monotone
  <2>1. inputs[e] + 1 \in 0 .. MaxInputs BY <1>5, BoundAssumption
  <2>2. inputs' \in [Events -> 0 .. MaxInputs] BY <1>5, <2>1 DEF IInv, TypeOK
  <2>3. \A f \in Events : inputs[f] <= inputs'[f] BY <1>5, BoundAssumption DEF IInv, TypeOK
  <2> QED BY <2>2, <2>3 DEF Monotone, LoadSnapshot, service, Accepted
<1>8. PICK u : u = [v EXCEPT !.next = "decide", !.status = "snapshot_frozen", !.snap = s]
  OBVIOUS
<1>9. PICK w : w = [u EXCEPT !.answer = None] OBVIOUS
<1>10. u \in Values /\ w \in Values
  BY <1>6, <1>8, <1>9 DEF Values, Nodes, RuntimeStatus
<1>11. /\ w.next = "decide" /\ w.status = "snapshot_frozen" /\ w.snap = s /\ w.answer = None
       /\ w.decision = v.decision /\ w.approval = v.approval
  BY <1>8, <1>9 DEF Values
<1>12. v.decision # None => v.decision = decisions'[e] /\ s # v.decision.input
  <2> SUFFICES ASSUME v.decision # None PROVE v.decision = decisions'[e] /\ s # v.decision.input
    OBVIOUS
  <2>1. v.decision = decisions[e] /\ v.decision \in Decision
    BY <1>2, ValuesFields DEF Good
  <2>2. v.decision.input.captured <= inputs[e] /\ v.decision.input.captured \in Nat
    BY <2>1 DEF IInv, DecisionsMade, Decision, Snapshot
  <2>3. s # v.decision.input BY <1>5, <1>6, <2>2
  <2> QED BY <2>1, <2>3 DEF LoadSnapshot
<1>13. Good(e, w)'
  <2>1. s # None BY <1>6, AbsentAssumption
  <2>2. s.captured <= inputs'[e] BY <1>5, <1>6 DEF IInv, TypeOK
  <2> QED BY <1>2, <1>11, <1>12, <2>1, <2>2 DEF Good
<1>14. Checkpoint(c, u) BY <1>3, <1>4, <1>8
<1>15. /\ thread' \in [Events -> Values \cup {None}]
       /\ call' \in [Calls -> Running \cup {None}] /\ CheckpointsGood'
  BY <1>1, <1>2, <1>7, <1>9, <1>10, <1>13, <1>14, CheckpointMoves DEF IInv
<1> QED BY <1>7, <1>15, QuietStep DEF LoadSnapshot, IInv, TypeOK

\* Whatever is decided from a snapshot is a decision about it.
LEMMA OutcomesAreMade ==
  ASSUME NEW s \in Snapshot, NEW d \in Outcomes(s)
  PROVE  /\ d \in Decision /\ d.input = s
         /\ d.outcome = "assign" => d.selected \in s.eligible
         /\ d.outcome \in {"assign", "manual", "rejected"}
BY DEF Outcomes, Decision, Snapshot, MaybeWorker

\* A thread that gets past decide was not decided before, so it has no approval yet.
LEMMA DecideStep ==
  ASSUME IInv, NEW c \in Calls, Decide(c), UNCHANGED proposals
  PROVE  IInv'
<1>1. PICK e \in Events, v \in Values : e = call[c].event /\ v = call[c].values
  BY CallIsGood DEF Decide, At
<1>2. call[c] # None /\ Good(e, v) /\ v.next = "decide"
  BY <1>1, CallIsGood DEF Decide, At
<1>3. PICK d \in Decided(e, v.snap) :
        /\ d.input = v.snap
        /\ decisions' = [decisions EXCEPT ![e] = d]
        /\ Checkpoint(c, [v EXCEPT !.next = RouteDecision(e, d),
                                   !.status = IF Candidates(d) = {} THEN "denied"
                                              ELSE "decision_ready",
                                   !.decision = d])
  BY <1>1 DEF Decide
<1>4. v.snap \in Snapshot /\ v.snap.captured <= inputs[e]
  BY <1>2, ValuesFields DEF Good
<1>5. /\ d \in Decision /\ d # None /\ decisions[e] \in {None, d}
      /\ (d.outcome = "assign" => d.selected \in d.input.eligible)
  <2>1. CASE decisions[e] = None
    <3>1. d \in Outcomes(v.snap) BY <1>3, <2>1 DEF Decided
    <3>2. d \in Decision /\ (d.outcome = "assign" => d.selected \in v.snap.eligible)
      BY <1>4, <3>1, OutcomesAreMade
    <3> QED BY <1>3, <2>1, <3>2, AbsentAssumption
  <2>2. CASE decisions[e] # None
    <3>1. d = decisions[e] BY <1>3, <2>2 DEF Decided
    <3> QED BY <2>2, <3>1 DEF IInv, TypeOK, DecisionsMade
  <2> QED BY <2>1, <2>2
<1>6. decisions' \in [Events -> Decision \cup {None}] /\ decisions'[e] = d
  BY <1>3, <1>5 DEF IInv, TypeOK
<1>7. Monotone
  BY <1>3, <1>5, QuietIsMonotone DEF Decide, IInv, service, history
<1>8. v.decision = None /\ v.approval = None
  <2>1. v.decision = None
    <3> SUFFICES ASSUME v.decision # None PROVE FALSE OBVIOUS
    <3>1. v.decision = decisions[e] /\ v.snap # v.decision.input BY <1>2 DEF Good
    <3> QED BY <1>3, <1>5, <3>1
  <2> QED BY <1>2, <2>1 DEF Good
<1>9. PICK u : u = [v EXCEPT !.next = RouteDecision(e, d),
                             !.status = IF Candidates(d) = {} THEN "denied"
                                        ELSE "decision_ready",
                             !.decision = d]
  OBVIOUS
<1>10. PICK w : w = [u EXCEPT !.answer = None] OBVIOUS
<1>11. /\ w.next = RouteDecision(e, d) /\ w.status \in {"denied", "decision_ready"}
       /\ w.decision = d /\ w.answer = None /\ w.snap = v.snap /\ w.approval = None
       /\ u \in Values /\ w \in Values
  <2>1. RouteDecision(e, d) \in Nodes BY DEF RouteDecision, Nodes
  <2>2. /\ u.next = RouteDecision(e, d) /\ u.status \in {"denied", "decision_ready"}
        /\ u.decision = d /\ u.snap = v.snap /\ u.approval = v.approval
        /\ u \in Values
    BY <1>5, <1>9, <2>1 DEF Values, RuntimeStatus
  <2> QED BY <1>8, <1>10, <2>2 DEF Values
<1>12. Good(e, w)'
  <2>1. w.next \in {"execute", "mark_approval", "audit"}
        /\ (w.next = "execute" => d.outcome = "assign" /\ e \notin proposals)
    BY <1>11 DEF RouteDecision, RequiresApproval
  <2>2. w.next = "execute" => MayExecute(e, w)' BY <1>5, <1>7, <1>11, <2>1 DEF MayExecute, Monotone
  <2>3. w.snap.captured <= inputs'[e] BY <1>4, <1>11 DEF Decide, history
  <2> QED BY <1>5, <1>6, <1>11, <2>1, <2>2, <2>3 DEF Good
<1>13. /\ thread' \in [Events -> Values \cup {None}]
       /\ call' \in [Calls -> Running \cup {None}] /\ CheckpointsGood'
  BY <1>1, <1>2, <1>3, <1>7, <1>9, <1>10, <1>11, <1>12, CheckpointMoves DEF IInv
<1>14. DecisionsMade'
  <2> SUFFICES ASSUME NEW f \in Events, decisions'[f] # None
               PROVE  /\ decisions'[f].input.captured <= inputs'[f]
                      /\ decisions'[f].outcome = "assign" =>
                           decisions'[f].selected \in decisions'[f].input.eligible
    BY DEF DecisionsMade
  <2>1. inputs' = inputs BY DEF Decide, history
  <2>2. CASE f = e BY <1>3, <1>4, <1>5, <1>6, <2>1, <2>2
  <2>3. CASE f # e
    <3>1. decisions'[f] = decisions[f] BY <1>3, <2>3 DEF IInv, TypeOK
    <3> QED BY <2>1, <3>1 DEF IInv, DecisionsMade
  <2> QED BY <2>2, <2>3
<1>15. CommandsMatchDecision' /\ ProposalsNeedApproval'
  BY <1>7, CommandsStay DEF IInv, Decide, history
<1>16. AcceptedHolds' /\ AuditTrue'
  BY <1>7, ServiceStays DEF IInv, AuditTrue, Monotone, Decide, service
<1>17. TypeOK' BY <1>6, <1>13 DEF IInv, TypeOK, Decide, service, history
<1> QED BY <1>13, <1>14, <1>15, <1>16, <1>17 DEF IInv

\* The review is asked for, and nothing else changes.
LEMMA MarkApprovalStep ==
  ASSUME IInv, NEW c \in Calls, MarkApproval(c), UNCHANGED proposals
  PROVE  IInv'
<1>1. PICK e \in Events, v \in Values : e = call[c].event /\ v = call[c].values
  BY CallIsGood DEF MarkApproval, At
<1>2. call[c] # None /\ Good(e, v) /\ v.next = "mark_approval"
  BY <1>1, CallIsGood DEF MarkApproval, At
<1>3. PICK u : u = [v EXCEPT !.next = "human_approval", !.status = "awaiting_approval"]
  OBVIOUS
<1>4. PICK w : w = [u EXCEPT !.answer = None] OBVIOUS
<1>5. /\ w.next = "human_approval" /\ w.status = "awaiting_approval" /\ w.answer = None
      /\ w.snap = v.snap /\ w.decision = v.decision /\ w.approval = v.approval
      /\ u \in Values /\ w \in Values
  BY <1>3, <1>4 DEF Values, Nodes, RuntimeStatus
<1>6. Good(e, w) BY <1>2, <1>5 DEF Good
<1>7. Checkpoint(c, u) BY <1>1, <1>3 DEF MarkApproval
<1> QED BY <1>1, <1>2, <1>4, <1>5, <1>6, <1>7, QuietCheckpoint DEF MarkApproval

\* An answer that passes the node names a candidate the reviewer approved.
LEMMA HumanApprovalStep ==
  ASSUME IInv, NEW c \in Calls, HumanApproval(c), UNCHANGED proposals
  PROVE  IInv'
<1>1. PICK e \in Events, v \in Values : e = call[c].event /\ v = call[c].values
  BY CallIsGood DEF HumanApproval, At
<1>2. call[c] # None /\ Good(e, v) /\ v.next = "human_approval" /\ v.answer # None
  BY <1>1, CallIsGood DEF HumanApproval, At
<1>3. CASE ~ValidApproval(v)
  <2>1. Stop(c) BY <1>1, <1>3 DEF HumanApproval
  <2> QED BY <2>1, QuietStop DEF Stop, HumanApproval, history
<1>4. CASE ValidApproval(v)
  <2>1. PICK u : u = [v EXCEPT !.next = RouteApproval(v.answer),
                               !.status = IF v.answer.approved THEN "approved" ELSE "denied",
                               !.approval = v.answer]
    OBVIOUS
  <2>2. PICK w : w = [u EXCEPT !.answer = None] OBVIOUS
  <2>3. Checkpoint(c, u) BY <1>1, <1>4, <2>1 DEF HumanApproval
  <2>4. v.answer \in Answer BY <1>2, ValuesFields
  <2>5. /\ w.next = RouteApproval(v.answer) /\ w.status \in {"approved", "denied"}
        /\ w.answer = None /\ w.snap = v.snap /\ w.decision = v.decision
        /\ w.approval = v.answer
        /\ u \in Values /\ w \in Values
    <3>1. RouteApproval(v.answer) \in Nodes BY DEF RouteApproval, Nodes
    <3>2. /\ u.next = RouteApproval(v.answer) /\ u.status \in {"approved", "denied"}
          /\ u.snap = v.snap /\ u.decision = v.decision /\ u.approval = v.answer
          /\ u \in Values
      BY <2>1, <2>4, <3>1 DEF Values, RuntimeStatus
    <3> QED BY <2>2, <3>2 DEF Values
  <2>6. w.next = "execute" => v.answer.approved BY <2>5 DEF RouteApproval
  <2>7. w.next \in {"execute", "audit"} BY <2>5 DEF RouteApproval
  <2>8. w.decision # None BY <1>2, <2>5 DEF Good
  <2>9. w.next = "execute" => MayExecute(e, w)
    BY <1>2, <1>4, <2>5, <2>6, <2>8 DEF MayExecute, ValidApproval, Good
  <2>10. Good(e, w) BY <1>2, <2>5, <2>7, <2>8, <2>9 DEF Good
  <2> QED BY <1>1, <1>2, <2>2, <2>3, <2>5, <2>10, QuietCheckpoint DEF HumanApproval
<1> QED BY <1>3, <1>4

\* What the verification reads as assigned was accepted.
LEMMA VerifyStep ==
  ASSUME IInv, NEW c \in Calls, Verify(c), UNCHANGED proposals
  PROVE  IInv'
<1>1. PICK e \in Events, v \in Values : e = call[c].event /\ v = call[c].values
  BY CallIsGood DEF Verify, At
<1>2. call[c] # None /\ Good(e, v) BY <1>1, CallIsGood DEF Verify, At
<1>0. PICK status \in {"verified", "failed"} :
        /\ status = IF OutcomeIsAssigned(e, v.command) THEN "verified" ELSE "failed"
        /\ status = "verified" => OutcomeIsAssigned(e, v.command)
  OBVIOUS
<1>3. PICK u : u = [v EXCEPT !.next = "audit", !.status = status] OBVIOUS
<1>4. PICK w : w = [u EXCEPT !.answer = None] OBVIOUS
<1>5. /\ w.next = "audit" /\ w.answer = None
      /\ w.status \in {"verified", "failed"}
      /\ (w.status = "verified" => OutcomeIsAssigned(e, v.command))
      /\ w.snap = v.snap /\ w.decision = v.decision /\ w.approval = v.approval
      /\ u \in Values /\ w \in Values
  <2>1. /\ u.next = "audit" /\ u.status \in {"verified", "failed"}
        /\ u.status = status
        /\ u.snap = v.snap /\ u.decision = v.decision /\ u.approval = v.approval
        /\ u \in Values
    BY <1>3 DEF Values, Nodes, RuntimeStatus
  <2>2. w.status = status /\ w \in Values BY <1>4, <2>1 DEF Values
  <2>3. /\ w.next = "audit" /\ w.answer = None
        /\ w.snap = v.snap /\ w.decision = v.decision /\ w.approval = v.approval
    BY <1>4, <2>1 DEF Values
  <2>4. w.status = "verified" => OutcomeIsAssigned(e, v.command) BY <1>0, <2>2
  <2> QED BY <2>1, <2>2, <2>3, <2>4
<1>6. w.status = "verified" => Accepted(e) BY <1>5 DEF OutcomeIsAssigned, Accepted
<1>7. Good(e, w) BY <1>2, <1>5, <1>6 DEF Good
<1>8. Checkpoint(c, u)
  <2>1. u = [v EXCEPT !.next = "audit",
                      !.status = IF OutcomeIsAssigned(e, v.command) THEN "verified"
                                 ELSE "failed"]
    BY <1>0, <1>3
  <2> QED BY <1>1, <2>1, Zenon DEF Verify
<1> QED BY <1>1, <1>2, <1>4, <1>5, <1>7, <1>8, QuietCheckpoint DEF Verify

\* The audit file tells the status of the thread, the first time.
LEMMA AuditStep ==
  ASSUME IInv, NEW c \in Calls, Audit(c), UNCHANGED proposals
  PROVE  IInv'
<1>1. PICK e \in Events, v \in Values : e = call[c].event /\ v = call[c].values
  BY CallIsGood DEF Audit, At
<1>2. call[c] # None /\ Good(e, v) /\ v.status \in RuntimeStatus
  BY <1>1, CallIsGood, ValuesFields DEF Audit, At
<1>3. Monotone BY QuietIsMonotone DEF Audit, IInv, service, history
<1>4. PICK u : u = [v EXCEPT !.next = "end",
                             !.status = IF v.status = "verified" THEN "audited" ELSE v.status]
  OBVIOUS
<1>5. PICK w : w = [u EXCEPT !.answer = None] OBVIOUS
<1>6. /\ w.next = "end" /\ w.answer = None
      /\ w.status = IF v.status = "verified" THEN "audited" ELSE v.status
      /\ w.snap = v.snap /\ w.decision = v.decision /\ w.approval = v.approval
      /\ u \in Values /\ w \in Values
  <2>1. /\ u.next = "end" /\ u.snap = v.snap /\ u.decision = v.decision
        /\ u.status = IF v.status = "verified" THEN "audited" ELSE v.status
        /\ u.approval = v.approval /\ u \in Values
    BY <1>2, <1>4 DEF Values, RuntimeStatus
  <2> QED BY <1>5, <2>1 DEF Values
<1>7. Good(e, w) BY <1>2, <1>6 DEF Good
<1>8. Good(e, w)' BY <1>3, <1>6, <1>7, GoodStays DEF IInv
<1>9. Checkpoint(c, u) BY <1>1, <1>4 DEF Audit
<1>10. /\ thread' \in [Events -> Values \cup {None}]
       /\ call' \in [Calls -> Running \cup {None}] /\ CheckpointsGood'
  BY <1>1, <1>2, <1>3, <1>5, <1>6, <1>8, <1>9, CheckpointMoves DEF IInv
<1>11. audit' = [audit EXCEPT ![e] = IF audit[e] = None THEN v.status ELSE audit[e]]
  BY <1>1 DEF Audit, Published, IInv, TypeOK
<1>12. audit' \in [Events -> RuntimeStatus \cup {None}]
  BY <1>2, <1>11 DEF IInv, TypeOK
<1>13. v.status = "verified" => Accepted(e) BY <1>2 DEF Good
<1>14. \A f \in Events : audit'[f] = "verified" => Accepted(f)
  BY <1>11, <1>13 DEF IInv, TypeOK, AuditTrue
<1>15. AuditTrue' BY <1>3, <1>14 DEF AuditTrue, Monotone
<1>16. DecisionsMade' BY <1>3, DecisionsStay DEF IInv, Audit
<1>17. CommandsMatchDecision' /\ ProposalsNeedApproval'
  BY <1>3, CommandsStay DEF IInv, Audit, history
<1>18. AcceptedHolds' BY ServiceStays DEF IInv, Audit, service
<1>19. TypeOK' BY <1>10, <1>12 DEF IInv, TypeOK, Audit, service, history
<1> QED BY <1>10, <1>15, <1>16, <1>17, <1>18, <1>19 DEF IInv

\* A call that ends before a node, for any of four reasons.
LEMMA StopStep ==
  ASSUME IInv, NEW c \in Calls,
         DecideConflict(c) \/ Interrupt(c) \/ Finished(c) \/ ToolFails(c), UNCHANGED proposals
  PROVE  IInv'
<1>1. CASE DecideConflict(c) BY <1>1, QuietStop DEF DecideConflict, Stop, history
<1>2. CASE Interrupt(c) BY <1>2, QuietStop DEF Interrupt, Stop, history
<1>3. CASE Finished(c) BY <1>3, QuietStop DEF Finished, Stop, history
<1>4. CASE ToolFails(c) BY <1>4, QuietStop DEF ToolFails, Stop
<1> QED BY <1>1, <1>2, <1>3, <1>4

\* A crash may lose the newest checkpoint: the thread falls back to one that was good.
LEMMA CrashStep ==
  ASSUME IInv, NEW c \in Calls, Crash(c), UNCHANGED proposals
  PROVE  IInv'
BY QuietStop DEF Crash

\* The command of a call is what was decided, for a worker approved where it must be.
LEMMA CommandIsDecided ==
  ASSUME IInv, NEW c \in Calls, At(c, "execute"), NEW e \in Events, e = call[c].event,
         NEW m, m = CommandOf(e, call[c].values)
  PROVE  /\ m \in Command /\ m.event = e /\ decisions[e] # None
         /\ m.version = decisions[e].input.version
         /\ m.worker \in Candidates(decisions[e])
         /\ m.worker = decisions[e].selected \/ <<e, m.worker>> \in approvals
         /\ e \in proposals => <<e, m.worker>> \in approvals
<1>1. PICK v \in Values : v = call[c].values BY CallIsGood DEF At
<1>2. Good(e, v) /\ v.next = "execute" BY <1>1, CallIsGood DEF At
<1>3. PICK d : d = v.decision OBVIOUS
<1>4. MayExecute(e, v) /\ d = decisions[e] /\ d # None /\ d \in Decision
  BY <1>2, <1>3, ValuesFields DEF Good, MayExecute
<1>5. /\ d.input.version \in Nat /\ d.input.eligible \subseteq Workers
      /\ Candidates(d) \subseteq d.input.eligible
  BY <1>4 DEF Decision, Snapshot, Candidates
<1>6. /\ m = [event |-> e, worker |-> m.worker, version |-> d.input.version]
      /\ m.event = e /\ m.version = d.input.version
      /\ m.worker = IF v.approval # None THEN v.approval.worker ELSE d.selected
  BY <1>1, <1>3 DEF CommandOf, ChosenWorker
<1>7. /\ m.worker \in Candidates(d)
      /\ m.worker = d.selected \/ <<e, m.worker>> \in approvals
      /\ e \in proposals => <<e, m.worker>> \in approvals
  <2>1. CASE v.approval = None
    <3>1. d.outcome = "assign" /\ e \notin proposals BY <1>3, <1>4, <2>1 DEF MayExecute
    <3>2. d.selected \in d.input.eligible BY <1>4, <3>1 DEF IInv, DecisionsMade
    <3> QED BY <1>6, <2>1, <3>1, <3>2 DEF Candidates
  <2>2. CASE v.approval # None BY <1>3, <1>4, <1>6, <2>2 DEF MayExecute
  <2> QED BY <2>1, <2>2
<1>8. m \in Command BY <1>5, <1>6, <1>7 DEF Command
<1> QED BY <1>4, <1>6, <1>7, <1>8

\* Sending a command, whatever becomes of it.
LEMMA SendStep ==
  ASSUME IInv, Monotone, NEW c \in Calls, NEW e \in Events, e = call[c].event,
         NEW m, m = CommandOf(e, call[c].values), Send(c, m),
         faults' = faults \/ Fault, inFlight' \subseteq Command,
         order' \in [Orders -> OrderRow],
         assignments' \in [Events -> AssignmentRow \cup {None}],
         AcceptedHolds',
         thread' \in [Events -> Values \cup {None}],
         call' \in [Calls -> Running \cup {None}],
         CheckpointsGood'
  PROVE  IInv'
<1>1. /\ m \in Command /\ m.event = e /\ decisions[e] # None
      /\ m.version = decisions[e].input.version
      /\ m.worker \in Candidates(decisions[e])
      /\ m.worker = decisions[e].selected \/ <<e, m.worker>> \in approvals
      /\ e \in proposals => <<e, m.worker>> \in approvals
  BY CommandIsDecided DEF Send
<1>2. PICK kind \in Kinds : sent' = sent \cup {<<kind, m>>}
  BY CallFields DEF Send, At, IInv
<1>3. faults' \in 0 .. MaxFaults BY BoundAssumption DEF IInv, TypeOK, Fault
<1>4. sent' \subseteq Kinds \X Command BY <1>1, <1>2 DEF IInv, TypeOK
<1>5. TypeOK' BY <1>3, <1>4 DEF IInv, TypeOK, Send, Monotone
<1>6. \A x \in sent' : x \in sent \/ x[2] = m BY <1>2
<1>7. CommandsMatchDecision'
  BY <1>1, <1>6 DEF IInv, CommandsMatchDecision, Send
<1>8. ProposalsNeedApproval'
  BY <1>1, <1>6 DEF IInv, ProposalsNeedApproval, Send, Monotone
<1>9. AuditTrue' BY DEF IInv, AuditTrue, Monotone, Send
<1>10. DecisionsMade' BY DecisionsStay DEF IInv, Send
<1> QED BY <1>5, <1>7, <1>8, <1>9, <1>10 DEF IInv

\* After execute the values claim nothing new of the order service.
LEMMA ExecutedIsGood ==
  ASSUME NEW e \in Events, NEW v \in Values, Good(e, v), NEW m \in Command, NEW receipt,
         NEW u, u = Executed(v, m, receipt), NEW w, w = [u EXCEPT !.answer = None]
  PROVE  u \in Values /\ w \in Values /\ Good(e, w)
<1>1. /\ u.next \in {"verify", "audit"} /\ u.status \in {"executing", "failed"}
      /\ u.command = m /\ u.snap = v.snap /\ u.decision = v.decision
      /\ u.approval = v.approval /\ u \in Values
  <2>1. PICK next \in {"verify", "audit"}, status \in {"executing", "failed"} :
          u = [v EXCEPT !.next = next, !.status = status, !.command = m]
    BY DEF RouteReceipt, Executed
  <2> QED BY <2>1 DEF Values, Nodes, RuntimeStatus
<1>2. /\ w.next = u.next /\ w.status = u.status /\ w.command = m /\ w.snap = v.snap
      /\ w.decision = v.decision /\ w.approval = v.approval /\ w.answer = None
      /\ w \in Values
  BY <1>1 DEF Values
<1>3. Good(e, w) BY <1>1, <1>2, AbsentAssumption DEF Good
<1> QED BY <1>1, <1>2, <1>3

\* A command and its answer.
LEMMA ExecuteStep ==
  ASSUME IInv, NEW c \in Calls, Execute(c) \/ ExecuteBusy(c), UNCHANGED proposals
  PROVE  IInv'
<1>1. At(c, "execute") /\ call[c] # None BY DEF Execute, ExecuteBusy, Send, At
<1>2. PICK e \in Events, v \in Values : e = call[c].event /\ v = call[c].values
  BY <1>1, CallIsGood
<1>3. Good(e, v) BY <1>1, <1>2, CallIsGood
<1>4. PICK m : m = CommandOf(e, v) OBVIOUS
<1>5. m \in Command BY <1>1, <1>2, <1>4, CommandIsDecided
<1>6. Send(c, m) BY <1>2, <1>4 DEF Execute, ExecuteBusy
<1>7. PICK receipt :
        /\ Checkpoint(c, Executed(v, m, receipt))
        /\ \/ UNCHANGED service
           \/ (\E eligible \in BOOLEAN : Handle(m, eligible)) /\ UNCHANGED inFlight
  BY <1>2, <1>4 DEF Execute, ExecuteBusy
<1>8. /\ order' \in [Orders -> OrderRow]
      /\ assignments' \in [Events -> AssignmentRow \cup {None}]
      /\ AcceptedHolds' /\ \A f \in Events : Accepted(f) => Accepted(f)'
  <2>1. CASE UNCHANGED service BY <2>1, ServiceStays DEF service, IInv, TypeOK
  <2>2. CASE \E eligible \in BOOLEAN : Handle(m, eligible)
    BY <1>5, <2>2, HandleStep DEF IInv
  <2> QED BY <1>7, <2>1, <2>2
<1>9. Monotone
  <2>1. \A f \in Events : inputs[f] <= inputs'[f]
    BY <1>6, BoundAssumption DEF Send, IInv, TypeOK
  <2> QED BY <1>6, <1>8, <2>1 DEF Monotone, Send, IInv, TypeOK
<1>10. PICK u : u = Executed(v, m, receipt) OBVIOUS
<1>11. PICK w : w = [u EXCEPT !.answer = None] OBVIOUS
<1>12. u \in Values /\ w \in Values /\ Good(e, w)
  BY <1>3, <1>5, <1>10, <1>11, ExecutedIsGood
<1>13. Good(e, w)' BY <1>9, <1>12, GoodStays DEF IInv
<1>14. Checkpoint(c, u) BY <1>7, <1>10
<1>15. /\ thread' \in [Events -> Values \cup {None}]
       /\ call' \in [Calls -> Running \cup {None}] /\ CheckpointsGood'
  BY <1>1, <1>2, <1>9, <1>11, <1>12, <1>13, <1>14, CheckpointMoves DEF IInv
<1>16. (faults' = faults \/ Fault) /\ inFlight' \subseteq Command
  BY <1>7 DEF Execute, ExecuteBusy, service, IInv, TypeOK
<1> QED BY <1>2, <1>4, <1>6, <1>8, <1>9, <1>15, <1>16, SendStep

\* A command whose answer is lost.
LEMMA ExecuteLostStep ==
  ASSUME IInv, NEW c \in Calls, ExecuteLost(c), UNCHANGED proposals
  PROVE  IInv'
<1>1. At(c, "execute") /\ call[c] # None BY DEF ExecuteLost, Send, At
<1>2. PICK e \in Events, v \in Values : e = call[c].event /\ v = call[c].values
  BY <1>1, CallIsGood
<1>3. PICK m : m = CommandOf(e, v) OBVIOUS
<1>4. m \in Command BY <1>1, <1>2, <1>3, CommandIsDecided
<1>5. /\ Send(c, m) /\ inFlight' = inFlight \cup {m} /\ Fault
      /\ Stop(c) \/ UNCHANGED <<call, thread>>
      /\ UNCHANGED <<order, assignments>>
  BY <1>2, <1>3 DEF ExecuteLost
<1>6. Monotone BY <1>5, QuietIsMonotone DEF Send, IInv
<1>7. /\ thread' \in [Events -> Values \cup {None}]
      /\ call' \in [Calls -> Running \cup {None}] /\ CheckpointsGood'
  <2>1. CASE Stop(c) BY <1>6, <2>1, StopMoves DEF Stop, IInv
  <2>2. CASE UNCHANGED <<call, thread>>
    <3>1. \A f \in Events, u \in Values : Holds(f, u)' => Holds(f, u) BY <2>2 DEF Holds
    <3> QED BY <1>6, <2>2, <3>1, CheckpointsStay DEF IInv, TypeOK
  <2> QED BY <1>5, <2>1, <2>2
<1>8. /\ order' \in [Orders -> OrderRow]
      /\ assignments' \in [Events -> AssignmentRow \cup {None}]
      /\ AcceptedHolds' /\ inFlight' \subseteq Command
  BY <1>4, <1>5, ServiceStays DEF IInv, TypeOK
<1> QED BY <1>2, <1>3, <1>5, <1>6, <1>7, <1>8, SendStep

\* What happens at the order service without the runtime.
LEMMA ServiceStep ==
  ASSUME IInv, Monotone, UNCHANGED <<agent, history>>,
         inFlight' \subseteq Command,
         order' \in [Orders -> OrderRow],
         assignments' \in [Events -> AssignmentRow \cup {None}],
         AcceptedHolds'
  PROVE  IInv'
<1>1. \A f \in Events, u \in Values : Holds(f, u)' => Holds(f, u) BY DEF Holds, agent
<1>2. CheckpointsGood' BY <1>1, CheckpointsStay DEF IInv
<1>3. DecisionsMade' BY DecisionsStay DEF IInv, agent
<1>4. CommandsMatchDecision' /\ ProposalsNeedApproval' BY CommandsStay DEF IInv, history
<1>5. AuditTrue' BY DEF IInv, AuditTrue, Monotone, agent
<1>6. TypeOK' BY DEF IInv, TypeOK, Monotone, agent, history
<1> QED BY <1>2, <1>3, <1>4, <1>5, <1>6 DEF IInv

\* A command that arrives late is handled like any other.
LEMMA DeliverLateStep ==
  ASSUME IInv, NEW m \in inFlight, DeliverLate(m), UNCHANGED proposals
  PROVE  IInv'
<1>1. m \in Command BY DEF IInv, TypeOK
<1>2. /\ order' \in [Orders -> OrderRow]
      /\ assignments' \in [Events -> AssignmentRow \cup {None}]
      /\ AcceptedHolds' /\ \A f \in Events : Accepted(f) => Accepted(f)'
  BY <1>1, HandleStep DEF DeliverLate, IInv
<1>3. \A f \in Events : inputs[f] <= inputs'[f]
  BY BoundAssumption DEF DeliverLate, history, IInv, TypeOK
<1>4. Monotone BY <1>2, <1>3 DEF Monotone, DeliverLate, agent, history, IInv, TypeOK
<1>5. inFlight' \subseteq Command BY DEF DeliverLate, IInv, TypeOK
<1> QED BY <1>2, <1>4, <1>5, ServiceStep DEF DeliverLate

\* A change of one order, which keeps the assignment it may carry.
LEMMA OrderStep ==
  ASSUME IInv, NEW o \in Orders, NEW row \in OrderRow, order' = [order EXCEPT ![o] = row],
         UNCHANGED <<assignments, inFlight, agent, history, proposals>>,
         \A e \in Events : Accepted(e) /\ OrderOf[e] = o => AssignmentStands(assignments[e], row)
  PROVE  IInv'
<1>1. order' \in [Orders -> OrderRow] BY DEF IInv, TypeOK
<1>2. AcceptedHolds'
  <2>1. ASSUME NEW e \in Events, Accepted(e)
        PROVE  AssignmentStands(assignments[e], order'[OrderOf[e]])
    <3>1. AssignmentStands(assignments[e], order[OrderOf[e]]) BY <2>1 DEF AcceptedHolds, IInv
    <3>2. CASE OrderOf[e] = o BY <2>1, <3>2 DEF IInv, TypeOK
    <3>3. CASE OrderOf[e] # o BY <3>1, <3>3, EventAssumption DEF IInv, TypeOK
    <3> QED BY <3>2, <3>3
  <2> QED BY <2>1 DEF AcceptedHolds, Accepted
<1>3. \A f \in Events : inputs[f] <= inputs'[f] BY BoundAssumption DEF history, IInv, TypeOK
<1>4. Monotone BY <1>3 DEF Monotone, agent, history, IInv, TypeOK, Accepted
<1>5. inFlight' \subseteq Command /\ assignments' \in [Events -> AssignmentRow \cup {None}]
  BY DEF IInv, TypeOK
<1> QED BY <1>1, <1>2, <1>4, <1>5, ServiceStep

\* Only a free order is claimed by hand, so none the service has given to a worker.
LEMMA ClaimByHandStep ==
  ASSUME IInv, NEW o \in Orders, NEW w \in Workers, ClaimByHand(o, w), UNCHANGED proposals
  PROVE  IInv'
<1>1. /\ order[o].worker = NoOne /\ order[o].version \in Nat
      /\ order' = [order EXCEPT ![o] = Taken(order[o], w)]
  BY DEF ClaimByHand, IInv, TypeOK, OrderRow
<1>2. Taken(order[o], w) \in OrderRow BY <1>1 DEF MaybeWorker, OrderRow, Taken
<1>3. ASSUME NEW e \in Events, Accepted(e), OrderOf[e] = o PROVE FALSE
  <2>1. AssignmentStands(assignments[e], order[o]) BY <1>3 DEF AcceptedHolds, IInv
  <2>2. assignments[e].worker \in Workers
    BY <1>3 DEF Accepted, IInv, TypeOK, AssignmentRow
  <2> QED BY <1>1, <2>1, <2>2, WorkerAssumption DEF AssignmentStands
<1> QED BY <1>1, <1>2, <1>3, OrderStep DEF ClaimByHand

\* Only an order in progress is completed, and the completion keeps its worker.
LEMMA CompleteStep ==
  ASSUME IInv, NEW o \in Orders, Complete(o), UNCHANGED proposals
  PROVE  IInv'
<1>1. order[o] \in OrderRow BY DEF IInv, TypeOK
<1>2. PICK row : row = [order[o] EXCEPT !.status = "COMPLETED", !.version = order[o].version + 1]
  OBVIOUS
<1>3. order[o].status = "ASSIGNED" /\ order' = [order EXCEPT ![o] = row]
  BY <1>2 DEF Complete
<1>4. row = [status |-> "COMPLETED", version |-> order[o].version + 1,
             worker |-> order[o].worker]
  BY <1>1, <1>2 DEF OrderRow
<1>5. row \in OrderRow BY <1>1, <1>4 DEF OrderRow
<1>6. ASSUME NEW e \in Events, Accepted(e), OrderOf[e] = o
      PROVE  AssignmentStands(assignments[e], row)
  <2>1. AssignmentStands(assignments[e], order[o]) BY <1>6 DEF AcceptedHolds, IInv
  <2>2. order[o] = [status |-> "ASSIGNED", version |-> assignments[e].version + 1,
                    worker |-> assignments[e].worker]
    BY <1>3, <2>1 DEF AssignmentStands
  <2>3. assignments[e].version \in Nat BY <1>6 DEF Accepted, IInv, TypeOK, AssignmentRow
  <2>4. row = [status |-> "COMPLETED", version |-> assignments[e].version + 2,
               worker |-> assignments[e].worker]
    BY <1>4, <2>2, <2>3
  <2> QED BY <2>4 DEF AssignmentStands
<1> QED BY <1>3, <1>5, <1>6, OrderStep DEF Complete

\* Nothing was decided, sent or checkpointed at first.
LEMMA IInvInit == Init => IInv
<1> SUFFICES ASSUME Init PROVE IInv OBVIOUS
<1>1. TypeOK BY BoundAssumption DEF Init, TypeOK, MaybeWorker, OrderRow
<1>2. \A e \in Events, v \in Values : ~Holds(e, v) BY AbsentAssumption DEF Init, Holds
<1>3. CheckpointsGood BY <1>2 DEF CheckpointsGood
<1>4. DecisionsMade /\ AcceptedHolds BY DEF Init, DecisionsMade, AcceptedHolds, Accepted
<1>5. AuditTrue
  <2>1. None # "verified" BY AbsentAssumption DEF RuntimeStatus
  <2> QED BY <2>1 DEF Init, AuditTrue
<1>6. CommandsMatchDecision /\ ProposalsNeedApproval
  BY DEF Init, CommandsMatchDecision, ProposalsNeedApproval
<1> QED BY <1>1, <1>3, <1>4, <1>5, <1>6 DEF IInv

\* Every step keeps the invariant.
LEMMA IInvNext == IInv /\ [Next]_vars => IInv'
<1> SUFFICES ASSUME IInv, [Next]_vars PROVE IInv' OBVIOUS
<1>1. CASE Next
  <2>0. UNCHANGED proposals BY <1>1 DEF Next
  <2>1. CASE \E c \in Calls, e \in Events : Start(c, e) \/ Retry(c, e)
    BY <2>0, <2>1, StartStep, RetryStep
  <2>2. CASE \E c \in Calls, e \in Events, a \in ValidAnswers : Resume(c, e, a)
    BY <2>0, <2>2, ResumeStep
  <2>3. CASE \E c \in Calls : Node(c)
    <3>1. PICK c \in Calls : Node(c) BY <2>3
    <3>2. CASE LoadSnapshot(c) BY <2>0, <3>2, LoadSnapshotStep
    <3>3. CASE Decide(c) BY <2>0, <3>3, DecideStep
    <3>4. CASE MarkApproval(c) BY <2>0, <3>4, MarkApprovalStep
    <3>5. CASE HumanApproval(c) BY <2>0, <3>5, HumanApprovalStep
    <3>6. CASE Execute(c) \/ ExecuteBusy(c) BY <2>0, <3>6, ExecuteStep
    <3>7. CASE ExecuteLost(c) BY <2>0, <3>7, ExecuteLostStep
    <3>8. CASE Verify(c) BY <2>0, <3>8, VerifyStep
    <3>9. CASE Audit(c) BY <2>0, <3>9, AuditStep
    <3>10. CASE DecideConflict(c) \/ Interrupt(c) \/ Finished(c) BY <2>0, <3>10, StopStep
    <3> QED BY <3>1, <3>2, <3>3, <3>4, <3>5, <3>6, <3>7, <3>8, <3>9, <3>10 DEF Node
  <2>4. CASE \E c \in Calls : ToolFails(c) \/ Crash(c)
    BY <2>0, <2>4, StopStep, CrashStep
  <2>5. CASE \E m \in inFlight : DeliverLate(m) BY <2>0, <2>5, DeliverLateStep
  <2>6. CASE \E o \in Orders, w \in Workers : ClaimByHand(o, w)
    BY <2>0, <2>6, ClaimByHandStep
  <2>7. CASE \E o \in Orders : Complete(o) BY <2>0, <2>7, CompleteStep
  <2> QED BY <1>1, <2>1, <2>2, <2>3, <2>4, <2>5, <2>6, <2>7 DEF Next
<1>2. CASE UNCHANGED vars
  <2>1. Monotone BY <1>2, QuietIsMonotone DEF IInv, vars, service, agent, history
  <2>2. UNCHANGED <<order, assignments, inFlight>> /\ UNCHANGED <<agent, history>>
    BY <1>2 DEF vars, service
  <2>3. AcceptedHolds' BY <2>2, ServiceStays DEF IInv
  <2> QED BY <2>1, <2>2, <2>3, ServiceStep DEF IInv, TypeOK
<1> QED BY <1>1, <1>2

-----------------------------------------------------------------------------
(* Theorems *)

\* The invariant holds in every reachable state, for any number of events, calls and faults.
THEOREM Invariance == Spec => []IInv
BY IInvInit, IInvNext, PTL DEF Spec

\* Every variable keeps its type.
THEOREM TypeCorrect == Spec => []TypeOK
<1>1. IInv => TypeOK BY DEF IInv
<1> QED BY <1>1, Invariance, PTL

\* Every command carries out its event's one decision, for the worker it selected or one a
\* reviewer approved, however often the thread was restarted, retried, resumed or lost a
\* checkpoint.
THEOREM CommandsMatch == Spec => []CommandsMatchDecision
<1>1. IInv => CommandsMatchDecision BY DEF IInv
<1> QED BY <1>1, Invariance, PTL

\* No command of a proposal leaves the agent without its reviewer's approval.
THEOREM ProposalsApproved == Spec => []ProposalsNeedApproval
<1>1. IInv => ProposalsNeedApproval BY DEF IInv
<1> QED BY <1>1, Invariance, PTL

\* No checkpoint or running call of an event holds a decision other than the saved one.
THEOREM OneDecisionPerEvent == Spec => []OneDecision
<1>1. IInv => OneDecision
  <2> SUFFICES ASSUME IInv, NEW e \in Events, NEW v \in ValuesOf(e), v.decision # None
               PROVE  v.decision = decisions[e]
    BY DEF OneDecision
  <2>1. v \in Values /\ Holds(e, v)
    <3>1. CASE v \in {thread[e]} \ {None} BY <3>1 DEF Holds, IInv, TypeOK
    <3>2. CASE \E c \in Calls : call[c] # None /\ call[c].event = e /\ v = call[c].values
      BY <3>2, CallIsGood DEF Holds
    <3> QED BY <3>1, <3>2 DEF ValuesOf
  <2> QED BY <2>1 DEF IInv, CheckpointsGood, Good
<1> QED BY <1>1, Invariance, PTL

\* What a thread or the audit file calls verified is so at the order service.
THEOREM VerifiedTrue == Spec => []VerifiedIsTrue
<1>1. IInv => VerifiedIsTrue
  <2> SUFFICES ASSUME IInv, NEW e \in Events,
                      \/ audit[e] = "verified"
                      \/ thread[e] # None /\ thread[e].status \in {"verified", "audited"}
               PROVE  Accepted(e)
    BY DEF IInv, VerifiedIsTrue, AcceptedHolds, Accepted
  <2>1. CASE audit[e] = "verified" BY <2>1 DEF IInv, AuditTrue
  <2>2. CASE thread[e] # None /\ thread[e].status \in {"verified", "audited"}
    BY <2>2 DEF IInv, TypeOK, CheckpointsGood, Holds, Good
  <2> QED BY <2>1, <2>2
<1> QED BY <1>1, Invariance, PTL
=============================================================================
