---------------------------- MODULE TaskPlanning ----------------------------
(* PlanningRuntime: a planner's draft becomes a versioned plan whose tasks    *)
(* are executed in batches, is patched when a task fails or an artifact       *)
(* signals that it has to be, and ends behind a completion gate or with a     *)
(* human.  One thread of the graph, named by tenant and incident; between two *)
(* nodes its values are in the checkpoint, and the plan's own row in the task *)
(* and artifact store, under the thread id of whoever called run.             *)
(*                                                                            *)
(* Artifact rows of the store are left out: the runtime reads one only for    *)
(* the version it is about to replace.  One process serves the thread; Crash  *)
(* stands for its restart.  recursion_limit (30 nodes a call) is left out.    *)
EXTENDS Integers, SequencesExt, PlanningArtifacts, Selections

CONSTANTS Drafts,         \* task lists the model may answer with
          Criteria,       \* success criteria, each the set of roles its words name
          RequiredRoles,  \* completion_required_roles
          Threads,        \* thread ids that callers give the incident
          MaxTasks, MaxParallel,
          MaxReplans,     \* max_replans, which the configuration keeps up to 3
          MaxRuns,        \* bound: calls of run for this incident
          MaxAnswers,     \* bound: calls of resume
          MaxCrashes      \* bound

PlanningAssumption ==
    /\ Drafts \subseteq Seq([id : Nat \X Nat, role : STRING, needs : SUBSET (Nat \X Nat)])
    /\ Threads # {}
    /\ {MaxTasks, MaxParallel} \subseteq Nat \ {0}
    /\ MaxReplans \in 0 .. 3
    /\ {MaxRuns, MaxAnswers, MaxCrashes} \subseteq Nat

VARIABLES node,     \* the node the thread stands before
          live,     \* a call is executing it
          values,   \* PlanningState
          stored,   \* of each thread id: version of the plan's row, 0 without one
          cause,    \* history: why the last call raised
          misled,   \* history: the plan was patched for a signal that an earlier plan gave
          searched, \* ids of tasks whose workers have searched in this process
          runs, answers, crashes

planningVars == <<node, live, values, stored, cause, misled, searched, runs, answers, crashes>>
bounds == <<runs, answers, crashes>>

\* The n-th name of the i-th task of a draft is <<i, n>>; what recovers from failures comes
\* from no draft.
Recovery == <<0, 0>>
Revised(id) == [id EXCEPT ![2] = @ + 1]

Ids(tasks) == {task.id : task \in ToSet(tasks)}
TaskOf(tasks, id) == CHOOSE task \in ToSet(tasks) : task.id = id
Unique(tasks) == \A i, j \in DOMAIN tasks : tasks[i].id = tasks[j].id => i = j
Dangling(tasks) == \E task \in ToSet(tasks) : ~(task.needs \subseteq Ids(tasks))
Cyclic(tasks) ==
    \E cycle \in (SUBSET Ids(tasks)) \ {{}} :
        \A id \in cycle : TaskOf(tasks, id).needs \cap cycle # {}

\* PlanValidator.validate; tasks carry no capability but reading.
Valid(tasks) ==
    /\ tasks # <<>> /\ Len(tasks) <= MaxTasks
    /\ Unique(tasks) /\ ~Dangling(tasks) /\ ~Cyclic(tasks)

(* The planner: one answer, one repair. *)

Normalized(draft) ==
    LET New(id) == <<CHOOSE i \in DOMAIN draft : draft[i].id = id, 0>>
    IN [i \in DOMAIN draft |->
            [id |-> <<i, 0>>, role |-> draft[i].role, needs |-> {New(id) : id \in draft[i].needs}]]

Repairable(draft) ==
    \/ ~Unique(draft)
    \/ \E task \in ToSet(draft) : task.role \notin Roles
    \/ ~Dangling(draft) /\ ~Valid(Normalized(draft))

\* A dangling dependency raises while names are rewritten, before anything asks for a
\* repair.  No draft: the planner raised.
Planned(draft, repaired) ==
    LET last == IF Repairable(draft) THEN repaired ELSE draft
    IN IF Repairable(last) \/ Dangling(last) THEN <<>> ELSE Normalized(last)

Blank(t) ==
    [thread |-> t, plan |-> [tasks |-> <<>>, version |-> 0], status |-> [id \in {} |-> "pending"],
     artifacts |-> <<>>, replans |-> 0, failed |-> {}, trigger |-> <<>>, ready |-> <<>>,
     final |-> "none", action |-> "none", human |-> "none"]

PlanningInit ==
    /\ node = "end" /\ live = FALSE
    /\ values \in {Blank(t) : t \in Threads}
    /\ stored = [t \in Threads |-> 0] /\ cause = "none" /\ misled = FALSE /\ searched = {}
    /\ runs = 0 /\ answers = 0 /\ crashes = 0

At(n) == live /\ node = n
Goto(n) == node' = n /\ UNCHANGED <<live, cause>>
EndCall == live' = FALSE /\ UNCHANGED node
Raises(why) == EndCall /\ cause' = why /\ UNCHANGED <<values, stored, misled>>

\* run: a thread that already exists keeps the values it is not given, its trigger among
\* them.  Every call has a trace of its own.
Run ==
    /\ ~live /\ runs < MaxRuns /\ runs' = runs + 1
    /\ node' = "plan" /\ live' = TRUE /\ cause' = "none"
    /\ \E t \in Threads :
           values' = [values EXCEPT !.thread = t, !.artifacts = <<>>, !.replans = 0]
    /\ searched' = {}
    /\ UNCHANGED <<stored, misled, answers, crashes>>

AllPending(tasks) == [id \in Ids(tasks) |-> "pending"]

Row == stored[values.thread]

\* The row's version is the one the writer names: otherwise it is a conflict.
Put(expected) == Row = expected /\ stored' = [stored EXCEPT ![values.thread] = expected + 1]

CommitInitial(tasks) ==
    /\ Valid(tasks) /\ Put(0)
    /\ misled' = FALSE
    /\ values' = [values EXCEPT !.plan = [tasks |-> tasks, version |-> 1],
                                !.status = AllPending(tasks)]

Plan ==
    /\ At("plan")
    /\ \E draft, repaired \in Drafts :
        LET tasks == Planned(draft, repaired)
        IN \/ tasks = <<>> /\ Raises("planner")
           \/ tasks # <<>> /\ Row # 0 /\ Raises("store")
           \/ tasks # <<>> /\ CommitInitial(tasks) /\ Goto("supervise")
    /\ UNCHANGED <<searched, bounds>>

(* The supervisor. *)

Tasks == values.plan.tasks
Having(status) == {id \in DOMAIN values.status : values.status[id] = status}
MayReplan == values.replans < MaxReplans

\* RuleBasedReplanDetector.detect, in its order of priority; only artifacts of the
\* current version count.
Signals(role) ==
    Only(values.artifacts,
         {a \in ToSet(values.artifacts) :
             a.version = values.plan.version /\ a.role = role /\ "signal" \in a.flags})
Triggers == Signals("resource_planning") \o Signals("diagnosis")

Covered(criterion, artifacts) ==
    LET kept == {a \in artifacts : "refused" \notin a.flags}
    IN IF criterion = {} THEN kept # {} ELSE \A role \in criterion : \E a \in kept : a.role = role

\* Refusals and risks nobody acknowledged do not block the completion.
MutantRefusalsPass ==
    LET artifacts == ToSet(values.artifacts)
    IN /\ \A id \in Ids(Tasks) : \E a \in artifacts : a.task = id
       /\ \A role \in RequiredRoles : \E a \in artifacts : a.role = role
       /\ \A criterion \in Criteria : Covered(criterion, artifacts)

\* CompletionGate.evaluate
Approved ==
    LET artifacts == ToSet(values.artifacts)
    IN /\ \A id \in Ids(Tasks) : \E a \in artifacts : a.task = id
       /\ \A role \in RequiredRoles : \E a \in artifacts : a.role = role
       /\ \A a \in artifacts : a.flags \cap {"refused", "unacknowledged"} = {}
       /\ \A criterion \in Criteria : Covered(criterion, artifacts)

Ready ==
    LET free == Only(Tasks, {task \in ToSet(Tasks) : /\ values.status[task.id] = "pending"
                                                      /\ task.needs \subseteq Having("completed")})
    IN SubSeq(free, 1, IF Len(free) < MaxParallel THEN Len(free) ELSE MaxParallel)

Route(n, action) == Goto(n) /\ values' = [values EXCEPT !.action = action]

SuperviseFailed ==
    /\ Having("failed") # {}
    /\ IF MayReplan
       THEN Goto("replan") /\ values' = [values EXCEPT !.failed = Having("failed")]
       ELSE Route("finalize", "fail")

SuperviseTrigger ==
    /\ Having("failed") = {} /\ MayReplan /\ Triggers # <<>>
    /\ values' = [values EXCEPT !.trigger = <<Head(Triggers)>>, !.failed = {}]
    /\ Goto("replan")

SuperviseProgress ==
    /\ Having("failed") = {} /\ ~(MayReplan /\ Triggers # <<>>)
    /\ IF DOMAIN values.status = Having("completed")
       THEN IF Approved THEN Route("finalize", "complete") ELSE Route("human", "await")
       ELSE IF Ready = <<>> THEN Route("human", "await")
       ELSE Goto("execute_batch") /\ values' = [values EXCEPT !.ready = Ready]

Supervise ==
    /\ At("supervise")
    /\ SuperviseFailed \/ SuperviseTrigger \/ SuperviseProgress
    /\ UNCHANGED <<stored, misled, searched, bounds>>

\* A worker searches under the trace of its task's id, and the gateway lets one trace
\* search once: a task that is executed again by the same process raises.
Error == {"error"}
Flags == UNION {Contents(role) : role \in Roles}
Outcomes(task) == IF task.id \in searched THEN {Error} ELSE Contents(task.role) \cup {Error}

\* gather: every task of the batch ends, with an artifact or an exception.
ExecuteBatch ==
    /\ At("execute_batch")
    /\ \E result \in [ToSet(values.ready) -> Flags \cup {Error}] :
        /\ \A task \in ToSet(values.ready) : result[task] \in Outcomes(task)
        /\ LET done == Only(values.ready, {task \in ToSet(values.ready) : result[task] # Error})
               Artifact(task) == [task |-> task.id, role |-> task.role,
                                  version |-> values.plan.version,
                                  flags |-> result[task]]
           IN values' = [values EXCEPT
                !.artifacts = @ \o [i \in DOMAIN done |-> Artifact(done[i])],
                !.status = [id \in DOMAIN @ |->
                    IF id \in Ids(done) THEN "completed"
                    ELSE IF id \in Ids(values.ready) THEN "failed" ELSE @[id]]]
    /\ searched' = searched \cup Ids(values.ready)
    /\ Goto("supervise")
    /\ UNCHANGED <<stored, misled, bounds>>

(* The replanner. *)

\* Only the tasks that name a cancelled one, not those that depend on them in turn.
MutantDirectDependents(tasks, ids) ==
    ids \cup {task.id : task \in {t \in ToSet(tasks) : t.needs \cap ids # {}}}

\* _downstream_closure: the tasks that belong to every closed set around the ids.
Closure(tasks, ids) ==
    LET Closed(S) == \A task \in ToSet(tasks) : task.needs \cap S # {} => task.id \in S
    IN {id \in Ids(tasks) : \A S \in SUBSET Ids(tasks) : ids \subseteq S /\ Closed(S) => id \in S}

\* The task that gave the signal, which an earlier plan's trigger may not find in this one.
Signalled == {Head(values.trigger).task} \cap Ids(Tasks)

\* It is repeated by its role, without the needs that go with it.
RevisedTask(trigger) ==
    [id |-> Revised(trigger.task), role |-> trigger.role,
     needs |-> (UNION {TaskOf(Tasks, id).needs : id \in Signalled}) \ Closure(Tasks, Signalled)]

\* One task for everything that failed; several roles fall back to diagnosis.
RecoveryTask ==
    LET roles == {TaskOf(Tasks, id).role : id \in values.failed}
    IN [id |-> Recovery, needs |-> {},
        role |-> IF \E role \in Roles : roles = {role} THEN CHOOSE role \in Roles : roles = {role}
                 ELSE "diagnosis"]

Patched ==
    LET cancelled == Closure(Tasks, IF values.trigger # <<>> THEN Signalled ELSE values.failed)
        added == IF values.trigger # <<>> THEN RevisedTask(Head(values.trigger)) ELSE RecoveryTask
    IN Append(Only(Tasks, {task \in ToSet(Tasks) : task.id \notin cancelled}), added)

\* A new version of the plan starts all over.
MutantStatusNotKept(tasks) == [id \in Ids(tasks) |-> "pending"]

Inherited(tasks) ==
    [id \in Ids(tasks) |-> IF id \in DOMAIN values.status THEN values.status[id] ELSE "pending"]

\* A failure is patched by a trigger that an earlier run set and did not take up.
Stale == values.trigger # <<>> /\ values.failed # {}

ApplyPatch ==
    /\ Valid(Patched) /\ Put(values.plan.version)
    /\ values' = [values EXCEPT !.plan = [tasks |-> Patched, version |-> @.version + 1],
                                !.status = Inherited(Patched),
                                !.replans = @ + 1, !.trigger = <<>>]
    /\ misled' = (misled \/ Stale)

Replan ==
    /\ At("replan")
    /\ \/ ~Valid(Patched) /\ Raises("patch")
       \/ Valid(Patched) /\ Row # values.plan.version /\ Raises("store")
       \/ ApplyPatch /\ Goto("supervise")
    /\ UNCHANGED <<searched, bounds>>

(* Humans, the end, and crashes. *)

Interrupt ==
    /\ At("human")
    /\ EndCall
    /\ UNCHANGED <<values, stored, cause, misled, searched, bounds>>

Finalize ==
    /\ At("finalize")
    /\ values' = [values EXCEPT !.final = IF values.action = "complete" THEN "completed" ELSE "failed"]
    /\ node' = "end" /\ live' = FALSE
    /\ UNCHANGED <<stored, cause, misled, searched, bounds>>

\* resume: a waiting thread takes the answer; any other one that has not ended goes on
\* where it stands, whatever the answer is.
Resume ==
    /\ ~live /\ node # "end" /\ answers < MaxAnswers
    /\ answers' = answers + 1
    /\ live' = TRUE /\ cause' = "none"
    /\ \/ node # "human" /\ UNCHANGED <<node, values>>
       \/ /\ node = "human" /\ node' = "finalize"
          /\ values' = [values EXCEPT !.action = "fail", !.human = "cancel"]
       \/ /\ node = "human" /\ node' = "supervise"
          /\ values' = [values EXCEPT !.status = AllPending(Tasks), !.artifacts = <<>>,
                                      !.human = "retry"]
    /\ UNCHANGED <<stored, misled, searched, runs, crashes>>

\* The plan's row may be written before the checkpoint is.
Crash ==
    /\ live /\ crashes < MaxCrashes
    /\ crashes' = crashes + 1
    /\ live' = FALSE /\ cause' = "crash" /\ searched' = {}
    /\ \/ stored' = stored
       \/ node = "plan" /\ Put(0)
       \/ node = "replan" /\ Valid(Patched) /\ Put(values.plan.version)
    /\ UNCHANGED <<node, values, misled, runs, answers>>

PlanningNext ==
    \/ Run \/ Plan \/ Supervise \/ ExecuteBatch \/ Replan \/ Interrupt \/ Finalize
    \/ Resume \/ Crash

PlanningSpec == PlanningInit /\ [][PlanningNext]_planningVars

(* Properties *)

\* An artifact of a task of the last plan; tasks that a replan cancelled leave theirs behind.
Current == {a \in ToSet(values.artifacts) : a.task \in Ids(Tasks)}

\* Several kinds of tasks failed at once, after another replan: one diagnosis replaced them.
StandIn ==
    values.replans > 1 /\ \E task \in ToSet(Tasks) : task.id[1] = Recovery[1] /\ task.role = "diagnosis"

\* An investigation is called completed only on artifacts of the tasks of its last plan:
\* each task has one of its own, and those alone cover every required role and success
\* criterion.  What tasks cancelled by a replan left behind is in the list too and carries
\* the rest only when a diagnosis stands in for tasks of several kinds, or when this plan
\* was patched for a signal of an earlier one.
CompletedIsCovered ==
    node = "end" /\ values.final = "completed" =>
        /\ \A task \in ToSet(Tasks) : \E a \in Current : a.task = task.id /\ a.role = task.role
        /\ misled \/ StandIn \/
              /\ \A role \in RequiredRoles : \E a \in Current : a.role = role
              /\ \A criterion \in Criteria : Covered(criterion, Current)

\* The replanner's patches pass the validator: nothing dangles, the budget and unique
\* names are kept.  There are three exceptions.  A second failure after a recovery gets a
\* name that is taken; a signal of an earlier plan adds its task to the first version of
\* one that has no place left and no such task to cancel; and when such a signal has made
\* recovery-revised, the third replan may give a recovery that name again.
PatchIsValid ==
    cause = "patch" =>
        \/ values.trigger = <<>> /\ Recovery \in Ids(Tasks)
        \/ Stale /\ Signalled = {} /\ Len(Tasks) = MaxTasks /\ values.plan.version = 1
        \/ /\ misled /\ values.replans = 2
           /\ values.trigger # <<>> /\ Head(values.trigger).task = Recovery

\* No task searches under a trace that was used before, which the gateway's budget of one
\* call a trace would refuse: what a replan adds has a name of its own, and what it
\* keeps keeps its status.  Only the retry a human asks for repeats the ids, and the third
\* replan may repeat the name of a recovery that an earlier one has replaced.
TracesAreFresh ==
    node = "execute_batch" /\ values.human # "retry" =>
        Ids(values.ready) \cap searched \subseteq IF values.replans > 2 THEN {Recovery} ELSE {}

=============================================================================
