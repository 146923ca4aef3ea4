---------------------------- MODULE Planning_proofs ----------------------------
(* What holds of a plan and of the evidence its workers cite, for drafts,     *)
(* catalogues and bounds of any size: TaskPlanning, then EvidenceChain.       *)
EXTENDS TaskPlanning, EvidenceChain, Selections_proofs

Names == Nat \X Nat
Task == [id : Names, role : Roles, needs : SUBSET Names]
Artifacts == [task : Names, role : Roles, version : Nat, flags : Flags]
Standings == {"pending", "completed", "failed"}
Values == [thread : Threads, plan : [tasks : Seq(Task), version : Nat],
           status : UNION {[ids -> Standings] : ids \in SUBSET Names},
           artifacts : Seq(Artifacts), replans : Nat, failed : SUBSET Names,
           trigger : Seq(Artifacts), ready : Seq(Task),
           final : {"none", "completed", "failed"}, action : {"none", "complete", "fail", "await"},
           human : {"none", "cancel", "retry"}]
Middle == {"supervise", "execute_batch", "replan", "human", "finalize"}

-------------------------------------------------------------------------------
(* The parts of the invariant: S is a set of tasks, A one of artifacts, v the *)
(* version of the plan, r the number of replans.                              *)

\* A recovery needs nothing, and nothing that repeats it does.
WellFormed(tasks) ==
    /\ tasks \in Seq(Task) /\ Valid(tasks)
    /\ \A t \in ToSet(tasks) : t.id[1] = 0 => t.needs = {}

\* One task of each draft's task is in the plan, the newest of them; of the recoveries the
\* number of replans bounds the names.
Own(ids, past, r) ==
    /\ \A x, y \in ids : x[1] = y[1] /\ x[1] >= 1 => x = y
    /\ \A s \in past, x \in ids : s[1] = x[1] /\ x[1] >= 1 => s[2] <= x[2]
    /\ \A x \in ids \cup past : x[1] = 0 => r >= x[2] + 1
    /\ Recovery \in ids /\ (\E x \in ids \cup past : x[1] = 0 /\ x[2] >= 1) => r >= 3
    /\ Recovery \in past \ ids => r >= 2

\* What is left of Own when a signal of an earlier plan has added y to this one's first
\* version: the other names are a draft's or the recovery's, none but the recovery's is
\* revised to y, and it is the failure that is patched next.
Strange(y, S, ids, status, past, r) ==
    /\ y[2] >= 1 /\ r \in {1, 2}
    /\ \A x \in ids \cup past : x = y \/ x[2] = 0
    /\ \A x \in ids \cup past : Revised(x) = y => x = Recovery
    /\ \A t \in S : t.id = y => t.needs = {}
    /\ y \in past => y \in ids
    /\ r = 1 => /\ Recovery \notin ids \cup past /\ y \notin past
                /\ \E x \in ids : status[x] = "failed"

Owned(S, ids, status, past, r, astray) ==
    r <= 2 => \/ Own(ids, past, r)
              \/ astray /\ \E y \in Names : Strange(y, S, ids, status, past, r)

\* The first version is the draft.
Drafted(ids, past) == past \subseteq ids /\ \A x \in ids : x[1] >= 1 /\ x[2] = 0

Fresh(ids, status, past, r, human) ==
    human # "retry" =>
        \A x \in ids : status[x] = "pending" /\ x \in past => x = Recovery /\ r > 2

\* A completed task has its artifact, and what it needs is completed too.
Kept(S, status, A) ==
    \A t \in S : status[t.id] = "completed" =>
        /\ \E a \in A : a.task = t.id /\ a.role = t.role
        /\ \A need \in t.needs : status[need] = "completed"

\* Only completed tasks have artifacts of the current version.
Dated(S, status, A, v) ==
    \A a \in A :
        /\ a.version <= v
        /\ a.version = v => \E t \in S : /\ t.id = a.task /\ t.role = a.role
                                         /\ status[t.id] = "completed"

\* The needs of a settled task are met by artifacts of earlier versions.
Settled(t, status, A, v) ==
    \A need \in t.needs : /\ status[need] = "completed"
                          /\ \A a \in A : a.task = need => a.version # v

Substituted(S, r) == r > 1 /\ \E t \in S : t.id[1] = 0 /\ t.role = "diagnosis"

\* What was produced once is produced by a task of the plan, or will be.
Carried(S, status, A, v, r) ==
    /\ \/ Substituted(S, r)
       \/ \A a \in A : \E t \in S : /\ t.role = a.role
                                    /\ status[t.id] = "completed" \/ Settled(t, status, A, v)
    /\ r = 0 => \A a \in A : \E t \in S : t.role = a.role /\ status[t.id] = "completed"

Signalling(a, v) ==
    a.version = v /\ "signal" \in a.flags /\ a.role \in {"resource_planning", "diagnosis"}
Quiet(A, v) == \A a \in A : ~Signalling(a, v)

\* No task has used an artifact that calls for a replan.
Unused(S, status, A, v) ==
    \A a \in A : Signalling(a, v) =>
        \A t \in S : a.task \in t.needs => status[t.id] # "completed"

MayStart(S, status, ready) ==
    \A t \in ready : /\ t \in S /\ status[t.id] = "pending"
                     /\ \A need \in t.needs : status[need] = "completed"

\* What CompletedIsCovered says of the plan that is called completed.
Complete ==
    /\ \A task \in ToSet(Tasks) : \E a \in Current : a.task = task.id /\ a.role = task.role
    /\ misled \/ StandIn \/
          /\ \A role \in RequiredRoles : \E a \in Current : a.role = role
          /\ \A criterion \in Criteria : Covered(criterion, Current)

\* The plan while it is executed, whatever the node.
Standing ==
    /\ values.plan.version >= 1
    /\ WellFormed(Tasks) /\ values.status \in [Ids(Tasks) -> Standings]
    /\ Owned(ToSet(Tasks), Ids(Tasks), values.status, searched, values.replans, misled)
    /\ values.plan.version = 1 => Drafted(Ids(Tasks), searched)
    /\ Kept(ToSet(Tasks), values.status, ToSet(values.artifacts))
    /\ Dated(ToSet(Tasks), values.status, ToSet(values.artifacts), values.plan.version)
    /\ misled \/ Carried(ToSet(Tasks), values.status, ToSet(values.artifacts),
                         values.plan.version, values.replans)

\* A trigger that an earlier run left waits for the first replan.
Leftover ==
    values.trigger = <<>> \/ (values.plan.version = 1 /\ values.replans = 0 /\ ~misled)

\* Why the plan is at its node.
Placed ==
    /\ node = "supervise" /\ MayReplan =>
           Unused(ToSet(Tasks), values.status, ToSet(values.artifacts), values.plan.version)
    /\ node = "execute_batch" =>
           /\ MayReplan => Quiet(ToSet(values.artifacts), values.plan.version)
           /\ MayStart(ToSet(Tasks), values.status, ToSet(values.ready))
    /\ node \in {"execute_batch", "human"} => Having("failed") = {}
    /\ node = "replan" =>
           /\ MayReplan /\ values.failed = Having("failed")
           /\ Unused(ToSet(Tasks), values.status, ToSet(values.artifacts), values.plan.version)
           /\ values.failed = {} =>
                  \E a \in ToSet(values.artifacts) :
                      Signalling(a, values.plan.version) /\ values.trigger = <<a>>
    /\ node # "replan" \/ values.failed # {} => Leftover
    /\ node # "finalize" =>
           Fresh(Ids(Tasks), values.status, searched, values.replans, values.human)
    /\ node = "finalize" /\ values.action = "complete" => Complete

\* What PatchIsValid allows.
Refusable ==
    \/ values.trigger = <<>> /\ Recovery \in Ids(Tasks)
    \/ Stale /\ Signalled = {} /\ Len(Tasks) = MaxTasks /\ values.plan.version = 1
    \/ /\ misled /\ values.replans = 2
       /\ values.trigger # <<>> /\ Head(values.trigger).task = Recovery

PlanningInv ==
    /\ values \in Values /\ stored \in [Threads -> Nat] /\ searched \subseteq Names
    /\ node \in {"end", "plan"} \cup Middle /\ live \in BOOLEAN /\ misled \in BOOLEAN
    /\ node = "plan" => searched = {} /\ values.artifacts = <<>> /\ values.replans = 0
    /\ cause = "patch" => ~live /\ node = "replan" /\ Refusable
    /\ node \in Middle => Standing /\ Placed
    /\ node = "end" /\ values.final = "completed" => Complete

-------------------------------------------------------------------------------
(* Tasks *)

\* A valid list of tasks, as a set.
LEMMA SoundTasks ==
  ASSUME NEW tasks, WellFormed(tasks)
  PROVE  /\ ToSet(tasks) \subseteq Task /\ ToSet(tasks) # {} /\ Ids(tasks) \subseteq Names
         /\ \A x, y \in ToSet(tasks) : x.id = y.id => x = y
         /\ \A t \in ToSet(tasks) : /\ t.id \in Ids(tasks) /\ t.needs \subseteq Ids(tasks)
                                    /\ TaskOf(tasks, t.id) = t
         /\ \A id \in Ids(tasks) : TaskOf(tasks, id) \in ToSet(tasks) /\ TaskOf(tasks, id).id = id
<1>1. tasks \in Seq(Task) /\ Valid(tasks)
  BY DEF WellFormed
<1>2. ToSet(tasks) \subseteq Task /\ ToSet(tasks) # {}
  <2>1. tasks # <<>>
    BY <1>1 DEF Valid
  <2>2. 1 \in DOMAIN tasks /\ \A i \in DOMAIN tasks : tasks[i] \in Task
    BY <1>1, <2>1
  <2> QED BY <2>2 DEF ToSet
<1>3. ASSUME NEW x \in ToSet(tasks), NEW y \in ToSet(tasks), x.id = y.id PROVE x = y
  BY <1>1, <1>3 DEF ToSet, Valid, Unique
<1>4. \A t \in ToSet(tasks) : t.id \in Ids(tasks) /\ t.needs \subseteq Ids(tasks)
  BY <1>1 DEF Valid, Dangling, Ids
<1>5. Ids(tasks) \subseteq Names
  BY <1>2 DEF Ids, Task
<1>6. ASSUME NEW id \in Ids(tasks)
      PROVE  TaskOf(tasks, id) \in ToSet(tasks) /\ TaskOf(tasks, id).id = id
  BY DEF Ids, TaskOf
<1>7. \A t \in ToSet(tasks) : TaskOf(tasks, t.id) = t
  BY <1>3, <1>4, <1>6
<1> QED BY <1>2, <1>3, <1>4, <1>5, <1>6, <1>7

\* The tasks of a draft that is accepted.
LEMMA DraftIsSound ==
  ASSUME PlanningAssumption, NEW first \in Drafts, NEW repaired \in Drafts,
         NEW tasks, tasks = Planned(first, repaired), tasks # <<>>
  PROVE  /\ Valid(tasks) => WellFormed(tasks)
         /\ \A x \in Ids(tasks) : x[1] >= 1 /\ x[2] = 0
<1>1. PICK last \in Drafts : /\ tasks = Normalized(last)
                             /\ ~Repairable(last) /\ ~Dangling(last)
  BY DEF Planned
<1>2. last \in Seq([id : Names, role : STRING, needs : SUBSET Names])
  BY DEF PlanningAssumption, Names
<1>3. \A i \in DOMAIN last : last[i].role \in Roles
  BY <1>1, <1>2 DEF Repairable, ToSet
<1> DEFINE New(id) == <<CHOOSE i \in DOMAIN last : last[i].id = id, 0>>
           Needs(i) == {New(id) : id \in last[i].needs}
<1>4. tasks = [i \in DOMAIN last |-> [id |-> <<i, 0>>, role |-> last[i].role, needs |-> Needs(i)]]
  BY <1>1 DEF Normalized
<1> HIDE DEF New, Needs
<1>5. DOMAIN tasks = 1 .. Len(last) /\ Len(last) \in Nat /\ DOMAIN last = 1 .. Len(last)
  BY <1>2, <1>4
<1>6. \A i \in 1 .. Len(last) :
          tasks[i] = [id |-> <<i, 0>>, role |-> last[i].role, needs |-> Needs(i)]
  BY <1>4, <1>5
<1>7. \A t \in ToSet(tasks) : \E i \in 1 .. Len(last) : t = tasks[i] /\ t.id = <<i, 0>>
  BY <1>5, <1>6 DEF ToSet
<1>8. \A x \in Ids(tasks) : \E i \in 1 .. Len(last) : x = <<i, 0>>
  BY <1>7 DEF Ids
<1>9. ASSUME Valid(tasks) PROVE WellFormed(tasks)
  <2>1. ASSUME NEW i \in 1 .. Len(last) PROVE tasks[i] \in Task
    <3> DEFINE needs == Needs(i)
    <3>1. tasks[i] = [id |-> <<i, 0>>, role |-> last[i].role, needs |-> needs]
      BY <1>6
    <3> HIDE DEF needs
    <3>2. needs \subseteq Ids(tasks)
      <4>1. tasks[i] \in ToSet(tasks)
        BY <1>5 DEF ToSet
      <4>2. tasks[i].needs \subseteq Ids(tasks)
        BY <1>9, <4>1 DEF Valid, Dangling
      <4> QED BY <4>2, <3>1
    <3>3. Ids(tasks) \subseteq Names
      BY <1>5, <1>8 DEF Names
    <3>4. <<i, 0>> \in Names /\ last[i].role \in Roles
      BY <1>3, <1>5 DEF Names
    <3> QED BY <3>1, <3>2, <3>3, <3>4 DEF Task
  <2>2. tasks \in Seq(Task)
    <3>1. tasks = [i \in 1 .. Len(last) |-> tasks[i]]
      BY <1>4, <1>5
    <3> QED BY <2>1, <3>1, <1>5
  <2>3. \A t \in ToSet(tasks) : t.id[1] # 0
    BY <1>7
  <2> QED BY <2>2, <2>3, <1>9 DEF WellFormed
<1> QED BY <1>8, <1>9

-------------------------------------------------------------------------------
(* Patches *)

Closed(S, ids) == \A t \in S : t.needs \cap ids # {} => t.id \in ids

\* _downstream_closure is closed, the least closed set around the ids, and holds no other
\* task than theirs that does not need one in it.
LEMMA ClosureIsLeast ==
  ASSUME NEW tasks, WellFormed(tasks), NEW ids \in SUBSET Ids(tasks)
  PROVE  /\ ids \subseteq Closure(tasks, ids) /\ Closure(tasks, ids) \subseteq Ids(tasks)
         /\ Closed(ToSet(tasks), Closure(tasks, ids))
         /\ \A C \in SUBSET Ids(tasks) :
                ids \subseteq C /\ Closed(ToSet(tasks), C) => Closure(tasks, ids) \subseteq C
         /\ \A t \in ToSet(tasks) : t.id \in Closure(tasks, ids) \ ids =>
                                        t.needs \cap Closure(tasks, ids) # {}
<1> DEFINE S == ToSet(tasks)
           closure == Closure(tasks, ids)
<1>1. closure = {id \in Ids(tasks) :
                    \A C \in SUBSET Ids(tasks) : ids \subseteq C /\ Closed(S, C) => id \in C}
  BY DEF Closure, Closed
<1>2. \A x, y \in S : x.id = y.id => x = y
  BY SoundTasks
<1>3. \A t \in S : t.id \in Ids(tasks)
  BY SoundTasks
<1> HIDE DEF S, closure
<1>4. ids \subseteq closure /\ closure \subseteq Ids(tasks)
  BY <1>1
<1>5. Closed(S, closure)
  <2> SUFFICES ASSUME NEW t \in S, NEW need \in t.needs \cap closure PROVE t.id \in closure
    BY DEF Closed
  <2>1. ASSUME NEW C \in SUBSET Ids(tasks), ids \subseteq C, Closed(S, C) PROVE t.id \in C
    <3>1. need \in C
      BY <1>1, <2>1
    <3> QED BY <2>1, <3>1 DEF Closed
  <2> QED BY <1>1, <1>3, <2>1
<1>6. \A C \in SUBSET Ids(tasks) : ids \subseteq C /\ Closed(S, C) => closure \subseteq C
  BY <1>1
<1>7. ASSUME NEW t \in S, t.id \in closure \ ids, t.needs \cap closure = {} PROVE FALSE
  <2> DEFINE C == closure \ {t.id}
  <2>1. Closed(S, C)
    <3> SUFFICES ASSUME NEW u \in S, u.needs \cap C # {} PROVE u.id \in C
      BY DEF Closed
    <3>1. u.id \in closure
      BY <1>5 DEF Closed
    <3>2. u # t
      BY <1>7
    <3> QED BY <3>1, <3>2, <1>2
  <2>2. ids \subseteq C /\ C \in SUBSET Ids(tasks) /\ t.id \notin C
    BY <1>4, <1>7
  <2> HIDE DEF C
  <2> QED BY <2>1, <2>2, <1>6, <1>7
<1> QED BY <1>4, <1>5, <1>6, <1>7 DEF S, closure

With(S, cancelled, added) == {t \in S : t.id \notin cancelled} \cup {added}
Patch(tasks, cancelled, added) ==
    Append(Only(tasks, {t \in ToSet(tasks) : t.id \notin cancelled}), added)

\* A patched plan: what is left of the tasks, and the added one.
LEMMA PatchedTasks ==
  ASSUME NEW tasks, WellFormed(tasks), NEW cancelled, NEW added \in Task
  PROVE  /\ Patch(tasks, cancelled, added) \in Seq(Task)
         /\ ToSet(Patch(tasks, cancelled, added)) = With(ToSet(tasks), cancelled, added)
         /\ Ids(Patch(tasks, cancelled, added)) = (Ids(tasks) \ cancelled) \cup {added.id}
<1> DEFINE good == {t \in ToSet(tasks) : t.id \notin cancelled}
           kept == Only(tasks, good)
           patched == Patch(tasks, cancelled, added)
<1>1. tasks \in Seq(Task)
  BY DEF WellFormed
<1>2. kept \in Seq(Task) /\ ToSet(kept) = ToSet(tasks) \cap good
  BY <1>1, OnlyElements
<1>3. ToSet(tasks) \cap good = good
  OBVIOUS
<1>4. patched = Append(kept, added)
  BY DEF Patch
<1> HIDE DEF kept, patched
<1>5. /\ patched \in Seq(Task)
      /\ ToSet(patched) = ToSet(kept) \cup {added}
  <2>1. kept \in Seq(Task)
    BY <1>2
  <2>2. /\ Append(kept, added) \in Seq(Task)
        /\ ToSet(Append(kept, added)) = ToSet(kept) \cup {added}
    BY <2>1, AppendElements
  <2> QED BY <1>4, <2>2
<1>6. ToSet(patched) = With(ToSet(tasks), cancelled, added)
  BY <1>2, <1>3, <1>5 DEF With
<1>7. Ids(patched) = (Ids(tasks) \ cancelled) \cup {added.id}
  BY <1>6 DEF Ids, With
<1> QED BY <1>5, <1>6, <1>7 DEF patched

LEMMA OnlyUnique ==
  ASSUME NEW tasks \in Seq(Task), Unique(tasks), NEW good
  PROVE  Unique(Only(tasks, good))
<1> DEFINE kept == Only(tasks, good)
<1>1. /\ kept \in Seq(Task \cap good)
      /\ \E h \in [1 .. Len(kept) -> 1 .. Len(tasks)] :
             Selects(h, tasks, good, Len(tasks), kept)
  BY OnlySelects
<1> HIDE DEF kept
<1>2. PICK h \in [1 .. Len(kept) -> 1 .. Len(tasks)] : Selects(h, tasks, good, Len(tasks), kept)
  BY <1>1
<1>3. DOMAIN kept = 1 .. Len(kept) /\ Len(kept) \in Nat /\ DOMAIN tasks = 1 .. Len(tasks)
  BY <1>1
<1>4. ASSUME NEW k \in 1 .. Len(kept), NEW l \in 1 .. Len(kept), kept[k].id = kept[l].id
      PROVE  k = l
  <2>1. h[k] = h[l] /\ h[k] \in Int
    BY <1>2, <1>3, <1>4 DEF Selects, Unique
  <2> QED BY <2>1, <1>2, <1>3 DEF Selects
<1> QED BY <1>3, <1>4 DEF Unique, kept

\* A patch that makes or finds room, cancels what depends on what it cancels, and adds a
\* task with a name of its own that needs only what is left, passes the validator.
LEMMA PatchPasses ==
  ASSUME NEW tasks, WellFormed(tasks), MaxTasks \in Nat,
         NEW cancelled \in SUBSET Ids(tasks), cancelled # {} \/ Len(tasks) < MaxTasks,
         Closed(ToSet(tasks), cancelled),
         NEW added \in Task, added.id \notin Ids(tasks) \ cancelled,
         added.needs \subseteq Ids(tasks) \ cancelled
  PROVE  Valid(Patch(tasks, cancelled, added))
<1> DEFINE S == ToSet(tasks)
           kept == Only(tasks, {t \in S : t.id \notin cancelled})
           patched == Patch(tasks, cancelled, added)
<1>1. /\ patched \in Seq(Task) /\ ToSet(patched) = With(S, cancelled, added)
      /\ Ids(patched) = (Ids(tasks) \ cancelled) \cup {added.id}
  BY PatchedTasks
<1>2. /\ \A x, y \in S : x.id = y.id => x = y
      /\ \A t \in S : t.id \in Ids(tasks) /\ t.needs \subseteq Ids(tasks) /\ TaskOf(tasks, t.id) = t
      /\ \A id \in Ids(tasks) : TaskOf(tasks, id) \in S /\ TaskOf(tasks, id).id = id
  BY SoundTasks
<1>3. tasks \in Seq(Task) /\ Valid(tasks)
  BY DEF WellFormed
<1>4. patched = Append(kept, added)
  BY DEF Patch
<1>5. Len(kept) \in Nat /\ Len(kept) < MaxTasks
  <2> DEFINE good == {t \in S : t.id \notin cancelled}
  <2>1. cancelled # {} => \E t \in ToSet(tasks) : t \notin good
    BY <1>2
  <2>2. /\ Len(tasks) \in Nat /\ Len(tasks) <= MaxTasks
    BY <1>3 DEF Valid
  <2> HIDE DEF good
  <2>3. Len(Only(tasks, good)) \in Nat /\ Len(Only(tasks, good)) <= Len(tasks)
    BY <1>3, OnlyLength
  <2>4. cancelled # {} => Len(Only(tasks, good)) < Len(tasks)
    BY <2>1, <1>3, OnlyLength
  <2> QED BY <2>2, <2>3, <2>4 DEF good
<1> HIDE DEF kept, S, patched
<1>6. patched # <<>> /\ Len(patched) <= MaxTasks
  <2>2. kept \in Seq(Task)
    BY <1>3, OnlyElements DEF kept
  <2>3. Len(patched) = Len(kept) + 1
    BY <2>2, <1>4
  <2>4. patched # <<>>
    BY <2>3, <1>5
  <2> QED BY <2>3, <2>4, <1>5
<1>7. Unique(patched)
  <2>1. Unique(kept) /\ kept \in Seq(Task)
    BY <1>3, OnlyUnique, OnlyElements DEF Valid, kept
  <2>2. /\ patched[Len(kept) + 1] = added /\ Len(kept) \in Nat
        /\ \A i \in 1 .. Len(kept) : patched[i] = kept[i]
    <3>1. /\ Append(kept, added)[Len(kept) + 1] = added
          /\ \A i \in 1 .. Len(kept) : Append(kept, added)[i] = kept[i]
      BY <2>1, AppendElements
    <3> QED BY <3>1, <1>4, <1>5
  <2>3. \A i \in 1 .. Len(kept) : patched[i].id # added.id
    <3>1. ToSet(kept) = ToSet(tasks) \cap {t \in S : t.id \notin cancelled}
      BY <1>3, OnlyElements DEF kept
    <3>2. \A i \in 1 .. Len(kept) : kept[i] \in ToSet(kept)
      BY <2>1 DEF ToSet
    <3> QED BY <3>1, <3>2, <2>2, <1>2 DEF S
  <2>4. DOMAIN patched = 1 .. Len(kept) + 1 /\ DOMAIN kept = 1 .. Len(kept)
    BY <1>1, <1>4, <2>1
  <2>5. ASSUME NEW i \in 1 .. Len(kept) + 1, NEW j \in 1 .. Len(kept) + 1,
               patched[i].id = patched[j].id
        PROVE  i = j
    BY <2>1, <2>2, <2>3, <2>4, <2>5 DEF Unique
  <2> QED BY <2>4, <2>5 DEF Unique
<1>8. ~Dangling(patched)
  <2>1. \A t \in With(S, cancelled, added) : t.needs \subseteq (Ids(tasks) \ cancelled)
    BY <1>2 DEF With, Closed, S
  <2> QED BY <2>1, <1>1 DEF Dangling
<1>9. ASSUME NEW cycle \in (SUBSET Ids(patched)) \ {{}},
             \A id \in cycle : TaskOf(patched, id).needs \cap cycle # {}
      PROVE  FALSE
  <2>1. \A x, y \in With(S, cancelled, added) : x.id = y.id => x = y
    BY <1>2 DEF With
  <2>2. \A id \in Ids(patched) :
            TaskOf(patched, id) \in With(S, cancelled, added) /\ TaskOf(patched, id).id = id
    BY <1>1 DEF TaskOf, Ids
  <2>3. \A id \in Ids(tasks) \ cancelled : TaskOf(patched, id) = TaskOf(tasks, id)
    BY <1>1, <1>2, <2>1, <2>2 DEF With
  <2>4. \A id \in Ids(patched) : TaskOf(patched, id).needs \subseteq Ids(tasks) \ cancelled
    BY <1>2, <2>2 DEF With, Closed, S
  <2> DEFINE rest == cycle \ {added.id}
  <2>5. rest \subseteq Ids(tasks) \ cancelled /\ cycle \subseteq Ids(patched) /\ cycle # {}
    BY <1>1
  <2>6. \A id \in cycle : TaskOf(patched, id).needs \cap rest # {}
    <3> SUFFICES ASSUME NEW id \in cycle PROVE TaskOf(patched, id).needs \cap rest # {}
      OBVIOUS
    <3>1. PICK need \in cycle : need \in TaskOf(patched, id).needs
      BY <1>9
    <3>2. need \in Ids(tasks) \ cancelled
      BY <3>1, <2>4, <2>5
    <3>3. need # added.id
      BY <3>2
    <3> QED BY <3>1, <3>3
  <2>7. rest # {}
    BY <2>5, <2>6
  <2>8. \A id \in rest : TaskOf(tasks, id).needs \cap rest # {}
    BY <2>3, <2>5, <2>6
  <2> HIDE DEF rest
  <2> QED BY <2>5, <2>7, <2>8, <1>3 DEF Valid, Cyclic
<1> QED BY <1>6, <1>7, <1>8, <1>9 DEF Valid, Cyclic, patched

\* The names after a replan that leaves some of them and adds y.
Renewed(ids, past, r, left, y, all, q) ==
    /\ ids \in SUBSET Names /\ past \in SUBSET Names /\ r \in 0 .. 2
    /\ left \in SUBSET ids /\ all = left \cup {y} /\ q = r + 1

\* What repeats a task has a new name, and the names stay in order.
LEMMA OwnRevised ==
  ASSUME NEW ids, NEW past, NEW r, NEW x \in ids, NEW left, x \notin left, NEW all, NEW q,
         Renewed(ids, past, r, left, Revised(x), all, q), Own(ids, past, r)
  PROVE  /\ Revised(x) \notin ids \cup past /\ Revised(x) \in Names /\ Revised(x)[1] = x[1]
         /\ Own(all, past, q)
<1> USE DEF Renewed
<1> DEFINE y == Revised(x)
<1>1. x \in Names /\ y = <<x[1], x[2] + 1>> /\ y \in Names
  BY DEF Names, Revised
<1>2. \A z \in ids \cup past : z \in Nat \X Nat /\ z[1] \in Nat /\ z[2] \in Nat
  BY DEF Names
<1> HIDE DEF y
<1>3. x[1] \in Nat /\ x[2] \in Nat /\ y[1] = x[1] /\ y[2] = x[2] + 1
  BY <1>1 DEF Names
<1>4. x[1] >= 1 => y \notin ids \cup past
  BY <1>3 DEF Own
<1>5. ASSUME x[1] = 0, y \in ids \cup past PROVE FALSE
  <2>1. r >= x[2] + 2
    BY <1>3, <1>5 DEF Own
  <2>2. x[2] = 0
    BY <2>1, <1>3
  <2>3. x = Recovery
    BY <1>1, <1>5, <2>2 DEF Recovery, Names
  <2>4. y[1] = 0 /\ y[2] >= 1
    BY <1>3, <1>5
  <2> QED BY <2>3, <2>4, <1>5 DEF Own
<1>6. y \notin ids \cup past
  BY <1>3, <1>4, <1>5
<1>7. y # Recovery
  BY <1>3 DEF Recovery
<1>8. ASSUME Recovery \in left, NEW z \in left \cup {y} \cup past, z[1] = 0, z[2] >= 1
      PROVE  FALSE
  <2>1. CASE z \in ids \cup past
    BY <2>1, <1>8 DEF Own
  <2>2. CASE z = y
    <3>1. x[1] = 0 /\ x # Recovery
      BY <2>2, <1>3, <1>8
    <3>2. x[2] # 0
      BY <3>1, <1>1 DEF Recovery, Names
    <3> QED BY <3>1, <3>2, <1>3, <1>8 DEF Own
  <2> QED BY <2>1, <2>2
<1>9. Own(left \cup {y}, past, r + 1)
  <2>1. \A u, w \in left \cup {y} : u[1] = w[1] /\ u[1] >= 1 => u = w
    BY <1>3 DEF Own
  <2>2. \A s \in past, u \in left \cup {y} : s[1] = u[1] /\ u[1] >= 1 => s[2] <= u[2]
    BY <1>2, <1>3 DEF Own
  <2>3. \A u \in left \cup {y} \cup past : u[1] = 0 => r + 1 >= u[2] + 1
    BY <1>2, <1>3 DEF Own
  <2>4. Recovery \in past \ (left \cup {y}) => r + 1 >= 2
    <3>1. CASE Recovery \in ids
      <4>1. Recovery[1] = 0 /\ Recovery[2] = 0
        BY DEF Recovery
      <4> QED BY <3>1, <4>1 DEF Own
    <3>2. CASE Recovery \notin ids
      BY <3>2 DEF Own
    <3> QED BY <3>1, <3>2
  <2> QED BY <2>1, <2>2, <2>3, <2>4, <1>7, <1>8 DEF Own
<1> QED BY <1>1, <1>3, <1>6, <1>9 DEF y

\* The same of a recovery, whose name may be taken in the third replan.
LEMMA OwnRecovery ==
  ASSUME NEW ids, NEW past, NEW r, NEW left, NEW all, NEW q,
         Renewed(ids, past, r, left, Recovery, all, q), Own(ids, past, r)
  PROVE  /\ Recovery \in past => Recovery \in ids \/ r + 1 > 2
         /\ Own(all, past, q)
<1> USE DEF Renewed
<1>1. Recovery[1] = 0 /\ Recovery[2] = 0
  BY DEF Recovery
<1>2. \A z \in ids \cup past : z[1] \in Nat /\ z[2] \in Nat
  BY DEF Names
<1>3. Recovery \in past => Recovery \in ids \/ r + 1 > 2
  BY DEF Own
<1>4. \A u, w \in left \cup {Recovery} : u[1] = w[1] /\ u[1] >= 1 => u = w
  BY <1>1 DEF Own
<1>5. \A s \in past, u \in left \cup {Recovery} : s[1] = u[1] /\ u[1] >= 1 => s[2] <= u[2]
  BY <1>1 DEF Own
<1>6. \A u \in left \cup {Recovery} \cup past : u[1] = 0 => r + 1 >= u[2] + 1
  BY <1>1, <1>2 DEF Own
<1>7. ASSUME NEW u \in left \cup {Recovery} \cup past, u[1] = 0, u[2] >= 1 PROVE r + 1 >= 3
  BY <1>1, <1>2, <1>7 DEF Own
<1> QED BY <1>3, <1>4, <1>5, <1>6, <1>7 DEF Own

\* Nothing failed, and x is repeated.
Repeats(S, ids, f, past, r, astray, x, left, all, q) ==
    /\ Renewed(ids, past, r, left, Revised(x), all, q) /\ x \in ids /\ x \notin left
    /\ astray \in BOOLEAN /\ Owned(S, ids, f, past, r, astray) /\ \A z \in ids : f[z] # "failed"

\* Both when a signal of an earlier plan may have added a name: only a recovery's repetition
\* can meet that one.
LEMMA OwnedRevised ==
  ASSUME NEW S, NEW ids, NEW f, NEW past, NEW r, NEW astray, NEW x, NEW left, NEW all, NEW q,
         Repeats(S, ids, f, past, r, astray, x, left, all, q)
  PROVE  /\ Revised(x) \in Names /\ Revised(x)[1] = x[1]
         /\ Revised(x) \in ids \cup past =>
                /\ astray = TRUE /\ r = 2 /\ x = Recovery /\ Revised(x) \in ids
                /\ \A t \in S : t.id = Revised(x) => t.needs = {}
         /\ q > 2 \/ Own(all, past, q)
<1> USE DEF Repeats
<1>1. r \in 0 .. 2 /\ q = r + 1 /\ ids \subseteq Names /\ past \subseteq Names
  BY DEF Renewed
<1>2. x \in Names /\ Revised(x) = <<x[1], x[2] + 1>> /\ x[1] \in Nat /\ x[2] \in Nat
  BY <1>1 DEF Names, Revised
<1>3. Revised(x) \in Names /\ Revised(x)[1] = x[1] /\ Revised(x)[2] # 0
  BY <1>2 DEF Names
<1>4. CASE Own(ids, past, r)
  <2>1. Revised(x) \notin ids \cup past /\ Own(all, past, q)
    BY <1>4, OwnRevised
  <2> QED BY <2>1, <1>3 DEF Owned
<1>5. CASE astray /\ \E y \in Names : Strange(y, S, ids, f, past, r)
  <2>1. PICK y \in Names : Strange(y, S, ids, f, past, r)
    BY <1>5
  <2>2. r = 2
    <3>1. r # 1
      BY <2>1 DEF Strange
    <3> QED BY <3>1, <2>1 DEF Strange
  <2>3. q > 2
    BY <2>2, <1>1
  <2>4. ASSUME Revised(x) \in ids \cup past PROVE Revised(x) = y /\ x = Recovery /\ y \in ids
    <3>1. Revised(x) = y
      BY <2>1, <2>4, <1>3 DEF Strange
    <3> QED BY <3>1, <2>1, <2>4 DEF Strange
  <2>5. \A t \in S : t.id = y => t.needs = {}
    BY <2>1 DEF Strange
  <2> QED BY <1>3, <1>5, <2>2, <2>3, <2>4, <2>5
<1>6. Own(ids, past, r) \/ (astray /\ \E y \in Names : Strange(y, S, ids, f, past, r))
  BY <1>1 DEF Owned
<1> QED BY <1>4, <1>5, <1>6

LEMMA OwnedRecovery ==
  ASSUME NEW S, NEW ids, NEW past, NEW r, NEW left, NEW all, NEW q,
         Renewed(ids, past, r, left, Recovery, all, q),
         NEW f, NEW astray \in BOOLEAN, Owned(S, ids, f, past, r, astray),
         NEW T, NEW g, \A t \in T : t \in S \/ t.needs = {}
  PROVE  /\ Recovery \in past => Recovery \in ids \/ r + 1 > 2
         /\ Owned(T, all, g, past, q, astray)
<1>1. r \in 0 .. 2 /\ q = r + 1 /\ left \subseteq ids /\ all = left \cup {Recovery}
  BY DEF Renewed
<1>2. CASE Own(ids, past, r)
  BY <1>2, OwnRecovery DEF Owned
<1>3. CASE astray /\ \E y \in Names : Strange(y, S, ids, f, past, r)
  <2>1. PICK y \in Names : Strange(y, S, ids, f, past, r)
    BY <1>3
  <2>2. CASE r = 2
    BY <2>2, <1>1 DEF Owned
  <2>3. CASE r = 1
    <3>1. Recovery[2] = 0
      BY DEF Recovery
    <3>2. Strange(y, T, all, g, past, q)
      BY <2>1, <2>3, <3>1, <1>1 DEF Strange
    <3>3. Recovery \notin past
      BY <2>1, <2>3 DEF Strange
    <3> QED BY <3>2, <3>3, <1>3, <2>1 DEF Owned
  <2> QED BY <2>1, <2>2, <2>3 DEF Strange
<1>4. Own(ids, past, r) \/ (astray /\ \E y \in Names : Strange(y, S, ids, f, past, r))
  BY <1>1 DEF Owned
<1> QED BY <1>2, <1>3, <1>4

\* A signal of an earlier plan adds a name to a draft's.
LEMMA OwnedAstray ==
  ASSUME NEW ids \in SUBSET Names, NEW past, Drafted(ids, past),
         NEW g, \E z \in ids : g[z] = "failed", NEW x \in Names, x \notin ids,
         NEW T, \A t \in T : t.id = Revised(x) => t.needs = {},
         NEW all, all = ids \cup {Revised(x)}, NEW q, q = 1, NEW astray \in BOOLEAN, astray
  PROVE  /\ Revised(x) \in Names /\ Revised(x) \notin ids \cup past
         /\ Owned(T, all, g, past, q, astray)
<1> DEFINE y == Revised(x)
<1>1. x \in Names /\ y = <<x[1], x[2] + 1>> /\ x[1] \in Nat /\ x[2] \in Nat
  BY DEF Names, Revised
<1>2. y \in Names /\ y[2] >= 1 /\ y[2] = x[2] + 1
  BY <1>1 DEF Names
<1>3. y \notin ids \cup past
  BY <1>2 DEF Drafted
<1>4. ASSUME NEW z \in ids \cup {y} \cup past, Revised(z) = y PROVE FALSE
  <2>1. z \in Names
    BY <1>2 DEF Drafted
  <2>2. Revised(z) = <<z[1], z[2] + 1>> /\ z = <<z[1], z[2]>> /\ z[1] \in Nat /\ z[2] \in Nat
    BY <2>1 DEF Names, Revised
  <2>3. z = x
    <3>1. z[1] = x[1] /\ z[2] = x[2] /\ x = <<x[1], x[2]>>
      BY <2>2, <1>1, <1>4 DEF Names
    <3> QED BY <3>1, <2>2
  <2>4. z = y
    BY <2>3 DEF Drafted
  <2>5. x[2] = x[2] + 1
    BY <2>3, <2>4, <1>2
  <2> QED BY <2>5, <1>1
<1>5. Recovery \notin ids \cup {y} \cup past
  BY <1>2 DEF Recovery, Drafted
<1>6. \A z \in ids \cup {y} \cup past : z = y \/ z[2] = 0
  BY DEF Drafted
<1> HIDE DEF y
<1>7. Strange(y, T, ids \cup {y}, g, past, 1)
  BY <1>2, <1>3, <1>4, <1>5, <1>6 DEF Strange, y
<1>8. Strange(y, T, all, g, past, q)
  BY <1>7 DEF y
<1> QED BY <1>2, <1>3, <1>8 DEF Owned, y

\* What is left keeps its standing, and the added task starts or stays unfinished.
Inheriting(S, cancelled, added, status, after) ==
    /\ \A t \in S : t.id \notin cancelled =>
           /\ after[t.id] = status[t.id]
           /\ \A need \in t.needs : after[need] = status[need]
    /\ after[added.id] # "completed"
    /\ \A need \in added.needs : after[need] = status[need]

\* The added task takes the place of those cancelled ones that had produced something or
\* would have.
Sustains(S, cancelled, added, status, A, v, r) ==
    LET T == With(S, cancelled, added)
    IN /\ Substituted(S, r) => Substituted(T, r + 1)
       /\ \A t \in S :
              /\ t.id \in cancelled
              /\ status[t.id] = "completed" \/ (r > 0 /\ Settled(t, status, A, v))
              => \/ Substituted(T, r + 1)
                 \/ /\ t.role = added.role
                    /\ \A need \in added.needs : status[need] = "completed"

\* A patch keeps what the plan rests on.
LEMMA PatchKeeps ==
  ASSUME NEW S, NEW cancelled, NEW added, NEW status, NEW after, NEW A, NEW v \in Nat,
         NEW r \in Nat, \A a \in A : a.version \in Nat,
         Inheriting(S, cancelled, added, status, after),
         Kept(S, status, A), Dated(S, status, A, v)
  PROVE  LET T == With(S, cancelled, added)
         IN /\ Kept(T, after, A) /\ Dated(T, after, A, v + 1) /\ Quiet(A, v + 1)
            /\ Carried(S, status, A, v, r) /\ Sustains(S, cancelled, added, status, A, v, r)
               => Carried(T, after, A, v + 1, r + 1)
<1> DEFINE T == With(S, cancelled, added)
<1>1. /\ \A t \in T : t = added \/ (t \in S /\ t.id \notin cancelled)
      /\ \A t \in S : t.id \notin cancelled => t \in T
      /\ added \in T
  BY DEF With
<1> HIDE DEF T
<1>2. \A a \in A : a.version <= v /\ a.version # v + 1
  BY DEF Dated
<1>3. Kept(T, after, A)
  BY <1>1 DEF Kept, Inheriting
<1>4. Dated(T, after, A, v + 1) /\ Quiet(A, v + 1)
  BY <1>2 DEF Dated, Quiet, Signalling
<1>5. ASSUME Substituted(T, r + 1) PROVE Carried(T, after, A, v + 1, r + 1)
  BY <1>5 DEF Carried
<1>6. ASSUME ~Substituted(T, r + 1), Carried(S, status, A, v, r),
             Sustains(S, cancelled, added, status, A, v, r)
      PROVE  Carried(T, after, A, v + 1, r + 1)
  <2>1. ASSUME NEW a \in A
        PROVE  \E t \in T : t.role = a.role /\ (after[t.id] = "completed" \/ Settled(t, after, A, v + 1))
    <3>1. PICK t \in S : /\ t.role = a.role
                         /\ status[t.id] = "completed" \/ (r > 0 /\ Settled(t, status, A, v))
      BY <1>6 DEF Carried, T, Sustains
    <3>2. CASE t.id \notin cancelled
      <4>1. t \in T /\ after[t.id] = status[t.id]
        BY <1>1, <3>2 DEF Inheriting
      <4>2. Settled(t, status, A, v) => Settled(t, after, A, v + 1)
        BY <1>2, <3>2 DEF Settled, Inheriting
      <4> QED BY <3>1, <4>1, <4>2
    <3>3. CASE t.id \in cancelled
      <4>1. t.role = added.role /\ \A need \in added.needs : status[need] = "completed"
        BY <3>1, <3>3, <1>6 DEF T, Sustains
      <4>2. Settled(added, after, A, v + 1)
        BY <4>1, <1>2 DEF Settled, Inheriting
      <4> QED BY <3>1, <4>1, <4>2, <1>1
    <3> QED BY <3>2, <3>3
  <2> QED BY <2>1 DEF Carried
<1> QED BY <1>3, <1>4, <1>5, <1>6 DEF T

-------------------------------------------------------------------------------
(* The two kinds of patches *)

LEMMA TriggersAreSignals ==
  ASSUME values \in Values
  PROVE  /\ Triggers \in Seq(Artifacts)
         /\ ToSet(Triggers) =
                {a \in ToSet(values.artifacts) : Signalling(a, values.plan.version)}
<1>1. values.artifacts \in Seq(Artifacts)
  BY DEF Values
<1> DEFINE Of(role) == {a \in ToSet(values.artifacts) :
                           a.version = values.plan.version /\ a.role = role /\ "signal" \in a.flags}
<1>2. ASSUME NEW role PROVE Signals(role) \in Seq(Artifacts) /\ ToSet(Signals(role)) = Of(role)
  <2>1. Signals(role) = Only(values.artifacts, Of(role))
    BY DEF Signals
  <2>2. Of(role) \subseteq ToSet(values.artifacts)
    OBVIOUS
  <2> HIDE DEF Of
  <2>3. /\ Only(values.artifacts, Of(role)) \in Seq(Artifacts)
        /\ ToSet(Only(values.artifacts, Of(role))) = ToSet(values.artifacts) \cap Of(role)
    BY <1>1, OnlyElements
  <2> QED BY <2>1, <2>2, <2>3
<1>3. /\ Signals("resource_planning") \o Signals("diagnosis") \in Seq(Artifacts)
      /\ ToSet(Signals("resource_planning") \o Signals("diagnosis")) =
             ToSet(Signals("resource_planning")) \cup ToSet(Signals("diagnosis"))
  <2> HIDE DEF Of
  <2>1. Signals("resource_planning") \in Seq(Artifacts) /\ Signals("diagnosis") \in Seq(Artifacts)
    BY <1>2
  <2> QED BY <2>1, ConcatElements
<1>4. ToSet(Triggers) = Of("resource_planning") \cup Of("diagnosis")
  BY <1>2, <1>3 DEF Triggers
<1> QED BY <1>3, <1>4 DEF Triggers, Signalling

\* A patch of the plan, by what it cancels and what it adds.
Replaces(cancelled, added) ==
    LET ids == (Ids(Tasks) \ cancelled) \cup {added.id}
        r == values.replans
    IN /\ cancelled \in SUBSET Ids(Tasks) /\ added \in Task
       /\ Patched = Patch(Tasks, cancelled, added)
       /\ cancelled # {} \/ (Stale /\ Signalled = {} /\ values.plan.version = 1)
       /\ Closed(ToSet(Tasks), cancelled)
       /\ added.needs \subseteq Ids(Tasks) \ cancelled
       /\ added.id[1] = 0 => added.needs = {}
       /\ Owned(With(ToSet(Tasks), cancelled, added), ids, Inherited(Patched), searched, r + 1,
                misled \/ Stale)
       /\ added.id \in Ids(Tasks) \ cancelled => Refusable
       /\ added.id \in cancelled => values.status[added.id] = "failed"
       /\ added.id \in searched => added.id \in Ids(Tasks) \/ (added.id = Recovery /\ r + 1 > 2)
       /\ \/ Stale
          \/ Sustains(ToSet(Tasks), cancelled, added, values.status, ToSet(values.artifacts),
                      values.plan.version, r)

\* A trigger whose task is in the plan repeats it.
LEMMA PatchedByTrigger ==
  ASSUME NEW a, values.trigger # <<>>, Head(values.trigger) = a, a.task \in Ids(Tasks)
  PROVE  LET cancelled == Closure(Tasks, {a.task})
         IN Patched = Patch(Tasks, cancelled,
                            [id |-> Revised(a.task), role |-> a.role,
                             needs |-> TaskOf(Tasks, a.task).needs \ cancelled])
<1>1. Signalled = {a.task}
  BY DEF Signalled
<1>2. UNION {TaskOf(Tasks, id).needs : id \in {a.task}} = TaskOf(Tasks, a.task).needs
  OBVIOUS
<1> QED BY <1>1, <1>2 DEF Patched, Patch, RevisedTask

\* An artifact that calls for a replan: its task is repeated.
LEMMA Revises ==
  ASSUME values \in Values, searched \in SUBSET Names, misled \in BOOLEAN, Standing,
         values.replans \in 0 .. 2, values.failed = {}, values.failed = Having("failed"),
         NEW a \in ToSet(values.artifacts), Signalling(a, values.plan.version),
         values.trigger = <<a>>,
         Unused(ToSet(Tasks), values.status, ToSet(values.artifacts), values.plan.version)
  PROVE  \E cancelled, added : Replaces(cancelled, added)
<1> DEFINE S == ToSet(Tasks)
           A == ToSet(values.artifacts)
           r == values.replans
           v == values.plan.version
           f == values.status
           x == TaskOf(Tasks, a.task)
           cancelled == Closure(Tasks, {a.task})
           added == [id |-> Revised(a.task), role |-> a.role, needs |-> x.needs \ cancelled]
           T == With(S, cancelled, added)
<1>1. /\ WellFormed(Tasks) /\ f \in [Ids(Tasks) -> Standings]
      /\ Owned(S, Ids(Tasks), f, searched, r, misled)
      /\ Kept(S, f, A) /\ Dated(S, f, A, v)
  BY DEF Standing
<1>2. /\ S \subseteq Task /\ Ids(Tasks) \subseteq Names
      /\ \A t, u \in S : t.id = u.id => t = u
      /\ \A t \in S : /\ t.id \in Ids(Tasks) /\ t.needs \subseteq Ids(Tasks)
                      /\ TaskOf(Tasks, t.id) = t
  BY <1>1, SoundTasks
<1>3. PICK t \in S : t.id = a.task /\ t.role = a.role /\ f[t.id] = "completed"
  BY <1>1 DEF Dated, Signalling
<1>4. x = t
  BY <1>2, <1>3
<1> HIDE DEF x
<1>5. x \in S /\ x.id = a.task /\ x.role = a.role /\ f[x.id] = "completed" /\ x \in Task
      /\ x.id \in Ids(Tasks) /\ x.id \in Names /\ x.needs \subseteq Ids(Tasks)
  BY <1>2, <1>3, <1>4
<1>6. values.trigger # <<>> /\ Head(values.trigger) = a /\ a.task \in Ids(Tasks)
  BY <1>5
<1>7. Patched = Patch(Tasks, cancelled, added)
  BY <1>6, PatchedByTrigger DEF x
<1> HIDE DEF added
<1>8. /\ cancelled \in SUBSET Ids(Tasks) /\ x.id \in cancelled /\ Closed(S, cancelled)
      /\ \A C \in SUBSET Ids(Tasks) : {x.id} \subseteq C /\ Closed(S, C) => cancelled \subseteq C
      /\ \A u \in S : u.id \in cancelled \ {x.id} => u.needs \cap cancelled # {}
  <2>1. {a.task} \in SUBSET Ids(Tasks)
    BY <1>5
  <2> QED BY <2>1, <1>1, <1>5, ClosureIsLeast
<1> HIDE DEF cancelled
<1>9. /\ Revised(x.id) \in Names /\ Revised(x.id)[1] = x.id[1]
      /\ Revised(x.id) \in Ids(Tasks) \cup searched =>
             /\ misled /\ r = 2 /\ x.id = Recovery /\ Revised(x.id) \in Ids(Tasks)
             /\ \A u \in S : u.id = Revised(x.id) => u.needs = {}
      /\ Owned(T, (Ids(Tasks) \ cancelled) \cup {Revised(x.id)}, Inherited(Patched), searched,
               r + 1, misled)
  <2> DEFINE ids == Ids(Tasks)
             left == ids \ cancelled
             name == x.id
             g == Inherited(Patched)
             all == left \cup {Revised(name)}
             q == r + 1
  <2>1. \A id \in ids : f[id] # "failed"
    BY <1>1 DEF Having
  <2>2. Repeats(S, ids, f, searched, r, misled, name, left, all, q)
    BY <2>1, <1>1, <1>2, <1>5, <1>8 DEF Repeats, Renewed
  <2> HIDE DEF r, ids, left, name, S, f, T, g, all, q
  <2>3. /\ Revised(name) \in Names /\ Revised(name)[1] = name[1]
        /\ Revised(name) \in ids \cup searched =>
               /\ misled = TRUE /\ r = 2 /\ name = Recovery /\ Revised(name) \in ids
               /\ \A u \in S : u.id = Revised(name) => u.needs = {}
        /\ q > 2 \/ Own(all, searched, q)
    BY <2>2, OwnedRevised
  <2>4. Owned(T, all, g, searched, q, misled)
    <3>1. q \in Int
      BY DEF q, r
    <3> QED BY <2>3, <3>1 DEF Owned
  <2> QED BY <2>3, <2>4 DEF ids, left, name, g, all, q
<1>10. /\ added.id = Revised(x.id) /\ added.role = x.role /\ added.needs = x.needs \ cancelled
       /\ added \in Task
  <2>1. x.role \in Roles /\ x.needs \ cancelled \in SUBSET Names
    BY <1>2, <1>5 DEF Task
  <2> QED BY <2>1, <1>5, <1>9 DEF Task, added
<1>11. added.id[1] = 0 => added.needs = {}
  BY <1>1, <1>5, <1>9, <1>10 DEF WellFormed
<1>12. added.needs \subseteq Ids(Tasks) \ cancelled
  BY <1>5, <1>10
<1>13. \A need \in added.needs : f[need] = "completed"
  BY <1>1, <1>5, <1>10 DEF Kept
<1>14. added \in T /\ \A u \in S : u.id \notin cancelled => u \in T
  BY DEF With
<1>15. Substituted(S, r) => Substituted(T, r + 1)
  <2> SUFFICES ASSUME Substituted(S, r) PROVE Substituted(T, r + 1)
    OBVIOUS
  <2>1. PICK u \in S : u.id[1] = 0 /\ u.role = "diagnosis" /\ r > 1
    BY DEF Substituted
  <2>2. u.needs = {}
    BY <1>1, <2>1 DEF WellFormed
  <2>3. u.id \in cancelled => u = x
    BY <1>2, <1>5, <1>8, <2>2
  <2>4. CASE u.id \in cancelled
    <3>1. added.id[1] = 0 /\ added.role = "diagnosis"
      BY <2>1, <2>3, <2>4, <1>9, <1>10
    <3> QED BY <3>1, <2>1, <1>14 DEF Substituted
  <2>5. CASE u.id \notin cancelled
    BY <2>1, <2>5, <1>14 DEF Substituted
  <2> QED BY <2>4, <2>5
\* What depends on the artifact has not been completed, and what depends on that neither.
<1>16. \A u \in S : u.id \in cancelled => u.id = x.id \/ f[u.id] # "completed"
  <2> DEFINE C == {id \in Ids(Tasks) : id = x.id \/ f[id] # "completed"}
  <2>1. Closed(S, C)
    <3> SUFFICES ASSUME NEW u \in S, NEW need \in u.needs \cap C, f[u.id] = "completed" PROVE FALSE
      BY <1>2 DEF Closed
    <3>1. need = x.id \/ f[need] # "completed"
      OBVIOUS
    <3>2. f[need] = "completed"
      BY <1>1 DEF Kept
    <3>3. a.task \in u.needs
      BY <3>1, <3>2, <1>5
    <3> QED BY <3>3 DEF Unused
  <2>2. {x.id} \subseteq C /\ C \in SUBSET Ids(Tasks)
    BY <1>5
  <2>3. cancelled \subseteq C
    <3> HIDE DEF C
    <3> QED BY <2>1, <2>2, <1>8
  <2> QED BY <2>3
<1>17. ASSUME NEW u \in S, u.id \in cancelled, u.id # x.id, Settled(u, f, A, v) PROVE FALSE
  <2>1. PICK need \in u.needs : need \in cancelled
    BY <1>8, <1>17
  <2>2. PICK w \in S : w.id = need
    BY <1>2, <2>1 DEF Ids
  <2>3. f[need] = "completed" /\ (a.task = need => a.version # v)
    BY <1>17 DEF Settled
  <2>4. need = x.id
    BY <2>1, <2>2, <2>3, <1>16
  <2> QED BY <2>3, <2>4, <1>5 DEF Signalling
<1>18. ASSUME NEW u \in S, u.id \in cancelled, f[u.id] = "completed" \/ Settled(u, f, A, v)
       PROVE  u.role = added.role
  BY <1>2, <1>5, <1>10, <1>16, <1>17, <1>18
<1>19. added.id \notin cancelled
  <2> SUFFICES ASSUME added.id \in cancelled PROVE FALSE
    OBVIOUS
  <2>1. PICK u \in S : u.id = added.id
    BY <1>8 DEF Ids
  <2>2. u.needs = {} /\ u.id # x.id
    BY <2>1, <1>1, <1>5, <1>8, <1>9, <1>10 DEF Revised, Names
  <2> QED BY <2>1, <2>2, <1>8
<1>20. added.id \in Ids(Tasks) => Refusable
  BY <1>5, <1>6, <1>9, <1>10 DEF Refusable
<1>21. Sustains(S, cancelled, added, f, A, v, r)
  BY <1>13, <1>15, <1>18 DEF Sustains
<1>22. ~Stale
  BY DEF Stale
<1>23. Replaces(cancelled, added)
  <2>1. cancelled # {} /\ (misled \/ Stale) = misled
    BY <1>8, <1>22
  <2> HIDE DEF S, A, r, v, f, T
  <2> QED BY <2>1, <1>7, <1>8, <1>9, <1>10, <1>11, <1>12, <1>19, <1>20, <1>21
       DEF Replaces, S, A, r, v, f, T
<1> QED BY <1>23

\* Tasks that failed: one recovery takes their place.
LEMMA Recovers ==
  ASSUME values \in Values, searched \in SUBSET Names, misled \in BOOLEAN, Standing,
         values.replans \in 0 .. 2, values.trigger = <<>>,
         values.failed = Having("failed"), values.failed # {}
  PROVE  \E cancelled, added : Replaces(cancelled, added)
<1> DEFINE S == ToSet(Tasks)
           A == ToSet(values.artifacts)
           r == values.replans
           v == values.plan.version
           f == values.status
           failed == values.failed
           cancelled == Closure(Tasks, failed)
           added == RecoveryTask
           T == With(S, cancelled, added)
<1>1. /\ WellFormed(Tasks) /\ f \in [Ids(Tasks) -> Standings]
      /\ Owned(S, Ids(Tasks), f, searched, r, misled) /\ Kept(S, f, A)
  BY DEF Standing
<1>2. /\ S \subseteq Task /\ Ids(Tasks) \subseteq Names
      /\ \A t \in S : /\ t.id \in Ids(Tasks) /\ t.needs \subseteq Ids(Tasks)
                      /\ TaskOf(Tasks, t.id) = t
      /\ \A id \in Ids(Tasks) : TaskOf(Tasks, id) \in S
  BY <1>1, SoundTasks
<1>3. failed \in SUBSET Ids(Tasks) /\ \A id \in failed : f[id] = "failed"
  BY <1>1 DEF Having
<1> DEFINE roles == {TaskOf(Tasks, id).role : id \in failed}
<1>4. /\ added.id = Recovery /\ added.needs = {}
      /\ added.role = IF \E role \in Roles : roles = {role}
                      THEN CHOOSE role \in Roles : roles = {role} ELSE "diagnosis"
      /\ added = [id |-> added.id, needs |-> added.needs, role |-> added.role]
  BY DEF RecoveryTask
<1>5. Patched = Patch(Tasks, cancelled, added)
  BY DEF Patched, Patch
<1> HIDE DEF added
\* The recovery has the role of what failed, or it is a diagnosis.
<1>6. /\ added.role \in Roles
      /\ \A t \in S : t.id \in failed => t.role = added.role \/ added.role = "diagnosis"
      /\ \A t \in S : t.id \in failed /\ t.role = "diagnosis" => added.role = "diagnosis"
  <2>1. \A t \in S : t.id \in failed => t.role \in roles
    BY <1>2
  <2> HIDE DEF roles
  <2>2. CASE \E role \in Roles : roles = {role}
    <3>1. added.role \in Roles /\ roles = {added.role}
      BY <2>2, <1>4
    <3> QED BY <2>1, <3>1
  <2>3. CASE ~\E role \in Roles : roles = {role}
    BY <2>3, <1>4 DEF Roles
  <2> QED BY <2>2, <2>3
<1> HIDE DEF roles
<1>7. added \in Task
  BY <1>4, <1>6 DEF Task, Names, Recovery
<1>8. /\ cancelled \in SUBSET Ids(Tasks) /\ failed \subseteq cancelled /\ Closed(S, cancelled)
      /\ \A C \in SUBSET Ids(Tasks) : failed \subseteq C /\ Closed(S, C) => cancelled \subseteq C
      /\ \A t \in S : t.id \in cancelled \ failed => t.needs \cap cancelled # {}
  BY <1>1, <1>3, ClosureIsLeast
<1> HIDE DEF cancelled
<1>9. /\ Recovery \in searched => Recovery \in Ids(Tasks) \/ r + 1 > 2
      /\ Owned(T, (Ids(Tasks) \ cancelled) \cup {Recovery}, Inherited(Patched), searched, r + 1,
               misled)
  <2> DEFINE ids == Ids(Tasks)
             left == ids \ cancelled
             g == Inherited(Patched)
             all == left \cup {Recovery}
             q == r + 1
  <2>1. /\ Renewed(ids, searched, r, left, Recovery, all, q)
        /\ Owned(S, ids, f, searched, r, misled)
    BY <1>1, <1>2 DEF Renewed
  <2>2. \A t \in T : t \in S \/ t.needs = {}
    BY <1>4 DEF With
  <2> HIDE DEF r, ids, left, S, f, T, g, all, q
  <2>3. /\ Recovery \in searched => Recovery \in ids \/ r + 1 > 2
        /\ Owned(T, all, g, searched, q, misled)
    BY <2>1, <2>2, OwnedRecovery
  <2> QED BY <2>3 DEF ids, left, g, all, q
\* What depends on a failed task has not been completed, and what depends on that neither.
<1>10. \A t \in S : t.id \in cancelled => f[t.id] # "completed"
  <2> DEFINE C == {id \in Ids(Tasks) : f[id] # "completed"}
  <2>1. Closed(S, C)
    BY <1>1, <1>2 DEF Closed, Kept
  <2>2. failed \subseteq C /\ C \in SUBSET Ids(Tasks)
    BY <1>3
  <2>3. cancelled \subseteq C
    <3> HIDE DEF C
    <3> QED BY <2>1, <2>2, <1>8
  <2> QED BY <2>3
<1>11. ASSUME NEW t \in S, t.id \in cancelled, Settled(t, f, A, v) PROVE t.id \in failed
  <2> SUFFICES ASSUME t.id \notin failed PROVE FALSE
    OBVIOUS
  <2>1. PICK need \in t.needs : need \in cancelled
    BY <1>8, <1>11
  <2>2. PICK u \in S : u.id = need
    BY <1>8, <2>1 DEF Ids
  <2>3. f[need] = "completed"
    BY <1>11 DEF Settled
  <2> QED BY <2>1, <2>2, <2>3, <1>10
<1>12. added \in T /\ \A t \in S : t.id \notin cancelled => t \in T
  BY DEF With
<1>13. \A t \in S : t.id[1] = 0 /\ t.id \in cancelled => t.id \in failed
  <2> SUFFICES ASSUME NEW t \in S, t.id[1] = 0, t.id \in cancelled PROVE t.id \in failed
    OBVIOUS
  <2>1. t.needs = {}
    BY <1>1 DEF WellFormed
  <2> QED BY <2>1, <1>8
<1>14. r \in Nat /\ added.id[1] = 0
  BY <1>4 DEF Recovery
<1>15. Substituted(S, r) => Substituted(T, r + 1)
  <2> SUFFICES ASSUME Substituted(S, r) PROVE Substituted(T, r + 1)
    OBVIOUS
  <2>1. PICK t \in S : t.id[1] = 0 /\ t.role = "diagnosis" /\ r > 1
    BY DEF Substituted
  <2>2. CASE t.id \in cancelled
    BY <2>1, <2>2, <1>6, <1>12, <1>13, <1>14 DEF Substituted
  <2>3. CASE t.id \notin cancelled
    BY <2>1, <2>3, <1>12 DEF Substituted
  <2> QED BY <2>2, <2>3
<1>16. ASSUME NEW t \in S, t.id \in cancelled, r > 0, Settled(t, f, A, v)
       PROVE  Substituted(T, r + 1) \/ t.role = added.role
  <2>1. t.role = added.role \/ added.role = "diagnosis"
    BY <1>6, <1>11, <1>16
  <2> QED BY <2>1, <1>12, <1>14, <1>16 DEF Substituted
<1>17. Recovery \in cancelled => f[Recovery] = "failed"
  <2> SUFFICES ASSUME Recovery \in cancelled PROVE f[Recovery] = "failed"
    OBVIOUS
  <2>1. PICK t \in S : t.id = Recovery
    BY <1>8 DEF Ids
  <2> QED BY <2>1, <1>3, <1>13 DEF Recovery
<1>18. added.id \in Ids(Tasks) => Refusable
  BY <1>4 DEF Refusable
<1>19. Sustains(S, cancelled, added, f, A, v, r)
  BY <1>4, <1>10, <1>15, <1>16 DEF Sustains
<1>20. Replaces(cancelled, added)
  <2>1. cancelled # {} /\ (misled \/ Stale) = misled
    BY <1>8 DEF Stale
  <2> HIDE DEF S, A, r, v, f, T
  <2> QED BY <2>1, <1>4, <1>5, <1>7, <1>8, <1>9, <1>17, <1>18, <1>19
       DEF Replaces, S, A, r, v, f, T
<1> QED BY <1>20

\* A failure that is patched for the signal of an earlier plan: its task is repeated if this
\* plan has one of its name, and joins the others if not.
LEMMA Misleads ==
  ASSUME values \in Values, searched \in SUBSET Names, misled \in BOOLEAN, Standing,
         values.replans = 0, values.plan.version = 1, values.trigger # <<>>,
         values.failed = Having("failed"), values.failed # {}
  PROVE  \E cancelled, added : Replaces(cancelled, added)
<1> DEFINE S == ToSet(Tasks)
           f == values.status
           a == Head(values.trigger)
           ids == Ids(Tasks)
           g == Inherited(Patched)
           q == values.replans + 1
           astray == misled \/ Stale
<1>1. /\ WellFormed(Tasks) /\ f \in [ids -> Standings] /\ Owned(S, ids, f, searched, 0, misled)
      /\ Drafted(ids, searched)
  BY DEF Standing
<1>2. /\ S \subseteq Task /\ ids \subseteq Names
      /\ \A t \in S : t.id \in ids /\ t.needs \subseteq ids
      /\ \A id \in ids : TaskOf(Tasks, id) \in S
  BY <1>1, SoundTasks
<1>3. a \in Artifacts
  <2>1. values.trigger \in Seq(Artifacts)
    BY DEF Values
  <2> QED BY <2>1
<1>4. Stale /\ astray \in BOOLEAN /\ astray /\ q = 1
  BY DEF Stale
<1>5. a.task \in Names /\ a.role \in Roles
  BY <1>3 DEF Artifacts
<1>6. Own(ids, searched, 0)
  BY <1>1 DEF Owned, Strange
<1> HIDE DEF a, q, astray
<1>7. CASE a.task \in ids
  <2> DEFINE x == a.task
             needs == TaskOf(Tasks, x).needs
             cancelled == Closure(Tasks, {x})
             added == [id |-> Revised(x), role |-> a.role, needs |-> needs \ cancelled]
  <2>1. Patched = Patch(Tasks, cancelled, added)
    BY <1>7, PatchedByTrigger DEF a
  <2>2. cancelled \in SUBSET ids /\ x \in cancelled /\ Closed(S, cancelled)
    <3>1. {x} \in SUBSET Ids(Tasks)
      BY <1>7
    <3> QED BY <3>1, <1>1, ClosureIsLeast
  <2>3. needs \subseteq ids
    BY <1>2, <1>7
  <2> HIDE DEF cancelled, needs
  <2>4. /\ Revised(x) \notin ids \cup searched /\ Revised(x) \in Names /\ Revised(x)[1] = x[1]
        /\ Own((ids \ cancelled) \cup {Revised(x)}, searched, q)
    <3> DEFINE left == ids \ cancelled
               all == left \cup {Revised(x)}
               r == 0
    <3>1. /\ Renewed(ids, searched, r, left, Revised(x), all, q)
          /\ Own(ids, searched, r) /\ x \in ids /\ x \notin left
      BY <1>2, <1>4, <1>6, <1>7, <2>2 DEF Renewed
    <3> HIDE DEF left, ids, x, all, r
    <3>2. /\ Revised(x) \notin ids \cup searched /\ Revised(x) \in Names /\ Revised(x)[1] = x[1]
          /\ Own(all, searched, q)
      BY <3>1, OwnRevised
    <3> QED BY <3>2 DEF left, all
  <2>5. Owned(With(S, cancelled, added), (ids \ cancelled) \cup {Revised(x)}, g, searched, q, astray)
    BY <2>4 DEF Owned
  <2>6. added \in Task
    BY <1>2, <1>5, <2>3, <2>4 DEF Task
  <2>7. added.id = Revised(x) /\ added.needs \subseteq ids \ cancelled
    BY <2>3
  <2>8. added.id[1] # 0
    BY <1>1, <1>7, <2>4, <2>7 DEF Drafted
  <2>9. cancelled # {} /\ added.id \notin ids /\ added.id \notin searched
        /\ added.id \notin cancelled
    BY <2>2, <2>4, <2>7
  <2> HIDE DEF added, x, g, f
  <2> QED BY <1>4, <2>1, <2>2, <2>5, <2>6, <2>7, <2>8, <2>9 DEF Replaces, S, ids, g, f, q, astray
<1>8. CASE a.task \notin ids
  <2> DEFINE added == [id |-> Revised(a.task), role |-> a.role, needs |-> {}]
  <2>1. Signalled = {}
    BY <1>8 DEF Signalled, a
  <2>2. Closure(Tasks, {}) = {}
    <3>1. /\ {} \in SUBSET Ids(Tasks) /\ Closed(ToSet(Tasks), {})
      BY DEF Closed
    <3> QED BY <3>1, <1>1, ClosureIsLeast
  <2>3. Patched = Patch(Tasks, {}, added)
    BY <2>1, <2>2 DEF Patched, Patch, RevisedTask, a
  <2>4. \A t \in With(S, {}, added) : t.id = Revised(a.task) => t.needs = {}
    <3>1. Revised(a.task) \notin ids
      BY <1>1, <1>5 DEF Drafted, Revised, Names
    <3> QED BY <3>1, <1>2 DEF With
  <2>5. added \in Task
    <3>1. Revised(a.task) \in Names
      BY <1>5 DEF Revised, Names
    <3> QED BY <3>1, <1>5 DEF Task
  <2>6. \E id \in ids : f[id] = "failed"
    BY <1>1 DEF Having
  <2>7. \E id \in ids : g[id] = "failed"
    <3>1. Ids(Patch(Tasks, {}, added)) = (Ids(Tasks) \ {}) \cup {added.id}
      <4> HIDE DEF added
      <4> QED BY <1>1, <2>5, PatchedTasks
    <3> QED BY <3>1, <2>3, <2>6, <1>1 DEF Inherited
  <2>8. /\ Revised(a.task) \in Names /\ Revised(a.task) \notin ids \cup searched
        /\ Owned(With(S, {}, added), ids \cup {Revised(a.task)}, g, searched, q, astray)
    <3> DEFINE x == a.task
               T == With(S, {}, added)
               all == ids \cup {Revised(x)}
    <3>1. /\ ids \in SUBSET Names /\ x \in Names /\ x \notin ids
          /\ all = ids \cup {Revised(x)} /\ q = 1
      BY <1>2, <1>4, <1>5, <1>8
    <3>2. \A t \in T : t.id = Revised(x) => t.needs = {}
      BY <2>4
    <3> HIDE DEF x, T, ids, f, g, all
    <3>3. astray \in BOOLEAN /\ astray
      BY <1>4
    <3>4. /\ Revised(x) \in Names /\ Revised(x) \notin ids \cup searched
          /\ Owned(T, all, g, searched, q, astray)
      BY <3>1, <3>2, <3>3, <1>1, <2>7, OwnedAstray
    <3> QED BY <3>4 DEF x, T, all
  <2>9. added.id = Revised(a.task) /\ added.needs = {} /\ (ids \ {}) = ids
    OBVIOUS
  <2>10. Closed(S, {}) /\ {} \in SUBSET ids
    BY DEF Closed
  <2> HIDE DEF added, g, f
  <2>11. Replaces({}, added)
    BY <1>4, <2>1, <2>3, <2>5, <2>8, <2>9, <2>10 DEF Replaces, S, ids, g, f, q, astray
  <2> QED BY <2>11
<1> QED BY <1>7, <1>8

\* A patch with unique names adds none that it keeps.
LEMMA PatchIsUnique ==
  ASSUME NEW tasks, WellFormed(tasks), NEW cancelled, NEW added \in Task,
         Valid(Patch(tasks, cancelled, added))
  PROVE  added.id \notin Ids(tasks) \ cancelled
<1> DEFINE good == {t \in ToSet(tasks) : t.id \notin cancelled}
           kept == Only(tasks, good)
<1>1. kept \in Seq(Task) /\ ToSet(kept) = ToSet(tasks) \cap good
  <2> tasks \in Seq(Task)
    BY DEF WellFormed
  <2> HIDE DEF good
  <2> QED BY OnlyElements
<1> SUFFICES ASSUME NEW t \in ToSet(tasks), t.id = added.id, t.id \notin cancelled PROVE FALSE
  BY DEF Ids
<1>2. t \in ToSet(kept)
  BY <1>1
<1>3. Unique(Append(kept, added))
  BY DEF Valid, Patch
<1> HIDE DEF kept
<1>4. PICK i \in 1 .. Len(kept) : kept[i] = t
  BY <1>1, <1>2 DEF ToSet
<1>5. /\ Append(kept, added) \in Seq(Task) /\ Len(Append(kept, added)) = Len(kept) + 1
      /\ Append(kept, added)[Len(kept) + 1] = added /\ Append(kept, added)[i] = t
      /\ Len(kept) \in Nat
  BY <1>1, <1>4, AppendElements
<1>6. i \in DOMAIN Append(kept, added) /\ Len(kept) + 1 \in DOMAIN Append(kept, added)
  BY <1>5
<1> QED BY <1>3, <1>5, <1>6 DEF Unique

\* A replan's patch is refused only where PatchIsValid says so.
LEMMA PatchIsRefused ==
  ASSUME PlanningAssumption, Standing, NEW cancelled, NEW added, Replaces(cancelled, added),
         ~Valid(Patched)
  PROVE  Refusable
<1>1. WellFormed(Tasks) /\ MaxTasks \in Nat /\ Len(Tasks) \in Nat /\ Len(Tasks) <= MaxTasks
  BY DEF Standing, PlanningAssumption, WellFormed, Valid
<1>2. /\ cancelled \in SUBSET Ids(Tasks) /\ added \in Task
      /\ cancelled # {} \/ (Stale /\ Signalled = {} /\ values.plan.version = 1)
      /\ Closed(ToSet(Tasks), cancelled) /\ added.needs \subseteq Ids(Tasks) \ cancelled
      /\ ~Valid(Patch(Tasks, cancelled, added))
      /\ added.id \in Ids(Tasks) \ cancelled => Refusable
  BY DEF Replaces
<1>3. CASE added.id \in Ids(Tasks) \ cancelled
  BY <1>2, <1>3
<1>4. CASE added.id \notin Ids(Tasks) \ cancelled
  <2>1. ~(cancelled # {} \/ Len(Tasks) < MaxTasks)
    BY <1>1, <1>2, <1>4, PatchPasses
  <2>2. Len(Tasks) = MaxTasks /\ Stale /\ Signalled = {} /\ values.plan.version = 1
    BY <2>1, <1>1, <1>2
  <2> QED BY <2>2 DEF Refusable
<1> QED BY <1>3, <1>4

\* A patch that is applied leaves a plan that stands, with artifacts of earlier versions only.
LEMMA PatchStands ==
  ASSUME PlanningAssumption, values \in Values, searched \in SUBSET Names, Standing,
         values.replans \in 0 .. 2, misled \in BOOLEAN,
         Fresh(Ids(Tasks), values.status, searched, values.replans, values.human),
         NEW cancelled, NEW added, Replaces(cancelled, added), ApplyPatch, UNCHANGED searched
  PROVE  /\ values' \in Values /\ Standing' /\ values'.trigger = <<>> /\ misled' \in BOOLEAN
         /\ Fresh(Ids(Tasks), values.status, searched, values.replans, values.human)'
         /\ Quiet(ToSet(values.artifacts), values.plan.version)'
<1> DEFINE S == ToSet(Tasks)
           A == ToSet(values.artifacts)
           r == values.replans
           v == values.plan.version
           f == values.status
           g == Inherited(Patched)
           T == With(S, cancelled, added)
<1>1. /\ WellFormed(Tasks) /\ f \in [Ids(Tasks) -> Standings] /\ Kept(S, f, A)
      /\ Fresh(Ids(Tasks), f, searched, r, values.human)
      /\ Dated(S, f, A, v) /\ v \in Nat /\ v >= 1 /\ r \in Nat
      /\ misled \/ Carried(S, f, A, v, r)
      /\ \A a \in A : a.version \in Nat
  <2>1. values.artifacts \in Seq(Artifacts) /\ v \in Nat
    BY DEF Values
  <2>2. A \subseteq Artifacts
    BY <2>1, Elements
  <2>3. \A a \in A : a.version \in Nat
    BY <2>2 DEF Artifacts
  <2> QED BY <2>1, <2>3 DEF Standing
<1>2. /\ cancelled \in SUBSET Ids(Tasks) /\ added \in Task /\ Closed(S, cancelled)
      /\ Patched = Patch(Tasks, cancelled, added)
      /\ added.needs \subseteq Ids(Tasks) \ cancelled
      /\ added.id[1] = 0 => added.needs = {}
      /\ Owned(T, (Ids(Tasks) \ cancelled) \cup {added.id}, g, searched, r + 1, misled \/ Stale)
      /\ added.id \in cancelled => f[added.id] = "failed"
      /\ added.id \in searched => added.id \in Ids(Tasks) \/ (added.id = Recovery /\ r + 1 > 2)
      /\ Stale \/ Sustains(S, cancelled, added, f, A, v, r)
  BY DEF Replaces
<1>3. Valid(Patched)
  BY DEF ApplyPatch
<1>4. /\ Patched \in Seq(Task) /\ ToSet(Patched) = T
      /\ Ids(Patched) = (Ids(Tasks) \ cancelled) \cup {added.id}
      /\ added.id \notin Ids(Tasks) \ cancelled
  BY <1>1, <1>2, <1>3, PatchedTasks, PatchIsUnique
<1>5. /\ \A t \in S : t.id \in Ids(Tasks) /\ t.needs \subseteq Ids(Tasks)
      /\ Ids(Tasks) \subseteq Names
  BY <1>1, SoundTasks
<1>6. /\ values'.plan.tasks = Patched /\ values'.plan.version = v + 1 /\ values'.status = g
      /\ values'.replans = r + 1 /\ values'.trigger = <<>> /\ values'.artifacts = values.artifacts
      /\ values'.human = values.human /\ misled' = (misled \/ Stale)
      /\ values' = [values EXCEPT !.plan = [tasks |-> Patched, version |-> v + 1],
                                  !.status = g, !.replans = r + 1, !.trigger = <<>>]
  BY DEF ApplyPatch, Values
<1>7. \A id \in Ids(Patched) : g[id] = IF id \in Ids(Tasks) THEN f[id] ELSE "pending"
  BY <1>1 DEF Inherited
<1>8. g \in [Ids(Patched) -> Standings]
  BY <1>1 DEF Inherited, Standings
<1> HIDE DEF S, A, r, v, f, g, T
<1>9. Inheriting(S, cancelled, added, f, g)
  <2>1. ASSUME NEW t \in S, t.id \notin cancelled
        PROVE  g[t.id] = f[t.id] /\ \A need \in t.needs : g[need] = f[need]
    <3>1. t.needs \cap cancelled = {}
      BY <1>2, <2>1 DEF Closed
    <3> QED BY <3>1, <1>4, <1>5, <1>7, <2>1
  <2>2. g[added.id] # "completed"
    BY <1>2, <1>4, <1>7
  <2>3. \A need \in added.needs : g[need] = f[need]
    BY <1>2, <1>4, <1>7
  <2> QED BY <2>1, <2>2, <2>3 DEF Inheriting
<1>10. /\ Kept(T, g, A) /\ Dated(T, g, A, v + 1)
       /\ Quiet(A, v + 1)
       /\ Carried(S, f, A, v, r) /\ Sustains(S, cancelled, added, f, A, v, r)
          => Carried(T, g, A, v + 1, r + 1)
  BY <1>1, <1>9, PatchKeeps DEF T
<1>11. WellFormed(Patched)
  <2>1. \A t \in T : t = added \/ t \in S
    BY DEF With, T
  <2> QED BY <2>1, <1>1, <1>2, <1>3, <1>4 DEF WellFormed, S
<1>12. Fresh(Ids(Patched), g, searched, r + 1, values.human)
  <2> SUFFICES ASSUME values.human # "retry", NEW x \in Ids(Patched), g[x] = "pending", x \in searched
               PROVE  x = Recovery /\ r + 1 > 2
    BY DEF Fresh
  <2>1. CASE x \in Ids(Tasks)
    BY <2>1, <1>1, <1>7 DEF Fresh
  <2>2. CASE x \notin Ids(Tasks)
    BY <2>2, <1>2, <1>4
  <2> QED BY <2>1, <2>2
<1>13. Standing'
  <2>1. Tasks' = Patched
    BY <1>6 DEF Tasks
  <2>2. v + 1 >= 1 /\ v + 1 # 1
    BY <1>1
  <2>3. values'.artifacts = values.artifacts /\ searched' = searched
    BY <1>6
  <2>4. misled' \/ Carried(T, g, A, v + 1, r + 1)
    BY <1>1, <1>2, <1>6, <1>10
  <2>5. Owned(T, Ids(Patched), g, searched, r + 1, misled')
    BY <1>2, <1>4, <1>6
  <2> QED BY <2>1, <2>2, <2>3, <2>4, <2>5, <1>4, <1>6, <1>8, <1>10, <1>11 DEF Standing, A
<1>14. values' \in Values
  <2>1. /\ [tasks |-> Patched, version |-> v + 1] \in [tasks : Seq(Task), version : Nat]
        /\ g \in UNION {[ids -> Standings] : ids \in SUBSET Names}
        /\ r + 1 \in Nat /\ <<>> \in Seq(Artifacts)
    <3>1. Ids(Patched) \in SUBSET Names
      BY <1>2, <1>4, <1>5 DEF Task
    <3>2. \E ids \in SUBSET Names : g \in [ids -> Standings]
      BY <3>1, <1>8
    <3>3. [tasks |-> Patched, version |-> v + 1] \in [tasks : Seq(Task), version : Nat]
      BY <1>1, <1>4
    <3> QED BY <3>2, <3>3, <1>1
  <2> QED BY <2>1, <1>6 DEF Values
<1>15. Quiet(ToSet(values.artifacts), values.plan.version)'
  BY <1>6, <1>10 DEF A
<1>16. Fresh(Ids(Tasks), values.status, searched, values.replans, values.human)'
  <2>1. Tasks' = Patched
    BY <1>6 DEF Tasks
  <2> QED BY <2>1, <1>6, <1>12
<1>17. misled' \in BOOLEAN
  BY <1>6
<1> QED BY <1>6, <1>13, <1>14, <1>15, <1>16, <1>17

-------------------------------------------------------------------------------
(* Batches *)

\* How a batch ends for each name.
Ended(ids, f, g, ready, done) ==
    \A id \in ids : g[id] = IF id \in {t.id : t \in done} THEN "completed"
                            ELSE IF id \in {t.id : t \in ready} THEN "failed" ELSE f[id]

\* What a batch that could start hands in.
Batch(S, ids, f, g, A, more, v, ready, done) ==
    /\ \A t, u \in S : t.id = u.id => t = u
    /\ \A t \in S : t.id \in ids /\ t.needs \subseteq ids
    /\ MayStart(S, f, ready) /\ done \subseteq ready
    /\ Ended(ids, f, g, ready, done)
    /\ \A a \in more : \E t \in done : a.task = t.id /\ a.role = t.role /\ a.version = v
    /\ \A t \in done : \E a \in more : a.task = t.id /\ a.role = t.role
    /\ v \in Nat /\ Kept(S, f, A) /\ Dated(S, f, A, v)

\* Such a batch leaves the plan with artifacts that no task has used.
LEMMA BatchKeeps ==
  ASSUME NEW S, NEW ids, NEW f, NEW g, NEW A, NEW more, NEW v, NEW r, NEW ready, NEW done,
         Batch(S, ids, f, g, A, more, v, ready, done)
  PROVE  /\ Kept(S, g, A \cup more) /\ Dated(S, g, A \cup more, v)
         /\ Carried(S, f, A, v, r) => Carried(S, g, A \cup more, v, r)
         /\ Quiet(A, v) => Unused(S, g, A \cup more, v)
<1> USE DEF Batch
<1>1. \A t \in ready : /\ t \in S /\ f[t.id] = "pending"
                       /\ \A need \in t.needs : f[need] = "completed"
  BY DEF MayStart
<1>2. \A id \in ids : f[id] = "completed" => g[id] = "completed"
  <2> SUFFICES ASSUME NEW id \in ids, f[id] = "completed" PROVE g[id] = "completed"
    OBVIOUS
  <2>1. id \notin {t.id : t \in ready}
    BY <1>1
  <2> QED BY <2>1 DEF Ended
<1>3. \A t \in S : g[t.id] = "completed" => f[t.id] = "completed" \/ t \in done
  <2> SUFFICES ASSUME NEW t \in S, g[t.id] = "completed", f[t.id] # "completed" PROVE t \in done
    OBVIOUS
  <2>1. t.id \in {u.id : u \in done}
    BY DEF Ended
  <2>2. PICK u \in done : u.id = t.id
    BY <2>1
  <2> QED BY <2>2, <1>1
<1>4. \A t \in done : t \in S /\ g[t.id] = "completed" /\ f[t.id] = "pending"
  BY <1>1 DEF Ended
<1>5. Kept(S, g, A \cup more)
  <2> SUFFICES ASSUME NEW t \in S, g[t.id] = "completed"
               PROVE  /\ \E a \in A \cup more : a.task = t.id /\ a.role = t.role
                      /\ \A need \in t.needs : g[need] = "completed"
    BY DEF Kept
  <2>1. CASE f[t.id] = "completed"
    BY <2>1, <1>2 DEF Kept
  <2>2. CASE t \in done
    BY <2>2, <1>1, <1>2
  <2> QED BY <2>1, <2>2, <1>3
<1>6. Dated(S, g, A \cup more, v)
  <2>1. ASSUME NEW a \in A
        PROVE  /\ a.version <= v
               /\ a.version = v => \E t \in S : t.id = a.task /\ t.role = a.role /\ g[t.id] = "completed"
    BY <1>2 DEF Dated
  <2>2. ASSUME NEW a \in more
        PROVE  /\ a.version <= v
               /\ a.version = v => \E t \in S : t.id = a.task /\ t.role = a.role /\ g[t.id] = "completed"
    BY <1>4
  <2> QED BY <2>1, <2>2 DEF Dated
<1>7. ASSUME NEW t \in S, Settled(t, f, A, v) PROVE Settled(t, g, A \cup more, v)
  <2> SUFFICES ASSUME NEW need \in t.needs
               PROVE  /\ g[need] = "completed"
                      /\ \A a \in A \cup more : a.task = need => a.version # v
    BY DEF Settled
  <2>1. f[need] = "completed" /\ g[need] = "completed"
    BY <1>2, <1>7 DEF Settled
  <2>2. \A a \in more : a.task # need
    BY <2>1, <1>4
  <2> QED BY <2>1, <2>2, <1>7 DEF Settled
<1>8. ASSUME Carried(S, f, A, v, r) PROVE Carried(S, g, A \cup more, v, r)
  <2>1. \A a \in more : \E t \in S : t.role = a.role /\ g[t.id] = "completed"
    BY <1>4
  <2>2. r = 0 => \A a \in A : \E t \in S : t.role = a.role /\ g[t.id] = "completed"
    BY <1>2, <1>8 DEF Carried
  <2>3. \/ Substituted(S, r)
        \/ \A a \in A : \E t \in S : /\ t.role = a.role
                                     /\ g[t.id] = "completed" \/ Settled(t, g, A \cup more, v)
    <3> SUFFICES ASSUME ~Substituted(S, r), NEW a \in A
                 PROVE  \E t \in S : /\ t.role = a.role
                                     /\ g[t.id] = "completed" \/ Settled(t, g, A \cup more, v)
      OBVIOUS
    <3>1. PICK t \in S : t.role = a.role /\ (f[t.id] = "completed" \/ Settled(t, f, A, v))
      BY <1>8 DEF Carried
    <3> QED BY <3>1, <1>2, <1>7
  <2> QED BY <2>1, <2>2, <2>3 DEF Carried
<1>9. ASSUME Quiet(A, v), NEW a \in A \cup more, Signalling(a, v),
             NEW t \in S, a.task \in t.needs, g[t.id] = "completed"
      PROVE  FALSE
  <2>1. PICK u \in done : a.task = u.id
    BY <1>9 DEF Quiet
  <2>2. f[a.task] = "pending"
    BY <2>1, <1>4
  <2>3. \A need \in t.needs : f[need] = "completed"
    BY <1>1, <1>3, <1>9 DEF Kept
  <2> QED BY <2>2, <2>3, <1>9
<1> QED BY <1>5, <1>6, <1>8, <1>9 DEF Unused

\* What the supervisor starts may start.
LEMMA ReadyMayStart ==
  ASSUME PlanningAssumption, WellFormed(Tasks), values.status \in [Ids(Tasks) -> Standings]
  PROVE  Ready \in Seq(Task) /\ MayStart(ToSet(Tasks), values.status, ToSet(Ready))
<1> DEFINE good == {task \in ToSet(Tasks) : /\ values.status[task.id] = "pending"
                                            /\ task.needs \subseteq Having("completed")}
           free == Only(Tasks, good)
           n == IF Len(free) < MaxParallel THEN Len(free) ELSE MaxParallel
<1>1. free \in Seq(Task) /\ ToSet(free) = ToSet(Tasks) \cap good
  <2> Tasks \in Seq(Task)
    BY DEF WellFormed
  <2> HIDE DEF good
  <2> QED BY OnlyElements
<1>2. Ready = SubSeq(free, 1, n)
  BY DEF Ready
<1>3. \A t \in good : /\ t \in ToSet(Tasks) /\ values.status[t.id] = "pending"
                      /\ \A need \in t.needs : values.status[need] = "completed"
  BY DEF Having
<1> HIDE DEF good, free
<1>4. n \in 0 .. Len(free) /\ Len(free) \in Nat
  BY <1>1 DEF PlanningAssumption
<1> HIDE DEF n
<1>5. Ready \in Seq(Task) /\ Len(Ready) = n /\ \A i \in 1 .. n : Ready[i] = free[i]
  BY <1>1, <1>2, <1>4
<1>6. ToSet(Ready) \subseteq ToSet(free)
  BY <1>1, <1>4, <1>5 DEF ToSet
<1> QED BY <1>1, <1>3, <1>5, <1>6 DEF MayStart

-------------------------------------------------------------------------------
(* The steps *)

LEMMA RunStep ==
  ASSUME PlanningInv, Run
  PROVE  PlanningInv'
<1>1. PICK t \in Threads : values' = [values EXCEPT !.thread = t, !.artifacts = <<>>, !.replans = 0]
  BY DEF Run
<1>2. /\ node' = "plan" /\ live' = TRUE /\ cause' = "none" /\ searched' = {} /\ stored' = stored
      /\ misled' = misled
  BY DEF Run
<1>3. values' \in Values /\ values'.artifacts = <<>> /\ values'.replans = 0
  <2>1. <<>> \in Seq(Artifacts) /\ 0 \in Nat
    OBVIOUS
  <2> QED BY <1>1, <2>1 DEF PlanningInv, Values
<1> QED BY <1>2, <1>3 DEF PlanningInv, Middle

\* What the plan rests on depends on these variables alone.
LEMMA NothingMoves ==
  ASSUME node' = node, values' = values, misled' = misled
  PROVE  /\ Complete' = Complete /\ Tasks' = Tasks /\ Refusable' = Refusable
         /\ searched' = searched => Standing' = Standing /\ Placed' = Placed
<1>1. Tasks' = Tasks /\ Current' = Current /\ StandIn' = StandIn
  BY DEF Tasks, Current, StandIn
<1>2. Having("failed")' = Having("failed") /\ MayReplan' = MayReplan /\ Leftover' = Leftover
  BY DEF Having, MayReplan, Leftover
<1>3. Refusable' = Refusable
  BY <1>1 DEF Refusable, Stale, Signalled
<1>4. Complete' = Complete
  BY <1>1 DEF Complete
<1>5. ASSUME searched' = searched PROVE Standing' = Standing
  BY <1>1, <1>5 DEF Standing
<1>6. ASSUME searched' = searched PROVE Placed' = Placed
  BY <1>1, <1>2, <1>4, <1>6 DEF Placed
<1> QED BY <1>1, <1>3, <1>4, <1>5, <1>6

\* A call that raises leaves the thread where it is.
LEMMA RaiseStep ==
  ASSUME PlanningInv, NEW why, Raises(why), UNCHANGED searched,
         why = "patch" => node = "replan" /\ Refusable
  PROVE  PlanningInv'
<1>1. /\ node' = node /\ live' = FALSE /\ cause' = why /\ values' = values /\ stored' = stored
      /\ searched' = searched /\ misled' = misled
  BY DEF Raises, EndCall
<1>2. /\ Standing' = Standing /\ Placed' = Placed /\ Complete' = Complete /\ Tasks' = Tasks
      /\ Refusable' = Refusable
  BY <1>1, NothingMoves
<1> QED BY <1>1, <1>2 DEF PlanningInv

LEMMA PlanStep ==
  ASSUME PlanningInv, PlanningAssumption, Plan
  PROVE  PlanningInv'
<1>1. PICK first \in Drafts, repaired \in Drafts :
        LET tasks == Planned(first, repaired)
        IN \/ tasks = <<>> /\ Raises("planner")
           \/ tasks # <<>> /\ Row # 0 /\ Raises("store")
           \/ tasks # <<>> /\ CommitInitial(tasks) /\ Goto("supervise")
  BY DEF Plan
<1>2. /\ node = "plan" /\ searched' = searched /\ searched = {} /\ values.artifacts = <<>>
      /\ values.replans = 0 /\ values \in Values /\ live
  BY DEF Plan, At, PlanningInv
<1> DEFINE tasks == Planned(first, repaired)
<1>3. CASE Raises("planner") \/ Raises("store")
  BY <1>2, <1>3, RaiseStep
<1>4. CASE tasks # <<>> /\ CommitInitial(tasks) /\ Goto("supervise")
  <2>1. WellFormed(tasks) /\ \A x \in Ids(tasks) : x[1] >= 1 /\ x[2] = 0
    BY <1>4, DraftIsSound DEF CommitInitial
  <2> HIDE DEF tasks
  <2>2. /\ node' = "supervise" /\ live' = live /\ cause' = cause /\ misled' = FALSE
        /\ stored' = [stored EXCEPT ![values.thread] = 0 + 1]
        /\ values' = [values EXCEPT !.plan = [tasks |-> tasks, version |-> 1],
                                    !.status = AllPending(tasks)]
    BY <1>4 DEF CommitInitial, Put, Goto
  <2>3. stored' \in [Threads -> Nat]
    <3>1. stored \in [Threads -> Nat]
      BY DEF PlanningInv
    <3>2. 0 + 1 \in Nat
      OBVIOUS
    <3> DEFINE next == 0 + 1
    <3> HIDE DEF next
    <3> QED BY <3>1, <3>2, <2>2 DEF next
  <2>4. /\ values'.plan.tasks = tasks /\ values'.plan.version = 1
        /\ values'.status = AllPending(tasks) /\ values'.artifacts = <<>>
        /\ values'.replans = 0 /\ values'.human = values.human
    BY <1>2, <2>2 DEF Values
  <2>5. Ids(tasks) \in SUBSET Names /\ tasks \in Seq(Task)
    BY <2>1, SoundTasks DEF WellFormed
  <2>6. AllPending(tasks) \in [Ids(tasks) -> Standings]
    BY DEF AllPending, Standings
  <2>7. values' \in Values
    <3>1. AllPending(tasks) \in UNION {[ids -> Standings] : ids \in SUBSET Names}
      BY <2>5, <2>6
    <3>2. [tasks |-> tasks, version |-> 1] \in [tasks : Seq(Task), version : Nat]
      BY <2>5
    <3> QED BY <3>1, <3>2, <2>2 DEF PlanningInv, Values
  <2>8. ToSet(values'.artifacts) = {}
    BY <2>4 DEF ToSet
  <2>9. Tasks' = tasks
    BY <2>4 DEF Tasks
  <2>10. Own(Ids(tasks), {}, 0)
    <3>1. Recovery \notin Ids(tasks)
      BY <2>1 DEF Recovery
    <3>2. ASSUME NEW x \in Ids(tasks), NEW y \in Ids(tasks), x[1] = y[1] PROVE x = y
      BY <3>2, <2>1, <2>5 DEF Names
    <3> QED BY <3>1, <3>2, <2>1 DEF Own
  <2>11. /\ Owned(ToSet(tasks), Ids(tasks), AllPending(tasks), {}, 0, FALSE)
         /\ Drafted(Ids(tasks), {})
    BY <2>1, <2>10 DEF Owned, Drafted
  <2>12. Kept(ToSet(tasks), AllPending(tasks), {})
    <3>1. \A t \in ToSet(tasks) : AllPending(tasks)[t.id] = "pending"
      BY DEF AllPending, Ids
    <3> QED BY <3>1 DEF Kept
  <2>13. /\ Dated(ToSet(tasks), AllPending(tasks), {}, 1)
         /\ Carried(ToSet(tasks), AllPending(tasks), {}, 1, 0)
         /\ Unused(ToSet(tasks), AllPending(tasks), {}, 1)
         /\ Fresh(Ids(tasks), AllPending(tasks), {}, 0, values'.human)
    BY DEF Dated, Carried, Unused, Fresh
  <2>14. Standing'
    <3>1. /\ values'.plan.version >= 1 /\ WellFormed(Tasks')
          /\ values'.status \in [Ids(Tasks') -> Standings]
      BY <2>1, <2>4, <2>6, <2>9
    <3>2. /\ Owned(ToSet(Tasks'), Ids(Tasks'), values'.status, searched', values'.replans, misled')
          /\ Drafted(Ids(Tasks'), searched')
      BY <1>2, <2>2, <2>4, <2>9, <2>11
    <3>3. /\ Kept(ToSet(Tasks'), values'.status, ToSet(values'.artifacts))
          /\ Dated(ToSet(Tasks'), values'.status, ToSet(values'.artifacts), values'.plan.version)
          /\ Carried(ToSet(Tasks'), values'.status, ToSet(values'.artifacts),
                     values'.plan.version, values'.replans)
      BY <2>4, <2>8, <2>9, <2>12, <2>13
    <3> QED BY <3>1, <3>2, <3>3 DEF Standing
  <2>15. Placed'
    BY <1>2, <2>2, <2>4, <2>8, <2>9, <2>13 DEF Placed, Leftover
  <2> QED BY <1>2, <2>2, <2>3, <2>7, <2>14, <2>15 DEF PlanningInv, Middle
<1> QED BY <1>1, <1>3, <1>4

\* What a step changes besides is not part of how the plan stands.
LEMMA StandsStill ==
  ASSUME Standing, UNCHANGED <<searched, misled>>, values'.plan = values.plan,
         values'.status = values.status, values'.artifacts = values.artifacts,
         values'.replans = values.replans
  PROVE  /\ Standing' /\ Tasks' = Tasks /\ MayReplan' = MayReplan /\ Complete' = Complete
         /\ Having("failed")' = Having("failed")
<1>1. Tasks' = Tasks
  BY DEF Tasks
<1> QED BY <1>1 DEF Standing, MayReplan, Complete, Current, StandIn, Having

\* What the gate approves once every task is completed.
LEMMA ApprovedIsComplete ==
  ASSUME Standing, DOMAIN values.status = Having("completed"), Approved
  PROVE  Complete
<1> DEFINE S == ToSet(Tasks)
           A == ToSet(values.artifacts)
<1>1. /\ WellFormed(Tasks) /\ values.status \in [Ids(Tasks) -> Standings]
      /\ Kept(S, values.status, A)
      /\ misled \/ Carried(S, values.status, A, values.plan.version, values.replans)
  BY DEF Standing
<1>2. /\ \A t \in S : t.id \in Ids(Tasks) /\ values.status[t.id] = "completed"
      /\ S # {}
  BY <1>1, SoundTasks DEF Having
<1>3. \A t \in S : \E a \in Current : a.task = t.id /\ a.role = t.role
  BY <1>1, <1>2 DEF Kept, Current
<1>4. ~(misled \/ StandIn) => \A a \in A : \E b \in Current : b.role = a.role
  <2> SUFFICES ASSUME ~misled, ~StandIn, NEW a \in A PROVE \E b \in Current : b.role = a.role
    OBVIOUS
  <2>1. ~Substituted(S, values.replans)
    BY DEF StandIn, Substituted, Recovery
  <2>2. PICK t \in S : t.role = a.role
    BY <1>1, <2>1 DEF Carried
  <2> QED BY <1>3, <2>2
<1>5. \A a \in Current : a \in A /\ "refused" \notin a.flags
  BY DEF Approved, Current
<1>6. misled \/ StandIn \/ \A role \in RequiredRoles : \E a \in Current : a.role = role
  <2>1. \A role \in RequiredRoles : \E a \in A : a.role = role
    BY DEF Approved
  <2> QED BY <1>4, <2>1
<1>7. ASSUME NEW criterion \in Criteria, ~(misled \/ StandIn) PROVE Covered(criterion, Current)
  <2>1. Covered(criterion, A)
    BY DEF Approved
  <2> DEFINE kept == {a \in Current : "refused" \notin a.flags}
  <2>2. kept = Current
    BY <1>5
  <2>3. CASE criterion = {}
    <3>1. Current # {}
      BY <1>2, <1>3
    <3> QED BY <2>2, <2>3, <3>1 DEF Covered
  <2>4. CASE criterion # {}
    <3>1. \A role \in criterion : \E a \in A : a.role = role
      BY <2>1, <2>4 DEF Covered
    <3>2. \A role \in criterion : \E a \in Current : a.role = role
      BY <3>1, <1>4, <1>7
    <3> QED BY <2>2, <2>4, <3>2 DEF Covered
  <2> QED BY <2>3, <2>4
<1> QED BY <1>3, <1>6, <1>7 DEF Complete

\* A step that leaves the plan as it stands, to a place where it may stand.
LEMMA PlanGoesOn ==
  ASSUME PlanningInv, values' \in Values, stored' = stored, misled' = misled,
         node' \in Middle, live' \in BOOLEAN, searched' \subseteq Names, Standing', Placed',
         cause' = cause, cause # "patch"
  PROVE  PlanningInv'
<1>1. node' # "end" /\ node' # "plan"
  BY DEF Middle
<1> QED BY <1>1 DEF PlanningInv

LEMMA SuperviseStep ==
  ASSUME PlanningInv, PlanningAssumption, Supervise
  PROVE  PlanningInv'
<1>1. /\ node = "supervise" /\ live /\ UNCHANGED <<stored, searched, misled>>
      /\ SuperviseFailed \/ SuperviseTrigger \/ SuperviseProgress
  BY DEF Supervise, At
<1>2. /\ Standing /\ values \in Values /\ cause # "patch" /\ Leftover
      /\ searched \subseteq Names
      /\ Fresh(Ids(Tasks), values.status, searched, values.replans, values.human)
      /\ MayReplan => Unused(ToSet(Tasks), values.status, ToSet(values.artifacts),
                             values.plan.version)
  BY <1>1 DEF PlanningInv, Placed, Middle
<1> DEFINE Same == /\ values'.plan = values.plan /\ values'.status = values.status
                   /\ values'.artifacts = values.artifacts /\ values'.replans = values.replans
                   /\ values'.human = values.human
<1>3. ASSUME Same
      PROVE  /\ Standing' /\ Tasks' = Tasks /\ MayReplan' = MayReplan /\ Complete' = Complete
             /\ Having("failed")' = Having("failed")
             /\ Fresh(Ids(Tasks), values.status, searched, values.replans, values.human)'
             /\ values'.trigger = values.trigger => Leftover'
  <2>1. /\ Standing' /\ Tasks' = Tasks /\ MayReplan' = MayReplan /\ Complete' = Complete
        /\ Having("failed")' = Having("failed")
    BY <1>1, <1>2, <1>3, StandsStill
  <2>2. Fresh(Ids(Tasks), values.status, searched, values.replans, values.human)'
    BY <2>1, <1>1, <1>2, <1>3
  <2>3. values'.trigger = values.trigger => Leftover'
    BY <1>1, <1>2, <1>3 DEF Leftover
  <2> QED BY <2>1, <2>2, <2>3
<1>4. ASSUME NEW n \in {"finalize", "human"}, NEW action \in {"complete", "fail", "await"},
             Route(n, action), n = "finalize" /\ action = "complete" => Complete,
             n = "human" => Having("failed") = {}
      PROVE  PlanningInv'
  <2>1. /\ node' = n /\ live' = live /\ cause' = cause
        /\ values' = [values EXCEPT !.action = action]
    BY <1>4 DEF Route, Goto
  <2>2. values' \in Values /\ values'.trigger = values.trigger /\ values'.action = action /\ Same
    BY <1>2, <2>1 DEF Values
  <2>3. /\ Standing' /\ Complete' = Complete /\ Having("failed")' = Having("failed") /\ Leftover'
        /\ Fresh(Ids(Tasks), values.status, searched, values.replans, values.human)'
    BY <2>2, <1>3
  <2>4. Placed'
    BY <1>4, <2>1, <2>2, <2>3 DEF Placed
  <2> QED BY <1>1, <1>2, <2>1, <2>2, <2>3, <2>4, PlanGoesOn DEF Middle
<1>5. CASE SuperviseFailed
  <2>1. CASE ~MayReplan
    BY <1>4, <1>5, <2>1 DEF SuperviseFailed
  <2>2. CASE MayReplan
    <3>1. /\ node' = "replan" /\ live' = live /\ cause' = cause /\ Having("failed") # {}
          /\ values' = [values EXCEPT !.failed = Having("failed")]
      BY <1>5, <2>2 DEF SuperviseFailed, Goto
    <3>2. Having("failed") \subseteq Names
      <4>1. Having("failed") \subseteq Ids(Tasks) /\ Ids(Tasks) \subseteq Names
        BY <1>2, SoundTasks DEF Standing, Having
      <4> QED BY <4>1
    <3>3. /\ values' \in Values /\ values'.trigger = values.trigger
          /\ values'.failed = Having("failed") /\ Same
      BY <1>2, <3>1, <3>2 DEF Values
    <3>4. /\ Standing' /\ Tasks' = Tasks /\ MayReplan' = MayReplan /\ Leftover'
          /\ Having("failed")' = Having("failed")
          /\ Fresh(Ids(Tasks), values.status, searched, values.replans, values.human)'
      BY <3>3, <1>3
    <3>5. Unused(ToSet(Tasks), values.status, ToSet(values.artifacts), values.plan.version)'
      BY <1>2, <2>2, <3>3, <3>4
    <3>6. Placed'
      BY <2>2, <3>1, <3>3, <3>4, <3>5 DEF Placed
    <3> QED BY <1>1, <1>2, <3>1, <3>3, <3>4, <3>6, PlanGoesOn DEF Middle
  <2> QED BY <2>1, <2>2
<1>6. CASE SuperviseTrigger
  <2> DEFINE a == Head(Triggers)
  <2>1. /\ node' = "replan" /\ live' = live /\ cause' = cause /\ MayReplan /\ Triggers # <<>>
        /\ Having("failed") = {}
        /\ values' = [values EXCEPT !.trigger = <<a>>, !.failed = {}]
    BY <1>6 DEF SuperviseTrigger, Goto
  <2>2. a \in ToSet(Triggers) /\ a \in Artifacts
    <3>1. Triggers \in Seq(Artifacts)
      BY <1>2, TriggersAreSignals
    <3>2. 1 \in DOMAIN Triggers /\ a = Triggers[1]
      BY <2>1, <3>1
    <3> QED BY <3>1, <3>2 DEF ToSet
  <2> HIDE DEF a
  <2>3. a \in ToSet(values.artifacts) /\ Signalling(a, values.plan.version)
    BY <1>2, <2>2, TriggersAreSignals
  <2>4. values' \in Values /\ values'.trigger = <<a>> /\ values'.failed = {} /\ Same
    <3>1. <<a>> \in Seq(Artifacts)
      BY <2>2
    <3> QED BY <1>2, <2>1, <3>1 DEF Values
  <2>5. /\ Standing' /\ Tasks' = Tasks /\ MayReplan' = MayReplan
        /\ Having("failed")' = Having("failed")
        /\ Fresh(Ids(Tasks), values.status, searched, values.replans, values.human)'
    BY <2>4, <1>3
  <2>6. Unused(ToSet(Tasks), values.status, ToSet(values.artifacts), values.plan.version)'
    BY <1>2, <2>1, <2>4, <2>5
  <2>7. Placed'
    BY <2>1, <2>3, <2>4, <2>5, <2>6 DEF Placed
  <2> QED BY <1>1, <1>2, <2>1, <2>4, <2>5, <2>7, PlanGoesOn DEF Middle
<1>7. CASE SuperviseProgress
  <2>1. CASE DOMAIN values.status = Having("completed") /\ Approved
    BY <1>2, <1>4, <1>7, <2>1, ApprovedIsComplete DEF SuperviseProgress
  <2>2. CASE Route("human", "await")
    BY <1>4, <1>7, <2>2 DEF SuperviseProgress
  <2>3. CASE Goto("execute_batch") /\ values' = [values EXCEPT !.ready = Ready]
    <3>1. node' = "execute_batch" /\ live' = live /\ cause' = cause
      BY <2>3 DEF Goto
    <3>2. Ready \in Seq(Task) /\ MayStart(ToSet(Tasks), values.status, ToSet(Ready))
      BY <1>2, ReadyMayStart DEF Standing
    <3>3. /\ values' \in Values /\ values'.trigger = values.trigger /\ values'.ready = Ready /\ Same
      BY <1>2, <2>3, <3>2 DEF Values
    <3>4. /\ Standing' /\ Tasks' = Tasks /\ MayReplan' = MayReplan /\ Leftover'
          /\ Having("failed")' = Having("failed")
          /\ Fresh(Ids(Tasks), values.status, searched, values.replans, values.human)'
      BY <3>3, <1>3
    <3>5. MayReplan => Quiet(ToSet(values.artifacts), values.plan.version)
      <4>1. MayReplan => Triggers = <<>>
        BY <1>7 DEF SuperviseProgress
      <4>2. Triggers = <<>> => ToSet(Triggers) = {}
        BY DEF ToSet
      <4> QED BY <1>2, <4>1, <4>2, TriggersAreSignals DEF Quiet
    <3>6. Having("failed") = {}
      BY <1>7 DEF SuperviseProgress
    <3>7. Placed'
      BY <3>1, <3>2, <3>3, <3>4, <3>5, <3>6 DEF Placed
    <3> QED BY <1>1, <1>2, <3>1, <3>3, <3>4, <3>7, PlanGoesOn DEF Middle
  <2> QED BY <1>7, <2>1, <2>2, <2>3 DEF SuperviseProgress
<1> QED BY <1>1, <1>5, <1>6, <1>7

\* Names that tasks of the plan take into use are in order already.
LEMMA OwnSearched ==
  ASSUME NEW ids \in SUBSET Names, NEW past \in SUBSET Names, NEW r, Own(ids, past, r),
         NEW more \in SUBSET ids
  PROVE  Own(ids, past \cup more, r)
<1>1. ids \cup (past \cup more) = ids \cup past /\ (past \cup more) \ ids = past \ ids
  OBVIOUS
<1>2. ASSUME NEW s \in past \cup more, NEW x \in ids, s[1] = x[1], x[1] >= 1 PROVE s[2] <= x[2]
  <2>1. CASE s \in past
    BY <2>1, <1>2 DEF Own
  <2>2. CASE s \in more
    <3>1. s = x
      BY <2>2, <1>2 DEF Own
    <3> QED BY <3>1 DEF Names
  <2> QED BY <2>1, <2>2
<1>3. /\ \A x, y \in ids : x[1] = y[1] /\ x[1] >= 1 => x = y
      /\ \A x \in ids \cup past : x[1] = 0 => r >= x[2] + 1
      /\ Recovery \in ids /\ (\E x \in ids \cup past : x[1] = 0 /\ x[2] >= 1) => r >= 3
      /\ Recovery \in past \ ids => r >= 2
  BY DEF Own
<1>4. \A s \in past \cup more, x \in ids : s[1] = x[1] /\ x[1] >= 1 => s[2] <= x[2]
  BY <1>2
<1>5. \A s \in past \cup more, x \in ids : s[1] = x[1] /\ s[1] >= 1 => s[2] <= x[2]
  BY <1>4
<1> QED BY <1>1, <1>3, <1>5 DEF Own

LEMMA OwnedSearched ==
  ASSUME NEW S, NEW ids \in SUBSET Names, NEW past \in SUBSET Names, NEW r, NEW f,
         NEW astray, Owned(S, ids, f, past, r, astray), \A x \in ids : f[x] # "failed",
         NEW more \in SUBSET ids, NEW g
  PROVE  Owned(S, ids, g, past \cup more, r, astray)
<1>1. CASE Own(ids, past, r)
  BY <1>1, OwnSearched DEF Owned
<1>2. CASE astray /\ \E y \in Names : Strange(y, S, ids, f, past, r)
  <2>1. PICK y \in Names : Strange(y, S, ids, f, past, r)
    BY <1>2
  <2>2. r = 2 /\ ids \cup (past \cup more) = ids \cup past
    BY <2>1 DEF Strange
  <2>3. Strange(y, S, ids, g, past \cup more, r)
    BY <2>1, <2>2 DEF Strange
  <2> QED BY <2>3, <1>2 DEF Owned
<1> QED BY <1>1, <1>2 DEF Owned

LEMMA ExecuteStep ==
  ASSUME PlanningInv, ExecuteBatch
  PROVE  PlanningInv'
<1> DEFINE S == ToSet(Tasks)
           A == ToSet(values.artifacts)
           r == values.replans
           v == values.plan.version
           f == values.status
           ready == ToSet(values.ready)
<1>1. PICK result \in [ready -> Flags \cup {Error}] :
        LET done == Only(values.ready, {task \in ready : result[task] # Error})
            Artifact(task) == [task |-> task.id, role |-> task.role, version |-> v,
                               flags |-> result[task]]
        IN values' = [values EXCEPT
             !.artifacts = @ \o [i \in DOMAIN done |-> Artifact(done[i])],
             !.status = [id \in DOMAIN @ |->
                 IF id \in Ids(done) THEN "completed"
                 ELSE IF id \in Ids(values.ready) THEN "failed" ELSE @[id]]]
  BY DEF ExecuteBatch
<1>2. /\ node = "execute_batch" /\ node' = "supervise" /\ live' = live /\ cause' = cause
      /\ stored' = stored /\ searched' = searched \cup Ids(values.ready) /\ live
      /\ misled' = misled
  BY DEF ExecuteBatch, Goto, At
<1>3. /\ Standing /\ values \in Values /\ cause # "patch" /\ Leftover
      /\ Having("failed") = {} /\ searched \in SUBSET Names
      /\ Fresh(Ids(Tasks), f, searched, r, values.human)
      /\ MayStart(S, f, ready) /\ (MayReplan => Quiet(A, v))
  BY <1>2 DEF PlanningInv, Placed, Middle
<1>4. /\ WellFormed(Tasks) /\ f \in [Ids(Tasks) -> Standings] /\ v >= 1
      /\ Owned(S, Ids(Tasks), f, searched, r, misled) /\ (v = 1 => Drafted(Ids(Tasks), searched))
      /\ Kept(S, f, A) /\ Dated(S, f, A, v) /\ (misled \/ Carried(S, f, A, v, r))
  BY <1>3 DEF Standing
<1>5. /\ S \subseteq Task /\ Ids(Tasks) \subseteq Names
      /\ \A t, u \in S : t.id = u.id => t = u
      /\ \A t \in S : t.id \in Ids(Tasks) /\ t.needs \subseteq Ids(Tasks)
  BY <1>4, SoundTasks
<1>6. /\ ready \subseteq S /\ Ids(values.ready) = {t.id : t \in ready}
      /\ Ids(values.ready) \subseteq Ids(Tasks) /\ v \in Nat
      /\ values.ready \in Seq(Task) /\ values.artifacts \in Seq(Artifacts)
  BY <1>3, <1>5 DEF MayStart, Ids, Values
<1> DEFINE good == {task \in ready : result[task] # Error}
           done == Only(values.ready, good)
           new == [i \in DOMAIN done |-> [task |-> done[i].id, role |-> done[i].role,
                                          version |-> v, flags |-> result[done[i]]]]
           g == [id \in Ids(Tasks) |->
                     IF id \in Ids(done) THEN "completed"
                     ELSE IF id \in Ids(values.ready) THEN "failed" ELSE f[id]]
<1>7. values' = [values EXCEPT !.artifacts = values.artifacts \o new, !.status = g]
  BY <1>1, <1>3, <1>4 DEF Values
<1>8. done \in Seq(Task) /\ ToSet(done) = good
  <2>1. done \in Seq(Task) /\ ToSet(done) = ToSet(values.ready) \cap good
    <3> HIDE DEF good
    <3> QED BY <1>6, OnlyElements
  <2> QED BY <2>1
<1>9. /\ DOMAIN done = 1 .. Len(done) /\ Len(done) \in Nat
      /\ \A i \in 1 .. Len(done) : done[i] \in good
  <2> HIDE DEF done, good
  <2> QED BY <1>8 DEF ToSet
<1>10. \A t \in good : t \in ready /\ t \in Task /\ result[t] \in Flags
  BY <1>5, <1>6
<1> HIDE DEF done, good
<1>11. /\ new \in Seq(Artifacts) /\ DOMAIN new = 1 .. Len(done)
       /\ \A i \in 1 .. Len(done) : /\ new[i].task = done[i].id /\ new[i].role = done[i].role
                                    /\ new[i].version = v
  <2>1. ASSUME NEW i \in 1 .. Len(done) PROVE new[i] \in Artifacts
    <3>1. done[i].id \in Names /\ done[i].role \in Roles /\ result[done[i]] \in Flags
      BY <1>9, <1>10 DEF Task
    <3> QED BY <3>1, <1>6, <1>9 DEF Artifacts
  <2> QED BY <2>1, <1>9
<1> HIDE DEF new
<1>12. /\ values.artifacts \o new \in Seq(Artifacts)
       /\ ToSet(values.artifacts \o new) = A \cup ToSet(new)
  BY <1>6, <1>11, ConcatElements
<1> DEFINE more == ToSet(new)
<1>13. /\ \A a \in more : \E t \in good : a.task = t.id /\ a.role = t.role /\ a.version = v
       /\ \A t \in good : \E a \in more : a.task = t.id /\ a.role = t.role
  <2>1. \A t \in good : \E i \in 1 .. Len(done) : t = done[i]
    BY <1>8, <1>9 DEF ToSet
  <2> QED BY <2>1, <1>9, <1>11 DEF ToSet
<1>14. Ended(Ids(Tasks), f, g, ready, good)
  <2>1. Ids(done) = {t.id : t \in good}
    BY <1>8 DEF Ids
  <2> QED BY <2>1, <1>6 DEF Ended
<1>15. g \in [Ids(Tasks) -> Standings] /\ \A id \in Ids(values.ready) : g[id] # "pending"
  BY <1>4, <1>6 DEF Standings
<1>16. \A id \in Ids(Tasks) : g[id] = "pending" => f[id] = "pending" /\ id \notin Ids(values.ready)
  BY <1>15
<1>17. good \subseteq ready
  BY <1>10
<1> HIDE DEF g, S, A, more, ready, f, v, r
<1>18. /\ Kept(S, g, A \cup more) /\ Dated(S, g, A \cup more, v)
       /\ misled \/ Carried(S, g, A \cup more, v, r)
       /\ Quiet(A, v) => Unused(S, g, A \cup more, v)
  <2> DEFINE ids == Ids(Tasks)
  <2>1. /\ \A t, u \in S : t.id = u.id => t = u
        /\ \A t \in S : t.id \in ids /\ t.needs \subseteq ids
    BY <1>5
  <2>2. /\ MayStart(S, f, ready) /\ good \subseteq ready /\ Ended(ids, f, g, ready, good)
        /\ v \in Nat /\ Kept(S, f, A) /\ Dated(S, f, A, v)
    BY <1>3, <1>4, <1>6, <1>14, <1>17
  <2> HIDE DEF ids
  <2>3. Batch(S, ids, f, g, A, more, v, ready, good)
    BY <2>1, <2>2, <1>13 DEF Batch
  <2>4. /\ Kept(S, g, A \cup more) /\ Dated(S, g, A \cup more, v)
        /\ Carried(S, f, A, v, r) => Carried(S, g, A \cup more, v, r)
        /\ Quiet(A, v) => Unused(S, g, A \cup more, v)
    BY <2>3, BatchKeeps
  <2> QED BY <2>4, <1>4
<1>19. /\ Owned(S, Ids(Tasks), g, searched \cup Ids(values.ready), r, misled)
       /\ v = 1 => Drafted(Ids(Tasks), searched \cup Ids(values.ready))
  <2> DEFINE ids == Ids(Tasks)
             more_ids == Ids(values.ready)
  <2>1. \A id \in ids : f[id] # "failed"
    BY <1>3, <1>4 DEF Having, f
  <2>2. /\ ids \in SUBSET Names /\ searched \in SUBSET Names /\ more_ids \in SUBSET ids
        /\ Owned(S, ids, f, searched, r, misled)
    BY <1>3, <1>4, <1>5, <1>6
  <2> HIDE DEF ids, more_ids
  <2>3. Owned(S, ids, g, searched \cup more_ids, r, misled)
    BY <2>1, <2>2, OwnedSearched
  <2>4. v = 1 => Drafted(ids, searched \cup more_ids)
    BY <2>2, <1>4 DEF Drafted, ids
  <2> QED BY <2>3, <2>4 DEF ids, more_ids
<1>20. Fresh(Ids(Tasks), g, searched \cup Ids(values.ready), r, values.human)
  BY <1>3, <1>16 DEF Fresh
<1>21. /\ values'.plan = values.plan /\ values'.status = g /\ values'.replans = values.replans
       /\ values'.artifacts = values.artifacts \o new /\ values'.human = values.human
       /\ values'.trigger = values.trigger
  BY <1>3, <1>7 DEF Values
<1>22. /\ Tasks' = Tasks /\ ToSet(values'.artifacts) = A \cup more /\ values'.plan.version = v
       /\ values'.replans = r /\ MayReplan' = MayReplan
  BY <1>12, <1>21 DEF Tasks, MayReplan, more, v, r
<1>23. Standing'
  BY <1>2, <1>4, <1>15, <1>18, <1>19, <1>21, <1>22 DEF Standing, S
<1>24. Placed'
  <2>1. Leftover'
    BY <1>2, <1>3, <1>21 DEF Leftover
  <2>2. Fresh(Ids(Tasks), values.status, searched, values.replans, values.human)'
    BY <1>2, <1>20, <1>21, <1>22
  <2>3. MayReplan' => Unused(ToSet(Tasks), values.status, ToSet(values.artifacts),
                             values.plan.version)'
    BY <1>3, <1>18, <1>21, <1>22 DEF S
  <2> QED BY <1>2, <2>1, <2>2, <2>3 DEF Placed
<1>25. values' \in Values
  <2>1. Ids(Tasks) \in SUBSET Names
    BY <1>5
  <2>2. g \in UNION {[ids -> Standings] : ids \in SUBSET Names}
    BY <2>1, <1>15
  <2> QED BY <2>2, <1>3, <1>7, <1>12 DEF Values
<1>26. searched' \subseteq Names
  BY <1>2, <1>3, <1>5, <1>6
<1>27. live' \in BOOLEAN
  BY <1>2 DEF PlanningInv
<1> QED BY <1>2, <1>3, <1>23, <1>24, <1>25, <1>26, <1>27, PlanGoesOn DEF Middle

LEMMA ReplanStep ==
  ASSUME PlanningInv, PlanningAssumption, Replan
  PROVE  PlanningInv'
<1>1. /\ node = "replan" /\ live /\ searched' = searched
      /\ \/ ~Valid(Patched) /\ Raises("patch")
         \/ Valid(Patched) /\ Row # values.plan.version /\ Raises("store")
         \/ ApplyPatch /\ Goto("supervise")
  BY DEF Replan, At
<1>2. /\ Standing /\ values \in Values /\ searched \in SUBSET Names /\ misled \in BOOLEAN
      /\ cause # "patch" /\ live \in BOOLEAN /\ stored \in [Threads -> Nat]
  BY <1>1 DEF PlanningInv, Middle
<1>3. /\ MayReplan /\ values.failed = Having("failed")
      /\ Unused(ToSet(Tasks), values.status, ToSet(values.artifacts), values.plan.version)
      /\ values.failed = {} =>
             \E a \in ToSet(values.artifacts) :
                 Signalling(a, values.plan.version) /\ values.trigger = <<a>>
      /\ values.failed # {} => Leftover
      /\ Fresh(Ids(Tasks), values.status, searched, values.replans, values.human)
  BY <1>1 DEF PlanningInv, Placed, Middle
<1>4. values.replans \in 0 .. 2
  BY <1>2, <1>3 DEF MayReplan, PlanningAssumption, Values
<1>5. \E cancelled, added : Replaces(cancelled, added)
  <2>1. CASE values.failed = {}
    BY <2>1, <1>2, <1>3, <1>4, Revises
  <2>2. CASE values.failed # {} /\ values.trigger = <<>>
    BY <2>2, <1>2, <1>3, <1>4, Recovers
  <2>3. CASE values.failed # {} /\ values.trigger # <<>>
    <3>1. values.replans = 0 /\ values.plan.version = 1
      BY <2>3, <1>3 DEF Leftover
    <3> QED BY <2>3, <3>1, <1>2, <1>3, Misleads
  <2> QED BY <2>1, <2>2, <2>3
<1>6. PICK cancelled, added : Replaces(cancelled, added)
  BY <1>5
<1>7. CASE ~Valid(Patched) /\ Raises("patch")
  BY <1>1, <1>2, <1>6, <1>7, PatchIsRefused, RaiseStep
<1>8. CASE Raises("store")
  BY <1>1, <1>8, RaiseStep
<1>9. CASE ApplyPatch /\ Goto("supervise")
  <2>1. /\ values' \in Values /\ Standing' /\ values'.trigger = <<>> /\ misled' \in BOOLEAN
        /\ Fresh(Ids(Tasks), values.status, searched, values.replans, values.human)'
        /\ Quiet(ToSet(values.artifacts), values.plan.version)'
    BY <1>1, <1>2, <1>3, <1>4, <1>6, <1>9, PatchStands
  <2>2. /\ node' = "supervise" /\ live' = live /\ cause' = cause
        /\ stored' = [stored EXCEPT ![values.thread] = values.plan.version + 1]
    BY <1>9 DEF Goto, ApplyPatch, Put
  <2>3. stored' \in [Threads -> Nat]
    <3>1. values.plan.version + 1 \in Nat
      BY <1>2 DEF Values
    <3> QED BY <3>1, <2>2, <1>2
  <2>4. Placed'
    BY <2>1, <2>2 DEF Placed, Quiet, Unused, Leftover
  <2> QED BY <1>1, <1>2, <2>1, <2>2, <2>3, <2>4 DEF PlanningInv, Middle
<1> QED BY <1>1, <1>7, <1>8, <1>9

LEMMA InterruptStep ==
  ASSUME PlanningInv, Interrupt
  PROVE  PlanningInv'
<1>1. /\ node = "human" /\ node' = node /\ live' = FALSE
      /\ UNCHANGED <<values, stored, cause, misled, searched>>
  BY DEF Interrupt, At, EndCall
<1>2. /\ Standing' = Standing /\ Placed' = Placed /\ Complete' = Complete
      /\ Refusable' = Refusable
  BY <1>1, NothingMoves
<1> QED BY <1>1, <1>2 DEF PlanningInv

LEMMA FinalizeStep ==
  ASSUME PlanningInv, Finalize
  PROVE  PlanningInv'
<1> DEFINE final == IF values.action = "complete" THEN "completed" ELSE "failed"
<1>1. /\ node = "finalize" /\ node' = "end" /\ live' = FALSE
      /\ values' = [values EXCEPT !.final = final]
      /\ stored' = stored /\ cause' = cause /\ searched' = searched /\ misled' = misled
  BY DEF Finalize, At
<1>2. /\ Standing /\ Placed /\ values \in Values /\ cause # "patch"
  BY <1>1 DEF PlanningInv, Middle
<1>3. /\ values' \in Values /\ values'.final = final /\ values'.plan = values.plan
      /\ values'.status = values.status /\ values'.artifacts = values.artifacts
      /\ values'.replans = values.replans
  <2>1. final \in {"none", "completed", "failed"}
    OBVIOUS
  <2> HIDE DEF final
  <2> QED BY <1>1, <1>2, <2>1 DEF Values
<1>4. Complete' = Complete
  BY <1>1, <1>2, <1>3, StandsStill
<1>5. values'.final = "completed" => Complete
  BY <1>1, <1>2, <1>3 DEF Placed
<1> QED BY <1>1, <1>2, <1>3, <1>4, <1>5 DEF PlanningInv, Middle

LEMMA ResumeStep ==
  ASSUME PlanningInv, Resume
  PROVE  PlanningInv'
<1>1. /\ ~live /\ node # "end" /\ live' = TRUE /\ cause' = "none"
      /\ UNCHANGED <<stored, misled, searched>>
  BY DEF Resume
<1>2. /\ values \in Values /\ searched \in SUBSET Names
      /\ node = "human" => Standing /\ Leftover /\ Having("failed") = {}
  BY DEF PlanningInv, Middle, Placed
<1>3. CASE UNCHANGED <<node, values>>
  <2>1. Standing' = Standing /\ Placed' = Placed /\ Complete' = Complete
    BY <1>1, <1>3, NothingMoves
  <2> QED BY <1>1, <1>3, <2>1 DEF PlanningInv
<1>4. CASE /\ node = "human" /\ node' = "finalize"
           /\ values' = [values EXCEPT !.action = "fail", !.human = "cancel"]
  <2>1. /\ values' \in Values /\ values'.action = "fail" /\ values'.trigger = values.trigger
        /\ values'.plan = values.plan /\ values'.status = values.status
        /\ values'.artifacts = values.artifacts /\ values'.replans = values.replans
    BY <1>2, <1>4 DEF Values
  <2>2. Standing'
    BY <1>1, <1>2, <1>4, <2>1, StandsStill
  <2>3. Leftover'
    BY <1>1, <1>2, <1>4, <2>1 DEF Leftover
  <2>4. Placed'
    BY <1>4, <2>1, <2>3 DEF Placed
  <2> QED BY <1>1, <1>2, <1>4, <2>1, <2>2, <2>4 DEF PlanningInv, Middle
<1>5. CASE /\ node = "human" /\ node' = "supervise"
           /\ values' = [values EXCEPT !.status = AllPending(Tasks), !.artifacts = <<>>,
                                       !.human = "retry"]
  <2> DEFINE g == AllPending(Tasks)
  <2>1. /\ WellFormed(Tasks) /\ values.plan.version >= 1
        /\ Owned(ToSet(Tasks), Ids(Tasks), values.status, searched, values.replans, misled)
        /\ values.plan.version = 1 => Drafted(Ids(Tasks), searched)
    BY <1>2, <1>5 DEF Standing
  <2>2. Ids(Tasks) \in SUBSET Names
    BY <2>1, SoundTasks
  <2>3. /\ g \in [Ids(Tasks) -> Standings]
        /\ g \in UNION {[ids -> Standings] : ids \in SUBSET Names}
    BY <2>2 DEF AllPending, Standings
  <2>4. \A t \in ToSet(Tasks) : g[t.id] = "pending"
    BY DEF AllPending, Ids
  <2> HIDE DEF g
  <2>5. values' = [values EXCEPT !.status = g, !.artifacts = <<>>, !.human = "retry"]
    BY <1>5 DEF g
  <2>6. /\ values' \in Values /\ values'.trigger = values.trigger /\ values'.plan = values.plan
        /\ values'.status = g /\ values'.artifacts = <<>> /\ values'.replans = values.replans
        /\ values'.human = "retry"
    <3>1. <<>> \in Seq(Artifacts)
      OBVIOUS
    <3> QED BY <1>2, <1>5, <2>3, <2>5, <3>1 DEF Values
  <2>7. Tasks' = Tasks /\ ToSet(values'.artifacts) = {}
    BY <2>6 DEF Tasks, ToSet
  <2>8. /\ Kept(ToSet(Tasks), g, {}) /\ Dated(ToSet(Tasks), g, {}, values.plan.version)
        /\ Carried(ToSet(Tasks), g, {}, values.plan.version, values.replans)
        /\ Unused(ToSet(Tasks), g, {}, values.plan.version)
        /\ Fresh(Ids(Tasks), g, searched, values.replans, "retry")
    BY <2>4 DEF Kept, Dated, Carried, Unused, Fresh
  <2>9. Owned(ToSet(Tasks), Ids(Tasks), g, searched, values.replans, misled)
    <3> DEFINE ids == Ids(Tasks)
               S == ToSet(Tasks)
               f == values.status
               r == values.replans
    <3>1. ids \in SUBSET Names /\ searched \in SUBSET Names /\ {} \in SUBSET ids
      BY <1>2, <2>2
    <3>2. \A id \in ids : f[id] # "failed"
      BY <1>2, <1>5 DEF Having, Standing
    <3>3. Owned(S, ids, f, searched, r, misled)
      BY <2>1
    <3> HIDE DEF ids, S, f, r
    <3>4. Owned(S, ids, g, searched \cup {}, r, misled)
      BY <3>1, <3>2, <3>3, OwnedSearched
    <3>5. searched \cup {} = searched
      OBVIOUS
    <3> QED BY <3>4, <3>5 DEF ids, S, r
  <2>10. Standing'
    BY <1>1, <2>1, <2>3, <2>6, <2>7, <2>8, <2>9 DEF Standing
  <2>11. Leftover'
    BY <1>1, <1>2, <1>5, <2>6 DEF Leftover
  <2>12. Placed'
    BY <1>1, <1>5, <2>6, <2>7, <2>8, <2>11 DEF Placed
  <2> QED BY <1>1, <1>2, <1>5, <2>6, <2>10, <2>12 DEF PlanningInv, Middle
<1> QED BY <1>3, <1>4, <1>5 DEF Resume

\* A restarted process has searched for no task.
LEMMA CrashStep ==
  ASSUME PlanningInv, Crash
  PROVE  PlanningInv'
<1>1. /\ live' = FALSE /\ cause' = "crash" /\ searched' = {} /\ node' = node /\ values' = values
      /\ misled' = misled
  BY DEF Crash
<1>2. stored' \in [Threads -> Nat]
  <2>1. values.plan.version + 1 \in Nat /\ 0 + 1 \in Nat
    BY DEF PlanningInv, Values
  <2>2. stored \in [Threads -> Nat]
    BY DEF PlanningInv
  <2> QED BY <2>1, <2>2 DEF Crash, Put
<1>3. Complete' = Complete /\ Tasks' = Tasks
  BY <1>1, NothingMoves
<1>4. ASSUME Standing PROVE Standing'
  <2> DEFINE ids == Ids(Tasks)
             r == values.replans
  <2>1. Own(ids, searched, r) => Own(ids, {}, r)
    BY DEF Own
  <2>2. ASSUME NEW y, Strange(y, ToSet(Tasks), ids, values.status, searched, r)
        PROVE  Strange(y, ToSet(Tasks), ids, values.status, {}, r)
    BY <2>2 DEF Strange
  <2>3. Owned(ToSet(Tasks), ids, values.status, {}, r, misled)
    <3>1. Owned(ToSet(Tasks), ids, values.status, searched, r, misled)
      BY <1>4 DEF Standing
    <3> HIDE DEF ids, r
    <3> QED BY <3>1, <2>1, <2>2 DEF Owned
  <2>4. values.plan.version = 1 => Drafted(ids, {})
    BY <1>4 DEF Standing, Drafted
  <2> QED BY <1>1, <1>3, <1>4, <2>3, <2>4 DEF Standing
<1>5. ASSUME Placed PROVE Placed'
  <2>1. Fresh(Ids(Tasks), values.status, {}, values.replans, values.human)
    BY DEF Fresh
  <2>2. Having("failed")' = Having("failed") /\ MayReplan' = MayReplan /\ Leftover' = Leftover
    BY <1>1 DEF Having, MayReplan, Leftover
  <2> QED BY <1>1, <1>3, <1>5, <2>1, <2>2 DEF Placed
<1> QED BY <1>1, <1>2, <1>3, <1>4, <1>5 DEF PlanningInv

\* The plan that TaskPlanning holds is one that its tasks and artifacts account for.
THEOREM PlanningInvariance ==
  ASSUME PlanningAssumption PROVE PlanningSpec => []PlanningInv
<1> USE DEF planningVars
<1>1. PlanningInit => PlanningInv
  <2> SUFFICES ASSUME PlanningInit PROVE PlanningInv
    OBVIOUS
  <2>1. PICK t \in Threads : values = Blank(t)
    BY DEF PlanningInit
  <2>2. /\ node = "end" /\ live = FALSE /\ stored = [u \in Threads |-> 0] /\ cause = "none"
        /\ searched = {} /\ misled = FALSE
    BY DEF PlanningInit
  <2>3. /\ <<>> \in Seq(Task) /\ <<>> \in Seq(Artifacts) /\ {} \in SUBSET Names
        /\ [id \in {} |-> "pending"] \in [{} -> Standings]
    OBVIOUS
  <2>4. [id \in {} |-> "pending"] \in UNION {[ids -> Standings] : ids \in SUBSET Names}
    BY <2>3
  <2>5. Blank(t) \in Values
    BY <2>3, <2>4 DEF Values, Blank
  <2>6. values.final = "none" /\ values \in Values /\ stored \in [Threads -> Nat]
    BY <2>1, <2>2, <2>5 DEF Blank
  <2> QED BY <2>2, <2>6 DEF PlanningInv, Middle
<1>2. PlanningInv /\ PlanningAssumption /\ [PlanningNext]_planningVars => PlanningInv'
  <2> SUFFICES ASSUME PlanningInv, PlanningAssumption, [PlanningNext]_planningVars
               PROVE  PlanningInv'
    OBVIOUS
  <2>1. CASE UNCHANGED planningVars
    <3>1. /\ Standing' = Standing /\ Placed' = Placed /\ Complete' = Complete
          /\ Refusable' = Refusable
      BY <2>1, NothingMoves
    <3> QED BY <2>1, <3>1 DEF PlanningInv
  <2> QED BY <2>1, RunStep, PlanStep, SuperviseStep, ExecuteStep, ReplanStep, InterruptStep,
             FinalizeStep, ResumeStep, CrashStep DEF PlanningNext
<1> QED BY <1>1, <1>2, PTL DEF PlanningSpec

\* An investigation is called completed on artifacts of its last plan: CompletionGate and
\* the replanner.
THEOREM CompletedOnItsPlan ==
  ASSUME PlanningAssumption PROVE PlanningSpec => []CompletedIsCovered
<1>1. PlanningInv => CompletedIsCovered
  BY DEF PlanningInv, Complete, CompletedIsCovered, Middle
<1> QED BY <1>1, PlanningInvariance, PTL

\* The validator refuses a replanner's patch only when a recovery fails in its turn or a
\* signal of an earlier plan takes a place or a name that is not free.
THEOREM PatchesAreValid ==
  ASSUME PlanningAssumption PROVE PlanningSpec => []PatchIsValid
<1>1. PlanningInv => PatchIsValid
  BY DEF PlanningInv, PatchIsValid, Refusable
<1> QED BY <1>1, PlanningInvariance, PTL

\* No task is executed under a trace that has searched before, but for a human's retry and
\* a third replan.
THEOREM TracesStayFresh ==
  ASSUME PlanningAssumption PROVE PlanningSpec => []TracesAreFresh
<1>1. PlanningInv => TracesAreFresh
  <2> SUFFICES ASSUME PlanningInv, node = "execute_batch", values.human # "retry",
                      NEW x \in Ids(values.ready), x \in searched
               PROVE  x = Recovery /\ values.replans > 2
    BY DEF TracesAreFresh
  <2>1. Standing /\ Placed
    BY DEF PlanningInv, Middle
  <2>2. PICK t \in ToSet(values.ready) : t.id = x
    BY DEF Ids
  <2>3. t \in ToSet(Tasks) /\ values.status[x] = "pending"
    BY <2>1, <2>2 DEF Placed, MayStart
  <2>4. x \in Ids(Tasks)
    BY <2>2, <2>3 DEF Ids
  <2>5. Fresh(Ids(Tasks), values.status, searched, values.replans, values.human)
    BY <2>1 DEF Placed
  <2> QED BY <2>3, <2>4, <2>5 DEF Fresh
<1> QED BY <1>1, PlanningInvariance, PTL

-------------------------------------------------------------------------------
(* Candidates: A is the set of chunks the request may see.                    *)

Candidates(A) ==
    [chunk : A, bm25 : BOOLEAN, near : BOOLEAN, rerank : {"none", "pass", "fail"}]
Distinct(list) == \A i, j \in DOMAIN list : list[i].chunk = list[j].chunk => i = j
Lists(A) == {list \in Seq(Candidates(A)) : Distinct(list)}
InScope == {c \in Chunks : Allowed(c)}

LEMMA RankingsAreLists ==
  ASSUME NEW r \in Rankings, EvidenceAssumption
  PROVE  r \in Seq(InScope) /\ IsInjective(r)
<1>1. r \in SeqOf(InScope, SearchTopK) /\ IsInjective(r)
  BY DEF Rankings, InScope
<1>2. SearchTopK \in Nat
  BY DEF EvidenceAssumption
<1>3. PICK m \in 0 .. SearchTopK : r \in [1 .. m -> InScope]
  BY <1>1 DEF SeqOf
<1>4. m \in Nat
  BY <1>2
<1> QED BY <1>1, <1>3, <1>4

LEMMA CandidateOfChunk ==
  ASSUME NEW A \in SUBSET Chunks, EvidenceAssumption, NEW c \in A,
         NEW bm25 \in BOOLEAN, NEW dense \in BOOLEAN
  PROVE  Candidate(c, bm25, dense) \in Candidates(A) /\ Candidate(c, bm25, dense).chunk = c
<1>1. c.near \in BOOLEAN
  BY DEF EvidenceAssumption
<1>2. (dense /\ c.near) \in BOOLEAN
  OBVIOUS
<1> QED BY <1>2 DEF Candidate, Candidates

LEMMA OneSide ==
  ASSUME NEW A \in SUBSET Chunks, EvidenceAssumption, NEW r \in Seq(A), IsInjective(r), NEW origin
  PROVE  CandidatesOf(r, origin) \in Lists(A)
<1> DEFINE list == CandidatesOf(r, origin)
<1>1. \A i \in DOMAIN r : r[i] \in A
  OBVIOUS
<1>2. /\ list = [i \in DOMAIN r |-> Candidate(r[i], origin = "bm25", origin = "dense")]
      /\ DOMAIN list = DOMAIN r /\ DOMAIN r = 1 .. Len(r) /\ Len(r) \in Nat
  BY DEF CandidatesOf
<1>3. ASSUME NEW i \in DOMAIN r PROVE list[i] \in Candidates(A) /\ list[i].chunk = r[i]
  <2>1. list[i] = Candidate(r[i], origin = "bm25", origin = "dense")
    BY <1>2
  <2>2. (origin = "bm25") \in BOOLEAN /\ (origin = "dense") \in BOOLEAN
    OBVIOUS
  <2> QED BY <2>1, <2>2, <1>1, CandidateOfChunk
<1> HIDE DEF list
<1>4. list \in Seq(Candidates(A))
  <2>1. list = [i \in 1 .. Len(r) |-> list[i]]
    BY <1>2
  <2> QED BY <2>1, <1>2, <1>3
<1>5. Distinct(list)
  BY <1>2, <1>3 DEF Distinct, IsInjective
<1> QED BY <1>4, <1>5 DEF Lists, list

\* Fusion puts each chunk that one of the sides has found into the list once.
LEMMA Fusion ==
  ASSUME NEW A \in SUBSET Chunks, EvidenceAssumption, NEW bm25 \in Seq(A), NEW dense \in Seq(A)
  PROVE  Fused(bm25, dense) \in Lists(A)
<1> DEFINE Score(c) == RankWeight(bm25, c) + RankWeight(dense, c)
           Before(c, d) == Score(c) > Score(d) \/ (Score(c) = Score(d) /\ c.id < d.id)
           found == ToSet(bm25) \cup ToSet(dense)
           order == {p \in found \X found : Before(p[1], p[2])}
           line == Sorted(found, order)
           list == Fused(bm25, dense)
<1>1. list = [i \in DOMAIN line |->
                 Candidate(line[i], line[i] \in ToSet(bm25), line[i] \in ToSet(dense))]
  BY DEF Fused
<1>2. IsFiniteSet(found) /\ found \subseteq A
  <2>1. IsFiniteSet(ToSet(bm25)) /\ IsFiniteSet(ToSet(dense))
    BY FiniteElements
  <2>2. ToSet(bm25) \subseteq A /\ ToSet(dense) \subseteq A
    BY Elements
  <2> QED BY <2>1, <2>2, FS_Union
<1>3. ASSUME NEW c \in found PROVE Score(c) \in Int
  <2>1. ASSUME NEW r \in Seq(A) PROVE RankWeight(r, c) \in Int
    <3>1. CASE c \in ToSet(r)
      <4> DEFINE i == CHOOSE k \in DOMAIN r : r[k] = c
      <4>1. i \in DOMAIN r
        BY <3>1 DEF ToSet
      <4>2. i \in Nat /\ RankConstant \in Nat \ {0}
        BY <4>1 DEF EvidenceAssumption
      <4>3. RankWeight(r, c) = 1000000 \div (RankConstant + i)
        BY <3>1 DEF RankWeight
      <4> HIDE DEF i
      <4>4. RankConstant + i \in Nat \ {0}
        BY <4>2
      <4> QED BY <4>3, <4>4
    <3>2. CASE c \notin ToSet(r)
      BY <3>2 DEF RankWeight
    <3> QED BY <3>1, <3>2
  <2> QED BY <2>1
<1>4. ASSUME NEW c \in found, NEW d \in found
      PROVE  c.id \in Int /\ (c.id = d.id => c = d) /\ (<<c, d>> \in order <=> Before(c, d))
  BY <1>2 DEF EvidenceAssumption
<1> HIDE DEF found, order, Score
<1>5. Linear(found, order)
  <2>1. ASSUME NEW c \in found PROVE <<c, c>> \notin order
    BY <1>3, <1>4
  <2>2. ASSUME NEW c \in found, NEW d \in found, c # d
        PROVE  <<c, d>> \in order \/ <<d, c>> \in order
    BY <1>3, <1>4, <2>2
  <2>3. ASSUME NEW c \in found, NEW d \in found, NEW e \in found,
               <<c, d>> \in order, <<d, e>> \in order
        PROVE  <<c, e>> \in order
    <3>1. Before(c, d) /\ Before(d, e)
      BY <1>4, <2>3
    <3>2. /\ Score(c) \in Int /\ Score(d) \in Int /\ Score(e) \in Int
          /\ c.id \in Int /\ d.id \in Int /\ e.id \in Int
      BY <1>3, <1>4
    <3>3. Before(c, e)
      BY <3>1, <3>2
    <3> QED BY <3>3, <1>4
  <2> QED BY <2>1, <2>2, <2>3 DEF Linear
<1>6. /\ line \in Seq(found) /\ ToSet(line) = found
      /\ \A k, l \in DOMAIN line : line[k] = line[l] => k = l
  BY <1>2, <1>5, SortedElements
<1> HIDE DEF line, list
<1>7. /\ DOMAIN list = DOMAIN line /\ DOMAIN line = 1 .. Len(line) /\ Len(line) \in Nat
      /\ \A i \in DOMAIN line : line[i] \in A
  BY <1>1, <1>2, <1>6
<1>8. ASSUME NEW i \in DOMAIN line PROVE list[i] \in Candidates(A) /\ list[i].chunk = line[i]
  <2>1. list[i] = Candidate(line[i], line[i] \in ToSet(bm25), line[i] \in ToSet(dense))
    BY <1>1
  <2> DEFINE c == line[i]
             inBm25 == line[i] \in ToSet(bm25)
             inDense == line[i] \in ToSet(dense)
  <2>2. inBm25 \in BOOLEAN /\ inDense \in BOOLEAN /\ c \in A
    BY <1>7
  <2>3. list[i] = Candidate(c, inBm25, inDense)
    BY <2>1
  <2> HIDE DEF inBm25, inDense, c
  <2>4. Candidate(c, inBm25, inDense) \in Candidates(A) /\ Candidate(c, inBm25, inDense).chunk = c
    BY <2>2, CandidateOfChunk
  <2> QED BY <2>3, <2>4 DEF c
<1>9. list \in Seq(Candidates(A))
  <2>1. list = [i \in 1 .. Len(line) |-> list[i]]
    BY <1>1, <1>7
  <2> QED BY <2>1, <1>7, <1>8
<1>10. Distinct(list)
  BY <1>6, <1>7, <1>8 DEF Distinct
<1> QED BY <1>9, <1>10 DEF Lists, list

Reply == [at : Nat, score : {"pass", "fail"}]

LEMMA ConcatDistinct ==
  ASSUME NEW A, NEW s \in Lists(A), NEW t \in Lists(A),
         \A i \in 1 .. Len(s), j \in 1 .. Len(t) : s[i].chunk # t[j].chunk
  PROVE  s \o t \in Lists(A)
<1>1. s \in Seq(Candidates(A)) /\ t \in Seq(Candidates(A)) /\ Distinct(s) /\ Distinct(t)
  BY DEF Lists
<1> DEFINE m == Len(s)
           n == Len(t)
           both == s \o t
<1>2. /\ both \in Seq(Candidates(A)) /\ Len(both) = m + n /\ m \in Nat /\ n \in Nat
      /\ \A i \in 1 .. m : both[i] = s[i]
      /\ \A i \in 1 .. n : both[m + i] = t[i]
  BY <1>1, ConcatElements
<1>3. DOMAIN s = 1 .. m /\ DOMAIN t = 1 .. n /\ DOMAIN both = 1 .. m + n
  BY <1>1, <1>2
<1> HIDE DEF m, n, both
<1>4. \A i \in m + 1 .. m + n : i - m \in 1 .. n /\ both[i] = t[i - m]
  <2> TAKE i \in m + 1 .. m + n
  <2>1. i - m \in 1 .. n /\ m + (i - m) = i
    BY <1>2
  <2> QED BY <2>1, <1>2
<1>5. ASSUME NEW i \in 1 .. m + n, NEW j \in 1 .. m + n, both[i].chunk = both[j].chunk
      PROVE  i = j
  <2>1. CASE i <= m /\ j <= m
    <3>1. i \in 1 .. m /\ j \in 1 .. m
      BY <2>1, <1>2
    <3> QED BY <3>1, <1>1, <1>2, <1>3, <1>5 DEF Distinct
  <2>2. CASE i > m /\ j > m
    <3>1. i \in m + 1 .. m + n /\ j \in m + 1 .. m + n
      BY <2>2, <1>2
    <3>2. i - m = j - m
      BY <3>1, <1>1, <1>3, <1>4, <1>5 DEF Distinct
    <3> QED BY <3>2, <1>2
  <2>3. CASE i <= m /\ j > m
    <3>1. i \in 1 .. m /\ j \in m + 1 .. m + n
      BY <2>3, <1>2
    <3>2. both[i] = s[i] /\ both[j] = t[j - m] /\ j - m \in 1 .. n
      BY <3>1, <1>2, <1>4
    <3> QED BY <3>1, <3>2, <1>5 DEF m, n
  <2>4. CASE i > m /\ j <= m
    <3>1. j \in 1 .. m /\ i \in m + 1 .. m + n
      BY <2>4, <1>2
    <3>2. both[j] = s[j] /\ both[i] = t[i - m] /\ i - m \in 1 .. n
      BY <3>1, <1>2, <1>4
    <3> QED BY <3>1, <3>2, <1>5 DEF m, n
  <2> QED BY <1>2, <2>1, <2>2, <2>3, <2>4
<1>6. Distinct(both)
  BY <1>3, <1>5 DEF Distinct
<1> QED BY <1>2, <1>6 DEF Lists, both

\* Whatever a reranker answers, no candidate comes twice.
LEMMA Reranking ==
  ASSUME NEW A, NEW candidates \in Lists(A), NEW reply \in Seq(Reply)
  PROVE  Reranked(candidates, reply) \in Lists(A)
<1> DEFINE m == Len(reply)
           n == Len(candidates)
           First(i) == /\ reply[i].at \in DOMAIN candidates
                       /\ \A j \in 1 .. i - 1 : reply[j].at # reply[i].at
           mentioned == {i \in 1 .. m : First(i)}
           mentions == Only([i \in 1 .. m |-> i], mentioned)
           named == [i \in DOMAIN mentions |-> reply[mentions[i]].at]
           left == (1 .. n) \ ToSet(named)
           others == Only([i \in 1 .. n |-> i], left)
           head == [i \in DOMAIN named |->
                       [candidates[named[i]] EXCEPT !.rerank = reply[mentions[i]].score]]
           tail == [i \in DOMAIN others |-> candidates[others[i]]]
<1>1. /\ candidates \in Seq(Candidates(A)) /\ Distinct(candidates) /\ m \in Nat /\ n \in Nat
      /\ DOMAIN candidates = 1 .. n /\ DOMAIN reply = 1 .. m
      /\ \A i \in 1 .. n : candidates[i] \in Candidates(A)
      /\ \A i \in 1 .. m : reply[i] \in Reply
  BY DEF Lists
<1>2. Reranked(candidates, reply) = head \o tail
  BY <1>1 DEF Reranked
<1>3. /\ DOMAIN mentions = 1 .. Len(mentions) /\ Len(mentions) \in Nat
      /\ \A k \in 1 .. Len(mentions) : mentions[k] \in 1 .. m /\ mentions[k] \in mentioned
      /\ \A k, l \in 1 .. Len(mentions) : k < l => mentions[k] < mentions[l]
  <2> HIDE DEF mentioned, m
  <2> QED BY <1>1, Positions
<1>4. /\ DOMAIN others = 1 .. Len(others) /\ Len(others) \in Nat
      /\ \A k \in 1 .. Len(others) : others[k] \in 1 .. n /\ others[k] \in left
      /\ \A k, l \in 1 .. Len(others) : others[k] = others[l] => k = l
  <2> HIDE DEF left, n
  <2> QED BY <1>1, Positions
<1> HIDE DEF mentions, others
<1>5. /\ DOMAIN mentions = 1 .. Len(mentions) /\ Len(mentions) \in Nat
      /\ \A k \in 1 .. Len(mentions) : mentions[k] \in 1 .. m /\ First(mentions[k])
  BY <1>3
<1>6. /\ DOMAIN named = 1 .. Len(mentions)
      /\ \A k \in 1 .. Len(mentions) : /\ named[k] = reply[mentions[k]].at
                                       /\ named[k] \in 1 .. n
  BY <1>1, <1>5
<1>7. ASSUME NEW k \in 1 .. Len(mentions), NEW l \in 1 .. Len(mentions), named[k] = named[l], k < l
      PROVE  FALSE
  <2>1. mentions[k] < mentions[l] /\ mentions[k] \in 1 .. m /\ mentions[l] \in 1 .. m
    BY <1>3, <1>5, <1>7
  <2>2. mentions[k] \in 1 .. mentions[l] - 1
    BY <2>1
  <2>3. reply[mentions[k]].at # reply[mentions[l]].at
    BY <2>2, <1>5
  <2> QED BY <2>3, <1>6, <1>7
<1>8. \A k, l \in 1 .. Len(mentions) : named[k] = named[l] => k = l
  <2> SUFFICES ASSUME NEW k \in 1 .. Len(mentions), NEW l \in 1 .. Len(mentions),
                      named[k] = named[l], k # l
               PROVE  FALSE
    OBVIOUS
  <2>1. k < l \/ l < k
    BY <1>5
  <2> QED BY <2>1, <1>7
<1>10. \A k \in 1 .. Len(others), l \in 1 .. Len(mentions) : named[l] # others[k]
  BY <1>4, <1>6 DEF ToSet
<1> HIDE DEF named, left, mentioned, m, n
<1>11. /\ DOMAIN head = 1 .. Len(mentions)
       /\ \A k \in 1 .. Len(mentions) :
              head[k] \in Candidates(A) /\ head[k].chunk = candidates[named[k]].chunk
  <2>1. ASSUME NEW k \in 1 .. Len(mentions)
        PROVE  head[k] \in Candidates(A) /\ head[k].chunk = candidates[named[k]].chunk
    <3>1. head[k] = [candidates[named[k]] EXCEPT !.rerank = reply[mentions[k]].score]
      BY <1>6
    <3>2. candidates[named[k]] \in Candidates(A) /\ reply[mentions[k]].score \in {"pass", "fail"}
      BY <1>1, <1>5, <1>6 DEF Reply
    <3> HIDE DEF head
    <3> QED BY <3>1, <3>2 DEF Candidates
  <2> QED BY <2>1, <1>6
<1>12. /\ DOMAIN tail = 1 .. Len(others)
       /\ \A k \in 1 .. Len(others) :
              tail[k] \in Candidates(A) /\ tail[k].chunk = candidates[others[k]].chunk
  BY <1>1, <1>4
<1>13. head = [k \in 1 .. Len(mentions) |-> head[k]] /\ tail = [k \in 1 .. Len(others) |-> tail[k]]
  BY <1>6, <1>4
<1> HIDE DEF head, tail
<1>14. head \in Seq(Candidates(A)) /\ tail \in Seq(Candidates(A))
  BY <1>5, <1>4, <1>11, <1>12, <1>13
<1>15. head \in Lists(A)
  BY <1>1, <1>6, <1>8, <1>11, <1>14 DEF Lists, Distinct
<1>16. tail \in Lists(A)
  <2>1. ASSUME NEW k \in 1 .. Len(others), NEW l \in 1 .. Len(others), tail[k].chunk = tail[l].chunk
        PROVE  k = l
    <3>1. others[k] = others[l]
      BY <2>1, <1>1, <1>4, <1>12 DEF Distinct
    <3> QED BY <3>1, <1>4
  <2> QED BY <2>1, <1>12, <1>14 DEF Lists, Distinct
<1>17. Len(head) = Len(mentions) /\ Len(tail) = Len(others)
  BY <1>5, <1>4, <1>11, <1>12, <1>14
<1>18. ASSUME NEW i \in 1 .. Len(head), NEW j \in 1 .. Len(tail)
       PROVE  head[i].chunk # tail[j].chunk
  <2>1. i \in 1 .. Len(mentions) /\ j \in 1 .. Len(others)
    BY <1>17
  <2>2. named[i] \in 1 .. n /\ others[j] \in 1 .. n /\ named[i] # others[j]
    BY <2>1, <1>4, <1>6, <1>10
  <2>3. candidates[named[i]].chunk # candidates[others[j]].chunk
    BY <2>2, <1>1 DEF Distinct
  <2> QED BY <2>1, <2>3, <1>11, <1>12
<1> QED BY <1>2, <1>15, <1>16, <1>18, ConcatDistinct

\* Recall and reranking give a list of candidates the request may see.
LEMMA Recalling ==
  ASSUME EvidenceAssumption, mode \in {"bm25", "dense", "hybrid"},
         NEW bm25 \in Rankings \cup {Failed}, NEW dense \in Rankings \cup {Failed},
         NEW reply \in RerankReplies, ~RecallFails(bm25, dense)
  PROVE  /\ Recalled(bm25, dense) \in Lists(InScope)
         /\ Reranked(Recalled(bm25, dense), reply) \in Lists(InScope)
<1>1. InScope \in SUBSET Chunks
  BY DEF InScope
<1>2. \A r \in Rankings : r \in Seq(InScope) /\ IsInjective(r)
  BY RankingsAreLists
<1>3. Recalled(bm25, dense) \in Lists(InScope)
  <2>1. CASE mode = "bm25"
    <3>1. bm25 \in Rankings
      BY <2>1 DEF RecallFails
    <3>2. CandidatesOf(bm25, "bm25") \in Lists(InScope)
      BY <3>1, <1>1, <1>2, OneSide
    <3> QED BY <2>1, <3>2 DEF Recalled
  <2>2. CASE mode = "dense"
    <3>1. dense \in Rankings
      BY <2>2 DEF RecallFails
    <3>2. CandidatesOf(dense, "dense") \in Lists(InScope)
      BY <3>1, <1>1, <1>2, OneSide
    <3> QED BY <2>2, <3>2 DEF Recalled
  <2>3. CASE mode = "hybrid"
    <3> DEFINE Found(r) == IF r = Failed THEN <<>> ELSE r
    <3>1. <<>> \in Seq(InScope)
      OBVIOUS
    <3>2. Found(bm25) \in Seq(InScope) /\ Found(dense) \in Seq(InScope)
      BY <3>1, <1>2
    <3>3. Recalled(bm25, dense) = Fused(Found(bm25), Found(dense))
      BY <2>3 DEF Recalled
    <3> HIDE DEF Found
    <3> QED BY <3>2, <3>3, <1>1, Fusion
  <2> QED BY <2>1, <2>2, <2>3
<1>4. reply \in Seq(Reply)
  <2>1. \A at \in Nat, score \in {"pass", "fail"} : [at |-> at, score |-> score] \in Reply
    BY DEF Reply
  <2> DEFINE P(at) == [at |-> at, score |-> "pass"]
             F(at) == [at |-> at, score |-> "fail"]
  <2>2. \A at \in Nat : P(at) \in Reply /\ F(at) \in Reply
    BY <2>1
  <2>3. RerankReplies = {<<>>, <<P(2), F(2)>>, <<P(9), F(1), P(3)>>, <<P(2), P(1)>>}
    BY DEF RerankReplies
  <2> HIDE DEF P, F
  <2>4. /\ <<>> \in Seq(Reply) /\ <<P(2), F(2)>> \in Seq(Reply)
        /\ <<P(9), F(1), P(3)>> \in Seq(Reply) /\ <<P(2), P(1)>> \in Seq(Reply)
    BY <2>2
  <2> QED BY <2>3, <2>4
<1> QED BY <1>3, <1>4, Reranking

-------------------------------------------------------------------------------
(* Selections: what is taken from the candidates so far *)

Items(A) == [number : Nat, chunk : A]

\* What is taken while the candidates are gone through.
Takings(A, candidates) ==
    {f \in [0 .. Len(candidates) -> Seq(Items(A))] :
        /\ Select(candidates) = f[Len(candidates)]
        /\ f[0] = <<>>
        /\ \A i \in 1 .. Len(candidates) : f[i] = Selected(f[i - 1], candidates[i])}

LEMMA SelectedIsItems ==
  ASSUME NEW A, NEW evid \in Seq(Items(A)), NEW x \in Candidates(A)
  PROVE  Selected(evid, x) \in Seq(Items(A))
<1> DEFINE item == [number |-> Len(evid) + 1, chunk |-> x.chunk]
<1>1. item \in Items(A)
  BY DEF Items, Candidates
<1>2. Selected(evid, x) = IF Fits(evid, x) THEN Append(evid, item) ELSE evid
  BY DEF Selected
<1> HIDE DEF item
<1>3. Append(evid, item) \in Seq(Items(A))
  BY <1>1
<1> QED BY <1>2, <1>3

LEMMA SelectRecursion ==
  ASSUME NEW A, NEW candidates \in Seq(Candidates(A))
  PROVE  Takings(A, candidates) # {}
<1> DEFINE n == Len(candidates)
           V == Seq(Items(A))
           step == [i \in 1 .. n |-> [v \in V |-> Selected(v, candidates[i])]]
           Body(g) == [i \in 0 .. n |-> IF i = 0 THEN <<>> ELSE Selected(g[i - 1], candidates[i])]
<1>1. n \in Nat /\ <<>> \in V /\ \A i \in 1 .. n : candidates[i] \in Candidates(A)
  OBVIOUS
<1>2. step \in [1 .. n -> [V -> V]]
  <2> SUFFICES ASSUME NEW i \in 1 .. n, NEW v \in V PROVE Selected(v, candidates[i]) \in V
    OBVIOUS
  <2> DEFINE x == candidates[i]
  <2>1. x \in Candidates(A)
    BY <1>1
  <2> HIDE DEF x
  <2>2. Selected(v, x) \in V
    BY <2>1, SelectedIsItems
  <2> QED BY <2>2 DEF x
<1>3. PICK f \in [0 .. n -> V] : f[0] = <<>> /\ \A i \in 1 .. n : f[i] = step[i][f[i - 1]]
  <2>1. Iterations(V, n, <<>>, step) # {}
    <3> HIDE DEF step, n, V
    <3> QED BY <1>1, <1>2, Recursion
  <2> QED BY <2>1 DEF Iterations
<1> HIDE DEF V
<1>4. \A i \in 1 .. n : f[i] = Selected(f[i - 1], candidates[i])
  <2> TAKE i \in 1 .. n
  <2> f[i - 1] \in V
    BY <1>1
  <2> QED BY <1>3
<1>5. f = Body(f)
  <2>1. \A i \in 1 .. n : f[i] = Body(f)[i]
    BY <1>4
  <2>2. f[0] = Body(f)[0]
    BY <1>3, <1>1
  <2>3. \A i \in 0 .. n : f[i] = Body(f)[i]
    <3> HIDE DEF Body
    <3> TAKE i \in 0 .. n
    <3> QED BY <2>1, <2>2, <1>1
  <2> QED BY <2>3
<1> DEFINE evid == CHOOSE g : g = Body(g)
<1>6. evid = Body(evid)
  <2> HIDE DEF Body
  <2> QED BY <1>5
<1>7. Select(candidates) = evid[n]
  BY DEF Select
<1> HIDE DEF evid
<1>8. /\ DOMAIN evid = 0 .. n /\ evid[0] = <<>>
      /\ \A i \in 1 .. n : evid[i] = Selected(evid[i - 1], candidates[i])
  <2>1. \A g : DOMAIN Body(g) = 0 .. n /\ Body(g)[0] = <<>>
    BY <1>1
  <2>2. \A g : \A i \in 1 .. n : Body(g)[i] = Selected(g[i - 1], candidates[i])
    BY <1>1
  <2> HIDE DEF Body
  <2>3. DOMAIN evid = 0 .. n /\ evid[0] = <<>>
    BY <2>1, <1>6
  <2>4. \A i \in 1 .. n : evid[i] = Body(evid)[i]
    BY <1>6
  <2> QED BY <2>2, <2>3, <2>4
<1>9. \A i \in 0 .. n : i \in {j \in 0 .. n : evid[j] \in V}
  <2> DEFINE S == {j \in 0 .. n : evid[j] \in V}
  <2>1. 0 \in S
    BY <1>1, <1>8
  <2>2. ASSUME NEW i \in 0 .. n - 1, i \in S PROVE i + 1 \in S
    <3> DEFINE x == candidates[i + 1]
               before == evid[i]
    <3>1. /\ i + 1 \in 1 .. n /\ i + 1 \in 0 .. n /\ (i + 1) - 1 = i
          /\ before \in V /\ x \in Candidates(A)
      BY <1>1, <2>2
    <3>2. evid[i + 1] = Selected(before, x)
      BY <3>1, <1>8
    <3> HIDE DEF x, before
    <3>3. Selected(before, x) \in V
      BY <3>1, SelectedIsItems DEF V
    <3> QED BY <3>1, <3>2, <3>3
  <2> HIDE DEF S, n
  <2>3. \A i \in 0 .. n : i \in S
    BY <1>1, <2>1, <2>2, IntervalInduction
  <2> QED BY <2>3 DEF S
<1>10. evid = [i \in 0 .. n |-> evid[i]]
  <2>1. evid = [i \in 0 .. n |-> IF i = 0 THEN <<>> ELSE Selected(evid[i - 1], candidates[i])]
    BY <1>6 DEF Body
  <2>2. \A i \in 0 .. n : evid[i] = IF i = 0 THEN <<>> ELSE Selected(evid[i - 1], candidates[i])
    BY <2>1
  <2> QED BY <2>1, <2>2
<1>11. evid \in [0 .. n -> V]
  BY <1>9, <1>10
<1> QED BY <1>7, <1>8, <1>11 DEF Takings, V

\* What one more item adds to the size of the evidence.
LEMMA UsedOfAppend ==
  ASSUME NEW A, \A c \in A : c.size \in Nat \ {0}, NEW evid \in Seq(Items(A)),
         NEW item \in Items(A)
  PROVE  /\ Used(evid) \in Int /\ Used(<<>>) = 0
         /\ Used(Append(evid, item)) = Used(evid) + item.chunk.size
         /\ item.chunk.size \in Nat \ {0}
<1> DEFINE Sizes(e) == [i \in DOMAIN e |-> e[i].chunk.size]
           more == Append(evid, item)
           size == item.chunk.size
<1>1. \A x \in Items(A) : x.chunk.size \in Nat \ {0}
  BY DEF Items
<1>2. /\ DOMAIN evid = 1 .. Len(evid) /\ Len(evid) \in Nat
      /\ \A i \in 1 .. Len(evid) : evid[i] \in Items(A)
  OBVIOUS
<1>3. /\ DOMAIN more = 1 .. Len(evid) + 1 /\ more[Len(evid) + 1] = item
      /\ \A i \in 1 .. Len(evid) : more[i] = evid[i]
  BY <1>2
<1> HIDE DEF more
<1>4. Sizes(evid) \in Seq(Int) /\ Len(Sizes(evid)) = Len(evid)
  BY <1>1, <1>2
<1>5. size \in Int
  BY <1>1
<1>6. Sizes(more) = Append(Sizes(evid), size)
  <2>1. /\ Append(Sizes(evid), size) \in Seq(Int)
        /\ Len(Append(Sizes(evid), size)) = Len(evid) + 1
        /\ Append(Sizes(evid), size)[Len(evid) + 1] = size
        /\ \A i \in 1 .. Len(evid) : Append(Sizes(evid), size)[i] = Sizes(evid)[i]
    <3> HIDE DEF Sizes, size
    <3> QED BY <1>4, <1>5, AppendElements
  <2>2. DOMAIN Sizes(more) = 1 .. Len(evid) + 1
    BY <1>3
  <2>3. \A i \in 1 .. Len(evid) + 1 : Sizes(more)[i] = Append(Sizes(evid), size)[i]
    <3> TAKE i \in 1 .. Len(evid) + 1
    <3>1. i \in 1 .. Len(evid) \/ i = Len(evid) + 1
      BY <1>2
    <3>2. CASE i \in 1 .. Len(evid)
      <4>1. Sizes(more)[i] = evid[i].chunk.size
        BY <3>2, <1>3
      <4> QED BY <3>2, <4>1, <2>1, <1>2
    <3>3. CASE i = Len(evid) + 1
      BY <3>3, <2>1, <1>3
    <3> QED BY <3>1, <3>2, <3>3
  <2> DEFINE longer == Append(Sizes(evid), size)
  <2>4. DOMAIN longer = 1 .. Len(evid) + 1 /\ longer = [i \in 1 .. Len(evid) + 1 |-> longer[i]]
    <3>1. longer \in Seq(Int) /\ Len(longer) = Len(evid) + 1
      BY <2>1
    <3> HIDE DEF longer
    <3> QED BY <3>1
  <2>5. Sizes(more) = [i \in 1 .. Len(evid) + 1 |-> Sizes(more)[i]]
    BY <1>3
  <2> HIDE DEF longer, Sizes
  <2> QED BY <2>3, <2>4, <2>5 DEF longer
<1>7. Sizes(<<>>) = <<>>
  OBVIOUS
<1>8. SumOf(Sizes(evid)) \in Int /\ SumOf(<<>>) = 0
      /\ SumOf(Append(Sizes(evid), size)) = SumOf(Sizes(evid)) + size
  <2> HIDE DEF Sizes, size
  <2> QED BY <1>4, <1>5, SumOfAppend
<1>9. \A e : Used(e) = SumOf(Sizes(e))
  BY DEF Used
<1> QED BY <1>1, <1>6, <1>7, <1>8, <1>9 DEF more

\* What has been taken from the first n candidates is well chosen from them.
WellTaken(A, candidates, n, evid) ==
    /\ evid \in Seq(Items(A))
    /\ \A k \in DOMAIN evid :
           /\ evid[k].number = k
           /\ \E j \in 1 .. n : evid[k].chunk = candidates[j].chunk /\ Relevant(candidates[j])
    /\ \A k, l \in DOMAIN evid : evid[k].chunk.text = evid[l].chunk.text => k = l
    /\ Len(evid) <= FinalTopK /\ Used(evid) <= TokenBudget
    /\ \A j \in 1 .. n :
           \/ \E k \in DOMAIN evid : evid[k].chunk = candidates[j].chunk
           \/ ~Fits(evid, candidates[j])

\* One candidate more.
LEMMA TakenOnceMore ==
  ASSUME EvidenceAssumption, NEW A \in SUBSET Chunks, NEW candidates \in Seq(Candidates(A)),
         NEW n \in 0 .. Len(candidates) - 1, NEW evid, WellTaken(A, candidates, n, evid)
  PROVE  WellTaken(A, candidates, n + 1, Selected(evid, candidates[n + 1]))
<1> DEFINE x == candidates[n + 1]
           item == [number |-> Len(evid) + 1, chunk |-> x.chunk]
           more == Append(evid, item)
<1>1. /\ n \in Nat /\ n + 1 \in 1 .. Len(candidates) /\ Len(candidates) \in Nat
      /\ \A j \in 1 .. Len(candidates) : candidates[j] \in Candidates(A)
      /\ FinalTopK \in Nat /\ TokenBudget \in Nat
  BY DEF EvidenceAssumption
<1>2. x \in Candidates(A) /\ x.chunk \in A /\ \A c \in A : c.size \in Nat \ {0}
  BY <1>1 DEF Candidates, EvidenceAssumption
<1>3. /\ evid \in Seq(Items(A)) /\ DOMAIN evid = 1 .. Len(evid) /\ Len(evid) \in Nat
      /\ \A k \in 1 .. Len(evid) : evid[k] \in Items(A)
  BY DEF WellTaken
<1>4. \A j \in 1 .. n + 1 : j \in 1 .. n \/ j = n + 1
  BY <1>1
<1>5. \A j \in 1 .. n : j \in 1 .. n + 1
  BY <1>1
<1>6. CASE ~Fits(evid, x)
  <2>1. Selected(evid, x) = evid
    BY <1>6 DEF Selected
  <2>2. WellTaken(A, candidates, n + 1, evid)
    BY <1>3, <1>4, <1>5, <1>6 DEF WellTaken
  <2> QED BY <2>1, <2>2
<1>7. CASE Fits(evid, x)
  <2>1. Selected(evid, x) = more
    BY <1>7 DEF Selected
  <2>2. item \in Items(A) /\ item.number = Len(evid) + 1 /\ item.chunk = x.chunk
    BY <1>2, <1>3 DEF Items
  <2>3. /\ Len(evid) < FinalTopK /\ x.chunk.text \notin Texts(evid) /\ Relevant(x)
        /\ Used(evid) + x.chunk.size <= TokenBudget
    BY <1>7 DEF Fits
  <2> HIDE DEF item, x
  <2>4. /\ more \in Seq(Items(A)) /\ Len(more) = Len(evid) + 1
        /\ more[Len(evid) + 1] = item /\ \A k \in 1 .. Len(evid) : more[k] = evid[k]
        /\ ToSet(more) = ToSet(evid) \cup {item}
    BY <1>3, <2>2, AppendElements
  <2>5. /\ Used(more) = Used(evid) + x.chunk.size /\ Used(evid) \in Int
        /\ x.chunk.size \in Nat \ {0}
    BY <1>2, <1>3, <2>2, UsedOfAppend
  <2> HIDE DEF more
  <2>6. DOMAIN more = 1 .. Len(evid) + 1
    BY <2>4
  <2>7. \A k \in 1 .. Len(evid) + 1 : k \in 1 .. Len(evid) \/ k = Len(evid) + 1
    BY <1>3
  <2>8. Len(evid) + 1 \in 1 .. Len(evid) + 1 /\ n + 1 \in 1 .. n + 1
    BY <1>1, <1>3
  <2>9. ASSUME NEW k \in DOMAIN more
        PROVE  /\ more[k].number = k
               /\ \E j \in 1 .. n + 1 : more[k].chunk = candidates[j].chunk /\ Relevant(candidates[j])
    <3>1. CASE k \in 1 .. Len(evid)
      BY <3>1, <1>3, <1>5, <2>4 DEF WellTaken
    <3>2. CASE k = Len(evid) + 1
      BY <3>2, <2>2, <2>3, <2>4, <2>8 DEF x
    <3> QED BY <3>1, <3>2, <2>6, <2>7
  <2>10. \A k \in 1 .. Len(evid) : evid[k].chunk.text # x.chunk.text
    <3>1. \A k \in 1 .. Len(evid) : evid[k] \in ToSet(evid)
      BY <1>3 DEF ToSet
    <3> QED BY <3>1, <2>3 DEF Texts
  <2>11. ASSUME NEW k \in DOMAIN more, NEW l \in DOMAIN more, more[k].chunk.text = more[l].chunk.text
         PROVE  k = l
    <3>1. CASE k \in 1 .. Len(evid) /\ l \in 1 .. Len(evid)
      BY <3>1, <1>3, <2>4, <2>11 DEF WellTaken
    <3>2. CASE k \in 1 .. Len(evid) /\ l = Len(evid) + 1
      BY <3>2, <2>2, <2>4, <2>10, <2>11
    <3>3. CASE k = Len(evid) + 1 /\ l \in 1 .. Len(evid)
      BY <3>3, <2>2, <2>4, <2>10, <2>11
    <3> QED BY <3>1, <3>2, <3>3, <2>6, <2>7
  <2>12. Len(more) <= FinalTopK /\ Used(more) <= TokenBudget
    BY <1>1, <1>3, <2>3, <2>4, <2>5
  \* What did not fit before does not fit now.
  <2>13. ASSUME NEW y \in Candidates(A), Fits(more, y) PROVE Fits(evid, y)
    <3>1. /\ Len(more) < FinalTopK /\ y.chunk.text \notin Texts(more) /\ Relevant(y)
          /\ Used(more) + y.chunk.size <= TokenBudget
      BY <2>13 DEF Fits
    <3>2. y.chunk.text \notin Texts(evid)
      BY <3>1, <2>4 DEF Texts
    <3>3. y.chunk.size \in Nat
      BY <1>2 DEF Candidates
    <3>4. Len(evid) < FinalTopK /\ Used(evid) + y.chunk.size <= TokenBudget
      BY <1>1, <1>3, <2>4, <2>5, <3>1, <3>3
    <3> QED BY <3>1, <3>2, <3>4 DEF Fits
  <2>14. ASSUME NEW j \in 1 .. n + 1
         PROVE  \/ \E k \in DOMAIN more : more[k].chunk = candidates[j].chunk
                \/ ~Fits(more, candidates[j])
    <3>1. CASE j \in 1 .. n
      <4>1. candidates[j] \in Candidates(A)
        BY <3>1, <1>1
      <4>2. CASE \E k \in DOMAIN evid : evid[k].chunk = candidates[j].chunk
        <5>1. PICK k \in 1 .. Len(evid) : evid[k].chunk = candidates[j].chunk
          BY <4>2, <1>3
        <5>2. k \in DOMAIN more /\ more[k] = evid[k]
          BY <1>3, <2>4, <2>6
        <5> QED BY <5>1, <5>2
      <4>3. CASE ~Fits(evid, candidates[j])
        BY <4>1, <4>3, <2>13
      <4> QED BY <3>1, <4>2, <4>3 DEF WellTaken
    <3>2. CASE j = n + 1
      BY <3>2, <2>2, <2>4, <2>6, <2>8 DEF x
    <3> QED BY <3>1, <3>2, <1>4
  <2>15. WellTaken(A, candidates, n + 1, more)
    BY <2>4, <2>9, <2>11, <2>12, <2>14 DEF WellTaken
  <2> QED BY <2>1, <2>15 DEF x
<1> QED BY <1>6, <1>7

\* EvidenceSelector.select
LEMMA Selecting ==
  ASSUME EvidenceAssumption, NEW A \in SUBSET Chunks, NEW candidates \in Seq(Candidates(A))
  PROVE  WellTaken(A, candidates, Len(candidates), Select(candidates))
<1> DEFINE n == Len(candidates)
<1>1. PICK f \in [0 .. n -> Seq(Items(A))] :
          /\ Select(candidates) = f[n] /\ f[0] = <<>>
          /\ \A i \in 1 .. n : f[i] = Selected(f[i - 1], candidates[i])
  <2>1. Takings(A, candidates) # {}
    BY SelectRecursion
  <2> QED BY <2>1 DEF Takings
<1> DEFINE S == {i \in 0 .. n : WellTaken(A, candidates, i, f[i])}
<1>2. n \in Nat /\ FinalTopK \in Nat /\ TokenBudget \in Nat
  BY DEF EvidenceAssumption
<1>3. 0 \in S
  <2>1. Used(<<>>) = 0
    <3>1. [i \in DOMAIN <<>> |-> <<>>[i].chunk.size] = <<>>
      OBVIOUS
    <3>2. <<>> \in Seq(Int) /\ 0 \in Int
      OBVIOUS
    <3>3. SumOf(<<>>) = 0
      BY <3>2, SumOfAppend
    <3> QED BY <3>1, <3>3 DEF Used
  <2>2. <<>> \in Seq(Items(A)) /\ DOMAIN <<>> = {} /\ Len(<<>>) = 0
    OBVIOUS
  <2>3. WellTaken(A, candidates, 0, <<>>)
    BY <1>2, <2>1, <2>2 DEF WellTaken
  <2> QED BY <1>1, <1>2, <2>3
<1>4. ASSUME NEW i \in 0 .. n - 1, i \in S PROVE i + 1 \in S
  <2>1. i + 1 \in 0 .. n /\ i + 1 \in 1 .. n /\ (i + 1) - 1 = i /\ i \in 0 .. Len(candidates) - 1
    BY <1>2
  <2>2. WellTaken(A, candidates, i, f[i]) /\ f[i + 1] = Selected(f[i], candidates[i + 1])
    BY <1>1, <1>4, <2>1
  <2>3. WellTaken(A, candidates, i + 1, Selected(f[i], candidates[i + 1]))
    BY <2>1, <2>2, TakenOnceMore
  <2> QED BY <2>1, <2>2, <2>3
<1>5. n \in S
  <2> HIDE DEF S, n
  <2>1. \A i \in 0 .. n : i \in S
    BY <1>2, <1>3, <1>4, IntervalInduction
  <2> QED BY <2>1, <1>2
<1> QED BY <1>1, <1>5

Numbered(evid) == \A i \in DOMAIN evid : evid[i].number = i

\* _reindex numbers what is left from one.
LEMMA Renumbering ==
  ASSUME NEW A, NEW evid \in Seq(Items(A))
  PROVE  Reindexed(evid) \in Seq(Items(A)) /\ Numbered(Reindexed(evid))
<1> DEFINE n == Len(evid)
           New(i) == \A j \in 1 .. i - 1 : evid[j].chunk # evid[i].chunk
           good == {i \in 1 .. n : New(i)}
           kept == Only([i \in 1 .. n |-> i], good)
           list == [i \in DOMAIN kept |-> [number |-> i, chunk |-> evid[kept[i]].chunk]]
<1>1. n \in Nat /\ DOMAIN evid = 1 .. n /\ \A i \in 1 .. n : evid[i].chunk \in A
  <2>1. n \in Nat /\ DOMAIN evid = 1 .. n /\ \A i \in 1 .. n : evid[i] \in Items(A)
    OBVIOUS
  <2> QED BY <2>1 DEF Items
<1>2. Reindexed(evid) = list
  BY <1>1 DEF Reindexed
<1>3. /\ DOMAIN kept = 1 .. Len(kept) /\ Len(kept) \in Nat
      /\ \A k \in 1 .. Len(kept) : kept[k] \in 1 .. n
  <2> HIDE DEF good, n
  <2> QED BY <1>1, Positions
<1> HIDE DEF kept, n
<1>4. /\ DOMAIN list = 1 .. Len(kept)
      /\ \A k \in 1 .. Len(kept) : list[k] \in Items(A) /\ list[k].number = k
  BY <1>1, <1>3 DEF Items
<1>5. list = [k \in 1 .. Len(kept) |-> list[k]]
  BY <1>3
<1> HIDE DEF list
<1>6. list \in Seq(Items(A)) /\ Numbered(list)
  BY <1>3, <1>4, <1>5 DEF Numbered
<1> QED BY <1>2, <1>6

-------------------------------------------------------------------------------
(* The steps of a chain *)

\* A bundle, of which evidence has been selected for a request of scope A.
Bundled(A, b) ==
    b.candidates \in Lists(A) /\ WellTaken(A, b.candidates, Len(b.candidates), b.selected)

\* Where a model reads the evidence.
Writing == {"generate", "repair", "cite", "answered"}

\* What is cited has been printed, and a question is answered from something.
Cited == draft.cites \subseteq Numbers /\ (chain = "qa" => draft.cites # {})

EvidenceInv ==
    /\ chain \in {"qa"} \cup Roles /\ mode \in {"bm25", "dense", "hybrid"} /\ asked \in Nat
    /\ Bundled(InScope, bundle) /\ evidence \in Seq(Items(InScope))
    /\ phase = "collect" => asked >= 1
    /\ chain = "qa" /\ phase \in {"retrieve", "collect"} => evidence = <<>>
    /\ phase \in Writing => Numbered(evidence)
    /\ phase \in {"cite", "answered"} => Cited
    /\ phase = "answered" => refs = {ById(number) : number \in draft.cites}

LEMMA NothingBundled ==
  ASSUME EvidenceAssumption, NEW A \in SUBSET Chunks
  PROVE  Bundled(A, NoBundle)
<1>1. <<>> \in Seq(Candidates(A)) /\ <<>> \in Seq(Items(A)) /\ DOMAIN <<>> = {} /\ Len(<<>>) = 0
  OBVIOUS
<1>2. <<>> \in Lists(A)
  BY <1>1 DEF Lists, Distinct
<1>3. WellTaken(A, <<>>, 0, Select(<<>>))
  BY <1>1, Selecting
<1>4. Select(<<>>) = <<>>
  <2>1. Takings(A, <<>>) # {}
    BY <1>1, SelectRecursion
  <2> QED BY <1>1, <2>1 DEF Takings
<1> QED BY <1>1, <1>2, <1>3, <1>4 DEF Bundled, NoBundle

LEMMA SoundIsCited ==
  ASSUME chain \in {"qa"} \cup Roles, NEW output, Sound(output)
  PROVE  output.cites \subseteq Numbers /\ (chain = "qa" => output.cites # {})
BY DEF Roles, Sound, AnswerSound, DiagnosisSound, ImpactSound, ResourceSound

\* What a step leaves alone.
LEMMA SameRequest ==
  ASSUME UNCHANGED requestVars
  PROVE  InScope' = InScope /\ chain' = chain /\ mode' = mode
BY DEF requestVars, InScope, Allowed, RecordAllowed, FilterAllows

LEMMA RetrieveStep ==
  ASSUME EvidenceAssumption, EvidenceInv, Retrieve
  PROVE  EvidenceInv'
<1>1. PICK bm25 \in Rankings \cup {Failed}, dense \in Rankings \cup {Failed},
           reply \in RerankReplies \cup {Failed} :
        LET recalled == Recalled(bm25, dense)
            candidates == IF reply = Failed THEN recalled ELSE Reranked(recalled, reply)
        IN IF RecallFails(bm25, dense)
           THEN phase' = "raised" /\ UNCHANGED bundle
           ELSE /\ bundle' = [candidates |-> candidates, selected |-> Select(candidates)]
                /\ phase' = "collect"
  BY DEF Retrieve
<1>2. /\ phase = "retrieve" /\ asked' = asked + 1 /\ evidence' = evidence
      /\ InScope' = InScope /\ chain' = chain /\ mode' = mode /\ asked \in Nat
      /\ mode \in {"bm25", "dense", "hybrid"}
  BY SameRequest DEF Retrieve, EvidenceInv
<1>3. CASE RecallFails(bm25, dense)
  <2>1. phase' = "raised" /\ bundle' = bundle
    BY <1>1, <1>3
  <2> QED BY <1>2, <2>1 DEF EvidenceInv, Writing
<1>4. CASE ~RecallFails(bm25, dense)
  <2> DEFINE recalled == Recalled(bm25, dense)
             candidates == IF reply = Failed THEN recalled ELSE Reranked(recalled, reply)
  <2>1. /\ bundle' = [candidates |-> candidates, selected |-> Select(candidates)]
        /\ phase' = "collect"
    BY <1>1, <1>4
  <2>2. candidates \in Lists(InScope)
    <3>1. RerankReplies # {}
      BY DEF RerankReplies
    <3>2. recalled \in Lists(InScope)
      <4>1. PICK any \in RerankReplies : TRUE
        BY <3>1
      <4> QED BY <4>1, <1>2, <1>4, Recalling
    <3>3. reply # Failed => Reranked(recalled, reply) \in Lists(InScope)
      BY <1>2, <1>4, Recalling
    <3> HIDE DEF recalled
    <3> QED BY <3>2, <3>3
  <2> HIDE DEF candidates
  <2>3. candidates \in Seq(Candidates(InScope)) /\ InScope \in SUBSET Chunks
    BY <2>2 DEF Lists, InScope
  <2>4. Bundled(InScope, bundle')
    BY <2>1, <2>2, <2>3, Selecting DEF Bundled
  <2>5. asked + 1 \in Nat /\ asked + 1 >= 1
    BY <1>2
  <2> QED BY <1>2, <2>1, <2>4, <2>5 DEF EvidenceInv, Writing
<1> QED BY <1>3, <1>4

\* A bundle is collected, and what is collected is numbered before a model reads it.
LEMMA CollectStep ==
  ASSUME EvidenceAssumption, EvidenceInv, Collect \/ Assemble \/ Abstain
  PROVE  EvidenceInv'
<1>1. /\ phase = "collect" /\ asked' = asked /\ bundle' = NoBundle
      /\ InScope' = InScope /\ chain' = chain /\ mode' = mode
  BY SameRequest DEF Collect, Assemble, Abstain
<1>2. Bundled(InScope, bundle')
  BY <1>1, NothingBundled DEF InScope
<1>3. /\ evidence \in Seq(Items(InScope)) /\ bundle.selected \in Seq(Items(InScope))
      /\ Numbered(bundle.selected)
      /\ chain = "qa" => evidence = <<>>
      /\ asked \in Nat /\ asked >= 1
  BY <1>1 DEF EvidenceInv, Bundled, WellTaken, Numbered
<1>4. Collected \in Seq(Items(InScope)) /\ (chain = "qa" => Collected = bundle.selected)
  <2>1. evidence \o bundle.selected \in Seq(Items(InScope))
    BY <1>3, ConcatElements
  <2>2. <<>> \o bundle.selected = bundle.selected
    BY <1>3
  <2> QED BY <2>1, <2>2, <1>3 DEF Collected
<1>5. CASE Collect
  <2>1. evidence' = Collected /\ phase' = "retrieve" /\ asked < Searches
    BY <1>5 DEF Collect
  <2>2. chain # "qa"
    BY <1>3, <2>1 DEF Searches
  <2> QED BY <1>1, <1>2, <1>4, <2>1, <2>2 DEF EvidenceInv, Writing
<1>6. CASE Assemble
  <2>1. /\ evidence' = (IF chain = "qa" THEN Collected ELSE Reindexed(Collected))
        /\ phase' = "generate"
    BY <1>6 DEF Assemble
  <2>2. evidence' \in Seq(Items(InScope)) /\ Numbered(evidence')
    BY <1>3, <1>4, <2>1, Renumbering
  <2> QED BY <1>1, <1>2, <2>1, <2>2 DEF EvidenceInv, Writing
<1>7. CASE Abstain
  <2>1. evidence' = evidence /\ phase' = "refused"
    BY <1>7 DEF Abstain
  <2> QED BY <1>1, <1>2, <2>1 DEF EvidenceInv, Writing
<1> QED BY <1>5, <1>6, <1>7

\* A draft that is kept cites what was printed.
LEMMA WriteStep ==
  ASSUME EvidenceInv, Generate \/ Repair
  PROVE  EvidenceInv'
<1>1. /\ phase \in Writing /\ asked' = asked /\ bundle' = bundle /\ evidence' = evidence
      /\ InScope' = InScope /\ chain' = chain /\ mode' = mode
  BY SameRequest DEF Generate, Repair, Writing
<1>2. /\ phase' \in {"cite", "raised", "repair"}
      /\ phase' = "cite" => \E output \in Outputs : Sound(output) /\ draft' = output
  <2>1. CASE Generate
    BY <2>1 DEF Generate, AfterDraft
  <2>2. CASE Repair
    BY <2>2 DEF Repair
  <2> QED BY <2>1, <2>2
<1>3. Numbers' = Numbers
  BY <1>1 DEF Numbers
<1>4. phase' = "cite" => Cited'
  BY <1>1, <1>2, <1>3, SoundIsCited DEF Cited, EvidenceInv
<1> QED BY <1>1, <1>2, <1>4 DEF EvidenceInv, Writing

LEMMA CiteStep ==
  ASSUME EvidenceInv, Cite
  PROVE  EvidenceInv'
<1>1. /\ phase = "cite" /\ phase' = "answered" /\ asked' = asked /\ bundle' = bundle
      /\ evidence' = evidence /\ draft' = draft
      /\ refs' = {ById(number) : number \in draft.cites}
      /\ InScope' = InScope /\ chain' = chain /\ mode' = mode
  BY SameRequest DEF Cite
<1>2. /\ Cited' = Cited
      /\ {ById(number) : number \in draft.cites}' = {ById(number) : number \in draft.cites}
  BY <1>1 DEF Cited, Numbers, ById
<1> QED BY <1>1, <1>2 DEF EvidenceInv, Writing

\* Bundles are well chosen, evidence is numbered, and what is cited has been printed.
THEOREM EvidenceInvariance ==
  ASSUME EvidenceAssumption PROVE EvidenceSpec => []EvidenceInv
<1>1. EvidenceInit => EvidenceInv
  <2> SUFFICES ASSUME EvidenceInit PROVE EvidenceInv
    OBVIOUS
  <2>1. Bundled(InScope, bundle)
    BY NothingBundled DEF EvidenceInit, InScope
  <2>2. evidence \in Seq(Items(InScope))
    BY DEF EvidenceInit
  <2> QED BY <2>1, <2>2 DEF EvidenceInit, EvidenceInv, Writing
<1>2. EvidenceInv /\ [EvidenceNext]_evidenceVars => EvidenceInv'
  <2> SUFFICES ASSUME EvidenceInv, [EvidenceNext]_evidenceVars PROVE EvidenceInv'
    OBVIOUS
  <2>1. CASE SearchFails
    <3>1. /\ phase' = "raised" /\ asked' = asked + 1 /\ asked \in Nat /\ bundle' = bundle
          /\ evidence' = evidence /\ InScope' = InScope /\ chain' = chain /\ mode' = mode
      BY <2>1, SameRequest DEF SearchFails, EvidenceInv
    <3> QED BY <3>1 DEF EvidenceInv, Writing
  <2>2. CASE UNCHANGED evidenceVars
    <3>1. /\ phase' = phase /\ asked' = asked /\ bundle' = bundle /\ evidence' = evidence
          /\ draft' = draft /\ refs' = refs /\ UNCHANGED requestVars
      BY <2>2 DEF evidenceVars, requestVars
    <3>2. InScope' = InScope /\ chain' = chain /\ mode' = mode
      BY <3>1, SameRequest
    <3>3. /\ Cited' = Cited
          /\ {ById(number) : number \in draft.cites}' = {ById(number) : number \in draft.cites}
      BY <3>1, <3>2 DEF Cited, Numbers, ById
    <3> QED BY <3>1, <3>2, <3>3 DEF EvidenceInv
  <2> QED BY <2>1, <2>2, RetrieveStep, CollectStep, WriteStep, CiteStep DEF EvidenceNext
<1> QED BY <1>1, <1>2, PTL DEF EvidenceSpec

\* Evidence is relevant, within both limits, no text is there twice,
\* and nothing that fits is left out: EvidenceSelector on what recall and reranking give.
THEOREM EvidenceWellChosen ==
  ASSUME EvidenceAssumption PROVE EvidenceSpec => []EvidenceIsWellChosen
<1> DEFINE list == bundle.candidates
           evid == bundle.selected
           chosen == {item.chunk : item \in ToSet(evid)}
           Of(c) == CHOOSE x \in ToSet(list) : x.chunk = c
<1>1. EvidenceInv => EvidenceIsWellChosen
  <2> SUFFICES ASSUME EvidenceInv PROVE EvidenceIsWellChosen
    OBVIOUS
  <2>1. /\ list \in Seq(Candidates(InScope)) /\ Distinct(list)
        /\ WellTaken(InScope, list, Len(list), evid)
    BY DEF EvidenceInv, Bundled, Lists
  <2> HIDE DEF list, evid
  <2>2. /\ evid \in Seq(Items(InScope)) /\ DOMAIN evid = 1 .. Len(evid) /\ Len(evid) \in Nat
        /\ \A k \in 1 .. Len(evid) : evid[k] \in Items(InScope)
        /\ DOMAIN list = 1 .. Len(list) /\ Len(list) \in Nat
    BY <2>1 DEF WellTaken
  <2>3. \A c \in chosen : \E k \in DOMAIN evid : evid[k].chunk = c
    BY DEF ToSet
  <2>4. \A k \in DOMAIN evid : evid[k].chunk \in chosen
    BY DEF ToSet
  <2>5. \A x, y \in ToSet(list) : x.chunk = y.chunk => x = y
    BY <2>1 DEF Distinct, ToSet
  <2>6. ASSUME NEW c \in chosen PROVE Relevant(Of(c))
    <3>1. PICK k \in DOMAIN evid : evid[k].chunk = c
      BY <2>3
    <3>2. PICK j \in 1 .. Len(list) : c = list[j].chunk /\ Relevant(list[j])
      BY <3>1, <2>1 DEF WellTaken
    <3>3. list[j] \in ToSet(list)
      BY <2>2 DEF ToSet
    <3>4. Of(c) = list[j]
      BY <3>2, <3>3, <2>5
    <3> QED BY <3>2, <3>4
  <2>7. ASSUME NEW c \in chosen, NEW d \in chosen, c.text = d.text PROVE c = d
    <3>1. PICK k \in DOMAIN evid, l \in DOMAIN evid : evid[k].chunk = c /\ evid[l].chunk = d
      BY <2>3
    <3>2. \A i, j \in DOMAIN evid : evid[i].chunk.text = evid[j].chunk.text => i = j
      BY <2>1 DEF WellTaken
    <3>3. k = l
      BY <3>1, <3>2, <2>7
    <3> QED BY <3>1, <3>3
  <2>8. Cardinality(chosen) = Len(evid)
    <3> DEFINE chunks == [k \in 1 .. Len(evid) |-> evid[k].chunk]
    <3>1. chunks \in Seq(InScope) /\ Len(chunks) = Len(evid)
      <4>1. \A k \in 1 .. Len(evid) : evid[k].chunk \in InScope
        BY <2>2 DEF Items
      <4> QED BY <4>1, <2>2
    <3>2. ToSet(chunks) = chosen
      BY <2>2 DEF ToSet
    <3>3. IsInjective(chunks)
      BY <2>1, <2>2 DEF IsInjective, WellTaken
    <3> HIDE DEF chunks, chosen
    <3> QED BY <3>1, <3>2, <3>3, FiniteElements
  <2>9. Len(evid) <= FinalTopK /\ Used(evid) <= TokenBudget
    BY <2>1 DEF WellTaken
  <2>10. ASSUME NEW x \in ToSet(list), x.chunk \notin chosen PROVE ~Fits(evid, x)
    <3>1. PICK j \in 1 .. Len(list) : x = list[j]
      BY <2>2 DEF ToSet
    <3> QED BY <3>1, <2>1, <2>4, <2>10 DEF WellTaken
  <2> HIDE DEF chosen
  <2>11. /\ \A c \in chosen : Relevant(Of(c))
         /\ \A c, d \in chosen : c.text = d.text => c = d
         /\ \A x \in ToSet(list) : x.chunk \notin chosen => ~Fits(evid, x)
    BY <2>6, <2>7, <2>10
  <2> QED BY <2>8, <2>9, <2>11 DEF EvidenceIsWellChosen, chosen, list, evid
<1> QED BY <1>1, EvidenceInvariance, PTL

\* What an answer cites is what was printed under the numbers it names: QAWorkflow and the
\* planning workers.
THEOREM CitationsFaithful ==
  ASSUME EvidenceAssumption PROVE EvidenceSpec => []CitationsAreFaithful
<1> DEFINE Printed(number) == {x \in ToSet(evidence) : x.number = number}
<1>1. EvidenceInv => CitationsAreFaithful
  <2> SUFFICES ASSUME EvidenceInv, phase = "answered"
               PROVE  /\ \A number \in draft.cites :
                            \E c \in refs : {item.chunk : item \in Printed(number)} = {c}
                      /\ \A c \in refs : \E item \in ToSet(evidence) :
                                             item.chunk = c /\ item.number \in draft.cites
                      /\ chain = "qa" => refs # {}
    BY DEF CitationsAreFaithful
  <2>1. /\ evidence \in Seq(Items(InScope)) /\ Numbered(evidence) /\ Cited
        /\ refs = {ById(number) : number \in draft.cites}
    BY DEF EvidenceInv, Writing
  <2>2. /\ DOMAIN evidence = 1 .. Len(evidence) /\ Len(evidence) \in Nat
        /\ \A i \in DOMAIN evidence : /\ evidence[i].number = i /\ evidence[i].chunk \in InScope
                                      /\ evidence[i] \in ToSet(evidence)
        /\ \A x \in ToSet(evidence) : x.number \in DOMAIN evidence /\ x = evidence[x.number]
    <3>1. /\ DOMAIN evidence = 1 .. Len(evidence) /\ Len(evidence) \in Nat
          /\ \A i \in DOMAIN evidence : evidence[i] \in Items(InScope)
      BY <2>1
    <3>2. \A i \in DOMAIN evidence : evidence[i].number = i /\ evidence[i].chunk \in InScope
      BY <2>1, <3>1 DEF Numbered, Items
    <3>3. /\ \A i \in DOMAIN evidence : evidence[i] \in ToSet(evidence)
          /\ \A x \in ToSet(evidence) : \E i \in DOMAIN evidence : x = evidence[i]
      BY DEF ToSet
    <3> QED BY <3>1, <3>2, <3>3
  <2>3. \A number \in draft.cites : number \in DOMAIN evidence
    BY <2>1, <2>2 DEF Cited, Numbers
  <2>4. ASSUME NEW number \in draft.cites PROVE ById(number) = evidence[number].chunk
    <3> DEFINE Latest(i) == \A j \in DOMAIN evidence : evidence[j].number = number => j <= i
    <3>1. \A i \in DOMAIN evidence : evidence[i].number = number /\ Latest(i) <=> i = number
      BY <2>2, <2>3
    <3> DEFINE chosen == CHOOSE i \in DOMAIN evidence : evidence[i].number = number /\ Latest(i)
    <3>2. chosen = number
      BY <3>1, <2>3
    <3> QED BY <3>2 DEF ById
  <2>5. ASSUME NEW number \in draft.cites
        PROVE  \E c \in refs : {item.chunk : item \in Printed(number)} = {c}
    <3>1. Printed(number) = {evidence[number]}
      BY <2>2, <2>3
    <3>2. {item.chunk : item \in Printed(number)} = {ById(number)}
      BY <3>1, <2>4
    <3> QED BY <3>2, <2>1
  <2>6. ASSUME NEW c \in refs
        PROVE  \E item \in ToSet(evidence) : item.chunk = c /\ item.number \in draft.cites
    <3>1. PICK number \in draft.cites : c = evidence[number].chunk
      BY <2>1, <2>4
    <3> QED BY <3>1, <2>2, <2>3
  <2>7. chain = "qa" => refs # {}
    BY <2>1 DEF Cited
  <2> QED BY <2>5, <2>6, <2>7
<1> QED BY <1>1, EvidenceInvariance, PTL
===============================================================================
