---------------------------- MODULE DispatchKernel ----------------------------
(* The decision kernel of the dispatch agent (flowfix_agent/dispatch): the     *)
(* registry of skills, which are versioned dispatch strategies, and            *)
(* DispatchDecisionService, which decides an event from a frozen skill and a   *)
(* frozen snapshot.  Several processes may decide one event and share the      *)
(* table of decisions; the registry is a file replaced as a whole.             *)
(*                                                                             *)
(* Ratios, weights and metrics are in percent.  A score is kept to four        *)
(* decimals, where the code keeps eight.                                       *)
EXTENDS Integers, Sequences, FiniteSets, SequencesExt, RequestContext, Selections

CONSTANTS
    Deciders,          \* runs of the dispatch graph
    Events,
    Manifests,         \* skills somebody may try to register
    Builtin, Default,  \* skills shipped with the agent, the key it activates
    OrderSnapshots,    \* what get_work_order_snapshot may answer
    JavaLists,         \* what Java's worker endpoint may answer: sets of reports
    WorkerLists,       \* what another adapter may answer: sets of snapshots
    Unknown,           \* a metric nobody reports
    MaxSwitches        \* bound: activations, rollbacks and starts of the agent

VARIABLES
    skills,            \* registry: the skills registered
    active,            \* registry: active_key
    stack,             \* registry: active_stack
    decisions,         \* repository: the decision of each event that has one
    decider,           \* what each run has frozen, loaded, made and returned
    switches           \* history: activations, rollbacks and starts

registryVars == <<skills, active, stack>>
kernelVars == <<registryVars, decisions, decider, switches>>

-----------------------------------------------------------------------------
(* Skills and snapshots *)

Metrics == {"distance", "load", "skill", "sla"}
Summed(f) == f["distance"] + f["load"] + f["skill"] + f["sla"]
TieBreaks == {"lowest_load_then_worker_id", "nearest_then_worker_id", "worker_id"}
Reads == {"get_work_order_snapshot", "list_eligible_workers", "get_worker_loads",
          "search_dispatch_policy", "get_assignment_outcome"}
Writes == {"create_assignment", "publish_dispatch_audit"}

\* The manifests that DispatchSkill and validate_skill let through.
ValidSkill(s) ==
    /\ Summed(s.weights) = 100
    /\ s.maxDistance > 0 /\ s.maxLoad \in 1..100
Supported(s) == s.tools \subseteq Reads \cup Writes

\* A directory of manifests that can be loaded: all of them pass, no two under one key.
Loadable(directory) ==
    /\ \A s \in directory : ValidSkill(s) /\ Supported(s)
    /\ \A s, u \in directory : s.key = u.key => s = u

\* A repairman as Java reports him: his skills are held or not, and nobody measures his
\* distance or his readiness.
FromJava(w) ==
    [id |-> w.id, tenant |-> w.tenant, region |-> w.region, skills |-> [n \in w.skills |-> 100],
     shift |-> w.shiftStatus = "ON_DUTY", available |-> w.available, load |-> w.load,
     capacity |-> w.capacity, distance |-> Unknown, sla |-> Unknown]
Lists == WorkerLists \cup {{FromJava(w) : w \in list} : list \in JavaLists}

LoadRatio(w) == (100 * w.load) \div w.capacity

\* A repairman as a snapshot has him; in one list a repairman is there once.
Reported(w) ==
    /\ w.id \in Nat /\ w.load \in Nat /\ w.capacity \in Nat \ {0}
    /\ w.distance \in Nat \cup {Unknown} /\ w.sla \in Nat \cup {Unknown}
    /\ \A n \in DOMAIN w.skills : w.skills[n] \in Nat

KernelAssumption ==
    /\ Unknown \notin Int
    /\ \A s \in Manifests \cup Builtin :
          s.weights \in [Metrics -> Nat] /\ s.maxDistance \in Nat /\ s.tie \in TieBreaks
    /\ \A order \in OrderSnapshots : order.required \in Seq(STRING) \ {<<>>}
    /\ \A list \in Lists :
          /\ IsFiniteSet(list)
          /\ \A w \in list : Reported(w)
          /\ \A v, w \in list : v.id = w.id => v = w

-----------------------------------------------------------------------------
(* Eligibility and scoring *)

\* What no skill can switch off.
HardReasons(order, w) ==
    {why \in {"tenant", "unavailable", "shift", "capacity", "skills"} :
        CASE why = "tenant"      -> w.tenant # order.tenant
          [] why = "unavailable" -> ~w.available
          [] why = "shift"       -> ~w.shift
          [] why = "capacity"    -> w.load >= w.capacity
          [] why = "skills"      -> ~(ToSet(order.required) \subseteq DOMAIN w.skills)}

SkillReasons(order, w, s) ==
    {why \in {"region", "distance", "load"} :
        CASE why = "region"   -> s.sameRegion /\ w.region # order.region
          [] why = "distance" -> w.distance # Unknown /\ w.distance > s.maxDistance
          [] why = "load"     -> LoadRatio(w) > s.maxLoad}

Eligible(order, workers, s) ==
    {w \in workers : HardReasons(order, w) \cup SkillReasons(order, w, s) = {}}

Mastery(order, w) ==
    SumOf([i \in DOMAIN order.required |-> w.skills[order.required[i]]])
        \div Len(order.required)

\* The load itself, where its complement is meant.
MutantBusyIsBetter(order, w, s, m) ==
    CASE m = "load"     -> LoadRatio(w)
      [] m = "skill"    -> Mastery(order, w)
      [] m = "distance" -> IF w.distance = Unknown THEN Unknown
                           ELSE 100 - (100 * w.distance) \div s.maxDistance
      [] m = "sla"      -> w.sla

\* How good an eligible worker is in a metric; what is unknown is left out of his score,
\* and out of the weights it is divided by.
Component(order, w, s, m) ==
    CASE m = "load"     -> 100 - LoadRatio(w)
      [] m = "skill"    -> Mastery(order, w)
      [] m = "distance" -> IF w.distance = Unknown THEN Unknown
                           ELSE 100 - (100 * w.distance) \div s.maxDistance
      [] m = "sla"      -> w.sla

Known(order, w, s) == {m \in Metrics : Component(order, w, s, m) # Unknown}
Weight(order, w, s) ==
    Summed([m \in Metrics |-> IF m \in Known(order, w, s) THEN s.weights[m] ELSE 0])
Gain(order, w, s) ==
    Summed([m \in Metrics |->
                IF m \in Known(order, w, s) THEN Component(order, w, s, m) * s.weights[m] ELSE 0])
Total(order, w, s) ==
    (100 * Gain(order, w, s) + Weight(order, w, s) \div 2) \div Weight(order, w, s)

\* The rank of a worker before another one.
TieKey(w, s) ==
    CASE s.tie = "lowest_load_then_worker_id" -> LoadRatio(w)
      [] s.tie = "nearest_then_worker_id"     -> IF w.distance = Unknown THEN 1001 ELSE w.distance
      [] s.tie = "worker_id"                  -> 0
Before(order, s, v, w) ==
    LET a == Total(order, v, s)
        b == Total(order, w, s)
    IN \/ a > b
       \/ a = b /\ TieKey(v, s) < TieKey(w, s)
       \/ a = b /\ TieKey(v, s) = TieKey(w, s) /\ v.id < w.id
Ranked(order, workers, s) ==
    Sorted(workers, {p \in workers \X workers : Before(order, s, p[1], p[2])})

-----------------------------------------------------------------------------
(* The decision *)

\* required_snapshot_fields; only the two metrics can be missing, and any field of the
\* workers is when there is no worker.
OrderIsRefused(order) ==
    order.tenant # Tenant \/ order.status # "pending_dispatch" \/ order.worker # None
FieldIsMissing(workers, s) ==
    \E m \in s.needs : workers = {} \/ \E w \in workers : w[m] = Unknown

\* The score a decision rests on does not exist: the weights of what is known are all 0.
Unscorable(input) ==
    /\ ~OrderIsRefused(input.order) /\ ~FieldIsMissing(input.workers, input.skill)
    /\ \E w \in Eligible(input.order, input.workers, input.skill) :
           Weight(input.order, w, input.skill) = 0

Risky(order, ranking, s) ==
    LET score(i) == Total(order, ranking[i], s)
    IN \/ order.priority \in s.forced
       \/ score(1) < s.minScore
       \/ Len(ranking) > 1 /\ score(1) - score(2) < s.minMargin

\* Reasons, transitions and fingerprints follow from the input.
Built(input, outcome, risk, w, candidates) ==
    [input |-> input, outcome |-> outcome, risk |-> risk, selected |-> w,
     candidates |-> candidates]

\* decide_prepared
Decision(input) ==
    LET s == input.skill
        ranking == Ranked(input.order, Eligible(input.order, input.workers, s), s)
    IN IF OrderIsRefused(input.order) \/ FieldIsMissing(input.workers, s)
       THEN Built(input, "rejected", "high", None, <<>>)
       ELSE CASE ranking = <<>> -> Built(input, "manual", "high", None, <<>>)
              [] ranking # <<>> ->
                     IF Risky(input.order, ranking, s)
                     THEN Built(input, "manual", "medium", None, ranking)
                     ELSE Built(input, "assign", "low", ranking[1], ranking)

-----------------------------------------------------------------------------
(* The registry *)

KernelInit ==
    /\ skills = {}
    /\ active = None
    /\ stack = <<>>
    /\ decisions = [e \in {} |-> None]
    /\ decider = [c \in Deciders |-> [at |-> "idle"]]
    /\ switches = 0

Switch == switches < MaxSwitches /\ switches' = switches + 1

Registered(key, table) == \E s \in table : s.key = key
Skill(key) == CHOOSE s \in skills : s.key = key

\* A key that is registered keeps its content: the same is ignored, another one refused.
Register(s) ==
    /\ ValidSkill(s) /\ Supported(s)
    /\ ~Registered(s.key, skills)
    /\ skills' = skills \cup {s}
    /\ UNCHANGED <<active, stack, decisions, decider, switches>>

Activated(key) ==
    /\ active' = key
    /\ stack' = IF key = active THEN stack ELSE Append(stack, key)

Activate(key) ==
    /\ Registered(key, skills) /\ key # active
    /\ Switch
    /\ Activated(key)
    /\ UNCHANGED <<skills, decisions, decider>>

Rollback ==
    /\ Len(stack) >= 2
    /\ Switch
    /\ stack' = Front(stack)
    /\ active' = Last(Front(stack))
    /\ UNCHANGED <<skills, decisions, decider>>

\* The agent starts: it registers the skills it is shipped with and activates the default
\* one, whatever was active.  Under a key that holds other content it does not start.
Boot ==
    /\ Switch
    /\ Loadable(Builtin)
    /\ \A b \in Builtin : Registered(b.key, skills) => b \in skills
    /\ skills' = skills \cup Builtin
    /\ Registered(Default, skills')
    /\ Activated(Default)
    /\ UNCHANGED <<decisions, decider>>

-----------------------------------------------------------------------------
(* A run of the graph up to its decision *)

Goes(c, r) == decider' = [decider EXCEPT ![c] = r]

Freeze(c, e) ==
    /\ decider[c].at = "idle" /\ active # None
    /\ Goes(c, [at |-> "frozen", event |-> e, skill |-> Skill(active)])
    /\ UNCHANGED <<registryVars, decisions, switches>>

\* The input, by which the fingerprint is named here.
LoadInput(c) ==
    /\ decider[c].at = "frozen"
    /\ \E order \in OrderSnapshots, workers \in Lists :
          Goes(c, [at |-> "loaded", input |->
              [event |-> decider[c].event, order |-> order, workers |-> workers,
               skill |-> decider[c].skill]])
    /\ UNCHANGED <<registryVars, decisions, switches>>

MutantAnyInput(d, input) == [at |-> "returned", input |-> input, decision |-> d]

\* _same_or_conflict
SameOrConflict(d, input) ==
    IF d.input = input THEN [at |-> "returned", input |-> input, decision |-> d]
    ELSE [at |-> "conflict", input |-> input]

\* decide_prepared up to save_if_absent.
DecidePrepared(c) ==
    LET input == decider[c].input
    IN /\ decider[c].at = "loaded"
       /\ Goes(c, IF input.event \in DOMAIN decisions
                  THEN SameOrConflict(decisions[input.event], input)
                  ELSE IF Unscorable(input) THEN [at |-> "raised"]
                  ELSE [at |-> "made", input |-> input, decision |-> Decision(input)])
       /\ UNCHANGED <<registryVars, decisions, switches>>

\* save_if_absent: the first decision of an event stays, and is what it answers.
Insert(made) ==
    IF made.input.event \in DOMAIN decisions THEN decisions
    ELSE [e \in DOMAIN decisions \cup {made.input.event} |->
             IF e \in DOMAIN decisions THEN decisions[e] ELSE made]

SaveDecision(c) ==
    LET made == decider[c].decision
    IN /\ decider[c].at = "made"
       /\ decisions' = Insert(made)
       /\ Goes(c, SameOrConflict(Insert(made)[made.input.event], made.input))
       /\ UNCHANGED <<registryVars, switches>>

KernelNext ==
    \/ \E s \in Manifests : Register(s)
    \/ \E s \in skills : Activate(s.key)
    \/ Rollback \/ Boot
    \/ \E c \in Deciders : LoadInput(c) \/ DecidePrepared(c) \/ SaveDecision(c) \/ \E e \in Events : Freeze(c, e)

KernelSpec == KernelInit /\ [][KernelNext]_kernelVars

-----------------------------------------------------------------------------
(* Properties *)

\* Whoever decides an event, when, and whatever skill is active by then: a run that got a
\* decision got the saved one, the decision is what the run's own frozen input and skill
\* make of the event, and the registry still lists that skill, with that content, under
\* the key the decision names.
DecisionsAreReproducible ==
    \A c \in Deciders : decider[c].at = "returned" =>
        LET d == decider[c].decision
        IN /\ decider[c].input.event \in DOMAIN decisions
           /\ decisions[decider[c].input.event] = d
           /\ d = Decision(decider[c].input)
           /\ d.input.skill \in skills
           /\ \A s \in skills : s.key = d.input.skill.key => s = d.input.skill

\* Two workers report the same metrics, v is at least as good as w in each, and better in
\* one that counts.
Dominates(order, s, v, w) ==
    LET Better(m) ==
            CASE m = "load"     -> LoadRatio(v) < LoadRatio(w)
              [] m = "skill"    -> \E n \in ToSet(order.required) : v.skills[n] > w.skills[n]
              [] m = "distance" -> v.distance # Unknown /\ v.distance < w.distance
              [] m = "sla"      -> v.sla # Unknown /\ v.sla > w.sla
        Worse(m) ==
            CASE m = "load"     -> LoadRatio(v) > LoadRatio(w)
              [] m = "skill"    -> \E n \in ToSet(order.required) : v.skills[n] < w.skills[n]
              [] m = "distance" -> v.distance # Unknown /\ v.distance > w.distance
              [] m = "sla"      -> v.sla # Unknown /\ v.sla < w.sla
    IN /\ v.distance = Unknown <=> w.distance = Unknown
       /\ v.sla = Unknown <=> w.sla = Unknown
       /\ ~\E m \in Metrics : Worse(m)
       /\ \E m \in Metrics : Better(m) /\ s.weights[m] > 0

\* No skill assigns a worker whom the order's rules refuse, or one who is worse than another
\* it might have chosen, in each metric that both report, whatever its weights and ties.
ChosenIsUndominated ==
    \A e \in DOMAIN decisions : decisions[e].outcome = "assign" =>
        LET in == decisions[e].input
            w == decisions[e].selected
        IN /\ w.available /\ w.shift /\ w.load < w.capacity
           /\ in.order.tenant = Tenant /\ w.tenant = Tenant /\ in.order.worker = None
           /\ ToSet(in.order.required) \subseteq DOMAIN w.skills
           /\ \A v \in Eligible(in.order, in.workers, in.skill) :
                 ~Dominates(in.order, in.skill, v, w)
=============================================================================
