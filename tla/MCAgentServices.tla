--------------------------- MODULE MCAgentServices ---------------------------
(***************************************************************************)
(* The parts of the agent that share a process and no state: planning, an  *)
(* evidence chain, the conversation of a thread, the dispatch tools, the   *)
(* investigations and the dispatch decisions.  The initial state chooses   *)
(* the one this behaviour is about; the others stand still.                *)
(***************************************************************************)
EXTENDS TaskPlanning, EvidenceChain, AssistantConversation, DispatchTools, Investigation,
        DispatchKernel, TLC

CONSTANTS q1, q2, q3, i1, i2

VARIABLE part

allVars == <<part, planningVars, evidenceVars, conversationVars, toolVars,
             investigationVars, kernelVars>>

\* Drafts of a plan: a chain of three and one of two, one of two beside a third task, and
\* drafts with each flaw.
T(n, role, needs) == [id |-> <<n, 0>>, role |-> role, needs |-> {<<i, 0>> : i \in needs}]
SmallDrafts == {
    <<T(1, "diagnosis", {}), T(2, "impact_safety", {1}), T(3, "resource_planning", {2})>>,
    <<T(1, "diagnosis", {}), T(2, "impact_safety", {1})>>,
    <<T(5, "resource_planning", {}), T(7, "diagnosis", {}), T(9, "impact_safety", {7})>>,
    <<T(1, "diagnosis", {2}), T(2, "impact_safety", {1})>>,
    <<T(1, "diagnosis", {}), T(2, "impact_safety", {3})>>,
    <<T(1, "diagnosis", {}), T(1, "impact_safety", {})>>,
    <<>> }
SmallCriteria == {{"diagnosis"}, {"resource_planning"}, {}}

\* The callers' thread ids are interchangeable: only the key of the plan's row has them.
Renamings == Permutations(Threads)

\* Two requests of the user's thread in one instance and a third one in another.
TwoInstances == q1 :> i1 @@ q2 :> i1 @@ q3 :> i2

\* A text that is there twice, one of another tenant, one that fills the budget, one that
\* is close to no query.
C(id, text, size, tenant, near) ==
    [id |-> id, text |-> text, size |-> size, tenant |-> tenant, near |-> near]
SmallChunks == {C(1, "a", 1, Public, TRUE), C(2, "a", 1, Tenant, FALSE), C(3, "b", 2, Tenant, TRUE),
           C(4, "c", 1, "other", TRUE), C(5, "d", 2, Public, FALSE)}

\* One call in two wordings, another one, one without a query and one whose scope is none.
A(query, tenant, visibility, options) ==
    [query |-> query, tenant |-> tenant, visibility |-> visibility, options |-> options]
SmallArguments == {A(1, Tenant, "tenant", None), A(1, "other", "tenant", "default"),
              A(2, "other", "public", None), A(None, Tenant, "tenant", None),
              A(3, Tenant, "everything", None)}
Local == [id |-> "local-retrieval", priority |-> 100]
SmallConfigured == {{Local}, {Local, [id |-> "mcp-http", priority |-> 50]}}

\* The two skills of the agent, and two contents of a third one, which only counts distance.
Weights(d, l, k, r) == [distance |-> d, load |-> l, skill |-> k, sla |-> r]
Balanced == [key |-> "balanced:1.0.0", weights |-> Weights(25, 35, 25, 15),
    sameRegion |-> TRUE, maxDistance |-> 50, maxLoad |-> 90, tie |-> "lowest_load_then_worker_id",
    minScore |-> 5500, minMargin |-> 200, forced |-> {"urgent"}, needs |-> {},
    tools |-> {"get_work_order_snapshot", "list_eligible_workers", "create_assignment"}]
SlaFirst == [Balanced EXCEPT !.key = "sla-first:1.0.0", !.weights = Weights(15, 15, 25, 45),
    !.sameRegion = FALSE, !.maxDistance = 100, !.maxLoad = 95, !.tie = "nearest_then_worker_id",
    !.minScore = 5000, !.minMargin = 100, !.forced = {}]
Nearest == [SlaFirst EXCEPT !.key = "nearest:1.0.0", !.weights = Weights(100, 0, 0, 0),
    !.tie = "worker_id", !.minMargin = 0]
Shipped == {Balanced, SlaFirst}
ShippedDefault == Balanced.key
SmallManifests == {Nearest, [Nearest EXCEPT !.needs = {"distance"}],
              [Balanced EXCEPT !.key = "balanced:1.2.0", !.weights = Weights(25, 35, 25, 25)],
              [Balanced EXCEPT !.key = "balanced:1.3.0", !.tools = {"delete_assignment"}]}

\* An order that can be dispatched, an urgent one and one that has a repairman.
Pending == [tenant |-> Tenant, region |-> "east", required |-> <<"pump">>, priority |-> "normal",
            status |-> "pending_dispatch", worker |-> None]
SmallOrders == {Pending, [Pending EXCEPT !.priority = "urgent"], [Pending EXCEPT !.worker = 1]}

\* Repairmen as Java reports them, and two whose distance and readiness are known.
Java(id, region, load) ==
    [id |-> id, tenant |-> Tenant, region |-> region, skills |-> {"pump"}, available |-> TRUE,
     shiftStatus |-> "ON_DUTY", load |-> load, capacity |-> 4]
SmallJavaLists == {{}, {Java(1, "east", 0), Java(2, "east", 2), Java(3, "west", 0)},
              {Java(1, "east", 4), Java(2, "east", 1), Java(4, "east", 1),
               [Java(3, "east", 0) EXCEPT !.shiftStatus = "OFF_DUTY"]}}
Near == [id |-> 6, tenant |-> Tenant, region |-> "east", skills |-> [pump |-> 60], shift |-> TRUE,
         available |-> TRUE, load |-> 2, capacity |-> 4, distance |-> 10, sla |-> 80]
Far == [Near EXCEPT !.id = 5, !.distance = 40]
SmallWorkerLists == {{Near, Far, [Far EXCEPT !.id = 4, !.sla = Unknown]}}

ASSUME PlanningAssumption /\ EvidenceAssumption /\ ConversationAssumption
ASSUME ToolsAssumption /\ MaxTracesAssumption /\ InvestigationAssumption /\ KernelAssumption

ServicesInit ==
    /\ part \in {"planning", "evidence", "conversation", "tools", "investigation", "kernel"}
    /\ PlanningInit
    /\ EvidenceInit
    /\ part # "evidence" => chain = "qa" /\ scope = Public /\ mode = "bm25"
    /\ ConversationInit
    /\ ToolsInit
    /\ InvestigationInit
    /\ KernelInit
    /\ part # "investigation" => \A r \in Runs : run[r].trace = CHOOSE t \in Traces : TRUE

ServicesNext ==
    /\ UNCHANGED part
    /\ \/ /\ part = "planning" /\ PlanningNext
          /\ UNCHANGED <<evidenceVars, conversationVars, toolVars, investigationVars,
                         kernelVars>>
       \/ /\ part = "evidence" /\ EvidenceNext
          /\ UNCHANGED <<planningVars, conversationVars, toolVars, investigationVars,
                         kernelVars>>
       \/ /\ part = "conversation" /\ ConversationNext
          /\ UNCHANGED <<planningVars, evidenceVars, toolVars, investigationVars,
                         kernelVars>>
       \/ /\ part = "tools" /\ ToolsNext
          /\ UNCHANGED <<planningVars, evidenceVars, conversationVars, investigationVars,
                         kernelVars>>
       \/ /\ part = "investigation" /\ InvestigationNext
          /\ UNCHANGED <<planningVars, evidenceVars, conversationVars, toolVars, kernelVars>>
       \/ /\ part = "kernel" /\ KernelNext
          /\ UNCHANGED <<planningVars, evidenceVars, conversationVars, toolVars,
                         investigationVars>>

ServicesSpec == ServicesInit /\ [][ServicesNext]_allVars
==============================================================================
