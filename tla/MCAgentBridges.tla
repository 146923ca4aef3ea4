--------------------------- MODULE MCAgentBridges ---------------------------
(* Both bridges in one run: the initial state chooses which of the two this   *)
(* behaviour is about, and the other one's own variables stay as they are.    *)
EXTENDS KnowledgeIngestion, DispatchBridge

VARIABLE bridge

bothVars == <<vars, bridge, runVars>>

BothInit ==
    /\ bridge \in {"knowledge", "dispatch"}
    /\ DispatchInit
    /\ JobInit
    /\ bridge = "dispatch" => accepted /\ ledger = Recorded(None)

StepOf(h) ==
    \/ bridge = "knowledge" /\ Step(h) /\ UNCHANGED <<bridge, runVars>>
    \/ bridge = "dispatch" /\ DispatchStep(h) /\ UNCHANGED <<jobVars, bridge>>

BothNext ==
    \/ bridge = "knowledge" /\ Next /\ UNCHANGED <<bridge, runVars>>
    \/ bridge = "dispatch" /\ DispatchNext /\ UNCHANGED <<jobVars, bridge>>

\* The process keeps running its handlers, Redis drops a lease when its time has
\* come, and Java consumes its queue.  Nobody is obliged to fail or to revoke.
BothFairness ==
    /\ \A h \in Handlers : WF_bothVars(StepOf(h))
    /\ WF_bothVars(Expire /\ UNCHANGED <<jobVars, bridge, runVars>>)
    /\ WF_bothVars(ListenResult /\ UNCHANGED <<bridge, runVars>>)

BothSpec == BothInit /\ [][BothNext]_bothVars /\ BothFairness

\* Every event ends known: Java's row gets a status, or an event that does not
\* parse is in the dead-letter queue; a dispatch event is answered or dead.  The busy
\* retries are not counted, so this rests on leases that outlive no dead holder.
EventEnds ==
    <>(IF bridge = "dispatch" THEN answered \/ dead
       ELSE IF valid THEN row # None ELSE dead)
=============================================================================
