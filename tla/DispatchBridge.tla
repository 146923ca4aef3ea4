--------------------------- MODULE DispatchBridge ---------------------------
(* RabbitDispatchBridge: the shared consumer around one run of the dispatch   *)
(* graph.  DispatchRuntime models the graph itself; here a run ends with any  *)
(* status a thread can stop at, or raises.                                    *)
EXTENDS RabbitBridge

VARIABLES thread,  \* status of the event's thread in the checkpoint store
          unread   \* history: a run stopped, and its result was not read back

runVars == <<thread, unread>>
dispatchVars == <<bridgeVars, runVars>>

\* RuntimeStatus values a run can stop at: at the human interrupt or at the end.
Stops == {"awaiting_approval", "audited", "denied", "failed"}

DispatchInit == BridgeInit /\ thread = None /\ unread = FALSE

\* runtime.start overwrites the thread of the dispatch, whatever it stood at.
Run(h) ==
    /\ At(h, "job")
    /\ thread' = "running"
    /\ Goto(h, "run")
    /\ UNCHANGED <<queue, lease, valid, dead, answered, faults, expired, unread>>

\* The graph stops, and its last checkpoint is saved.
Stop(h) ==
    /\ At(h, "run")
    /\ thread' \in Stops
    /\ Goto(h, "result")
    /\ UNCHANGED <<queue, lease, valid, dead, answered, faults, expired, unread>>

\* start reads the thread back, and the bridge makes the outcome event of it.
Result(h) ==
    /\ At(h, "result")
    /\ Goto(h, "publish")
    /\ UNCHANGED <<queue, lease, valid, dead, answered, faults, expired, runVars>>

\* An adapter, the checkpoint store or a conflicting decision makes the run raise,
\* or its result cannot be read or validated; the thread stays at its last
\* checkpoint, which is where it stopped in the second case.
Raise(h) ==
    /\ At(h, "run") \/ At(h, "result")
    /\ unread' = (unread \/ At(h, "result"))
    /\ Goto(h, "failed")
    /\ UNCHANGED <<queue, lease, valid, dead, answered, faults, expired, thread>>

PublishOutcome(h) ==
    /\ At(h, "publish")
    /\ answered' = TRUE
    /\ Goto(h, "ack")
    /\ UNCHANGED <<queue, lease, valid, dead, faults, expired, runVars>>

\* The broker does not confirm the outcome: the except branch runs the event again.
Unconfirmed(h) ==
    /\ At(h, "publish") /\ faults < MaxFaults
    /\ faults' = faults + 1
    /\ Goto(h, "failed")
    /\ UNCHANGED <<queue, lease, valid, dead, answered, expired, runVars>>

\* Unlike the knowledge bridge, this one tells nobody before it buries the event.
GiveUpQuietly(h) ==
    /\ At(h, "failed")
    /\ handler[h].retry = MaxRetries
    /\ Goto(h, "bury")
    /\ UNCHANGED <<queue, lease, valid, dead, answered, faults, expired, runVars>>

\* A human answers a waiting thread (DispatchRuntime's Resume), at any time.
Answer ==
    /\ thread = "awaiting_approval"
    /\ thread' \in Stops \ {"awaiting_approval"}
    /\ UNCHANGED <<bridgeVars, unread>>

DispatchStep(h) ==
    \/ BridgeStep(h) /\ UNCHANGED runVars
    \/ Run(h) \/ Stop(h) \/ Result(h) \/ Raise(h) \/ PublishOutcome(h) \/ GiveUpQuietly(h)

DispatchNext ==
    \/ \E h \in Handlers : DispatchStep(h) \/ Unconfirmed(h)
    \/ Answer
    \/ BridgeFault /\ UNCHANGED runVars

DispatchSpec == DispatchInit /\ [][DispatchNext]_dispatchVars

\* A run that stopped, possibly with an assignment a human approved, is repeated
\* only after a failure of the broker, a crash, or a result that could not be read
\* back: with one copy sent, neither a busy lease nor the retry of a run that failed
\* on its way runs a stopped thread again.
StoppedRunsAgainOnlyAfterFault ==
    [][Copies = 1 /\ thread \in Stops /\ thread' = "running" => faults > 0 \/ unread]_dispatchVars
=============================================================================
