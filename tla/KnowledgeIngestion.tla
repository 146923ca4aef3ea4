------------------------- MODULE KnowledgeIngestion -------------------------
(* A completed work order becomes a searchable repair case: the knowledge     *)
(* bridge's job (WorkOrderCaseIngestionService.ingest over                    *)
(* KnowledgeIngestionService), its revocation by an administrator, and the    *)
(* Java row its outcomes are written to.  Each await of the code ends a step. *)
(* One event of one work order; search serves a case when the catalogue lists *)
(* it and the index holds its chunks.                                         *)
EXTENDS RabbitBridge, FiniteSetsExt

CONSTANTS Chunks,      \* chunks the case is split into
          MaxErrors,   \* bound: errors of the index, the model or the ledger
          MaxRevokes   \* bound: revocations

ASSUME KnowledgeAssumption ==
    Chunks \in Nat \ {0} /\ MaxErrors \in Nat /\ MaxRevokes \in 0 .. 1

VARIABLES accepted,  \* what the quality gate says of the event
          ledger,    \* FileWorkOrderKnowledgeLedger's record of the event
          catalog,   \* the source is active in FileKnowledgeCatalog
          index,     \* the source's chunks in Elasticsearch
          revoke,    \* where the administrator's revocation stands
          outcomes,  \* outcome events on their way to Java
          row,       \* ingestion status of the Java outbox row
          errors     \* history: errors so far

jobVars == <<accepted, ledger, catalog, index, revoke, outcomes, row, errors>>
vars == <<bridgeVars, jobVars>>

FinalStatuses == {"indexed", "skipped", "rejected", "revoked"}
Statuses == FinalStatuses \cup {"processing", "failed"}
\* The Markdown an event is rendered to, by this release of the agent or by a former
\* one whose template differs.
Contents == {"current", "former"}

Records == [status : Statuses \cup {None}, content : Contents]
Recorded(status) == [status |-> status, content |-> "current"]
SameContent == ledger.content = "current"

(* The quality gate: what it finds wanting of an event, and what each costs. *)

Penalty ==
    [description |-> 25, repair_process |-> 30, solution |-> 30, verification |-> 25,
     legacy_verification |-> 15, root_cause |-> 10, device_category |-> 5,
     device_model |-> 5, prompt_injection |-> 50]
Blocking == {"description", "repair_process", "solution", "verification", "prompt_injection"}

\* A v2 event has a verification that is long enough or not, an older one has one or not.
Issues ==
    {issues \in SUBSET DOMAIN Penalty : ~({"verification", "legacy_verification"} \subseteq issues)}

Accepted(issues) ==
    LET lost == MapThenSumSet(LAMBDA issue : Penalty[issue], issues)
    IN issues \cap Blocking = {} /\ lost <= 35

\* chunk: the same content always gives the same identifiers.
ChunkIds == 1 .. Chunks

JobInit ==
    /\ accepted \in {Accepted(issues) : issues \in Issues}
    /\ ledger \in {Recorded(None), [status |-> "failed", content |-> "former"]}
    /\ catalog = FALSE /\ index = {}
    /\ revoke = None
    /\ outcomes = {} /\ row = None
    /\ errors = 0

Init == BridgeInit /\ JobInit

Ends(h, status, pc) == handler' = [handler EXCEPT ![h].pc = pc, ![h].answer = status]

BridgeAlone == UNCHANGED <<queue, lease, valid, dead, answered, faults, expired>>

(* The job, one await at a time. *)

\* ledger.get: another content under the same id is refused without a trace, a
\* final status is answered again.
ReadLedger(h) ==
    /\ At(h, "job")
    /\ \/ ~SameContent /\ Ends(h, "rejected", "publish")
       \/ SameContent /\ ledger.status \in FinalStatuses /\ Ends(h, ledger.status, "publish")
       \/ SameContent /\ ledger.status \notin FinalStatuses /\ Ends(h, None, "assess")
    /\ BridgeAlone
    /\ UNCHANGED <<accepted, ledger, catalog, index, revoke, outcomes, row, errors>>

\* The gate's verdict and the first ledger.save.
Assess(h) ==
    /\ At(h, "assess")
    /\ ledger' = Recorded(IF accepted THEN "processing" ELSE "rejected")
    /\ IF accepted THEN Ends(h, None, "lookup") ELSE Ends(h, "rejected", "publish")
    /\ BridgeAlone
    /\ UNCHANGED <<accepted, catalog, index, revoke, outcomes, row, errors>>

\* catalog.get: an active record of this content may make the work unnecessary.
Lookup(h) ==
    /\ At(h, "lookup")
    /\ Goto(h, IF catalog THEN "count" ELSE "embed")
    /\ BridgeAlone /\ UNCHANGED jobVars

\* count_knowledge_key
Projected == Cardinality(index)

\* The projection is complete: skipped; otherwise it is written again.
Count(h) ==
    /\ At(h, "count")
    /\ IF Projected = Chunks THEN Ends(h, "skipped", "save") ELSE Ends(h, None, "embed")
    /\ BridgeAlone
    /\ UNCHANGED <<accepted, ledger, catalog, index, revoke, outcomes, row, errors>>

\* Every chunk gets its vector before the first one is written.
Embed(h) ==
    /\ At(h, "embed")
    /\ Goto(h, "index")
    /\ BridgeAlone /\ UNCHANGED jobVars

\* The errors of single items of a bulk request are overlooked, and nothing is counted.
MutantBulkErrorsIgnored(h) ==
    /\ At(h, "index")
    /\ \E written \in SUBSET ChunkIds : index' = index \cup written
    /\ Goto(h, "activate")
    /\ BridgeAlone
    /\ UNCHANGED <<accepted, ledger, catalog, revoke, outcomes, row, errors>>

\* The bulk request: a repetition overwrites what it finds.
IndexChunks(h) ==
    /\ At(h, "index")
    /\ index' = index \cup ChunkIds
    /\ Goto(h, "verify")
    /\ BridgeAlone
    /\ UNCHANGED <<accepted, ledger, catalog, revoke, outcomes, row, errors>>

Verify(h) ==
    /\ At(h, "verify")
    /\ IF Projected = Chunks THEN Ends(h, None, "activate") ELSE Ends(h, "failed", "save")
    /\ BridgeAlone
    /\ UNCHANGED <<accepted, ledger, catalog, index, revoke, outcomes, row, errors>>

Activate(h) ==
    /\ At(h, "activate")
    /\ catalog' = TRUE
    /\ Ends(h, "indexed", "save")
    /\ BridgeAlone
    /\ UNCHANGED <<accepted, ledger, index, revoke, outcomes, row, errors>>

\* The second ledger.save; a failed result raises in the bridge.
SaveResult(h) ==
    /\ At(h, "save")
    /\ ledger' = Recorded(handler[h].answer)
    /\ Goto(h, IF handler[h].answer = "failed" THEN "failed" ELSE "publish")
    /\ BridgeAlone
    /\ UNCHANGED <<accepted, catalog, index, revoke, outcomes, row, errors>>

\* Errors before the try block escape to the bridge, later ones end in a failed
\* result.  A bulk request may fail with some chunks written.
Error(h) ==
    /\ errors < MaxErrors
    /\ errors' = errors + 1
    /\ \/ /\ handler[h].pc \in {"job", "assess", "lookup", "count", "save", "publish"}
          /\ Goto(h, "failed") /\ UNCHANGED index
       \/ /\ handler[h].pc \in {"embed", "index", "verify", "activate"}
          /\ Ends(h, "failed", "save")
          /\ \E written \in SUBSET (IF At(h, "index") THEN ChunkIds ELSE {}) :
                index' = index \cup written
    /\ BridgeAlone
    /\ UNCHANGED <<accepted, ledger, catalog, revoke, outcomes, row>>

Publish(h) ==
    /\ At(h, "publish")
    /\ outcomes' = outcomes \cup {handler[h].answer}
    /\ answered' = TRUE
    /\ Ends(h, None, "ack")
    /\ UNCHANGED <<queue, lease, valid, dead, faults, expired>>
    /\ UNCHANGED <<accepted, ledger, catalog, index, revoke, row, errors>>

\* Nobody tells Java before the event is buried.
MutantBuryQuietly(h) ==
    /\ At(h, "failed")
    /\ handler[h].retry = MaxRetries
    /\ Goto(h, "bury")
    /\ BridgeAlone /\ UNCHANGED jobVars

\* The retries are used up: Java is told that the ingestion failed, and the
\* delivery goes to the dead-letter queue (Bury).
GiveUp(h) ==
    /\ At(h, "failed")
    /\ handler[h].retry = MaxRetries
    /\ outcomes' = outcomes \cup {"failed"}
    /\ answered' = TRUE
    /\ Goto(h, "bury")
    /\ UNCHANGED <<queue, lease, valid, dead, faults, expired>>
    /\ UNCHANGED <<accepted, ledger, catalog, index, revoke, row, errors>>

(* The revocation, its three awaits in their order. *)

RevokeCatalog ==
    /\ revoke = None /\ MaxRevokes = 1
    /\ revoke' = "catalog"
    /\ catalog' = FALSE
    /\ UNCHANGED <<bridgeVars, accepted, ledger, index, outcomes, row, errors>>

RevokeLedger ==
    /\ revoke = "catalog"
    /\ revoke' = "ledger"
    /\ ledger' = IF ledger.status = None THEN ledger ELSE [ledger EXCEPT !.status = "revoked"]
    /\ UNCHANGED <<bridgeVars, accepted, catalog, index, outcomes, row, errors>>

RevokeIndex ==
    /\ revoke = "ledger"
    /\ revoke' = "done"
    /\ index' = {}
    /\ UNCHANGED <<bridgeVars, accepted, ledger, catalog, outcomes, row, errors>>

\* WorkOrderKnowledgeResultListener.consume: the row takes whatever arrives.
ListenResult ==
    /\ \E status \in outcomes :
        /\ row' = status
        /\ outcomes' = outcomes \ {status}
    /\ UNCHANGED <<bridgeVars, accepted, ledger, catalog, index, revoke, errors>>

JobStep(h) ==
    \/ ReadLedger(h) \/ Assess(h) \/ Lookup(h) \/ Count(h) \/ Embed(h)
    \/ IndexChunks(h) \/ Verify(h) \/ Activate(h) \/ SaveResult(h) \/ Publish(h) \/ GiveUp(h)

Revoke == RevokeCatalog \/ RevokeLedger \/ RevokeIndex

Step(h) == (BridgeStep(h) /\ UNCHANGED jobVars) \/ JobStep(h)

Next ==
    \/ \E h \in Handlers : Step(h) \/ Error(h)
    \/ Revoke \/ ListenResult
    \/ BridgeFault /\ UNCHANGED jobVars

Spec == Init /\ [][Next]_vars

(* Properties *)

\* A copy of the event is ready, or in the hands of a handler that has not
\* acknowledged it, until the event is answered or in the dead-letter queue: the
\* bridge acknowledges last, so no crash in between loses a work order's case.
EventIsKept ==
    \/ \E r \in Retries : queue[r] > 0
    \/ \E h \in Handlers : handler[h].mine
    \/ answered \/ dead

\* Two handlers ingest the event at once only if a lease ran out under its holder:
\* duplicates, redeliveries and crashes alone do not overlap two ingestions.
OneIngestionAtATime ==
    ~expired => Cardinality({h \in Handlers : Working(h)}) <= 1

\* A handler's release never takes the lease of the handler that followed it:
\* another's lease only ends by its own step or by running out (no handler moves).
LeaseIsItsHolders ==
    [][\A h, g \in Handlers :
        lease = h /\ g # h /\ handler'[g] # handler[g] => lease' = h]_vars

Served == catalog /\ index = ChunkIds

\* While nobody revokes it, a case called indexed or skipped, in the ledger, in an
\* outcome under way or in the Java row, is complete in the index and active in
\* the catalogue, whatever duplicates, partial bulk requests and overlapping
\* ingestions did before.
IndexedIsServed ==
    LET told == outcomes \cup {row} \cup
                (IF SameContent THEN {ledger.status} ELSE {})
    IN revoke = None /\ told \cap {"indexed", "skipped"} # {} => Served

=============================================================================
