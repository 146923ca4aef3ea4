# Verification of the equipment maintenance system

TLA+ models, TLC runs and TLAPS proofs for the coordination logic of this repository: who
gets a maintenance order, when an order is handed to automatic dispatch, how events leave a
database and reach RabbitMQ, how a device and its user are bound across two services, and
how the agent consumes those events, decides, plans, searches, cites and talks.
`PROJECT.json` maps every definition to the lines it stands for.

## 1. The system

Paths: `D` = `src/backend/service/service-device/src/main/java/com/schoolwork/epsys/device`,
`A` = `src/backend/service/service-acl/src/main/java/com/schoolwork/epsys/acl`,
`MQ` = `src/backend/common/rabbit_util/src/main/java/com/schoolwork/epsys/mq`,
`PY` = `src/agent/src/flowfix_agent`.

| Component | State | Operations | What makes it correct |
|---|---|---|---|
| Order state machine (`D/order`) | status, worker and version of a `maintain_record` row | approve, reject, manual claim, auto assign, complete | an order is given once, to one worker, and completed by him |
| Claiming, approval, completion (`D/controller/DeviceMaintainController`, `D/service/impl`, `D/knowledge`) | `maintain_order_claim`, outbox rows | `claimOrder`, `approve`, `complete` | claim rows and orders agree; outbox rows commit with the change they announce |
| Automatic assignment (`D/dispatch/v1`) | `dispatch_assignment`, the Redis order lock | `assign`, replays, refusals | at most one command accepted per order; answers are true and stay true |
| Dispatch trigger (`D/dispatch/trigger`) | `claim_deadline`, `dispatch_event_outbox` | approval event, scanner, manual trigger | no timeout event before the deadline, and one after it |
| Reliable outbox (`MQ/outbox`) | four outbox tables, one publisher per instance | find, claim, send, mark | every event reaches a queue at least once; none is given up before |
| Device binding saga (`A/saga`, `D/saga`) | `devicetousers`, `deviceinstance.status`, commands, two outboxes | request, handle, apply the result | one owner per device; the two databases agree once messages are counted |
| Device administration (`D/controller/DeviceInstanceInfo`) | `deviceinstance` | edit, delete | must not undo what the saga did |
| Knowledge result listener (`D/knowledge`) | ingestion status | `consume` | a status promises what search serves |
| Message bridges (`PY/messaging`, `PY/reliability`) | queues, a Redis lease per event | deliver, lease, run, answer, retry, bury, acknowledge | no event is lost, none is worked on twice at once, each ends |
| Knowledge ingestion (`PY/knowledge`, `PY/vectorstore`) | ledger, catalogue, index | quality gate, ingest, revoke | what is called indexed is complete and searchable |
| Dispatch graph (`PY/dispatch/runtime`, adapters) | checkpointed threads, decisions, receipts | start, resume, retry, every node | a decision per event; a command per decision, a proposal's only once approved |
| Dispatch kernel (`PY/dispatch/application`, skills) | skill registry, decision table | register, activate, roll back, decide | decisions can be reproduced; nobody ineligible or plainly worse is chosen |
| Dispatch tools (`PY/dispatch/runtime/middleware.py`) | call counts, failure counts | authorize, attempt, retry | budgets are kept; a circuit opens on failures in a row only |
| Planning (`PY/planning`, `PY/memory`) | plan row, checkpointed state | plan, supervise, execute, replan, human, finish | completed means covered; patches are valid plans |
| Retrieval and evidence (`PY/retrieval`, `PY/qa`, planning workers) | none but the request's | recall, fuse, rerank, select, write, repair, cite | a citation names a chunk that was printed and relevant |
| Investigation and public tools (`PY/investigation`, `PY/tools`) | call counts, observations | decide, bind, call, retry, conclude | an investigation cites what it was answered |
| Assistant and routing (`PY/assistant`, `PY/routing`, `PY/memory`) | the conversation row | route, ask back, continue, answer, record | recent turns are kept; the open question goes only to who read it, and does not come back; one instance starts one chain for it |
| The rest | catalogue rows, users, notifications, search index, HTTP, views | plain reads and writes | not concurrent in an interesting way |

How they interact: an approval or the scanner records a dispatch event (same database
transaction as the order row); the outbox publisher sends it to RabbitMQ; the agent's bridge
takes a lease and runs the dispatch graph, which decides and sends an assignment command over
HTTP, where it competes with repairmen who claim the order by hand; a completion records a
knowledge event that the agent indexes, answering with a result message that a Java listener
writes to the row. Binding a device to a user goes from `service-acl` to `service-device` and
back through two outboxes. Several instances of the agent may share one conversation store. Inside an instance the assistant routes a user's message to question
answering, to planning or to a dispatch proposal; all of them search through one gateway, and
a proposal goes to the dispatch graph, where a human approves it.

The hard behaviours are interleavings of request threads of several instances on one row,
the Redis locks and leases (they can be lost), crashes between two steps, messages delivered
twice or late, retries of commands whose answer was lost, and values read before an await or
a commit and used after it. `PROJECT.json` lists them as hazards, each at its line.

## 2. The modules

| Module | Stands for | Role |
|---|---|---|
| `OrderStatus` | `MaintainOrderStatus`, `OrderStateMachine` | transition table, shared by the next three |
| `OrderLifecycle` | what the order service promises | abstract specification |
| `OrderAssignment` | claims, assignments, approvals, completions, the lock | detailed specification, implements `OrderLifecycle` |
| `OrderAssignment_proofs` | | theorems about `OrderAssignment` |
| `DispatchTrigger` | approval events, scanner, manual trigger | extends `OrderLifecycle`, whose orders it watches |
| `ReliableDelivery` | what an outbox promises | abstract specification |
| `OutboxPublisher` | `ReliableOutboxPublisher` and its four statements | implements `ReliableDelivery` |
| `OutboxPublisher_proofs` | | theorems about `OutboxPublisher` |
| `DeviceOwnership` | what binding promises | abstract specification |
| `DeviceBindingSaga` | both services' side of the saga, messages, administrators | implements `DeviceOwnership` |
| `BackendProgress_proofs` | | theorems about `DispatchTrigger` and `DeviceBindingSaga` |
| `DispatchRuntime` | the agent's runtime graph, the decision store, the command contract it sees | detailed specification |
| `DispatchRuntime_proofs` | | theorems about `DispatchRuntime` |
| `DispatchKernel` | eligibility, scores, ranking, decision, skill registry | what `DispatchRuntime` leaves open in `Decide` |
| `DispatchTools` | the dispatch tool gateway | calls of several threads at once |
| `TraceBudget` | the table of calls per trace that both gateways keep | operators, used by `DispatchTools` and `Investigation` |
| `RabbitBridge` | the consumer both bridges share | extended by the next two |
| `DispatchBridge` | `RabbitDispatchBridge` around a run of the graph | |
| `KnowledgeIngestion` | `RabbitKnowledgeBridge`, ingestion, revocation, the Java listener | |
| `AgentBridges_proofs` | | theorems about both bridges, with what they share shown once |
| `TaskPlanning` | the planning graph | |
| `PlanningArtifacts` | what an artifact of a worker may be | operators, shared by the next one and `TaskPlanning` |
| `EvidenceChain` | retrieval, the three workers and question answering up to their citations | |
| `Investigation` | the investigation loop and the public tool gateway | |
| `AssistantConversation` | `AssistantService.execute`, `/v1/qa/query`, routing, the conversation store that instances share | |
| `AgentServices_proofs` | | theorems about `AssistantConversation`, `DispatchTools` with `TraceBudget`, `DispatchKernel` and `Investigation` |
| `Planning_proofs` | | theorems about `TaskPlanning` and `EvidenceChain` |
| `RequestContext` | the tenant of a request, and Python's `None` | constants of the agent's services |
| `Selections` | comprehensions, `sorted` and `sum` over lists | operators of the modules that select and rank |
| `Selections_proofs` | | what those operators return, for the two before |
| `MCAgentBridges`, `MCAgentServices`, `MCBackendProgress` | | compositions for TLC whose initial state chooses the part a behaviour is about |
| other `MC...` | | command sets and symmetry for TLC |

A definition named `Mutant...` is the next definition with a plausible mistake in it. It is
used by no specification; replacing the definition by it must break the property that
`PROJECT.json` names.

### OrderAssignment

State: `order` (status, `miantain_id`, version of each row), `claims`, `assignments`,
`dispatchOutbox`, `knowledgeOutbox`, `lock`; per thread `pc`, `cmd`, `snap` (the row it read)
and `reply`. `refused` is history: the commands that got a final refusal.

A `@Transactional` method is two steps. The first makes all its plain reads: the database
runs at its default REPEATABLE READ, so they see one snapshot. The second makes its writes;
updates and unique keys see what is committed then, and InnoDB's row locks make the write
phases on one order serial. `updateById` writes the entity that was read, guarded by
`@Version` (`VersionMatches`), and leaves null fields out (`UpdateById`).

| Code | Actions |
|---|---|
| `createMaintainRecord` | `CreateOrder` |
| `approvalMaintainRecord`, `DispatchTriggerService.approve` | `ReadForApproval`, `CommitApproval` |
| `WorkOrderCompletionService.complete` | `ReadForCompletion`, `CommitCompletion` |
| `tryLock`, `finally` | `Acquire`, `Leave` |
| `claimOrder` | `ReplayClaim`, `ReadForClaim`, `CommitClaim`, `AbortClaim` |
| `DispatchTransactionService.assign` | `ReplayAssign`, `ReadForAssign`, `CommitAssignment`, `CommitRefusal` |
| the `DuplicateKeyException` path of `DispatchCommandService` | `RollbackDuplicate`, `ResolveDuplicate` |
| failures | `Crash`, `ExpireLock`, `FailTransaction` |

Two details that are easy to get wrong. After an update that matched no row, the code reads
the order again to choose a reason; in REPEATABLE READ it sees its old snapshot, so a loser
records `VERSION_CONFLICT` (`CommitRefusal`). And every refusal is a row: it uses up its
idempotency key and its dispatch id.

### DispatchTrigger

Time is `passed`, a position in `deadlines`: the delay after approval is fixed, so approvals
and deadlines have one order. A scanner's `Scan` is the limited query, whose batch is a set of
positions in `deadlines`, in order of deadline; `TriggerNext` is the check of the next one, `InsertEvent`
the insert, which may come after the order has moved on.

### OutboxPublisher

`due` holds the rows whose time has come, whether by `next_retry_at` or by the stale limit.
A batch uses the times of its start, so a row any statement has touched since cannot be
claimed by it (`fresh`). `Send` has the outcomes RabbitMQ can give with correlated confirms
and returned messages, a lost confirm of a message that was or was not queued included.
`mayStall`, chosen at the start, says whether a live publisher may hold a row past the stale limit of at least ten
seconds and twice the confirm timeout.

### DeviceBindingSaga

Requests and results are sets of messages in flight; delivery is in any order, and
`Redeliver` puts one back. The two outboxes are publishers as in `OutboxPublisher`, so here a
message is in flight once its row has committed. `relation[d].row` is the row's
auto-increment id, which `transition` and `applyResult` compare.

### DispatchRuntime

One checkpointed thread per dispatch event. `thread[e]` is its newest checkpoint (the node it
stands before and the graph state's values), `call[c]` a running `start`, `resume` or `retry`
with the values it loaded; several calls may run on one thread, and the last checkpoint wins.
Each node is an action that ends with `Checkpoint`; an exception or an interrupt ends the
call and leaves the thread (`Stop`). A resume value belongs to the checkpoint it was given
to: it is read only by `human_approval`, and a node in between drops it. `Start` and `Resume` at
any time stand for repeated deliveries and reviewers; an answer after the approval's expiry
is refused without an effect, so time is left out.

| Code | Actions |
|---|---|
| `start`, `resume`, `retry` | `Start`, `Resume`, `Retry` |
| `_freeze_skill`, `_load_snapshot` | `LoadSnapshot` |
| `_decide`, `decide_prepared`, `_same_or_conflict` | `Decide`, `DecideConflict` |
| `_mark_approval`, `_human_approval` | `MarkApproval`, `Interrupt`, `HumanApproval` |
| `_execute`, `DispatchTransactionService.assign` | `Execute`, `ExecuteBusy`, `ExecuteLost`, `DeliverLate` |
| `_verify`, `_audit` | `Verify`, `Audit` |
| failures | `ToolFails`, `Crash`, and those of `execute` |
| repairmen, `WorkOrderCompletionService` | `ClaimByHand`, `Complete` |

Which workers are candidates and whether the kernel assigns or asks is left open; so is
whether Java still finds the worker eligible. Two reads of `decide_prepared` (`get_by_event`,
then `save_if_absent`) are one step: the second compares again what the first compared. A
snapshot carries the time it was taken at as `captured`, because the fingerprint covers it;
the skill, the request and the worker data are the rest of the input and only matter through
it. `Crash` may take the newest checkpoint with it: LangGraph writes checkpoints behind the
running node unless told otherwise. The order service is its contract, one row per event; how
it keeps that contract is `OrderAssignment`. An order's version changes twice, when it is given
(`Taken`) and when its worker completes it (`Complete`); `OutcomeIsAssigned` is what
`DispatchQueryService` (`D/dispatch/v1/DispatchQueryService.java:113`) takes for an assignment,
which a completed order still is. `VerifiedIsTrue` says that what a thread or the audit file
calls verified stands at the order service (`AssignmentStands`): nothing changed the order since
the version decided on but this assignment and its worker's completion.

### DispatchKernel and DispatchTools

`Freeze`, `LoadInput`, `DecidePrepared` and `SaveDecision` are one run of the graph up to its
decision;
`Register`, `Activate`, `Rollback` and `Boot` are the registry's operations, which the file
lock makes atomic. `Decision` is `decide_prepared`, with `HardReasons`, `SkillReasons`,
`Component`, `Gain`, `Weight`, `Total`, `Ranked` and `Risky` for its rules, its scoring and its
thresholds. `KernelAssumption` says what the validators of snapshots and manifests let through,
and that a list names a repairman once, as the query by primary key behind it does.
Two runs may decide one event: `SaveDecision` is the insert that keeps the first decision. Percent
stand for ratios; scores keep four decimals where the code keeps eight.

A call of `DispatchTools` is `Invoke` up to its first await, then one of `Succeed`, `Fail`
(which starts the next attempt in the same step, as nothing is awaited in between) and
`Raise`. `Meaning` says what the HTTP adapter makes of each kind of answer. `DeadlinePasses`
and `Renew` are the clock and the new deadline that `resume` and `retry` give.

### RabbitBridge, DispatchBridge, KnowledgeIngestion

One event with its copies is followed. `queue[r]` counts the copies with retry count `r`,
those that wait for the retry delay included. `handler[h]` is one invocation of the message
handler: `mine` says that its delivery tag still is the broker's, because a lost connection
gives the message to another handler while the first keeps working.

| Code | Actions |
|---|---|
| the consumer, validation | `Deliver`, `Invalid` |
| `RedisLeaseManager.acquire`, `release`, its time to live | `Acquire`, `Busy`, `Release`, `Expire` |
| `runtime.start` and the outcome (`DispatchBridge`) | `Run`, `Stop`, `Result`, `Raise`, `PublishOutcome`, `Unconfirmed` |
| `WorkOrderCaseIngestionService.ingest` (`KnowledgeIngestion`) | `ReadLedger`, `Assess`, `Lookup`, `Count`, `Embed`, `IndexChunks`, `Verify`, `Activate`, `SaveResult`, `Publish` |
| the except branch | `Retry`, `GiveUp`, `GiveUpQuietly` (`DispatchBridge`), `Bury`, `Settle`, `Strand` |
| acknowledgements | `AckBusy`, `Ack`, `Settle`, `AckTimeout` |
| `revoke` | `RevokeCatalog`, `RevokeLedger`, `RevokeIndex` |
| `WorkOrderKnowledgeResultListener.consume` | `ListenResult` |
| failures | `LoseConnection`, `Die`, `Error`, `Unconfirmed` |

Each await of the ingestion is a step, so another handler, a revocation or a crash can come
between any two. Chunk identifiers are a function of the content, so an index is the set of
those written. `accepted` is one of the verdicts that the quality gate's rules give over all
sets of flaws (`Issues`, `Accepted`).

A run of the dispatch graph stops with its last checkpoint saved before `start` reads the
thread back (`PY/dispatch/runtime/graph.py:411`) and the bridge makes the outcome of it
(`PY/messaging/rabbitmq.py:124`). `Raise` may come before the stop or between the two; the
second leaves a stopped thread that the bridge's own retry runs again, which `unread` records.

### TaskPlanning and EvidenceChain

`node` is the graph's next node and `values` its checkpointed state; each node is an action.
`Planned` is what a draft and its one repair come to, `Valid` the validator, `Ready` the
batch, `Approved` the completion gate, `Patched` the replanner. The graph's thread is named by
tenant and incident (`PY/planning/runtime.py:304`), the plan's row by the thread id of the caller
too (`PY/planning/controller.py:22`): `values` is the one thread and `stored` the version of the
row of each thread id, which every writer names. So a second `run` meets the row of the first
one and raises, or commits a plan of its own under another thread id, and either way it keeps
the trigger that the first one left (`Stale`). Such a trigger is taken up by the next failure;
`Signalled` is its task if the new plan has one of that name, and `misled` records that it
happened. Artifacts are what `PlanningArtifacts` says they can
be, and `FlagsOf` in `EvidenceChain` computes just these from a worker's output.
`Supervise` is one node with its three branches; `ExecuteBatch` lets each task of the batch
end with an artifact or an exception. A worker searches under its task's id, and the gateway
allows a trace one search: hence `searched`.

`EvidenceChain` runs one chain: `Retrieve` (filters, recall, fusion, reranking, selection),
`Collect` for a worker's several queries, `Assemble` (numbering), `Generate`, `Repair`,
`Cite`. Searches, reranker answers and drafts are any that can come back: rankings of allowed
chunks, positions out of range or repeated, failures of one side or both, each flaw a
validator looks for.

### Investigation

`Decide` is a decision up to the provider: binding of tenant and options (`Bound`), the
repetition check, policy, the trace's count, the argument check. `Answer` and `Fail` are what
the provider comes to (`Replies`, `Outcome`); `Conclude` ends a run. `Search` is anybody else
who searches under a trace: a worker, a question, an MCP client, who chooses the trace
himself.

### AssistantConversation

The documented production mode runs several instances on one store (`src/agent/README.md:33`),
and `InstanceOf` says to which one a request comes. Every access to the store is a step: `Load`,
`Delete` (of an expired row, by its key alone), `ClearSaves`, `AskSaves`, `RecordTurn`.
`clear_pending` and `save_pending` read the row again (`ClearLoads`, `AskLoads`) and work on what
they find then, not on what `execute` loaded. An instance has one event loop (`MayRun`): its
requests interrupt each other only where one awaits the classifier or its chain, those of
another instance anywhere.

| Code | Actions |
|---|---|
| `execute` up to its route | `Execute`, `Classify` |
| `clear_pending` of a turn that is continued | `ClearLoads`, `ClearSaves` |
| `save_pending` of a question | `AskLoads`, `AskSaves` |
| the chain of question answering, `/v1/qa/query` | `Prepare`, `Query`, `RecordTurn`, `ChainEnds` |
| `load` of an expired row | `Expire`, `Delete` |
| an instance stops | `Stop` |

`RecordTurn` writes the state that was read before the answer was generated. What falls out of
the window of recent messages goes to a summary that keeps its last 1200 characters
(`PY/memory/conversation.py:327`), so any number of the oldest turns may go with it and none of
the window (`MayBeLost`). `life` counts rows, as version numbers start again after an expiry;
`outlived` tells that a row was written from what was read of an earlier one.

## 3. The runs

| Run | Instance | Shows |
|---|---|---|
| `OrderRivals` | one urgent order, two threads, three commands (one repeated key for another worker, one dispatch id under another key), two claims (one with a command's key), lossy lock | one worker per order, true receipts, final refusals, outbox in step, refinement of `OrderLifecycle` |
| `OrderShared` | two orders, a command that reuses another order's key and dispatch id, claims that share request ids, lock kept, crashes, fair threads | a success that is answered is a success; locks are released |
| `OrderCapacity` | two orders, one worker with room for one | **violated**: both are assigned |
| `TriggerStarves` | two orders, one scanner and a batch of one | **violated**: the second order starves |
| `OutboxRows` | three rows, two publishers that may stall or not, batch of two, two faults | at-least-once delivery, refinement of `ReliableDelivery`; without stalls a row has one holder |
| `SagaOwnership` | one device, two users, three request ids, two calls, two consumers, one fault | the databases agree, refinement of `DeviceOwnership` |
| `BackendProgress` | either two orders, two scanners, one administrator and a batch of two, or one device that is edited and deleted with two request ids | timeouts only after the deadline, and always; pending relations are resolved |
| `SagaStaleEdit` | one administrator, forms without a status | **violated**: a stale edit undoes a binding |
| `DispatchThread` | one event, a proposal or not, two workers, two calls at once, two snapshots and an answer or one and two, hand claims, one fault | one decision per event, commands carry it out, a proposal's only what was approved, verified means assigned, also when the order is completed since |
| `DispatchDeny` | one event, one call at a time, one fault | **violated**: a denial makes the write |
| `AgentBridges` | either bridge, two handlers, one retry, one fault of the broker or a process, one error of a store, results that cannot be read back, one revocation, leases that may expire at any time, two chunks | no event is lost, none is worked on twice while leases hold, what is called indexed is served, every event ends |
| `AgentServices` | one of: planning (three tasks, two runs under one thread id or two, an answer, three replans, a crash), an evidence chain (five chunks, two queries), a conversation (two requests in one instance and a third in another, a window of two turns, two expiries), dispatch tools (three calls, two traces, room for one), investigations (two runs of two steps), the kernel (two deciders, one event, two switches of skill) | the fourteen properties below |

The properties of `AgentServices`, each of one module: `CompletedIsCovered`, `PatchIsValid`,
`TracesAreFresh` (`TaskPlanning`); `EvidenceIsWellChosen`, `CitationsAreFaithful`
(`EvidenceChain`); `TurnsAreKept`, `PendingIsTakenUp`, `ClearedStaysCleared`,
`ConfirmedIsTakenOnce` (`AssistantConversation`); `BudgetIsKept`, `CircuitIsOneWay`
(`DispatchTools`); `EvidenceIsItsOwn` (`Investigation`); `DecisionsAreReproducible`,
`ChosenIsUndominated` (`DispatchKernel`). The six share no state, so a behaviour of their
composition is a behaviour of one with the others standing still, and the states add up
instead of multiplying. `BackendProgress` and `AgentBridges` are put together the same way. The
callers' thread ids of a plan are interchangeable, which is the run's symmetry; no other
variable holds them.

Bounds. Orders and devices do not interact except through shared keys and workers, so two
orders are enough for the runs about those and one for the others; two threads make every
pair of steps race and the third party of a race is a retry of one of them. Three request
ids give bind, unbind and bind again, the shortest history in which a late result meets a
newer request. `MaxFaults` bounds redeliveries, lost confirms and crashes; each fault is
recovered from before the next matters. `MaxInputs` bounds how often a thread reads a
snapshot or gets an answer: two of either are the first that can disagree.
Two handlers are all that a lease tells apart, its holder and another; an expired
lease makes a third one a second. One retry distinguishes the last attempt from the others.
Two chunks are the least of which a part can be there. Chains of
two and three tasks, one of two beside a third task, drafts with each flaw, and three replans (the
most the settings allow) reach a second recovery, the first whose id is taken, and a recovery
after the first was itself replaced; a second run with a second thread id and a crash in `replan`
are what a stale trigger takes. Each exception that a planning property states was seen to be
needed in this instance. Five chunks hold a text twice, another tenant's text, one that fills the
token budget and one that no query is near to. Three requests let a third one act
between the read and the write of the first and a turn pending from the second, in the same
instance or not; a third turn overflows a window of two, and two expiries let a row be replaced
and the next one too. Two switches of skill are an activation with its roll back or with the
boot that undoes it. A table of
one trace with two traces makes every call evict the other's count.

Section 5 proves for all instances the safety properties of `OrderRivals`, `OrderShared`,
`OutboxRows`, `SagaOwnership`, `BackendProgress` and `DispatchThread`, those of the knowledge
bridge in `AgentBridges`, and those of `AgentServices`: for these the bounds only matter to
liveness. `AgentServices` takes longest, 3.0 million states in two to three minutes;
`DispatchThread` has 4.6 million smaller ones.

Deadlock is not checked: all these systems may stop, for instance when no request is left to
answer and every order is completed.

`SuccessReceiptIsTrue` is checked with locks that are kept. When the lock is lost, a command
that ran twice at once and was rejected can be answered `ALREADY_APPLIED`, because the lookup
after a duplicate key (`D/dispatch/v1/DispatchCommandService.java:57`) compares only the hash
and not the receipt status; the order itself stays correct. `SagaOwnership` has no
administrator: `SagaStaleEdit` shows what one can do. `ConfirmedIsTakenOnce` speaks of the requests
of one instance and of the time before `outlived`: two instances can both load a confirmed intent
before either has cleared it, and `clear_pending` does not tell the second that it is gone. `IndexedIsServed` speaks of cases that
nobody revokes, and `OneIngestionAtATime` of leases that did not run out under a holder: both
are what the code can promise, as section 6 tells.

## 4. Fairness

A request thread runs until it answers and Redis drops a lock nobody renews (`OrderShared`);
`@Scheduled` methods keep being called, a started batch goes on, and clocks advance
(`BackendProgress`, `OutboxRows`); listeners consume what is in their queues
(`BackendProgress`, and `ListenResult` in `AgentBridges`); a handler of the agent goes on with its coroutine and
a lease's time to live passes (`AgentBridges`). Only weak fairness is used. No user,
administrator, model or fault is fair: nobody has to claim an order, ask for a device,
or crash.

`EventEnds` needs `Expire` to be fair: a delivery that finds the lease taken is published
again with the same count, so nothing but the lease's end stops it. It does not need a bound
on those copies.

## 5. What is proved

Eight modules hold proofs, each for every value of its constants, of every safety invariant and
every action property the passing runs check, and of the three refinements. Hardly one of
them is inductive alone, so for each component an inductive invariant is stated (`IInv`, or
named for the component where a module proves about several, like `SagaInv`) and proved with one
lemma per action (`Invariance`, `TriggerInvariance` and so on). `TypeCorrect` is its first part. The only assumptions about constants are the named ones of the modules, which TLC
evaluates on every run; where a theorem has another hypothesis it is in its statement.

### OrderAssignment_proofs

For all orders, workers, commands and threads, with locks that may be lost:

- `TypeCorrect`, `OneClaimPerOrder`, `AcceptedIsTrue`, `RefusedForEver`, `OutboxInStep`: the
  five invariants of `OrderRivals`;
- `Refinement`: the service implements `OrderLifecycle`;
- `SuccessIsTrue`: `SuccessReceiptIsTrue`, with `~LockMayBeLost` as its hypothesis.

The assumptions are the named ones of `OrderAssignment`: commands have their fields, `NoWorker`
is no worker, `Free` and `Orphan` are no threads. Only `SuccessIsTrue` looks at the lock.
`IInv` adds:

- `ThreadInv`: a thread about to write has read a row whose version the table has reached,
  and if the version is still that one the row is unchanged (so the version check is enough),
  and its command is of the kind its step expects;
- `KeysAreUnique` and `AcceptedHasClaim`: a receipt belongs to one command, and an accepted
  one left its claim row, which shuts out a second acceptance (`AcceptedOncePerOrder`);
- `RefusedIsBlocked`: a refused command has its key, its dispatch id or its order taken, and
  nothing is ever deleted from those tables (`TablesGrow`);
- `OnlyLegacyIsLegacy`: rows with the old status value are only the initial ones, which the
  urgent-event part of `OutboxMatchesOrder` leaves out.

`ApprovalStep`, `CompletionStep`, `ClaimStep`, `AssignmentStep` and `RefusalStep` say what
each writing transaction does to the tables; `Writers` that no other step writes. Every
invariant then has one lemma with a step per writer.

`SuccessIsTrue` needs a second invariant, `KeptInv`: a thread past `tryLock` holds its order's
lock, so nobody has stored its command since it looked, and the lookup after a duplicate key
never meets the row of this very command, only another's (`ReceiptsStored` says which
receipts are stored at all). Whoever is told of a success has the order's claim row (`Given`),
and that row names the order's worker by `IInv`.

### BackendProgress_proofs: DispatchTrigger

`WindowRespected`: `WindowIsRespected`, for any orders, scanners, administrators and batch
sizes. `TriggerInv` is the property with the type invariant, of which the type of `batch` matters:
a scanner only has positions in hand that time has passed. Deadlines keep their place and time
does not go back (`ExpiredStays`), so what was true at the read still is at the insert.

### OutboxPublisher_proofs

For any rows, publishers, batch size and number of faults:

- `OneHolder`: `HolderOwnsTheRow`, while no publisher stalls past the stale limit;
- `Refinement`: the publishers implement `ReliableDelivery`, stalls or not.

The one assumption is `PublisherAssumption` (ids are numbers, a batch has room). `IInv` adds
`HeldIsNotDue`, the heart of the first: a row in hand is `PUBLISHING` and not due, so it is
nobody's to claim, and it becomes so because `FreshIsPublishable`: a batch claims only
rows that no statement has touched since it was read. The second rests on
`AckIsTrue` and `PublishedIsQueued`: a confirm is never for a message the broker did not queue,
and only a confirm makes a row `PUBLISHED`; what a second holder marks afterwards meets the
status condition of `Mark`.

### AgentBridges_proofs

For any handlers, retries, copies, faults, embedding errors and chunks:

- `EventKept` and `DispatchEventKept`: `EventIsKept` for both bridges, through lost
  connections, crashes and failed publishes;
- `Exclusion` and `DispatchExclusion`: `OneIngestionAtATime` for both, while no lease runs out
  under its holder;
- `IndexedServed`: `IndexedIsServed`, for cases nobody revokes;
- `LeaseKept`: `LeaseIsItsHolders`, for the knowledge bridge;
- `StoppedRunsOnce`: `StoppedRunsAgainOnlyAfterFault`, whose faults include a result that could not
  be read back.

The assumptions are `BridgeAssumption`, `HandlerAssumption` (a handler's token is not the value
of a free lease) and `KnowledgeAssumption`. Both bridges keep `CopyInv`: the handler that keeps
the event is at a place that still owes it an answer (`Owing`), and one about to acknowledge has
seen the event answered; and `LeaseInv`: whoever works holds the lease. The bridge's own steps
and failures are shown to keep them once; of a job only `WorkMoves` is used, which each of its
steps satisfies (`JobMoves`, `RunMoves`).

For the knowledge bridge, `IInv` adds `ServedInv`: what a handler has found out by its reads and
writes is still so at its later steps, which is what a second, overlapping ingestion could have
spoiled and does not, because every step of an ingestion only adds to the index and to the
catalogue. For the dispatch bridge, `DispatchInv` adds `OnceInv`: a copy that was sent once
waits in one queue or is carried by one handler as long as there is no fault and no unread result (`OneCopy`), none
of it comes before a run any more when the thread has stopped (`StoppedIsDone`), and its
delivery can be acknowledged (`Attached`), so a success is not taken for a failure. The lease
plays no part in it: it may run out at any time.

### BackendProgress_proofs: DeviceBindingSaga

For any devices, users, requests, faults and administrators:

- `DatabasesAgree` and `Refinement`: `RelationMatchesDevice` and the refinement of
  `DeviceOwnership`, under the hypothesis `[][AdminsLeaveUse]_vars`: no administrator's write
  changes whether a device is in use. The code does not enforce it, as `SagaStaleEdit` shows;
  the theorems say that nothing else breaks the saga;
- `WithoutAdmins`: both without that hypothesis where `Admins` is empty, as in
  `SagaOwnership`.

The assumptions are `SagaAssumption` and `AbsentAssumption` (the values for "no relation" and
"no transaction" are none of the real ones). `SagaInv` needs no hypothesis: a request has one
row and at most one command, what a consumer works on was requested or decided, a pending
relation has its request (`PendingWasRequested`), and a request
without a command is the one its relation waits for (`UnhandledIsPending`), so a relation
cannot ask for the next thing before the last one is decided. `RowIsOneUsers` says that a row
id, once used, stays with one user: what a call has read of a row still tells whose it is when
it writes. `UseInv` is `RelationMatchesDevice` with `UnbindSucceeds`: an unbinding is only asked
for by who has the device, so the device side never refuses it.

### DispatchRuntime_proofs

For any events, calls, snapshots, answers, workers, faults and bounds, with several calls on
one thread, crashes, lost answers and late deliveries:

- `CommandsMatch`, `ProposalsApproved`, `OneDecisionPerEvent`, `VerifiedTrue`: the four
  properties of `DispatchThread`.

The assumptions are the named ones of `DispatchRuntime`; `AbsentAssumption` says that `None` is
none of the values it stands for the absence of. A proposal's approval is the hard part. A
thread that is started again after an approval keeps the old answer in its values until it
freezes a new snapshot, and the decision store refuses a decision made from another snapshot
(`DecideConflict`): so an old approval never gets past `Decide`. `CheckpointsGood` says what
the values of a checkpoint, of a running call and of the checkpoint it falls back to may be
before each node, among it that their decision is the stored one; `DecisionsMade` says that a
stored decision was made from a snapshot that was read and selects one of its candidates,
`AcceptedHolds` that the order of an accepted command is as the command left it or completed by
its worker since, and `AuditTrue` that what was audited as verified was accepted. `OrderStep` is
what any step of the rest of the world has to respect, and `CompleteStep` shows it of a
completion.

### AgentServices_proofs: AssistantConversation

For any requests, instances, messages, windows and expiries:

- `TurnsKept`, `PendingKept` and `ClearedStays`: the action properties `TurnsAreKept`,
  `PendingIsTakenUp` and `ClearedStaysCleared`;
- `ConfirmedOnce`: `ConfirmedIsTakenOnce`.

The assumption is `ConversationAssumption`. `SnapshotsMatch` says why the version check is
enough while a row lives: a snapshot of this row is no newer, and with its version it has its
turns and its pending turn. `RequestsAreSound` says where a request may hold a turn it loaded: while
it is classified, which a confirmed intent never is, and until it is cleared. `TakenIsGone` says
that a confirmed intent somebody took up is not in the row any more, and `SeenIsUntaken` that
nobody of the instance took one up that another of its requests is about to; that needs `MayRun`,
and it is what fails between instances. They end with `outlived`, because the attempt to prove
them without found the history that brings a turn back (section 6). `Moves` is what a step may make
of a request, and each request's steps are shown to be such moves (`MovingKeeps`).

### AgentServices_proofs: DispatchTools

For any calls, traces, tools, thresholds, budgets and sizes of the table:

- `BudgetKept`: `BudgetIsKept`;
- `CircuitsAreOneWay`: the action property `CircuitIsOneWay`.

The assumptions are `ToolsAssumption` and `MaxTracesAssumption`. `AttemptsCounted` relates the
attempts of a trace to its entry in the table and to how often one was dropped;
`CountedAddsOne` and `RoomKeeps` are the facts about `TraceBudget` it rests on, among them that
a trace has one entry at most. `FailuresCounted` relates the counter that opens a circuit to the
attempts that ended since the last success.

### AgentServices_proofs: DispatchKernel

For any skills, snapshots, processes and switches of skill:

- `Reproducible`: `DecisionsAreReproducible`. `KernelInv` says that keys have one content, that
  what is or was active is registered, and that a saved decision is what its own input comes to
  (`TableIsSound`); `RunIsSound` follows one run through switches, boots and rivals.
- `AssignedFirst`: whoever is assigned is excluded by none of the rules, and nobody who may be
  assigned scores more (`ChosenIsFirst`), under `KernelAssumption`.
- `Undominated`: `ChosenIsUndominated`, where `RoundingHidesNobody`. A score is a rounded number,
  here and in the code, so a difference may be too small for it: then two repairmen score the same
  and the tie-break, which looks at one metric or none, may prefer the one who is worse by that
  little. The hypothesis says that whoever is plainly better has another component
  in some metric that counts; it holds in every state of the run, where dominated repairmen do
  occur. Nothing else is needed: weights that add up to 100 carry each such difference through
  division and rounding (`DominatingScores`, `DivisionMonotone`).

`ScoringInv` says that a saved decision rests on a snapshot somebody may have sent and a skill
the validators passed, whose scores exist. `BeforeIsLinear` is why the ranking is one:
repairmen have different ids, so no two are left undecided; `SortedFirst` then gives the first.

### AgentServices_proofs: Investigation

For any runs, traces, arguments, providers and budgets: `EvidenceOfItsOwn`, `EvidenceIsItsOwn`.
`LoopIsSound` counts the observations that succeeded and the answers side by side, and keeps
every answered request among those the repetition check has seen.

### Planning_proofs: TaskPlanning

For any drafts, roles, criteria, tasks, batch sizes, answers and crashes, and the replans the
settings allow (`MaxReplans \in 0 .. 3`):

- `CompletedOnItsPlan`: `CompletedIsCovered`;
- `PatchesAreValid`: `PatchIsValid`;
- `TracesStayFresh`: `TracesAreFresh`.

`PlanningInv` has one part for each thing a step relies on, stated of the sets of tasks and
artifacts: `WellFormed` (the plan passes the validator), `Owned` (which ids the plan and its past use: `Own`, or `Strange` once a signal of an earlier plan
has added a name), `Fresh` (a pending task has not been searched under), `Kept` and `Dated` (a
completed task left its artifact, of the version it ran in), `Settled` and `Carried` (what becomes
of the roles of tasks a replan cancelled, the heart of `CompletedIsCovered`, as long as the plan
was not `misled`), `Drafted` (the first version is the draft), `Leftover` (a stale trigger waits for
the first replan) and `Quiet` (no signal is left unanswered). `Placed` says which of them hold before which node. The replanner is the hard
step: `PatchedTasks` and `PatchPasses` show that what it builds passes the validator, by
`ClosureIsLeast` (the tasks it takes away are closed under dependency), and `Revises` and
`Recovers` that its two kinds of additions keep each part, `Misleads` and `OwnedAstray` what a
stale trigger leaves of them. `Refusable` says which patches the validator refuses. The exceptions
in the properties came out of attempts to prove them without (section 6).

### Planning_proofs: EvidenceChain

For any chunks, queries, rankings, reranker answers, scopes and limits:

- `EvidenceWellChosen`: `EvidenceIsWellChosen`;
- `CitationsFaithful`: `CitationsAreFaithful`.

Each stage has a lemma about what it hands on: `Fusion` (reciprocal ranks of two searches, one of
which may have failed), `Reranking` (positions out of range or repeated), `Recalling`,
`Selecting` (what is left out would not have fitted) and `Renumbering`. `EvidenceInv` says of the
state only that the bundle and the evidence are such results, in scope and numbered.

### Induction over data

Filtering, sorting and summing a list are recursive functions in `Selections`. What they return
for every list is proved in `Selections_proofs`: `IntervalInduction` is induction with a set
instead of a predicate, `Recursion` shows that a function with given steps exists, and
`OnlySelects`, `SortedElements`, `SortedFirst`, `SumOfAppend` and `SumOfMonotone` are the facts the
other modules cite. `SelectRecursion` does the same for the selection of evidence.

### Model-checked only

Liveness (`LockIsReleased`, `ExpiredIsDispatched`, `EventuallyPublished`,
`PendingIsResolved`, `EventEnds`): the prover does not reason about `ENABLED`, in which weak
fairness is defined. `RoundingHidesNobody` is a hypothesis and no
theorem: of some inputs it is false.

## 6. Disagreements found

1. `OrderCapacity`: the agent's rule says a full worker gets no new order
   (`PY/dispatch/application/rules.py:64`); `assign` counts orders without a lock
   (`D/dispatch/v1/DispatchTransactionService.java:137`) and two orders are two locks.
2. `TriggerStarves`: an order unclaimed at its deadline triggers dispatch
   (`MaintainRecord.java:52`); the scanner's `LIMIT` (`D/mapper/MaintainRecordMapper.java:46`)
   keeps returning the same orders when as many as a batch stay unclaimed.
3. `SagaStaleEdit`: after a binding the device is in use
   (`DeviceBindingCommandServiceIntegrationTest.java:53`); an edit whose form does not even
   mention the status can write the old one back (`D/controller/DeviceInstanceInfo.java:209`).
4. `DispatchDeny`: a denial "writes nothing" (`PY/dispatch/adapters/proposal_bridge.py:122`);
   `resume` (`PY/dispatch/runtime/graph.py:111`) runs the thread from where it stands, so after
   a timed-out write a denial carries out the approval it meant to take back.

Noted while modelling, without a run of their own. Backend:

- A user whose binding failed keeps the device from everybody else, who is told that he has
  it (`A/saga/DeviceBindingSagaService.java:41`), because his row stays; deleting a bound
  device leaves a relation that cannot be unbound.
- Orders approved before claim windows existed have no deadline, so the scanner never finds
  them (`D/mapper/MaintainRecordMapper.java:43`).

Dispatch:

- A repeated transfer of a proposal should replay the decision
  (`src/agent/tests/scenarios/test_proposal_dispatch_runtime.py:163`); the fingerprint
  (`PY/dispatch/application/service.py:75`) contains the time of the snapshot, so against the
  real order service it is a conflict, and the thread that waited for its approval is lost. A
  RabbitMQ event delivered again meets the same fate.
- A busy order is audited as failed although its receipt says retryable; the audit thread is
  not cancelled by its timeout (`PY/dispatch/adapters/java_http.py:180`), and the first line
  of an event in the audit file wins.
- Outcomes go to `flowfix.dispatch.outcome.v1` (`PY/messaging/rabbitmq.py:28`), to which no
  queue is bound and which no Java class consumes.
- The circuit of a tool never closes once it is open and no attempt is under way
  (`PY/dispatch/runtime/middleware.py:196`): `CircuitIsOneWay` states it as it is.
- Boot activates the default skill whatever an operator activated, and stops when a key holds
  other content; a manifest without `created_at` gets another content on every load. Scoring
  divides by zero when all known metrics have weight 0 (`PY/dispatch/application/scoring.py:33`),
  which Java's reports, without distance and readiness, make possible.

Bridges and knowledge:

- A lease is not renewed (`PY/reliability/lease.py:24`): a run longer than its time to live
  is joined by a second one.
- When a run of the graph stopped and its result cannot be read back or validated
  (`PY/dispatch/runtime/graph.py:411`), the except branch (`PY/messaging/rabbitmq.py:145`) retries the
  event and runs the stopped thread again: the exception in `StoppedRunsAgainOnlyAfterFault`.
- A lost acknowledgement at the last retry makes a `failed` outcome overwrite `indexed` in the
  Java row, whose case stays searchable; a publish that fails inside the except branch leaves
  the delivery unanswered until the broker's acknowledgement timeout, with a prefetch of one.
- A revocation under way while its case is ingested can be undone by the ingestion's last
  steps, against the port's words (`PY/knowledge/ports.py:55`).
- The flaws that do not block add up to just 35, so the gate's threshold never decides alone.

Planning and evidence:

- A human's retry in the process that ran the plan is useless: every worker searches under
  its task's id, and the gateway refuses a trace's second search
  (`PY/tools/gateway.py:58`, against `PY/planning/runtime.py:122`); this is the other exception in
  `TracesAreFresh`.
- With two or more replans allowed (`PY/core/config.py:72` lets three), a second recovery gets the
  id of the first and the patch is refused: the exception in `PatchIsValid`. If a revision has
  replaced the first one and fails as well, the third replan's recovery passes the validator,
  but its worker searches under the first one's trace and the gateway refuses it: the exception
  in `TracesAreFresh`.
- When tasks of several kinds fail at once and the plan was replanned before, one recovery with
  the role of a diagnosis replaces them all (`PY/planning/replanning.py:154`). The gate asks for an
  artifact of each required role among all there are, and takes those of cancelled tasks
  (`PY/planning/completion.py:74`): the plan may be called completed on work the
  replan threw away. This is `StandIn` in `CompletedIsCovered`.
- Planning an incident again under the same thread id meets the row of its first plan and raises;
  so does a thread whose plan was stored when the process died before the checkpoint. Under another thread id it
  commits, but `run` (`PY/planning/runtime.py:117`) leaves the trigger of the first plan in the
  thread, if that one crashed or failed in `replan`. The second plan's first failure is then
  patched for the first plan's signal, although a failure has no trigger by
  `PY/planning/runtime.py:379`: the failed task stays, a task of the same name is replaced though it
  was completed, or the patch exceeds the plan's size and is refused. These are the exceptions
  with `misled` and `Stale` in `CompletedIsCovered` and `PatchIsValid`.
- A resource artifact that is neither available nor has alternatives triggers a replan, and
  stays in the list, so the gate refuses it afterwards; the comment at
  `PY/planning/workers/resource_planning.py:207` wants conflicts and alternatives, the code accepts either.
- A dangling dependency in the draft raises before the repair that would mend it; the impact
  worker's message for an unsupported item raises too (`PY/adapters/impact_safety_generator.py:183`).
- `build_dispatch_proposal` uses all artifacts, cancelled tasks' too, and the write policy
  refuses proposals whose text has one of its keywords.
- An investigation may be called completed on the default conclusion "insufficient evidence"
  (`PY/investigation/loop.py:55`). A remote FlowFix MCP server allows each trace one search
  (`PY/mcp_server.py:105`), so an investigation through it is refused the second; searches
  without a trace share `qa-retrieval`.

Assistant:

- A pending turn is cleared before its chain runs, so a chain that fails loses it (comment at
  `PY/memory/conversation.py:288`). `clear_pending` (line 290) reads the row again and clears the
  turn it finds there, and a question replaces it, also when another instance, or the same one
  while the intent was classified, saved that turn after this request had loaded its own: nobody
  continued it, against that comment, and `PendingIsTakenUp` only says that whoever drops a turn had
  read the row with it.
- Two instances can take up one confirmed intent: loading and clearing it are two transactions
  (`PY/assistant/service.py:60` and 121), and clearing a turn that is gone is no error.
- Old answers leave the conversation with the end of a summary that is cut
  (`PY/memory/conversation.py:327`), in the middle of one if need be.
- An answer that was generated while another request wrote the row is lost as a conflict;
  one that outlives its row may pass for an update of the next row, as versions start
  again (`PY/memory/conversation.py:340`).
- Such an answer brings back the pending turn its snapshot holds, against the comment at
  `PY/memory/conversation.py:288`: a confirmed intent that another request already took up is
  then taken up once more. In one instance it takes five requests and an expiry: one saves the
  turn, one is classified and answers, one takes the turn up, the row expires, one starts the next row up
  to the same version, the answer is recorded, and one more request comes.

## 7. Not modelled, and what is left

Left out: offline evaluation (`PY/evaluation`, some 4500 lines that score recorded runs and
change nothing), observability, HTTP schemas, settings, wiring and command line; catalogue
rows, users, notifications, search index and front end, which are single reads and writes;
batch ingestion of Markdown files; artifact rows, which nothing reads back; the text
of prompts, proposals and reports. In the models that are there: retry delays, times and
deadlines are events that may happen at any moment; `recursion_limit` of the planning graph;
the planning thread is one call at a time, with checkpoints that survive a crash (the default
`InMemorySaver` does not). The reason for each component is in `PROJECT.json`.

Further theorems would need further properties: every safety invariant and action property of a
passing run has one. Liveness stays with TLC, as section 5 says.
