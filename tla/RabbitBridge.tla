---------------------------- MODULE RabbitBridge ----------------------------
(* The consumer the agent's two RabbitMQ bridges share: messaging/rabbitmq.py *)
(* and messaging/knowledge_rabbitmq.py differ only in the job they run for an *)
(* event.  One event is followed; what the job does between Acquire and its   *)
(* answer belongs to the modules that extend this one.                        *)
(*                                                                            *)
(* A delivery that waits in the retry queue for its time to live is counted   *)
(* with the request queue: the wait only delays it.  A handler whose          *)
(* connection was lost keeps running, and what it publishes afterwards goes   *)
(* out on the new connection, but its own delivery tag is dead.               *)
EXTENDS Naturals, FiniteSets

CONSTANTS Handlers,     \* handler invocations that may overlap
          MaxRetries,   \* rabbitmq_max_retries
          Copies,       \* copies of the event the outbox publisher sent
          MaxFaults     \* bound: lost connections and crashes

ASSUME BridgeAssumption ==
    MaxRetries \in Nat /\ Copies \in Nat \ {0} /\ MaxFaults \in Nat

VARIABLES queue,     \* copies ready or waiting, by their x-retry-count
          handler,   \* per handler: where it stands, its count, whether its delivery
                     \* is still its own, and what the job answers
          lease,     \* the handler whose token Redis holds for the event
          valid,     \* the body parses as the bridge's event
          dead,      \* the event is in the dead-letter queue
          answered,  \* an outcome was published
          faults,    \* history: faults so far
          expired    \* history: Redis dropped a lease before its holder did

bridgeVars == <<queue, handler, lease, valid, dead, answered, faults, expired>>

Free == "free"
ASSUME HandlerAssumption == Free \notin Handlers

Retries == 0 .. MaxRetries
None == "none"
Idle == [pc |-> "idle", retry |-> 0, mine |-> FALSE, answer |-> None]

Goto(h, pc) == handler' = [handler EXCEPT ![h].pc = pc]
Working(h) == handler[h].pc \notin {"idle", "received", "busy", "stranded"}
At(h, pc) == handler[h].pc = pc

BridgeInit ==
    /\ queue = [r \in Retries |-> IF r = 0 THEN Copies ELSE 0]
    /\ handler = [h \in Handlers |-> Idle]
    /\ lease = Free
    /\ valid \in BOOLEAN
    /\ dead = FALSE /\ answered = FALSE
    /\ faults = 0 /\ expired = FALSE

\* A delivery that is acknowledged as soon as it arrives.
MutantAckAtDelivery(h) ==
    /\ At(h, "idle")
    /\ \E r \in Retries :
        /\ queue[r] > 0
        /\ queue' = [queue EXCEPT ![r] = @ - 1]
        /\ handler' = [handler EXCEPT ![h] = [Idle EXCEPT !.pc = "received", !.retry = r]]
    /\ UNCHANGED <<lease, valid, dead, answered, faults, expired>>

\* A consumer gets the next delivery and reads its x-retry-count.
Deliver(h) ==
    /\ At(h, "idle")
    /\ \E r \in Retries :
        /\ queue[r] > 0
        /\ queue' = [queue EXCEPT ![r] = @ - 1]
        /\ handler' = [handler EXCEPT ![h] = [Idle EXCEPT !.pc = "received", !.retry = r, !.mine = TRUE]]
    /\ UNCHANGED <<lease, valid, dead, answered, faults, expired>>

\* A body that does not parse goes to the dead-letter queue and is acknowledged.
Invalid(h) ==
    /\ At(h, "received") /\ ~valid
    /\ dead' = TRUE
    /\ handler' = [handler EXCEPT ![h] = Idle]
    /\ UNCHANGED <<queue, lease, valid, answered, faults, expired>>

\* SET without NX.
MutantAcquireTaken(h) ==
    /\ At(h, "received") /\ valid
    /\ lease' = h
    /\ Goto(h, "job")
    /\ UNCHANGED <<queue, valid, dead, answered, faults, expired>>

\* RedisLeaseManager.acquire: SET NX with a time to live.
Acquire(h) ==
    /\ At(h, "received") /\ valid
    /\ lease = Free
    /\ lease' = h
    /\ Goto(h, "job")
    /\ UNCHANGED <<queue, valid, dead, answered, faults, expired>>

\* The lease is taken: a copy with the same count is published, then the
\* delivery is acknowledged.
Busy(h) ==
    /\ At(h, "received") /\ valid
    /\ lease # Free
    /\ queue' = [queue EXCEPT ![handler[h].retry] = @ + 1]
    /\ Goto(h, "busy")
    /\ UNCHANGED <<lease, valid, dead, answered, faults, expired>>

AckBusy(h) ==
    /\ At(h, "busy")
    /\ handler' = [handler EXCEPT ![h] = Idle]
    /\ UNCHANGED <<queue, lease, valid, dead, answered, faults, expired>>

\* A success that falls through to the except branch.
MutantAckFails(h) ==
    /\ At(h, "ack")
    /\ handler' = [handler EXCEPT ![h].pc = "failed", ![h].mine = FALSE]
    /\ UNCHANGED <<queue, lease, valid, dead, answered, faults, expired>>

\* The acknowledgement that ends a successful job.  On a dead delivery it raises,
\* and the bridge's own except branch takes over.
Ack(h) ==
    /\ At(h, "ack")
    /\ handler' = [handler EXCEPT ![h].pc = IF handler[h].mine THEN "release" ELSE "failed",
                                  ![h].mine = FALSE]
    /\ UNCHANGED <<queue, lease, valid, dead, answered, faults, expired>>

\* The except branch: another attempt while the count allows it.
Retry(h) ==
    /\ At(h, "failed")
    /\ handler[h].retry < MaxRetries
    /\ queue' = [queue EXCEPT ![handler[h].retry + 1] = @ + 1]
    /\ Goto(h, "settle")
    /\ UNCHANGED <<lease, valid, dead, answered, faults, expired>>

Bury(h) ==
    /\ At(h, "bury")
    /\ dead' = TRUE
    /\ Goto(h, "settle")
    /\ UNCHANGED <<queue, lease, valid, answered, faults, expired>>

\* The acknowledgement of the except branch; if it raises, finally still runs.
Settle(h) ==
    /\ At(h, "settle")
    /\ handler' = [handler EXCEPT ![h].pc = "release", ![h].mine = FALSE]
    /\ UNCHANGED <<queue, lease, valid, dead, answered, faults, expired>>

\* DEL without a look at the token.
MutantReleaseAny(h) ==
    /\ At(h, "release")
    /\ lease' = Free
    /\ handler' = [handler EXCEPT ![h] = Idle]
    /\ UNCHANGED <<queue, valid, dead, answered, faults, expired>>

\* RedisLeaseManager.release: the token is compared before the key is deleted.
Release(h) ==
    /\ At(h, "release")
    /\ lease' = IF lease = h THEN Free ELSE lease
    /\ handler' = [handler EXCEPT ![h] = Idle]
    /\ UNCHANGED <<queue, valid, dead, answered, faults, expired>>

\* The time to live runs out, whether its holder still works or died.
Expire ==
    /\ lease # Free
    /\ lease' = Free
    /\ expired' = (expired \/ Working(lease))
    /\ UNCHANGED <<queue, handler, valid, dead, answered, faults>>

Requeued(h) ==
    IF handler[h].mine THEN [queue EXCEPT ![handler[h].retry] = @ + 1] ELSE queue

\* The broker gives an unacknowledged delivery of a lost connection back.
LoseConnection(h) ==
    /\ handler[h].mine /\ faults < MaxFaults
    /\ queue' = Requeued(h)
    /\ handler' = [handler EXCEPT ![h].mine = FALSE]
    /\ faults' = faults + 1
    /\ UNCHANGED <<lease, valid, dead, answered, expired>>

\* The process of a handler dies; its lease stays in Redis until it expires.
Die(h) ==
    /\ ~At(h, "idle") /\ faults < MaxFaults
    /\ queue' = Requeued(h)
    /\ handler' = [handler EXCEPT ![h] = Idle]
    /\ faults' = faults + 1
    /\ UNCHANGED <<lease, valid, dead, answered, expired>>

\* A publish of the except branch raises: the lease is released, the delivery is
\* neither acknowledged nor returned.
Strand(h) ==
    /\ handler[h].pc \in {"failed", "bury"} /\ faults < MaxFaults
    /\ lease' = IF lease = h THEN Free ELSE lease
    /\ Goto(h, "stranded")
    /\ faults' = faults + 1
    /\ UNCHANGED <<queue, valid, dead, answered, expired>>

\* The broker's acknowledgement timeout closes the channel of such a delivery.
AckTimeout(h) ==
    /\ At(h, "stranded")
    /\ queue' = Requeued(h)
    /\ handler' = [handler EXCEPT ![h] = Idle]
    /\ UNCHANGED <<lease, valid, dead, answered, faults, expired>>

\* A handler's own steps in the bridge, the job apart.
BridgeStep(h) ==
    \/ Deliver(h) \/ Invalid(h) \/ Acquire(h) \/ Busy(h) \/ AckBusy(h)
    \/ Ack(h) \/ Retry(h) \/ Bury(h) \/ Settle(h) \/ Release(h) \/ AckTimeout(h)

BridgeFault == Expire \/ \E h \in Handlers : LoseConnection(h) \/ Die(h) \/ Strand(h)
=============================================================================
