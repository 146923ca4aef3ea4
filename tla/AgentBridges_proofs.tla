------------------------- MODULE AgentBridges_proofs -------------------------
(* Proofs about the two bridges and their jobs, for any handlers, retries,    *)
(* copies, faults, errors and chunks.  What the bridge itself keeps is shown  *)
(* once for both.                                                             *)
EXTENDS KnowledgeIngestion, DispatchBridge, FiniteSetTheorems, TLAPS

Places ==
    {"idle", "received", "busy", "job", "run", "result", "assess", "lookup", "count", "embed", "index",
     "verify", "activate", "save", "publish", "ack", "failed", "bury", "settle", "release",
     "stranded"}
HandlerState ==
    [pc : Places, retry : Retries, mine : BOOLEAN, answer : Statuses \cup {None}]

BridgeType ==
    /\ queue \in [Retries -> Nat]
    /\ handler \in [Handlers -> HandlerState]
    /\ lease \in Handlers \cup {Free}

JobType ==
    /\ ledger \in Records
    /\ index \in SUBSET ChunkIds

\* Places whose delivery is not yet answered by a copy, an outcome or a dead letter.
Owing == Places \ {"idle", "busy", "ack", "settle", "release"}

\* A copy is where it will be worked on: the strengthening of EventIsKept.
CopyInv ==
    /\ \/ \E r \in Retries : queue[r] > 0
       \/ \E h \in Handlers : handler[h].mine /\ handler[h].pc \in Owing
       \/ answered \/ dead
    /\ \A h \in Handlers : At(h, "ack") => answered

\* While no lease ran out under its holder, whoever works holds it.
LeaseInv == ~expired => \A h \in Handlers : Working(h) => lease = h

\* What a handler has found out stays true until somebody revokes.
ServedInv ==
    revoke = None =>
        /\ \A h \in Handlers :
            /\ At(h, "count") => catalog
            /\ At(h, "activate") => index = ChunkIds
            /\ handler[h].answer \in {"indexed", "skipped"} => Served
        /\ ledger.status \in {"indexed", "skipped"} /\ SameContent => Served
        /\ (outcomes \cup {row}) \cap {"indexed", "skipped"} # {} => Served

IInv == BridgeType /\ JobType /\ CopyInv /\ LeaseInv /\ ServedInv

-----------------------------------------------------------------------------
(* Types *)

JobActions(h) == JobStep(h) \/ Error(h)

\* A handler that takes another state.
LEMMA HandlerMoves ==
    ASSUME BridgeType, NEW h \in Handlers, NEW s \in HandlerState,
           handler' = [handler EXCEPT ![h] = s]
    PROVE  handler' \in [Handlers -> HandlerState]
BY DEF BridgeType

\* The job's way of moving: to a place, with an answer.
LEMMA EndsMoves ==
    ASSUME BridgeType, NEW h \in Handlers, NEW pc \in Places, NEW s \in Statuses \cup {None},
           Ends(h, s, pc)
    PROVE  /\ handler' = [handler EXCEPT ![h] = [handler[h] EXCEPT !.pc = pc, !.answer = s]]
           /\ handler' \in [Handlers -> HandlerState]
<1> DEFINE moved == [handler[h] EXCEPT !.pc = pc, !.answer = s]
<1>1. handler[h] \in HandlerState BY DEF BridgeType
<1>2. moved \in HandlerState BY <1>1 DEF HandlerState
<1>3. handler' = [handler EXCEPT ![h] = moved] BY DEF Ends
<1> QED BY <1>2, <1>3, HandlerMoves

\* Places and answers are among the strings the actions use.
LEMMA PlacesAre ==
    /\ {"busy", "job", "run", "result", "assess", "lookup", "count", "embed", "index", "verify",
        "activate", "save", "publish", "ack", "failed", "bury", "settle", "release", "stranded"}
         \subseteq Places
    /\ {"indexed", "skipped", "rejected", "failed", "processing", "none"}
         \subseteq Statuses \cup {None}
    /\ FinalStatuses \subseteq Statuses
    /\ Idle \in HandlerState
BY BridgeAssumption DEF Places, Statuses, FinalStatuses, None, Idle, HandlerState, Retries

\* A handler that goes to another place.
LEMMA GotoMoves ==
    ASSUME BridgeType, NEW h \in Handlers, NEW pc \in Places, Goto(h, pc)
    PROVE  handler' \in [Handlers -> HandlerState]
<1>1. handler[h] \in HandlerState BY DEF BridgeType
<1>2. [handler[h] EXCEPT !.pc = pc] \in HandlerState BY <1>1 DEF HandlerState
<1>3. handler' = [handler EXCEPT ![h] = [handler[h] EXCEPT !.pc = pc]] BY DEF Goto
<1> QED BY <1>2, <1>3, HandlerMoves

\* A handler that loses its delivery on the way.
LEMMA LosesMoves ==
    ASSUME BridgeType, NEW h \in Handlers, NEW pc \in Places,
           handler' = [handler EXCEPT ![h].pc = pc, ![h].mine = FALSE]
    PROVE  handler' \in [Handlers -> HandlerState]
<1>1. handler[h] \in HandlerState BY DEF BridgeType
<1>2. [handler[h] EXCEPT !.pc = pc, !.mine = FALSE] \in HandlerState
  BY <1>1 DEF HandlerState
<1>3. handler' = [handler EXCEPT ![h] = [handler[h] EXCEPT !.pc = pc, !.mine = FALSE]] OBVIOUS
<1> QED BY <1>2, <1>3, HandlerMoves

\* A copy that is added to a queue, or taken out of it.
LEMMA QueueChanges ==
    ASSUME BridgeType, NEW r \in Retries
    PROVE  /\ [queue EXCEPT ![r] = @ + 1] \in [Retries -> Nat]
           /\ queue[r] > 0 => [queue EXCEPT ![r] = @ - 1] \in [Retries -> Nat]
<1>1. queue \in [Retries -> Nat] /\ queue[r] \in Nat BY DEF BridgeType
<1>2. queue[r] + 1 \in Nat /\ (queue[r] > 0 => queue[r] - 1 \in Nat) BY <1>1
<1> QED BY <1>1, <1>2

\* A delivery that is given back goes where it came from.
LEMMA RequeuedType ==
    ASSUME BridgeType, NEW h \in Handlers PROVE Requeued(h) \in [Retries -> Nat]
<1>1. handler[h].retry \in Retries BY DEF BridgeType, HandlerState
<1> QED BY <1>1, QueueChanges DEF Requeued, BridgeType

\* The bridge's own steps keep the types of its state.
LEMMA BridgeStepType ==
    ASSUME BridgeType, NEW h \in Handlers, BridgeStep(h) PROVE BridgeType'
<1>1. handler[h] \in HandlerState /\ handler[h].retry \in Retries /\ handler[h].mine \in BOOLEAN
  BY DEF BridgeType, HandlerState
<1>2. CASE Deliver(h)
  <2>1. PICK r \in Retries :
          /\ queue' = [queue EXCEPT ![r] = @ - 1]
          /\ queue[r] > 0
          /\ handler' = [handler EXCEPT ![h] = [Idle EXCEPT !.pc = "received", !.retry = r,
                                                          !.mine = TRUE]]
          /\ UNCHANGED lease
    BY <1>2 DEF Deliver
  <2>2. [Idle EXCEPT !.pc = "received", !.retry = r, !.mine = TRUE] \in HandlerState
    BY DEF Idle, HandlerState, Places, None
  <2> QED BY <2>1, <2>2, HandlerMoves, QueueChanges DEF BridgeType
<1>3. CASE Invalid(h) BY <1>3, PlacesAre, HandlerMoves DEF Invalid, BridgeType
<1>4. CASE Acquire(h) BY <1>4, PlacesAre, GotoMoves DEF Acquire, BridgeType
<1>5. CASE Busy(h) BY <1>5, <1>1, PlacesAre, GotoMoves, QueueChanges DEF Busy, BridgeType
<1>6. CASE AckBusy(h) BY <1>6, PlacesAre, HandlerMoves DEF AckBusy, BridgeType
<1>7. CASE Ack(h)
  <2>1. (IF handler[h].mine THEN "release" ELSE "failed") \in Places BY PlacesAre
  <2>2. handler' \in [Handlers -> HandlerState] BY <1>7, <2>1, LosesMoves DEF Ack
  <2> QED BY <1>7, <2>2 DEF Ack, BridgeType
<1>8. CASE Retry(h)
  <2>1. handler[h].retry + 1 \in Retries
    BY <1>8, <1>1, BridgeAssumption DEF Retry, Retries
  <2> QED BY <1>8, <2>1, PlacesAre, GotoMoves, QueueChanges DEF Retry, BridgeType
<1>9. CASE Bury(h) BY <1>9, PlacesAre, GotoMoves DEF Bury, BridgeType
<1>10. CASE Settle(h) BY <1>10, PlacesAre, LosesMoves DEF Settle, BridgeType
<1>11. CASE Release(h) BY <1>11, PlacesAre, HandlerMoves DEF Release, BridgeType
<1>12. CASE AckTimeout(h)
  BY <1>12, PlacesAre, HandlerMoves, RequeuedType DEF AckTimeout, BridgeType
<1> QED BY <1>2, <1>3, <1>4, <1>5, <1>6, <1>7, <1>8, <1>9, <1>10, <1>11, <1>12 DEF BridgeStep

\* So do the failures.
LEMMA BridgeFaultType ==
    ASSUME BridgeType, BridgeFault PROVE BridgeType'
<1>1. CASE Expire BY <1>1 DEF Expire, BridgeType
<1>2. ASSUME NEW h \in Handlers, LoseConnection(h) PROVE BridgeType'
  <2>1. [handler[h] EXCEPT !.mine = FALSE] \in HandlerState BY DEF BridgeType, HandlerState
  <2>2. handler' = [handler EXCEPT ![h] = [handler[h] EXCEPT !.mine = FALSE]]
    BY <1>2 DEF LoseConnection
  <2> QED BY <1>2, <2>1, <2>2, HandlerMoves, RequeuedType DEF LoseConnection, BridgeType
<1>3. ASSUME NEW h \in Handlers, Die(h) PROVE BridgeType'
  BY <1>3, PlacesAre, HandlerMoves, RequeuedType DEF Die, BridgeType
<1>4. ASSUME NEW h \in Handlers, Strand(h) PROVE BridgeType'
  BY <1>4, PlacesAre, GotoMoves DEF Strand, BridgeType
<1> QED BY <1>1, <1>2, <1>3, <1>4 DEF BridgeFault

\* What the job may write into the ledger.
LEMMA RecordedType ==
    ASSUME NEW s \in Statuses \cup {None} PROVE Recorded(s) \in Records
BY DEF Recorded, Records, Contents

\* A step of the job, or an error in it.
LEMMA JobStepType ==
    ASSUME BridgeType, JobType, NEW h \in Handlers, JobActions(h)
    PROVE  BridgeType' /\ JobType'
<1>1. UNCHANGED <<queue, lease>> /\ handler' \in [Handlers -> HandlerState] => BridgeType'
  BY DEF BridgeType
<1>2. handler[h].answer \in Statuses \cup {None} BY DEF BridgeType, HandlerState
<1> USE PlacesAre, GotoMoves, EndsMoves DEF BridgeAlone, jobVars
<1>3. CASE ReadLedger(h)
  <2>1. PICK s \in Statuses \cup {None}, pc \in Places : Ends(h, s, pc)
    BY <1>3 DEF ReadLedger
  <2> QED BY <1>1, <1>3, <2>1 DEF ReadLedger, JobType
<1>4. CASE Assess(h)
  <2>1. PICK s \in Statuses \cup {None}, pc \in Places : Ends(h, s, pc)
    BY <1>4 DEF Assess
  <2>2. ledger' \in Records BY <1>4, RecordedType DEF Assess
  <2> QED BY <1>1, <1>4, <2>1, <2>2 DEF Assess, JobType
<1>5. CASE Lookup(h)
  <2>1. PICK pc \in Places : Goto(h, pc) BY <1>5 DEF Lookup
  <2> QED BY <1>1, <1>5, <2>1 DEF Lookup, JobType
<1>6. CASE Count(h)
  <2>1. PICK s \in Statuses \cup {None}, pc \in Places : Ends(h, s, pc)
    BY <1>6 DEF Count
  <2> QED BY <1>1, <1>6, <2>1 DEF Count, JobType
<1>7. CASE Embed(h) BY <1>1, <1>7 DEF Embed, JobType
<1>8. CASE IndexChunks(h) BY <1>1, <1>8 DEF IndexChunks, JobType
<1>9. CASE Verify(h)
  <2>1. PICK s \in Statuses \cup {None}, pc \in Places : Ends(h, s, pc)
    BY <1>9 DEF Verify
  <2> QED BY <1>1, <1>9, <2>1 DEF Verify, JobType
<1>10. CASE Activate(h) BY <1>1, <1>10 DEF Activate, JobType
<1>11. CASE SaveResult(h)
  <2>1. PICK pc \in Places : Goto(h, pc) BY <1>11 DEF SaveResult
  <2>2. ledger' \in Records BY <1>2, <1>11, RecordedType DEF SaveResult
  <2> QED BY <1>1, <1>11, <2>1, <2>2 DEF SaveResult, JobType
<1>12. CASE Publish(h) BY <1>1, <1>12 DEF Publish, JobType
<1>13. CASE GiveUp(h) BY <1>1, <1>13 DEF GiveUp, JobType
<1>14. CASE Error(h)
  <2>1. handler' \in [Handlers -> HandlerState]
    <3>1. CASE Goto(h, "failed") BY <3>1
    <3>2. CASE Ends(h, "failed", "save") BY <3>2
    <3> QED BY <1>14, <3>1, <3>2 DEF Error
  <2>2. index' \in SUBSET ChunkIds BY <1>14 DEF Error, JobType
  <2> QED BY <1>1, <1>14, <2>1, <2>2 DEF Error, JobType
<1> QED BY <1>3, <1>4, <1>5, <1>6, <1>7, <1>8, <1>9, <1>10, <1>11, <1>12, <1>13, <1>14
        DEF JobActions, JobStep

-----------------------------------------------------------------------------
(* How a handler moves *)

\* What a step of a job leaves alone, and where it leads.
WorkMoves(h) ==
    /\ Working(h)
    /\ UNCHANGED <<queue, lease, dead, expired>>
    /\ answered => answered'
    /\ \A g \in Handlers \ {h} : handler'[g] = handler[g]
    /\ handler'[h].mine = handler[h].mine
    /\ handler'[h].pc \in Owing \/ (handler'[h].pc = "ack" /\ answered')

\* The steps of an ingestion are such.
LEMMA JobMoves ==
    ASSUME BridgeType, JobType, NEW h \in Handlers, JobActions(h)
    PROVE  WorkMoves(h)
<1> USE DEF WorkMoves, BridgeType, HandlerState, At, Goto, Ends, Working, Owing, Places,
            BridgeAlone, jobVars
<1>1. CASE ReadLedger(h) BY <1>1 DEF ReadLedger
<1>2. CASE Assess(h) BY <1>2 DEF Assess
<1>3. CASE Lookup(h) BY <1>3 DEF Lookup
<1>4. CASE Count(h) BY <1>4 DEF Count
<1>5. CASE Embed(h) BY <1>5 DEF Embed
<1>6. CASE IndexChunks(h) BY <1>6 DEF IndexChunks
<1>7. CASE Verify(h) BY <1>7 DEF Verify
<1>8. CASE Activate(h) BY <1>8 DEF Activate
<1>9. CASE SaveResult(h) BY <1>9 DEF SaveResult
<1>10. CASE Publish(h) BY <1>10 DEF Publish
<1>11. CASE GiveUp(h) BY <1>11 DEF GiveUp
<1>12. CASE Error(h) BY <1>12 DEF Error
<1> QED BY <1>1, <1>2, <1>3, <1>4, <1>5, <1>6, <1>7, <1>8, <1>9, <1>10, <1>11, <1>12
        DEF JobActions, JobStep

-----------------------------------------------------------------------------
(* The event is kept *)

\* No step of a job loses the delivery, and it asks for the acknowledgement last.
LEMMA WorkKeepsCopy ==
    ASSUME BridgeType, CopyInv, NEW h \in Handlers, WorkMoves(h)
    PROVE  CopyInv'
<1>1. \A g \in Handlers : handler[g].mine /\ handler[g].pc \in Owing
        => (handler'[g].mine /\ handler'[g].pc \in Owing) \/ answered'
  BY DEF WorkMoves
<1>2. \A g \in Handlers : handler'[g].pc = "ack" => answered'
  BY DEF WorkMoves, CopyInv, At, Owing
<1> QED BY <1>1, <1>2 DEF WorkMoves, CopyInv, At

\* A delivery that is given back is a copy, and takes none away.
LEMMA RequeuedAdds ==
    ASSUME BridgeType, NEW h \in Handlers
    PROVE  /\ \A r \in Retries : queue[r] > 0 => Requeued(h)[r] > 0
           /\ handler[h].mine => \E r \in Retries : Requeued(h)[r] > 0
<1>1. queue \in [Retries -> Nat] /\ handler[h].retry \in Retries BY DEF BridgeType, HandlerState
<1> QED BY <1>1 DEF Requeued

\* A step of the bridge that lets the delivery go has made a copy or an end of it.
LEMMA BridgeStepKeepsCopy ==
    ASSUME BridgeType, CopyInv, NEW h \in Handlers, BridgeStep(h)
    PROVE  CopyInv'
<1> USE BridgeAssumption
        DEF BridgeType, CopyInv, HandlerState, At, Goto, Owing, Places, Idle, Retries
<1>1. CASE Deliver(h) BY <1>1 DEF Deliver
<1>2. CASE Invalid(h) BY <1>2 DEF Invalid
<1>3. CASE Acquire(h) BY <1>3 DEF Acquire
<1>4. CASE Busy(h)
  <2>1. handler[h].retry \in Retries /\ queue'[handler[h].retry] > 0 BY <1>4 DEF Busy
  <2> QED BY <1>4, <2>1 DEF Busy
<1>5. CASE AckBusy(h) BY <1>5 DEF AckBusy
<1>6. CASE Ack(h) BY <1>6 DEF Ack
<1>7. CASE Retry(h)
  <2>1. handler[h].retry + 1 \in Retries /\ queue'[handler[h].retry + 1] > 0 BY <1>7 DEF Retry
  <2> QED BY <1>7, <2>1 DEF Retry
<1>8. CASE Bury(h) BY <1>8 DEF Bury
<1>9. CASE Settle(h) BY <1>9 DEF Settle
<1>10. CASE Release(h) BY <1>10 DEF Release
<1>11. CASE AckTimeout(h) BY <1>11, RequeuedAdds DEF AckTimeout
<1> QED BY <1>1, <1>2, <1>3, <1>4, <1>5, <1>6, <1>7, <1>8, <1>9, <1>10, <1>11 DEF BridgeStep

\* A broken connection or a crash gives the delivery back; a stranded one is still there.
LEMMA BridgeFaultKeepsCopy ==
    ASSUME BridgeType, CopyInv, BridgeFault
    PROVE  CopyInv'
<1> USE BridgeAssumption
        DEF BridgeType, CopyInv, HandlerState, At, Goto, Owing, Places, Idle, Retries
<1>1. CASE Expire BY <1>1 DEF Expire
<1>2. ASSUME NEW h \in Handlers, LoseConnection(h) PROVE CopyInv'
  BY <1>2, RequeuedAdds DEF LoseConnection
<1>3. ASSUME NEW h \in Handlers, Die(h) PROVE CopyInv'
  BY <1>3, RequeuedAdds DEF Die
<1>4. ASSUME NEW h \in Handlers, Strand(h) PROVE CopyInv'
  BY <1>4 DEF Strand
<1> QED BY <1>1, <1>2, <1>3, <1>4 DEF BridgeFault

-----------------------------------------------------------------------------
(* One ingestion at a time *)

\* A handler starts to work by taking the lease, and lets it go when it has ended.
LEMMA BridgeStepKeepsLease ==
    ASSUME BridgeType, LeaseInv, NEW h \in Handlers, BridgeStep(h)
    PROVE  LeaseInv'
<1> USE HandlerAssumption DEF BridgeType, LeaseInv, HandlerState, At, Goto, Working, Idle
<1>1. CASE Deliver(h) BY <1>1 DEF Deliver
<1>2. CASE Invalid(h) BY <1>2 DEF Invalid
<1>3. CASE Acquire(h) BY <1>3 DEF Acquire
<1>4. CASE Busy(h) BY <1>4 DEF Busy
<1>5. CASE AckBusy(h) BY <1>5 DEF AckBusy
<1>6. CASE Ack(h) BY <1>6 DEF Ack
<1>7. CASE Retry(h) BY <1>7 DEF Retry
<1>8. CASE Bury(h) BY <1>8 DEF Bury
<1>9. CASE Settle(h) BY <1>9 DEF Settle
<1>10. CASE Release(h) BY <1>10 DEF Release
<1>11. CASE AckTimeout(h) BY <1>11 DEF AckTimeout
<1> QED BY <1>1, <1>2, <1>3, <1>4, <1>5, <1>6, <1>7, <1>8, <1>9, <1>10, <1>11 DEF BridgeStep

\* Only the lease's end may take it from a handler that works, and that is recorded.
LEMMA BridgeFaultKeepsLease ==
    ASSUME BridgeType, LeaseInv, BridgeFault
    PROVE  LeaseInv'
<1> USE HandlerAssumption DEF BridgeType, LeaseInv, HandlerState, At, Goto, Working, Idle
<1>1. CASE Expire BY <1>1 DEF Expire
<1>2. ASSUME NEW h \in Handlers, LoseConnection(h) PROVE LeaseInv'
  BY <1>2 DEF LoseConnection
<1>3. ASSUME NEW h \in Handlers, Die(h) PROVE LeaseInv'
  BY <1>3 DEF Die
<1>4. ASSUME NEW h \in Handlers, Strand(h) PROVE LeaseInv'
  BY <1>4 DEF Strand
<1> QED BY <1>1, <1>2, <1>3, <1>4 DEF BridgeFault

\* A job does not touch the lease.
LEMMA WorkKeepsLease ==
    ASSUME BridgeType, LeaseInv, NEW h \in Handlers, WorkMoves(h)
    PROVE  LeaseInv'
BY DEF WorkMoves, LeaseInv, Working

\* Who works, holds the lease: there is one at most.
LEMMA HolderIsAlone == LeaseInv => OneIngestionAtATime
<1> SUFFICES ASSUME LeaseInv, ~expired
             PROVE  Cardinality({h \in Handlers : Working(h)}) <= 1
  BY DEF OneIngestionAtATime
<1>1. {h \in Handlers : Working(h)} \in SUBSET {lease} BY DEF LeaseInv
<1>2. IsFiniteSet({lease}) /\ Cardinality({lease}) = 1 BY FS_Singleton
<1> QED BY <1>1, <1>2, FS_Subset

-----------------------------------------------------------------------------
(* What is called indexed is served *)

\* The index holds as many chunks as the case has: it holds all of them.
LEMMA AllProjected ==
    ASSUME JobType, Projected = Chunks PROVE index = ChunkIds
<1>1. Chunks \in Nat BY KnowledgeAssumption
<1>2. IsFiniteSet(ChunkIds) /\ Cardinality(ChunkIds) = Chunks
  BY <1>1, FS_Interval DEF ChunkIds
<1>3. index \in SUBSET ChunkIds BY DEF JobType
<1> QED BY <1>2, <1>3, FS_Subset DEF Projected

\* Until a revocation, the catalogue and the index only grow.
LEMMA ServedIsStable ==
    ASSUME JobType, NEW h \in Handlers, JobActions(h)
    PROVE  /\ revoke' = revoke
           /\ catalog => catalog'
           /\ index = ChunkIds => index' = ChunkIds
           /\ Served => Served'
<1> USE DEF JobType, Served, jobVars
<1>1. CASE ReadLedger(h) BY <1>1 DEF ReadLedger
<1>2. CASE Assess(h) BY <1>2 DEF Assess
<1>3. CASE Lookup(h) BY <1>3 DEF Lookup
<1>4. CASE Count(h) BY <1>4 DEF Count
<1>5. CASE Embed(h) BY <1>5 DEF Embed
<1>6. CASE IndexChunks(h) BY <1>6 DEF IndexChunks
<1>7. CASE Verify(h) BY <1>7 DEF Verify
<1>8. CASE Activate(h) BY <1>8 DEF Activate
<1>9. CASE SaveResult(h) BY <1>9 DEF SaveResult
<1>10. CASE Publish(h) BY <1>10 DEF Publish
<1>11. CASE GiveUp(h) BY <1>11 DEF GiveUp
<1>12. CASE Error(h) BY <1>12 DEF Error
<1> QED BY <1>1, <1>2, <1>3, <1>4, <1>5, <1>6, <1>7, <1>8, <1>9, <1>10, <1>11, <1>12
        DEF JobActions, JobStep

\* A handler at its new place, with its new answer, knows what ServedInv says of it.
Informed(h) ==
    /\ At(h, "count") => catalog
    /\ At(h, "activate") => index = ChunkIds
    /\ handler[h].answer \in {"indexed", "skipped"} => Served

Told ==
    /\ ledger.status \in {"indexed", "skipped"} /\ SameContent => Served
    /\ (outcomes \cup {row}) \cap {"indexed", "skipped"} # {} => Served

\* What the handler that moves knows, and what it tells, is true.
LEMMA JobIsInformed ==
    ASSUME BridgeType, JobType, ServedInv, NEW h \in Handlers, JobActions(h), revoke = None
    PROVE  Informed(h)' /\ Told'
<1> USE DEF BridgeType, JobType, ServedInv, HandlerState, Informed, Told, At, Goto, Ends,
            SameContent, Recorded, Records, jobVars, None
<1> USE ServedIsStable
<1>1. CASE ReadLedger(h) BY <1>1 DEF ReadLedger
<1>2. CASE Assess(h) BY <1>2 DEF Assess
<1>3. CASE Lookup(h) BY <1>3 DEF Lookup
<1>4. CASE Count(h) BY <1>4, AllProjected DEF Count, Served
<1>5. CASE Embed(h) BY <1>5 DEF Embed
<1>6. CASE IndexChunks(h) BY <1>6 DEF IndexChunks
<1>7. CASE Verify(h) BY <1>7, AllProjected DEF Verify
<1>8. CASE Activate(h) BY <1>8 DEF Activate, Served
<1>9. CASE SaveResult(h) BY <1>9 DEF SaveResult
<1>10. CASE Publish(h) BY <1>10 DEF Publish
<1>11. CASE GiveUp(h) BY <1>11 DEF GiveUp
<1>12. CASE Error(h) BY <1>12 DEF Error
<1> QED BY <1>1, <1>2, <1>3, <1>4, <1>5, <1>6, <1>7, <1>8, <1>9, <1>10, <1>11, <1>12
        DEF JobActions, JobStep

\* The others keep what they know.
LEMMA JobKeepsServed ==
    ASSUME BridgeType, JobType, ServedInv, NEW h \in Handlers, JobActions(h)
    PROVE  ServedInv'
<1> SUFFICES ASSUME revoke' = None PROVE \A g \in Handlers : Informed(g)' /\ Told'
  BY ServedIsStable DEF ServedInv, Informed, Told
<1>1. revoke = None BY ServedIsStable
<1>2. Informed(h)' /\ Told' BY <1>1, JobIsInformed
<1>3. ASSUME NEW g \in Handlers \ {h} PROVE Informed(g)'
  BY <1>1, <1>3, JobMoves, ServedIsStable DEF WorkMoves, ServedInv, Informed, At
<1> QED BY <1>2, <1>3

\* The bridge's own steps neither write nor find out anything.
LEMMA BridgeIsUninformed ==
    ASSUME BridgeType, (\E h \in Handlers : BridgeStep(h)) \/ BridgeFault
    PROVE  \A g \in Handlers :
             /\ handler'[g].answer \in {handler[g].answer, None}
             /\ handler'[g].pc \in {"count", "activate"} => handler'[g].pc = handler[g].pc
<1> DEFINE P == \A g \in Handlers :
             /\ handler'[g].answer \in {handler[g].answer, None}
             /\ handler'[g].pc \in {"count", "activate"} => handler'[g].pc = handler[g].pc
<1> USE DEF BridgeType, HandlerState, At, Goto, Idle, None
<1>1. ASSUME NEW h \in Handlers, Deliver(h) PROVE P BY <1>1 DEF Deliver
<1>2. ASSUME NEW h \in Handlers, Invalid(h) PROVE P BY <1>2 DEF Invalid
<1>3. ASSUME NEW h \in Handlers, Acquire(h) PROVE P BY <1>3 DEF Acquire
<1>4. ASSUME NEW h \in Handlers, Busy(h) PROVE P BY <1>4 DEF Busy
<1>5. ASSUME NEW h \in Handlers, AckBusy(h) PROVE P BY <1>5 DEF AckBusy
<1>6. ASSUME NEW h \in Handlers, Ack(h) PROVE P BY <1>6 DEF Ack
<1>7. ASSUME NEW h \in Handlers, Retry(h) PROVE P BY <1>7 DEF Retry
<1>8. ASSUME NEW h \in Handlers, Bury(h) PROVE P BY <1>8 DEF Bury
<1>9. ASSUME NEW h \in Handlers, Settle(h) PROVE P BY <1>9 DEF Settle
<1>10. ASSUME NEW h \in Handlers, Release(h) PROVE P BY <1>10 DEF Release
<1>11. ASSUME NEW h \in Handlers, AckTimeout(h) PROVE P BY <1>11 DEF AckTimeout
<1>12. CASE Expire BY <1>12 DEF Expire
<1>13. ASSUME NEW h \in Handlers, LoseConnection(h) PROVE P BY <1>13 DEF LoseConnection
<1>14. ASSUME NEW h \in Handlers, Die(h) PROVE P BY <1>14 DEF Die
<1>15. ASSUME NEW h \in Handlers, Strand(h) PROVE P BY <1>15 DEF Strand
<1> QED BY <1>1, <1>2, <1>3, <1>4, <1>5, <1>6, <1>7, <1>8, <1>9, <1>10, <1>11, <1>12,
           <1>13, <1>14, <1>15 DEF BridgeStep, BridgeFault

\* So they keep what the handlers know.
LEMMA BridgeKeepsServed ==
    ASSUME BridgeType, ServedInv, UNCHANGED jobVars,
           (\E h \in Handlers : BridgeStep(h)) \/ BridgeFault
    PROVE  ServedInv'
BY BridgeIsUninformed DEF ServedInv, Served, SameContent, At, None, jobVars

\* Revocations end what ServedInv speaks of; Java's row takes what an outcome said.
LEMMA OthersKeepServed ==
    ASSUME ServedInv, Revoke \/ ListenResult
    PROVE  ServedInv'
<1>1. CASE Revoke
  BY <1>1 DEF Revoke, RevokeCatalog, RevokeLedger, RevokeIndex, ServedInv, None
<1>2. CASE ListenResult
  BY <1>2 DEF ListenResult, ServedInv, Served, SameContent, At, bridgeVars
<1> QED BY <1>1, <1>2

-----------------------------------------------------------------------------
(* The invariant *)

\* The initial queue has a copy, and nobody works yet.
LEMMA InitInv == Init => IInv
<1> SUFFICES ASSUME Init PROVE IInv OBVIOUS
<1> USE DEF Init, BridgeInit, JobInit
<1>1. BridgeType
  BY BridgeAssumption DEF BridgeType, HandlerState, Places, Idle, Retries, None
<1>2. JobType
  BY DEF JobType, Records, Recorded, Statuses, FinalStatuses, Contents, None
<1>3. CopyInv
  <2>1. 0 \in Retries /\ queue[0] > 0 BY BridgeAssumption DEF Retries
  <2> QED BY <2>1 DEF CopyInv, At, Idle
<1>4. LeaseInv BY DEF LeaseInv, Working, Idle
<1>5. ServedInv BY DEF ServedInv, At, Idle, SameContent, Recorded, None
<1> QED BY <1>1, <1>2, <1>3, <1>4, <1>5 DEF IInv

\* Every step keeps it: the job's, the bridge's, and those of no handler.
LEMMA StepInv == IInv /\ [Next]_vars => IInv'
<1> SUFFICES ASSUME IInv, [Next]_vars PROVE IInv' OBVIOUS
<1> USE DEF IInv
<1>1. ASSUME NEW h \in Handlers, JobActions(h) PROVE IInv'
  BY <1>1, JobStepType, JobMoves, WorkKeepsCopy, WorkKeepsLease, JobKeepsServed
<1>2. ASSUME NEW h \in Handlers, BridgeStep(h), UNCHANGED jobVars PROVE IInv'
  <2>1. JobType' BY <1>2 DEF JobType, jobVars
  <2> QED BY <1>2, <2>1, BridgeStepType, BridgeStepKeepsCopy, BridgeStepKeepsLease,
             BridgeKeepsServed
<1>3. ASSUME BridgeFault, UNCHANGED jobVars PROVE IInv'
  <2>1. JobType' BY <1>3 DEF JobType, jobVars
  <2> QED BY <1>3, <2>1, BridgeFaultType, BridgeFaultKeepsCopy, BridgeFaultKeepsLease,
             BridgeKeepsServed
<1>4. CASE Revoke \/ ListenResult
  <2> USE <1>4 DEF Revoke, RevokeCatalog, RevokeLedger, RevokeIndex, ListenResult, bridgeVars
  <2>1. BridgeType' BY DEF BridgeType
  <2>2. JobType' BY DEF JobType, Records, Statuses, FinalStatuses
  <2>3. CopyInv' BY DEF CopyInv, At
  <2>4. LeaseInv' BY DEF LeaseInv, Working
  <2> QED BY <2>1, <2>2, <2>3, <2>4, OthersKeepServed
<1>5. CASE UNCHANGED vars
  BY <1>5 DEF vars, bridgeVars, jobVars, BridgeType, JobType, CopyInv, LeaseInv, ServedInv,
              Served, SameContent, At, Working
<1> QED BY <1>1, <1>2, <1>3, <1>4, <1>5 DEF Next, Step, JobActions

\* The invariant holds of every behaviour, for any constants.
THEOREM Invariance == Spec => []IInv
BY InitInv, StepInv, PTL DEF Spec

-----------------------------------------------------------------------------
(* The theorems *)

\* No crash, lost connection, duplicate or failed publish loses a work order's event
\* before it is answered or in the dead-letter queue.
THEOREM EventKept == Spec => []EventIsKept
<1>1. IInv => EventIsKept BY DEF IInv, CopyInv, EventIsKept
<1> QED BY <1>1, Invariance, PTL

\* While no lease runs out under its holder, an event is ingested by one handler at a time.
THEOREM Exclusion == Spec => []OneIngestionAtATime
<1>1. IInv => OneIngestionAtATime BY HolderIsAlone DEF IInv
<1> QED BY <1>1, Invariance, PTL

\* A case that is called indexed or skipped, and that nobody revokes, is complete in the
\* index and active in the catalogue.
THEOREM IndexedServed == Spec => []IndexedIsServed
<1>1. IInv => IndexedIsServed BY DEF IInv, ServedInv, IndexedIsServed
<1> QED BY <1>1, Invariance, PTL

\* A lease ends by its holder's step or by running out, never by another handler's.
THEOREM LeaseKept == Spec => LeaseIsItsHolders
<1>1. ASSUME IInv, Next, NEW h \in Handlers, NEW g \in Handlers,
             lease = h, g # h, handler'[g] # handler[g]
      PROVE  lease' = h
  <2> USE HandlerAssumption DEF IInv
  <2>1. ASSUME NEW k \in Handlers, JobActions(k) PROVE lease' = h
    BY <1>1, <2>1, JobMoves DEF WorkMoves
  <2>2. ASSUME NEW k \in Handlers, BridgeStep(k) PROVE lease' = h
    BY <1>1, <2>2 DEF BridgeStep, Deliver, Invalid, Acquire, Busy, AckBusy, Ack, Retry, Bury,
       Settle, Release, AckTimeout, BridgeType, Goto
  <2>3. CASE BridgeFault
    BY <1>1, <2>3 DEF BridgeFault, Expire, LoseConnection, Die, Strand, BridgeType, Goto
  <2>4. CASE Revoke \/ ListenResult
    BY <1>1, <2>4 DEF Revoke, RevokeCatalog, RevokeLedger, RevokeIndex, ListenResult, bridgeVars
  <2> QED BY <1>1, <2>1, <2>2, <2>3, <2>4 DEF Next, Step, JobActions
<1>2. IInv /\ [Next]_vars => [\A h, g \in Handlers :
          lease = h /\ g # h /\ handler'[g] # handler[g] => lease' = h]_vars
  BY <1>1
<1> QED BY <1>2, Invariance, PTL DEF Spec, LeaseIsItsHolders

-----------------------------------------------------------------------------
(* The dispatch bridge *)

\* Places of the one copy there is: a handler here has it and will pass it on.
Carrying == {"received", "job", "run", "result", "publish", "failed", "bury"}

\* Without a fault or an unread result a copy that was sent once stays one: it waits, or one
\* handler carries it; and no run is to come once the thread has stopped.
OneCopy ==
    /\ \A r, s \in Retries : queue[r] > 0 /\ queue[s] > 0 => r = s
    /\ \A r \in Retries : queue[r] <= 1
    /\ \A h \in Handlers : handler[h].pc \in Carrying =>
         /\ \A r \in Retries : queue[r] = 0
         /\ \A g \in Handlers : handler[g].pc \in Carrying => g = h

StoppedIsDone ==
    thread \in Stops =>
        /\ \A r \in Retries : queue[r] = 0
        /\ \A h \in Handlers : handler[h].pc \in Carrying => handler[h].pc \in {"result", "publish"}

\* Only a lost connection takes a delivery, only a failed publish strands one.
Attached ==
    \A h \in Handlers :
        /\ handler[h].pc \in Carrying \cup {"ack"} => handler[h].mine
        /\ handler[h].pc # "stranded"

OnceInv == Copies = 1 /\ faults = 0 /\ ~unread => OneCopy /\ StoppedIsDone /\ Attached

DispatchInv == BridgeType /\ faults \in Nat /\ unread \in BOOLEAN /\ CopyInv /\ LeaseInv /\ OnceInv

RunActions(h) ==
    \/ Run(h) \/ Stop(h) \/ Result(h) \/ Raise(h) \/ PublishOutcome(h) \/ GiveUpQuietly(h)
    \/ Unconfirmed(h)

\* A run of the graph moves as an ingestion does.
LEMMA RunMoves ==
    ASSUME BridgeType, NEW h \in Handlers, RunActions(h)
    PROVE  WorkMoves(h) /\ BridgeType'
<1>1. PICK pc \in Places : Goto(h, pc)
  BY PlacesAre DEF RunActions, Run, Stop, Result, Raise, PublishOutcome, GiveUpQuietly, Unconfirmed
<1>2. BridgeType'
  BY <1>1, GotoMoves
  DEF BridgeType, RunActions, Run, Stop, Result, Raise, PublishOutcome, GiveUpQuietly, Unconfirmed
<1> USE DEF WorkMoves, BridgeType, HandlerState, At, Goto, Working, Owing, Places
<1>3. CASE Run(h) BY <1>3 DEF Run
<1>4. CASE Stop(h) BY <1>4 DEF Stop
<1>5. CASE Raise(h) BY <1>5 DEF Raise
<1>6. CASE PublishOutcome(h) BY <1>6 DEF PublishOutcome
<1>7. CASE GiveUpQuietly(h) BY <1>7 DEF GiveUpQuietly
<1>8. CASE Unconfirmed(h) BY <1>8 DEF Unconfirmed
<1>9. CASE Result(h) BY <1>9 DEF Result
<1> QED BY <1>2, <1>3, <1>4, <1>5, <1>6, <1>7, <1>8, <1>9 DEF RunActions

\* A result that was not read back stays on record.
LEMMA RunUnread ==
    ASSUME unread \in BOOLEAN, NEW h \in Handlers, RunActions(h)
    PROVE  unread' \in BOOLEAN /\ (unread => unread')
BY DEF RunActions, Run, Stop, Result, Raise, PublishOutcome, GiveUpQuietly, Unconfirmed, runVars

\* The failures that can make a second copy are counted.
LEMMA FaultsCounted ==
    ASSUME NEW h \in Handlers,
           LoseConnection(h) \/ Die(h) \/ Strand(h) \/ Unconfirmed(h)
    PROVE  faults' = faults + 1
BY DEF LoseConnection, Die, Strand, Unconfirmed

\* Nothing else touches their number.
LEMMA FaultsKept ==
    ASSUME NEW h \in Handlers,
           \/ BridgeStep(h) \/ Expire \/ Answer
           \/ RunActions(h) /\ ~ Unconfirmed(h)
    PROVE  faults' = faults
<1>1. CASE BridgeStep(h)
  BY <1>1 DEF BridgeStep, Deliver, Invalid, Acquire, Busy, AckBusy, Ack, Retry, Bury, Settle,
              Release, AckTimeout
<1>2. CASE Expire \/ Answer BY <1>2 DEF Expire, Answer, bridgeVars
<1>3. CASE RunActions(h) /\ ~ Unconfirmed(h)
  BY <1>3 DEF RunActions, Run, Stop, Result, Raise, PublishOutcome, GiveUpQuietly
<1> QED BY <1>1, <1>2, <1>3

\* The copy is put back into the queue by the handler that carried it.
LEMMA PassesOn ==
    ASSUME BridgeType, OneCopy, StoppedIsDone, Attached, UNCHANGED thread,
           NEW h \in Handlers, handler[h].pc \in {"received", "failed"},
           NEW r \in Retries, queue' = [queue EXCEPT ![r] = @ + 1],
           NEW pc \in {"busy", "settle"}, Goto(h, pc)
    PROVE  OneCopy' /\ StoppedIsDone' /\ Attached'
<1>1. thread \notin Stops /\ queue[r] = 0 /\ \A s \in Retries : queue[s] = 0
  BY DEF OneCopy, StoppedIsDone, Carrying
<1>2. queue'[r] = 1 /\ \A s \in Retries \ {r} : queue'[s] = 0
  BY <1>1 DEF BridgeType
<1>3. /\ handler'[h].pc = pc
      /\ \A g \in Handlers \ {h} : handler'[g] = handler[g]
  BY DEF BridgeType, HandlerState, Goto
<1>4. \A g \in Handlers : handler'[g].pc \notin Carrying
  <2>1. \A g \in Handlers \ {h} : handler[g].pc \notin Carrying BY DEF OneCopy, Carrying
  <2> QED BY <1>3, <2>1 DEF Carrying
<1>5. OneCopy' BY <1>2, <1>4 DEF OneCopy
<1>6. StoppedIsDone' BY <1>1 DEF StoppedIsDone
<1>7. Attached' BY <1>3, <1>4 DEF Attached
<1> QED BY <1>5, <1>6, <1>7

\* The copy is taken out of it: it was the only one, and nobody carried another.
LEMMA DeliveredOnce ==
    ASSUME BridgeType, OneCopy, StoppedIsDone, Attached, UNCHANGED thread,
           NEW h \in Handlers, Deliver(h)
    PROVE  OneCopy' /\ StoppedIsDone' /\ Attached'
<1>1. PICK r \in Retries :
        /\ queue[r] > 0
        /\ queue' = [queue EXCEPT ![r] = @ - 1]
        /\ handler' = [handler EXCEPT ![h] = [Idle EXCEPT !.pc = "received", !.retry = r,
                                                        !.mine = TRUE]]
  BY DEF Deliver
<1>2. \A s \in Retries : queue[s] \in Nat BY DEF BridgeType
<1>3. thread \notin Stops /\ \A g \in Handlers : handler[g].pc \notin Carrying
  BY <1>1, <1>2 DEF OneCopy, StoppedIsDone
<1>4. queue[r] = 1 /\ \A s \in Retries \ {r} : queue[s] = 0 BY <1>1, <1>2 DEF OneCopy
<1>5. \A s \in Retries : queue'[s] = 0 BY <1>1, <1>4 DEF BridgeType
<1>6. /\ handler'[h].pc = "received" /\ handler'[h].mine
      /\ \A g \in Handlers \ {h} : handler'[g] = handler[g]
  BY <1>1 DEF BridgeType, Idle
<1>7. OneCopy' BY <1>3, <1>5, <1>6 DEF OneCopy
<1>8. StoppedIsDone' BY <1>3 DEF StoppedIsDone
<1>9. Attached' BY <1>6 DEF Attached, Carrying
<1> QED BY <1>7, <1>8, <1>9

\* The copy is let go by the handler that carried it, or another delivery is.
LEMMA LetsGo ==
    ASSUME OneCopy, StoppedIsDone, Attached, UNCHANGED <<queue, thread>>,
           NEW h \in Handlers, handler'[h].pc \notin Carrying \cup {"ack", "stranded"},
           \A g \in Handlers \ {h} : handler'[g] = handler[g]
    PROVE  OneCopy' /\ StoppedIsDone' /\ Attached'
BY DEF OneCopy, StoppedIsDone, Attached

\* The bridge passes the copy on, one at a time, and none once the thread has stopped.
LEMMA BridgeStepKeepsOnce ==
    ASSUME BridgeType, OneCopy, StoppedIsDone, Attached, NEW h \in Handlers, BridgeStep(h),
           UNCHANGED thread
    PROVE  OneCopy' /\ StoppedIsDone' /\ Attached'
<1> USE BridgeAssumption
        DEF BridgeType, OneCopy, StoppedIsDone, Attached, HandlerState, At, Goto, Carrying,
            Idle, Retries
<1>1. CASE Deliver(h) BY <1>1, DeliveredOnce
<1>2. CASE Invalid(h) BY <1>2 DEF Invalid
<1>3. CASE Acquire(h) BY <1>3 DEF Acquire
<1>4. CASE Busy(h)
  <2>1. handler[h].retry \in Retries BY <1>4 DEF Busy
  <2> QED BY <1>4, <2>1, PassesOn DEF Busy
<1>5. CASE AckBusy(h) BY <1>5 DEF AckBusy
<1>6. CASE Ack(h)
  <2>1. handler'[h].pc = "release" BY <1>6 DEF Ack
  <2>2. \A g \in Handlers \ {h} : handler'[g] = handler[g] BY <1>6 DEF Ack
  <2> QED BY <1>6, <2>1, <2>2, LetsGo DEF Ack
<1>7. CASE Retry(h)
  <2>1. handler[h].retry + 1 \in Retries BY <1>7 DEF Retry
  <2> QED BY <1>7, <2>1, PassesOn DEF Retry
<1>8. CASE Bury(h) BY <1>8 DEF Bury
<1>9. CASE Settle(h) BY <1>9 DEF Settle
<1>10. CASE Release(h) BY <1>10 DEF Release
<1>11. CASE AckTimeout(h) BY <1>11 DEF AckTimeout
<1> QED BY <1>1, <1>2, <1>3, <1>4, <1>5, <1>6, <1>7, <1>8, <1>9, <1>10, <1>11 DEF BridgeStep

\* The one that carries it makes the only run, and its failures come before the stop.
LEMMA RunKeepsOnce ==
    ASSUME BridgeType, OneCopy, StoppedIsDone, Attached, NEW h \in Handlers,
           RunActions(h) \/ Answer, ~ Unconfirmed(h), ~unread'
    PROVE  OneCopy' /\ StoppedIsDone' /\ Attached'
<1> USE DEF BridgeType, OneCopy, StoppedIsDone, Attached, HandlerState, At, Goto, Carrying,
            runVars
<1>1. CASE Run(h) BY <1>1 DEF Run, Stops
<1>2. CASE Stop(h) BY <1>2 DEF Stop
<1>3. CASE Raise(h) BY <1>3 DEF Raise
<1>4. CASE PublishOutcome(h) BY <1>4 DEF PublishOutcome
<1>5. CASE GiveUpQuietly(h) BY <1>5 DEF GiveUpQuietly
<1>6. CASE Answer BY <1>6 DEF Answer, Stops, bridgeVars
<1>7. CASE Result(h) BY <1>7 DEF Result
<1> QED BY <1>1, <1>2, <1>3, <1>4, <1>5, <1>6, <1>7 DEF RunActions

\* The copy the publisher sent is in the queue.
LEMMA DispatchInitInv == DispatchInit => DispatchInv
<1> SUFFICES ASSUME DispatchInit PROVE DispatchInv OBVIOUS
<1> USE DEF DispatchInit, BridgeInit
<1>0. unread \in BOOLEAN OBVIOUS
<1>1. BridgeType /\ faults \in Nat
  BY BridgeAssumption DEF BridgeType, HandlerState, Places, Idle, Retries, None
<1>2. CopyInv
  <2>1. 0 \in Retries /\ queue[0] > 0 BY BridgeAssumption DEF Retries
  <2> QED BY <2>1 DEF CopyInv, At, Idle
<1>3. LeaseInv BY DEF LeaseInv, Working, Idle
<1>4. OnceInv
  BY BridgeAssumption
  DEF OnceInv, OneCopy, StoppedIsDone, Attached, Carrying, Idle, Retries, Stops, None
<1> QED BY <1>0, <1>1, <1>2, <1>3, <1>4 DEF DispatchInv

\* Every step keeps the invariant.
LEMMA DispatchStepInv == DispatchInv /\ [DispatchNext]_dispatchVars => DispatchInv'
<1> SUFFICES ASSUME DispatchInv, [DispatchNext]_dispatchVars PROVE DispatchInv' OBVIOUS
<1> USE DEF DispatchInv
<1>1. ASSUME NEW h \in Handlers, BridgeStep(h), UNCHANGED runVars PROVE DispatchInv'
  <2>1. BridgeType' /\ CopyInv' /\ LeaseInv'
    BY <1>1, BridgeStepType, BridgeStepKeepsCopy, BridgeStepKeepsLease
  <2>2. faults' = faults BY <1>1, FaultsKept
  <2>3. OnceInv' BY <1>1, <2>2, BridgeStepKeepsOnce DEF OnceInv, runVars
  <2>4. unread' = unread BY <1>1 DEF runVars
  <2> QED BY <2>1, <2>2, <2>3, <2>4
<1>2. ASSUME NEW h \in Handlers, RunActions(h), ~ Unconfirmed(h) PROVE DispatchInv'
  <2>1. BridgeType' /\ CopyInv' /\ LeaseInv'
    BY <1>2, RunMoves, WorkKeepsCopy, WorkKeepsLease
  <2>2. faults' = faults BY <1>2, FaultsKept
  <2>3. unread' \in BOOLEAN /\ (unread => unread') BY <1>2, RunUnread
  <2>4. OnceInv' BY <1>2, <2>2, <2>3, RunKeepsOnce DEF OnceInv
  <2> QED BY <2>1, <2>2, <2>3, <2>4
<1>3. ASSUME NEW h \in Handlers, Unconfirmed(h) PROVE DispatchInv'
  <2>1. BridgeType' /\ CopyInv' /\ LeaseInv'
    BY <1>3, RunMoves, WorkKeepsCopy, WorkKeepsLease DEF RunActions
  <2>2. faults' \in Nat /\ faults' # 0 BY <1>3, FaultsCounted
  <2>3. unread' \in BOOLEAN BY <1>3, RunUnread DEF RunActions
  <2> QED BY <2>1, <2>2, <2>3 DEF OnceInv
<1>4. CASE BridgeFault /\ UNCHANGED runVars
  <2>1. BridgeType' /\ CopyInv' /\ LeaseInv'
    BY <1>4, BridgeFaultType, BridgeFaultKeepsCopy, BridgeFaultKeepsLease
  <2>2. CASE Expire
    BY <1>4, <2>1, <2>2 DEF Expire, OnceInv, OneCopy, StoppedIsDone, Attached, runVars
  <2>3. ASSUME NEW h \in Handlers, LoseConnection(h) \/ Die(h) \/ Strand(h) PROVE DispatchInv'
    <3>1. faults' \in Nat /\ faults' # 0 BY <2>3, FaultsCounted
    <3> QED BY <1>4, <2>1, <3>1 DEF OnceInv, runVars
  <2> QED BY <1>4, <2>2, <2>3 DEF BridgeFault
<1>5. CASE Answer
  BY <1>5 DEF Answer, bridgeVars, BridgeType, CopyInv, LeaseInv, OnceInv, OneCopy,
              StoppedIsDone, Attached, Stops, At, Working
<1>6. CASE UNCHANGED dispatchVars
  BY <1>6 DEF dispatchVars, bridgeVars, runVars, BridgeType, CopyInv, LeaseInv, OnceInv, OneCopy,
              StoppedIsDone, Attached, At, Working
<1> QED BY <1>1, <1>2, <1>3, <1>4, <1>5, <1>6 DEF DispatchNext, DispatchStep, RunActions

\* The invariant of the dispatch bridge, for any constants.
THEOREM DispatchInvariance == DispatchSpec => []DispatchInv
BY DispatchInitInv, DispatchStepInv, PTL DEF DispatchSpec

\* A dispatch event is kept as a work order's is, until it is answered or dead.
THEOREM DispatchEventKept == DispatchSpec => []EventIsKept
<1>1. DispatchInv => EventIsKept BY DEF DispatchInv, CopyInv, EventIsKept
<1> QED BY <1>1, DispatchInvariance, PTL

\* While no lease runs out under its holder, one handler at a time runs the event's graph.
THEOREM DispatchExclusion == DispatchSpec => []OneIngestionAtATime
<1>1. DispatchInv => OneIngestionAtATime BY HolderIsAlone DEF DispatchInv
<1> QED BY <1>1, DispatchInvariance, PTL

\* A thread that stopped, perhaps with an assignment a human approved, is run again only
\* after a failure of the broker, a crash, or a result that could not be read back.
THEOREM StoppedRunsOnce == DispatchSpec => StoppedRunsAgainOnlyAfterFault
<1> DEFINE A == Copies = 1 /\ thread \in Stops /\ thread' = "running" => faults > 0 \/ unread
<1>1. ASSUME DispatchInv, [DispatchNext]_dispatchVars, Copies = 1, thread \in Stops,
             thread' = "running", faults = 0, ~unread
      PROVE  FALSE
  <2>1. StoppedIsDone BY <1>1 DEF DispatchInv, OnceInv
  <2>2. thread' # thread BY <1>1 DEF Stops
  <2>3. PICK h \in Handlers : Run(h)
    BY <1>1, <2>2
    DEF DispatchNext, DispatchStep, Stop, Result, Raise, PublishOutcome, GiveUpQuietly,
        Unconfirmed, Answer, Stops, dispatchVars, runVars
  <2> QED BY <1>1, <2>1, <2>3 DEF Run, At, StoppedIsDone, Carrying
<1>2. DispatchInv /\ [DispatchNext]_dispatchVars => [A]_dispatchVars
  BY <1>1 DEF DispatchInv
<1> QED BY <1>2, DispatchInvariance, PTL DEF DispatchSpec, StoppedRunsAgainOnlyAfterFault
==============================================================================
