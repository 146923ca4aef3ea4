------------------------ MODULE AgentServices_proofs ------------------------
(***************************************************************************)
(* Proofs about AssistantConversation, for any requests, instances,        *)
(* messages, windows and expiries, about DispatchTools and the table of    *)
(* counts it keeps, for any calls, traces, tools, budgets, thresholds and  *)
(* table sizes, about DispatchKernel, for any skills, snapshots and        *)
(* processes, and about Investigation, for any runs, traces, arguments and *)
(* budgets.                                                                *)
(***************************************************************************)
EXTENDS AssistantConversation, DispatchTools, DispatchKernel, Investigation, Selections_proofs,
        FiniteSetTheorems, TLAPS

-------------------------------------------------------------------------------
(* AssistantConversation *)

\* A saved row has a version, and is the last one inserted; its pending turn was counted.
RowIsNewest ==
    row # None =>
        /\ row.version > 0 /\ row.life > 0 /\ row.life = life
        /\ row.pending # None => row.pending.number <= saved

\* What x was read of a row, seen from the row as it is now: it is no newer, and it is what
\* the row still says when the version is the same one.
Matches(x, now, lives, turns) ==
    /\ x.life <= lives
    /\ x.version = 0 => x.pending = None
    /\ x.pending # None => x.pending.number <= turns
    /\ now # None /\ x.life = now.life =>
          /\ x.version <= now.version
          /\ x.version = now.version => x.pending = now.pending /\ x.turns = now.turns

SnapshotsMatch == \A r \in Requests : Matches(request[r].snapshot, row, life, saved)

Confirmed(turn) == turn # None /\ turn.route # None
Loading == {"execute", "clear", "ask", "prepare"}
Clearing(q) == q.at \in {"clear", "clearing"} \/ (q.at = "delete" /\ q.then = "clear")

\* A request holds the turn it loaded while it is being classified, which a confirmed intent
\* never is, and until it was cleared.
Sound(q) ==
    /\ q.seen # None => q.at = "classify" \/ Clearing(q)
    /\ q.at = "classify" => ~Confirmed(q.seen)
    /\ Clearing(q) => q.route # None
    /\ q.at = "delete" => q.then \in Loading

OfSaved(q, turns) ==
    /\ q.seen # None => q.seen.number <= turns
    /\ q.took # None => q.took.number <= turns

RequestsAreSound == \A r \in Requests : Sound(request[r]) /\ OfSaved(request[r], saved)

\* A confirmed intent that a request continued is not in the row any more.
TakenIsGone ==
    ~outlived => \A r \in Requests :
        row # None /\ Confirmed(request[r].took) => row.pending # request[r].took

\* Nor has another request of the instance continued one that a request is about to.
SeenIsUntaken ==
    ~outlived => \A r, s \in Requests :
        r # s /\ InstanceOf[r] = InstanceOf[s] /\ Confirmed(request[r].seen)
            => request[s].took # request[r].seen

ConversationInv ==
    /\ ConversationType
    /\ RowIsNewest
    /\ SnapshotsMatch
    /\ RequestsAreSound
    /\ TakenIsGone
    /\ SeenIsUntaken
    /\ ConfirmedIsTakenOnce

-----------------------------------------------------------------------------
(* Lemmas about the handlers *)

LEMMA NoneIsNone ==
  ASSUME ConversationAssumption
  PROVE  None \notin Rows /\ None \notin Turns /\ None \notin Routes
BY DEF ConversationAssumption

LEMMA FreshIsFresh ==
  ASSUME ConversationAssumption
  PROVE  /\ Fresh \in Rows /\ Fresh.version = 0 /\ Fresh.life = 0 /\ Fresh.pending = None
         /\ IdleRequest \in RequestStates
BY DEF Fresh, Rows, IdleRequest, RequestStates, Places

\* The chain a request goes on with, or the question it ends in, holds no turn.
LEMMA OnwardGoes ==
  ASSUME ConversationAssumption, NEW q \in RequestStates, q.route \in Routes
  PROVE  /\ Onward(q) \in RequestStates
         /\ Onward(q).at \in {"ask", "prepare", "investigate", "done"}
         /\ Onward(q).seen = None
         /\ Onward(q).took = q.took
         /\ Onward(q).snapshot \in {Fresh, q.snapshot}
<1>1. CASE Missing(q.route, q.words) # {}
  <2>1. Onward(q) = [q EXCEPT !.at = "ask", !.seen = None] BY <1>1 DEF Onward
  <2> QED BY <2>1 DEF RequestStates, Places
<1>2. CASE Missing(q.route, q.words) = {}
  <2>1. q.route # "NEEDS_CLARIFICATION" BY <1>2 DEF Missing
  <2>2. Onward(q) = CASE q.route = "KNOWLEDGE_QA" -> [IdleRequest EXCEPT !.at = "prepare", !.took = q.took]
           [] q.route = "INCIDENT_INVESTIGATION" ->
                  [IdleRequest EXCEPT !.at = "investigate", !.took = q.took]
           [] q.route = "DIRECT_DISPATCH" -> Ended(q, "NEEDS_APPROVAL")
    BY <1>2 DEF Onward
  <2>3. q.took \in Turns \cup {None} BY DEF RequestStates
  <2>4. CASE q.route = "KNOWLEDGE_QA"
    <3>1. Onward(q) = [IdleRequest EXCEPT !.at = "prepare", !.took = q.took] BY <2>2, <2>4
    <3> QED BY <2>3, <3>1, FreshIsFresh DEF RequestStates, Places, IdleRequest
  <2>5. CASE q.route = "INCIDENT_INVESTIGATION"
    <3>1. Onward(q) = [IdleRequest EXCEPT !.at = "investigate", !.took = q.took] BY <2>2, <2>5
    <3> QED BY <2>3, <3>1, FreshIsFresh DEF RequestStates, Places, IdleRequest
  <2>6. CASE q.route = "DIRECT_DISPATCH"
    <3>1. Onward(q) = [IdleRequest EXCEPT !.at = "done", !.took = q.took,
                                          !.outcome = "NEEDS_APPROVAL"]
      BY <2>2, <2>6 DEF Ended
    <3> QED BY <2>3, <3>1, FreshIsFresh DEF RequestStates, Places, IdleRequest
  <2> QED BY <2>1, <2>4, <2>5, <2>6 DEF Routes
<1> QED BY <1>1, <1>2

\* What a decided request goes on with.
LEMMA DecidedGoes ==
  ASSUME ConversationAssumption, NEW q \in RequestStates, NEW route \in Routes
  PROVE  /\ Decided(q, route) \in RequestStates
         /\ Sound(Decided(q, route))
         /\ Decided(q, route).seen \in {None, q.seen}
         /\ Decided(q, route).took = q.took
         /\ Decided(q, route).snapshot \in {Fresh, q.snapshot}
<1>1. CASE q.seen # None /\ route # "NEEDS_CLARIFICATION"
  <2>1. Decided(q, route) = [q EXCEPT !.at = "clear", !.route = route] BY <1>1 DEF Decided
  <2>2. /\ Decided(q, route) \in RequestStates /\ Decided(q, route).at = "clear"
        /\ Decided(q, route).route = route /\ Decided(q, route).seen = q.seen
        /\ Decided(q, route).took = q.took /\ Decided(q, route).snapshot = q.snapshot
    BY <2>1 DEF RequestStates, Places
  <2> QED BY <2>2, NoneIsNone DEF Sound, Clearing, Loading
<1>2. CASE ~(q.seen # None /\ route # "NEEDS_CLARIFICATION")
  <2> DEFINE p == [q EXCEPT !.route = route]
  <2>1. Decided(q, route) = Onward(p) BY <1>2 DEF Decided
  <2>2. p \in RequestStates /\ p.route = route /\ p.took = q.took /\ p.snapshot = q.snapshot
    BY DEF RequestStates
  <2> HIDE DEF p
  <2>3. /\ Onward(p) \in RequestStates
        /\ Onward(p).at \in {"ask", "prepare", "investigate", "done"}
        /\ Onward(p).seen = None
        /\ Onward(p).took = p.took
        /\ Onward(p).snapshot \in {Fresh, p.snapshot}
    BY <2>2, OnwardGoes
  <2> QED BY <2>1, <2>2, <2>3 DEF Sound, Clearing
<1> QED BY <1>1, <1>2

\* What a request goes on with once the turn it loaded is cleared.
LEMMA ContinuedGoes ==
  ASSUME ConversationAssumption, NEW q \in RequestStates, q.route # None
  PROVE  /\ Continued(q) \in RequestStates
         /\ Continued(q).at \in {"ask", "prepare", "investigate", "done"}
         /\ Sound(Continued(q))
         /\ Continued(q).seen = None
         /\ Continued(q).took = q.seen
         /\ Continued(q).snapshot = Fresh
<1> DEFINE p == [q EXCEPT !.took = q.seen, !.snapshot = Fresh]
<1>1. Continued(q) = Onward(p) BY DEF Continued
<1>2. p \in RequestStates /\ p.route \in Routes /\ p.took = q.seen /\ p.snapshot = Fresh
  BY FreshIsFresh DEF RequestStates
<1> HIDE DEF p
<1>3. /\ Onward(p) \in RequestStates
      /\ Onward(p).at \in {"ask", "prepare", "investigate", "done"}
      /\ Onward(p).seen = None
      /\ Onward(p).took = p.took
      /\ Onward(p).snapshot \in {Fresh, p.snapshot}
  BY <1>2, OnwardGoes
<1> QED BY <1>1, <1>2, <1>3 DEF Sound, Clearing

\* What a request may become when it has loaded a row, or none.
Finds(q, state, next) ==
    /\ next \in RequestStates
    /\ Sound(next)
    /\ next.snapshot \in {Fresh, q.snapshot, state}
    /\ next.took = q.took \/ (next.took = q.seen /\ state.pending = None)
    /\ next.seen \in {None, q.seen, state.pending}

LEMMA BegunGoes ==
  ASSUME ConversationAssumption, NEW q \in RequestStates, NEW state \in Rows
  PROVE  Finds(q, state, Begun(q, state.pending))
<1> DEFINE pending == state.pending
           words == q.words \cup (IF pending = None THEN {} ELSE pending.words)
           route == Routed(pending, words)
           merged == [q EXCEPT !.words = words, !.seen = pending]
<1>1. pending \in Turns \cup {None} BY DEF Rows
<1>2. words \in SUBSET Words BY <1>1, NoneIsNone DEF RequestStates, Turns
<1>3. /\ merged \in RequestStates /\ merged.seen = pending /\ merged.took = q.took
      /\ merged.snapshot = q.snapshot
  BY <1>1, <1>2 DEF RequestStates
<1>4. route \in Routes /\ (route = "NEEDS_CLARIFICATION" => ~Confirmed(pending))
  <2>1. CASE pending # None /\ pending.route # None
    BY <1>1, <2>1 DEF Routed, Turns, Routes
  <2>2. CASE ~(pending # None /\ pending.route # None)
    BY <2>2 DEF Routed, ByRules, Routes, Confirmed
  <2> QED BY <2>1, <2>2
<1>5. CASE route = "NEEDS_CLARIFICATION"
  <2>1. Begun(q, pending) = [merged EXCEPT !.at = "classify"] BY <1>5 DEF Begun
  <2> HIDE DEF merged, route, words, pending
  <2>2. /\ Begun(q, pending) \in RequestStates /\ Begun(q, pending).at = "classify"
        /\ Begun(q, pending).seen = pending /\ Begun(q, pending).took = q.took
        /\ Begun(q, pending).snapshot = q.snapshot
    BY <1>3, <2>1 DEF RequestStates, Places
  <2>3. Sound(Begun(q, pending)) BY <1>4, <1>5, <2>2 DEF Sound, Clearing
  <2>4. pending = state.pending BY DEF pending
  <2> QED BY <2>2, <2>3, <2>4 DEF Finds
<1>6. CASE route # "NEEDS_CLARIFICATION"
  <2>1. Begun(q, pending) = Decided(merged, route) BY <1>6 DEF Begun
  <2>2. pending = state.pending OBVIOUS
  <2> HIDE DEF merged, route, words, pending
  <2>3. /\ Decided(merged, route) \in RequestStates /\ Sound(Decided(merged, route))
        /\ Decided(merged, route).seen \in {None, merged.seen}
        /\ Decided(merged, route).took = merged.took
        /\ Decided(merged, route).snapshot \in {Fresh, merged.snapshot}
    BY <1>3, <1>4, DecidedGoes
  <2> QED BY <1>3, <2>1, <2>2, <2>3 DEF Finds
<1> QED BY <1>5, <1>6

LEMMA FoundGoes ==
  ASSUME ConversationAssumption, NEW q \in RequestStates, NEW state \in Rows,
         q.at \in Loading, Sound(q)
  PROVE  Finds(q, state, Found(q, state))
<1>1. CASE q.at = "execute"
  <2>1. Found(q, state) = Begun(q, state.pending) BY <1>1 DEF Found
  <2> QED BY <2>1, BegunGoes
<1>2. CASE q.at = "clear" /\ state.pending = None
  <2>1. Found(q, state) = Continued(q) BY <1>2 DEF Found
  <2>2. q.route # None BY <1>2 DEF Sound, Clearing
  <2> QED BY <1>2, <2>1, <2>2, ContinuedGoes DEF Finds
<1>3. CASE q.at = "clear" /\ state.pending # None
  <2>1. Found(q, state) = [q EXCEPT !.at = "clearing", !.snapshot = state] BY <1>3 DEF Found
  <2>2. q.route # None BY <1>3 DEF Sound, Clearing
  <2> QED BY <2>1, <2>2 DEF Finds, RequestStates, Places, Sound, Clearing
<1>4. CASE q.at = "ask"
  <2>1. Found(q, state) = [q EXCEPT !.at = "asking", !.snapshot = state] BY <1>4 DEF Found
  <2>2. q.seen = None BY <1>4 DEF Sound, Clearing
  <2> QED BY <2>1, <2>2 DEF Finds, RequestStates, Places, Sound, Clearing
<1>5. CASE q.at = "prepare"
  <2>1. Found(q, state) = [q EXCEPT !.at = "answer", !.snapshot = state] BY <1>5 DEF Found
  <2>2. q.seen = None BY <1>5 DEF Sound, Clearing
  <2> QED BY <2>1, <2>2 DEF Finds, RequestStates, Places, Sound, Clearing
<1> QED BY <1>1, <1>2, <1>3, <1>4, <1>5 DEF Loading

-----------------------------------------------------------------------------
(* Lemmas about the store *)

\* What load returns is a row in good order, and nothing newer than the row.
LEMMA LoadedIsARow ==
  ASSUME ConversationAssumption, ConversationType, RowIsNewest
  PROVE  /\ Loaded \in Rows
         /\ Matches(Fresh, row, life, saved)
         /\ Matches(Loaded, row, life, saved)
         /\ Loaded.pending # None => row # None /\ Loaded.pending = row.pending
         /\ ~Expired /\ Loaded.pending = None => row = None \/ row.pending = None
<1>1. CASE row = None \/ Expired
  <2>1. Loaded = Fresh BY <1>1 DEF Loaded
  <2>2. row # None => row \in Rows BY DEF ConversationType
  <2>3. Matches(Fresh, row, life, saved)
    BY <2>2, FreshIsFresh DEF Matches, ConversationType, RowIsNewest, Rows
  <2> QED BY <1>1, <2>1, <2>3, FreshIsFresh
<1>2. CASE ~(row = None \/ Expired)
  <2>1. Loaded = row BY <1>2 DEF Loaded
  <2>2. row \in Rows BY <1>2 DEF ConversationType
  <2>3. Matches(Fresh, row, life, saved)
    BY <2>2, FreshIsFresh DEF Matches, ConversationType, RowIsNewest, Rows
  <2>4. Matches(row, row, life, saved)
    BY <1>2, <2>2 DEF Matches, ConversationType, RowIsNewest, Rows
  <2> QED BY <1>2, <2>1, <2>2, <2>3, <2>4
<1> QED BY <1>1, <1>2

\* What has been read still matches when pending turns are counted or the row is gone.
LEMMA StillMatches ==
  ASSUME NEW x \in Rows, NEW now, NEW lives \in Nat, NEW turns \in Nat, NEW more \in Nat,
         turns <= more, Matches(x, now, lives, turns)
  PROVE  Matches(x, now, lives, more) /\ Matches(x, None, lives, more)
<1>1. x.pending # None => x.pending.number \in Nat BY DEF Rows, Turns
<1> QED BY <1>1 DEF Matches

\* A save that is no conflict makes a new row, or the next version of the row.  It writes
\* over what the row says only if what it read was of an earlier row.
LEMMA SaveGoes ==
  ASSUME ConversationAssumption, ConversationType, RowIsNewest,
         NEW x \in Rows, Matches(x, row, life, saved), ~Conflict(x),
         NEW z \in Rows, z.version = x.version, z.life = x.life,
         NEW expired \in BOOLEAN, Save(z, expired)
  PROVE  /\ row' \in Rows /\ life' \in Nat /\ outlived' \in BOOLEAN
         /\ row'.version > 0 /\ row'.life > 0 /\ row'.life = life'
         /\ row'.pending = z.pending /\ row'.turns = z.turns
         /\ \A y \in Rows : Matches(y, row, life, saved) => Matches(y, row', life', saved)
         /\ outlived => outlived'
         /\ \/ row = None /\ row'.life = life + 1 /\ x.pending = None
            \/ /\ row # None /\ row'.life = row.life
               /\ \/ x.life = row.life /\ x.pending = row.pending /\ x.turns = row.turns
                  \/ x.life < row.life /\ outlived'
<1>1. /\ row' = [z EXCEPT !.version = @ + 1,
                          !.life = IF z.version = 0 THEN life + 1 ELSE row.life,
                          !.expired = expired]
      /\ life' = IF z.version = 0 THEN life + 1 ELSE life
      /\ outlived' = (outlived \/ (z.version # 0 /\ z.life < row.life))
  BY DEF Save
<1>2. life \in Nat /\ saved \in Nat /\ outlived \in BOOLEAN BY DEF ConversationType
<1>3. x.version \in Nat /\ x.life \in Nat BY DEF Rows
<1>4. CASE x.version = 0
  <2>1. row = None BY <1>4 DEF Conflict
  <2>2. /\ row' \in Rows /\ row'.version = 1 /\ row'.life = life + 1
        /\ row'.pending = z.pending /\ row'.turns = z.turns
    <3>1. row' = [z EXCEPT !.version = 1, !.life = life + 1, !.expired = expired]
      BY <1>1, <1>4
    <3>2. life + 1 \in Nat /\ 1 \in Nat BY <1>2
    <3>3. CASE expired = TRUE
      <4>1. row' = [z EXCEPT !.version = 1, !.life = life + 1, !.expired = TRUE]
        BY <3>1, <3>3
      <4> QED BY <3>2, <4>1 DEF Rows
    <3>4. CASE expired = FALSE
      <4>1. row' = [z EXCEPT !.version = 1, !.life = life + 1, !.expired = FALSE]
        BY <3>1, <3>4
      <4> QED BY <3>2, <4>1 DEF Rows
    <3> QED BY <3>3, <3>4
  <2>3. life' = life + 1 /\ outlived' = outlived
    <3>1. life' = life + 1 BY <1>1, <1>4
    <3>2. outlived' <=> outlived BY <1>1, <1>4
    <3> QED BY <1>1, <1>2, <3>1, <3>2
  <2>4. ASSUME NEW y \in Rows, Matches(y, row, life, saved)
        PROVE  Matches(y, row', life', saved)
    <3>1. y.life \in Nat BY DEF Rows
    <3> QED BY <1>2, <2>2, <2>3, <2>4, <3>1 DEF Matches
  <2>5. x.pending = None BY <1>4 DEF Matches
  <2> QED BY <1>2, <2>1, <2>2, <2>3, <2>4, <2>5
<1>5. CASE x.version # 0
  <2>1. row # None /\ row.version = x.version BY <1>5 DEF Conflict
  <2>2. row \in Rows /\ row.life = life /\ row.life > 0 /\ row.version \in Nat
    BY <2>1 DEF ConversationType, RowIsNewest, Rows
  <2>3. /\ row' \in Rows /\ row'.version = row.version + 1 /\ row'.life = row.life
        /\ row'.pending = z.pending /\ row'.turns = z.turns
    <3>1. row' = [z EXCEPT !.version = row.version + 1, !.life = row.life, !.expired = expired]
      BY <1>1, <1>5, <2>1
    <3>2. row.life \in Nat BY <2>2 DEF Rows
    <3>3. row.version + 1 \in Nat BY <2>2
    <3>4. CASE expired = TRUE
      <4>1. row' = [z EXCEPT !.version = row.version + 1, !.life = row.life, !.expired = TRUE]
        BY <3>1, <3>4
      <4> QED BY <3>2, <3>3, <4>1 DEF Rows
    <3>5. CASE expired = FALSE
      <4>1. row' = [z EXCEPT !.version = row.version + 1, !.life = row.life, !.expired = FALSE]
        BY <3>1, <3>5
      <4> QED BY <3>2, <3>3, <4>1 DEF Rows
    <3> QED BY <3>4, <3>5
  <2>4. life' = life BY <1>1, <1>5
  <2>5. outlived' <=> (outlived \/ x.life < row.life) BY <1>1, <1>5
  <2>6. outlived' \in BOOLEAN BY <1>1, <1>2
  <2>7. ASSUME NEW y \in Rows, Matches(y, row, life, saved)
        PROVE  Matches(y, row', life', saved)
    <3>1. y.life \in Nat /\ y.version \in Nat BY DEF Rows
    <3> QED BY <1>2, <2>1, <2>2, <2>3, <2>4, <2>7, <3>1, NoneIsNone DEF Matches
  <2>8. \/ x.life = row.life /\ x.pending = row.pending /\ x.turns = row.turns
        \/ x.life < row.life
    <3>1. x.life <= row.life BY <2>2 DEF Matches
    <3>2. x.life = row.life => x.pending = row.pending /\ x.turns = row.turns
      BY <2>1 DEF Matches
    <3> QED BY <1>3, <2>2, <3>1, <3>2 DEF Rows
  <2>9. row'.version > 0 /\ row'.life > 0 /\ row'.life = life' /\ life' \in Nat
    BY <1>2, <2>2, <2>3, <2>4
  <2>10. outlived => outlived' BY <2>5
  <2>11. x.life < row.life => outlived' BY <2>5
  <2> QED BY <2>1, <2>3, <2>6, <2>7, <2>8, <2>9, <2>10, <2>11
<1> QED BY <1>4, <1>5

-----------------------------------------------------------------------------
(* Lemmas about the requests *)

\* The pending turn of the row is none, that of before, or one that was asked just now; or a
\* request outlived its row.
PendingGoes ==
    \/ row' = None
    \/ row'.pending = None
    \/ row # None /\ row'.pending = row.pending
    \/ row'.pending.number > saved
    \/ outlived'

\* What a step of request r does to the turn it loaded and to the one it continues.
Moves(r, next) ==
    /\ request' = [request EXCEPT ![r] = next]
    /\ next \in RequestStates
    /\ Sound(next)
    /\ \/ next.took \in {None, request[r].took}
       \/ next.took = request[r].seen /\ (row' = None \/ row'.pending = None)
    /\ \/ next.seen \in {None, request[r].seen}
       \/ row # None /\ next.seen = row.pending

LEMMA MovingKeeps ==
  ASSUME ConversationAssumption, ConversationInv, NEW r \in Requests, MayRun(r),
         NEW next, Moves(r, next), PendingGoes,
         outlived' \in BOOLEAN, outlived => outlived', saved' \in Nat, saved <= saved',
         row' = None \/ row' \in Rows
  PROVE  RequestsAreSound' /\ TakenIsGone' /\ SeenIsUntaken' /\ ConfirmedIsTakenOnce'
<1> DEFINE q(s) == request[s]
<1>1. /\ request \in [Requests -> RequestStates] /\ saved \in Nat
      /\ row # None => row \in Rows
  BY DEF ConversationInv, ConversationType
<1>2. request'[r] = next /\ \A s \in Requests \ {r} : request'[s] = request[s]
  BY <1>1 DEF Moves
<1>3. \A s \in Requests : /\ request[s].took \in Turns \cup {None}
                          /\ request[s].seen \in Turns \cup {None}
                          /\ Sound(request[s]) /\ OfSaved(request[s], saved)
  BY <1>1 DEF RequestStates, ConversationInv, RequestsAreSound
<1>4. next.took \in Turns \cup {None} /\ next.seen \in Turns \cup {None}
  BY DEF Moves, RequestStates
<1>5. \A t \in Turns : t.number \in Nat BY DEF Turns
<1>6. row # None /\ row.pending # None => row.pending.number <= saved
  BY DEF ConversationInv, RowIsNewest
<1>7. OfSaved(next, saved)
  <2>1. next.seen # None => next.seen.number <= saved
    BY <1>3, <1>6 DEF OfSaved, Moves
  <2>2. next.took # None => next.took.number <= saved
    BY <1>3 DEF OfSaved, Moves
  <2> QED BY <2>1, <2>2 DEF OfSaved
<1>8. RequestsAreSound'
  <2>1. ASSUME NEW x, x.seen \in Turns \cup {None}, x.took \in Turns \cup {None},
               OfSaved(x, saved)
        PROVE  OfSaved(x, saved')
    BY <1>1, <1>5, <2>1 DEF OfSaved
  <2>2. \A s \in Requests : Sound(request'[s]) /\ OfSaved(request'[s], saved')
    BY <1>2, <1>3, <1>4, <1>7, <2>1 DEF Moves
  <2>3. RequestsAreSound' <=> \A s \in Requests : Sound(request'[s]) /\ OfSaved(request'[s], saved')
    BY DEF RequestsAreSound, Sound, OfSaved, Clearing, Confirmed
  <2> QED BY <2>2, <2>3
<1>9. ASSUME NEW s \in Requests, ~outlived', row' # None, Confirmed(request'[s].took)
      PROVE  row'.pending # request'[s].took
  <2>1. ~outlived BY <1>9
  <2>2. request'[s].took # None /\ request'[s].took.number <= saved
        /\ request'[s].took \in Turns
    BY <1>2, <1>3, <1>4, <1>7, <1>9 DEF Confirmed, OfSaved
  <2>3. CASE row'.pending = None BY <2>2, <2>3
  <2>4. CASE row'.pending # None /\ row'.pending.number > saved
    BY <1>1, <1>5, <2>2, <2>4
  <2>5. CASE row'.pending # None /\ row # None /\ row'.pending = row.pending
    <3>1. request'[s].took = request[s].took
      BY <1>2, <2>2, <2>5, <1>9 DEF Moves
    <3>2. row.pending # request[s].took
      BY <1>9, <2>1, <2>5, <3>1 DEF ConversationInv, TakenIsGone
    <3> QED BY <2>5, <3>1, <3>2
  <2> QED BY <1>9, <2>3, <2>4, <2>5 DEF PendingGoes
<1>10. TakenIsGone' BY <1>9 DEF TakenIsGone, Confirmed
<1>11. ASSUME NEW a \in Requests, NEW b \in Requests, a # b, InstanceOf[a] = InstanceOf[b],
              ~outlived', Confirmed(request'[a].seen)
       PROVE  request'[b].took # request'[a].seen
  <2>1. ~outlived BY <1>11
  <2>2. CASE b = r
    <3>1. request'[a] = request[a] BY <1>2, <1>11, <2>2
    <3>2. request[a].at \in Awaits BY <1>11, <2>2 DEF MayRun
    <3>3. request[a].seen = None \/ ~Confirmed(request[a].seen)
      BY <1>3, <3>2 DEF Sound, Awaits, Clearing
    <3> QED BY <1>11, <3>1, <3>3 DEF Confirmed
  <2>3. CASE b # r
    <3>1. request'[b] = request[b] BY <1>2, <2>3
    <3>2. CASE request'[a].seen = request[a].seen
      BY <1>11, <2>1, <3>1, <3>2 DEF ConversationInv, SeenIsUntaken
    <3>3. CASE row # None /\ request'[a].seen = row.pending
      <4>1. row.pending = request[b].took => FALSE
        BY <1>11, <2>1, <3>3 DEF ConversationInv, TakenIsGone
      <4> QED BY <3>1, <3>3, <4>1
    <3> QED BY <1>2, <1>11, <3>2, <3>3 DEF Moves, Confirmed
  <2> QED BY <2>2, <2>3
<1>12. SeenIsUntaken' BY <1>11 DEF SeenIsUntaken, Confirmed
<1>13. ASSUME NEW a \in Requests, NEW b \in Requests, a # b, InstanceOf[a] = InstanceOf[b],
              ~outlived', request'[a].took # None, request'[a].took = request'[b].took,
              request'[a].took.route # None
       PROVE  FALSE
  <2>1. ~outlived BY <1>13
  <2>2. /\ \A s, t \in Requests : /\ s # t /\ InstanceOf[s] = InstanceOf[t]
                                  /\ request[s].took # None /\ request[s].took = request[t].took
                                  => request[s].took.route = None
        /\ \A s, t \in Requests : s # t /\ InstanceOf[s] = InstanceOf[t]
                /\ request[s].seen # None /\ request[s].seen.route # None
                => request[t].took # request[s].seen
    BY <2>1 DEF ConversationInv, ConfirmedIsTakenOnce, SeenIsUntaken, Confirmed
  <2>3. \A s \in Requests : request'[s].took \in {None, request[s].took}
                            \/ (s = r /\ request'[s].took = request[s].seen)
    BY <1>2 DEF Moves
  <2> QED BY <1>13, <2>2, <2>3
<1>14. ConfirmedIsTakenOnce' BY <1>13 DEF ConfirmedIsTakenOnce
<1> QED BY <1>8, <1>10, <1>12, <1>14

\* Every step of a request keeps the invariant if it moves the request and the row as these
\* lemmas say.
LEMMA StepKeepsInv ==
  ASSUME ConversationAssumption, ConversationInv, NEW r \in Requests, MayRun(r),
         NEW next, Moves(r, next), PendingGoes,
         row' \in Rows \cup {None}, life' \in Nat, saved' \in Nat, expiries' \in Nat,
         outlived' \in BOOLEAN, outlived => outlived', saved <= saved', RowIsNewest',
         Matches(next.snapshot, row, life, saved),
         \A y \in Rows : Matches(y, row, life, saved) => Matches(y, row', life', saved')
  PROVE  ConversationInv'
<1>1. RequestsAreSound' /\ TakenIsGone' /\ SeenIsUntaken' /\ ConfirmedIsTakenOnce'
  BY MovingKeeps
<1>2. request \in [Requests -> RequestStates] BY DEF ConversationInv, ConversationType
<1>3. /\ request' \in [Requests -> RequestStates]
      /\ request'[r] = next /\ \A s \in Requests \ {r} : request'[s] = request[s]
  BY <1>2 DEF Moves
<1>4. ConversationType' BY <1>3 DEF ConversationType
<1>5. ASSUME NEW s \in Requests
      PROVE  Matches(request'[s].snapshot, row', life', saved')
  <2>1. request'[s].snapshot \in Rows BY <1>3 DEF RequestStates
  <2>2. Matches(request'[s].snapshot, row, life, saved)
    BY <1>3 DEF ConversationInv, SnapshotsMatch
  <2> QED BY <2>1, <2>2
<1>6. SnapshotsMatch' BY <1>5 DEF SnapshotsMatch, Matches
<1> QED BY <1>1, <1>4, <1>6 DEF ConversationInv

KeepsTurns == SameRow /\ ~KeptIn(row.turns, row'.turns) =>
                  \E r \in Requests : Acts(r) /\ OfAnEarlierRow(r)
KeepsPending ==
    SameRow /\ row.pending # None /\ row'.pending # row.pending =>
        \E r \in Requests :
            /\ Acts(r)
            /\ \/ /\ request[r].at \in {"clearing", "asking"}
                  /\ request[r].snapshot.pending = row.pending
               \/ OfAnEarlierRow(r)
KeepsCleared ==
    row' # None /\ row'.pending # None /\ (row = None \/ row.pending # row'.pending) =>
        \/ row'.pending.number = saved' /\ saved' > saved
        \/ \E r \in Requests : Acts(r) /\ OfAnEarlierRow(r)
Keeps == KeepsTurns /\ KeepsPending /\ KeepsCleared

LEMMA TurnsKeptInThemselves ==
  ASSUME NEW turns \in Seq(Requests)
  PROVE  KeptIn(turns, turns)
<1>1. Len(turns) \in Nat OBVIOUS
<1>2. 0 \in 0 .. Len(turns) BY <1>1
<1>3. \A i \in 1 .. Len(turns) - 0 : i \in DOMAIN turns /\ turns[i] = turns[i + 0] BY <1>1
<1> QED BY <1>2, <1>3 DEF KeptIn

\* A row that says the same turns and the same question keeps both, and so does none.
LEMMA SameContentKeeps ==
  ASSUME ConversationAssumption, ConversationInv,
         \/ row' = None
         \/ row # None /\ row'.turns = row.turns /\ row'.pending = row.pending
  PROVE  Keeps
<1>1. row # None => row.turns \in Seq(Requests)
  BY DEF ConversationInv, ConversationType, Rows
<1>2. KeepsTurns BY <1>1, TurnsKeptInThemselves DEF KeepsTurns, SameRow
<1> QED BY <1>2 DEF Keeps, KeepsPending, KeepsCleared, SameRow

\* A request, as the invariant has it.
LEMMA RequestIsSound ==
  ASSUME ConversationAssumption, ConversationInv, NEW r \in Requests
  PROVE  /\ request[r] \in RequestStates /\ Sound(request[r])
         /\ request[r].snapshot \in Rows
         /\ Matches(request[r].snapshot, row, life, saved)
BY DEF ConversationInv, ConversationType, RequestsAreSound, SnapshotsMatch, RequestStates

\* A step that leaves the row alone.
LEMMA RowStays ==
  ASSUME ConversationAssumption, ConversationInv, NEW r \in Requests, MayRun(r),
         NEW next, Moves(r, next), Matches(next.snapshot, row, life, saved),
         UNCHANGED <<row, life, saved, outlived, expiries>>
  PROVE  ConversationInv' /\ Keeps
<1>1. ConversationType /\ RowIsNewest BY DEF ConversationInv
<1>2. PendingGoes BY DEF PendingGoes
<1>3. /\ row' \in Rows \cup {None} /\ life' \in Nat /\ saved' \in Nat /\ expiries' \in Nat
      /\ saved <= saved'
  BY <1>1 DEF ConversationType
<1>4. outlived' \in BOOLEAN /\ (outlived => outlived') BY <1>1 DEF ConversationType
<1>5. RowIsNewest' BY <1>1 DEF RowIsNewest
<1>6. \A y \in Rows : Matches(y, row, life, saved) => Matches(y, row', life', saved')
  OBVIOUS
<1>7. ConversationInv' BY <1>2, <1>3, <1>4, <1>5, <1>6, StepKeepsInv
<1>8. Keeps BY SameContentKeeps
<1> QED BY <1>7, <1>8

\* A load, or the first half of it when the row has expired.
LEMMA LoadStep ==
  ASSUME ConversationAssumption, ConversationInv, NEW r \in Requests, MayRun(r),
         NEW q \in RequestStates, Sound(q), q.at \in Loading, Load(r, q),
         q.seen \in {None, request[r].seen}, q.took \in {None, request[r].took},
         q.snapshot \in {Fresh, request[r].snapshot}
  PROVE  ConversationInv' /\ Keeps
<1> DEFINE next == IF Expired THEN [q EXCEPT !.at = "delete", !.then = q.at]
                   ELSE Found(q, Loaded)
<1>1. ConversationType /\ RowIsNewest BY DEF ConversationInv
<1>2. /\ Loaded \in Rows
      /\ Matches(Fresh, row, life, saved)
      /\ Matches(Loaded, row, life, saved)
      /\ Loaded.pending # None => row # None /\ Loaded.pending = row.pending
      /\ ~Expired /\ Loaded.pending = None => row = None \/ row.pending = None
  BY <1>1, LoadedIsARow
<1>3. Matches(request[r].snapshot, row, life, saved) BY RequestIsSound
<1>4. request' = [request EXCEPT ![r] = next]
      /\ UNCHANGED <<row, life, saved, outlived, expiries>>
  BY DEF Load
<1>5. CASE Expired
  <2>1. next = [q EXCEPT !.at = "delete", !.then = q.at] BY <1>5
  <2> HIDE DEF next
  <2>2. /\ next \in RequestStates /\ next.at = "delete" /\ next.then = q.at
        /\ next.seen = q.seen /\ next.took = q.took /\ next.snapshot = q.snapshot
        /\ next.route = q.route
    BY <2>1 DEF RequestStates, Places, Loading
  <2>3. Sound(next) BY <2>2 DEF Sound, Clearing, Loading
  <2>4. Moves(r, next) BY <1>4, <2>2, <2>3 DEF Moves
  <2>5. Matches(next.snapshot, row, life, saved) BY <1>2, <1>3, <2>2
  <2> QED BY <1>4, <2>4, <2>5, RowStays
<1>6. CASE ~Expired
  <2>1. next = Found(q, Loaded) BY <1>6
  <2> HIDE DEF next
  <2>2. Finds(q, Loaded, next) BY <1>2, <2>1, FoundGoes
  <2>3. Matches(next.snapshot, row, life, saved) BY <1>2, <1>3, <2>2 DEF Finds
  <2>4. next \in RequestStates /\ Sound(next) BY <2>2 DEF Finds
  <2>5. \/ next.took \in {None, request[r].took}
        \/ next.took = request[r].seen /\ (row' = None \/ row'.pending = None)
    BY <1>2, <1>4, <1>6, <2>2 DEF Finds
  <2>6. \/ next.seen \in {None, request[r].seen}
        \/ row # None /\ next.seen = row.pending
    BY <1>2, <2>2 DEF Finds
  <2>7. Moves(r, next) BY <1>4, <2>4, <2>5, <2>6 DEF Moves
  <2> QED BY <1>4, <2>3, <2>7, RowStays
<1> QED BY <1>5, <1>6

-----------------------------------------------------------------------------
(* The steps *)

LEMMA ExecuteStep ==
  ASSUME ConversationAssumption, ConversationInv, NEW r \in Requests,
         NEW message \in UserMessages, Execute(r, message)
  PROVE  ConversationInv' /\ Keeps
<1> DEFINE q == [IdleRequest EXCEPT !.at = "execute", !.words = message]
<1>1. MayRun(r) /\ Load(r, q) BY DEF Execute, RunsAt
<1>2. message \in SUBSET Words BY DEF ConversationAssumption
<1>3. /\ q \in RequestStates /\ q.at = "execute" /\ q.seen = None /\ q.took = None
      /\ q.snapshot = Fresh
  BY <1>2, FreshIsFresh DEF IdleRequest, RequestStates, Places
<1> HIDE DEF q
<1>4. Sound(q) BY <1>3 DEF Sound, Clearing
<1>5. q.at \in Loading BY <1>3 DEF Loading
<1> QED BY <1>1, <1>3, <1>4, <1>5, LoadStep

LEMMA QueryStep ==
  ASSUME ConversationAssumption, ConversationInv, NEW r \in Requests, Query(r)
  PROVE  ConversationInv' /\ Keeps
<1> DEFINE q == [IdleRequest EXCEPT !.at = "prepare"]
<1>1. MayRun(r) /\ Load(r, q) BY DEF Query, RunsAt
<1>2. /\ q \in RequestStates /\ q.at = "prepare" /\ q.seen = None /\ q.took = None
      /\ q.snapshot = Fresh
  BY FreshIsFresh DEF IdleRequest, RequestStates, Places
<1> HIDE DEF q
<1>3. Sound(q) BY <1>2 DEF Sound, Clearing
<1>4. q.at \in Loading BY <1>2 DEF Loading
<1> QED BY <1>1, <1>2, <1>3, <1>4, LoadStep

LEMMA ReloadStep ==
  ASSUME ConversationAssumption, ConversationInv, NEW r \in Requests,
         ClearLoads(r) \/ AskLoads(r) \/ Prepare(r)
  PROVE  ConversationInv' /\ Keeps
<1>1. MayRun(r) /\ Load(r, request[r]) /\ request[r].at \in Loading
  BY DEF ClearLoads, AskLoads, Prepare, RunsAt, Loading
<1>2. request[r] \in RequestStates /\ Sound(request[r]) BY RequestIsSound
<1> QED BY <1>1, <1>2, LoadStep

LEMMA DeleteStep ==
  ASSUME ConversationAssumption, ConversationInv, NEW r \in Requests, Delete(r)
  PROVE  ConversationInv' /\ Keeps
<1> DEFINE q == [request[r] EXCEPT !.at = request[r].then, !.then = None]
           next == Found(q, Fresh)
<1>1. /\ MayRun(r) /\ request[r].at = "delete" /\ row' = None
      /\ request' = [request EXCEPT ![r] = next]
      /\ UNCHANGED <<life, saved, outlived, expiries>>
  BY DEF Delete, RunsAt, Becomes
<1>2. ConversationType /\ RowIsNewest BY DEF ConversationInv
<1>3. /\ request[r] \in RequestStates /\ Sound(request[r])
      /\ Matches(request[r].snapshot, row, life, saved)
  BY RequestIsSound
<1>4. request[r].then \in Loading BY <1>1, <1>3 DEF Sound
<1>5. /\ q \in RequestStates /\ q.at = request[r].then /\ q.seen = request[r].seen
      /\ q.took = request[r].took /\ q.snapshot = request[r].snapshot
      /\ q.route = request[r].route
  BY <1>3, <1>4 DEF RequestStates, Places, Loading
<1> HIDE DEF q
<1>6. Sound(q) /\ q.at \in Loading
  BY <1>1, <1>3, <1>4, <1>5 DEF Sound, Clearing, Loading
<1>7. Finds(q, Fresh, next) BY <1>5, <1>6, FoundGoes, FreshIsFresh
<1> HIDE DEF next
<1>8. Matches(Fresh, row, life, saved) BY <1>2, LoadedIsARow
<1>9. Matches(next.snapshot, row, life, saved) BY <1>3, <1>5, <1>7, <1>8 DEF Finds
<1>10. /\ next \in RequestStates /\ Sound(next)
       /\ next.took \in {request[r].took, request[r].seen}
       /\ next.seen \in {None, request[r].seen}
  BY <1>5, <1>7, FreshIsFresh DEF Finds
<1>11. Moves(r, next) BY <1>1, <1>10 DEF Moves
<1>12. PendingGoes BY <1>1 DEF PendingGoes
<1>13. /\ life' \in Nat /\ saved' \in Nat /\ expiries' \in Nat /\ saved <= saved'
       /\ life \in Nat /\ saved \in Nat
  BY <1>1, <1>2 DEF ConversationType
<1>14. outlived' \in BOOLEAN /\ (outlived => outlived') BY <1>1, <1>2 DEF ConversationType
<1>15. RowIsNewest' BY <1>1 DEF RowIsNewest
<1>16. \A y \in Rows : Matches(y, row, life, saved) => Matches(y, row', life', saved')
  <2>1. saved <= saved BY <1>13
  <2> QED BY <1>1, <1>13, <2>1, StillMatches
<1>17. ConversationInv'
  BY <1>1, <1>9, <1>11, <1>12, <1>13, <1>14, <1>15, <1>16, StepKeepsInv
<1>18. Keeps BY <1>1, SameContentKeeps
<1> QED BY <1>17, <1>18

LEMMA ClassifyStep ==
  ASSUME ConversationAssumption, ConversationInv, NEW r \in Requests, Classify(r)
  PROVE  ConversationInv' /\ Keeps
<1>1. MayRun(r) /\ UNCHANGED <<row, life, saved, outlived, expiries>> BY DEF Classify, RunsAt
<1>2. PICK route \in Routes : request' = [request EXCEPT ![r] = Decided(request[r], route)]
  BY DEF Classify, Classified, Becomes
<1> DEFINE next == Decided(request[r], route)
<1>3. request[r] \in RequestStates /\ Matches(request[r].snapshot, row, life, saved)
  BY RequestIsSound
<1>4. /\ next \in RequestStates /\ Sound(next)
      /\ next.seen \in {None, request[r].seen}
      /\ next.took = request[r].took
      /\ next.snapshot \in {Fresh, request[r].snapshot}
  BY <1>3, DecidedGoes
<1> HIDE DEF next
<1>5. Moves(r, next) BY <1>2, <1>4 DEF Moves, next
<1>6. Matches(Fresh, row, life, saved) BY LoadedIsARow DEF ConversationInv
<1>7. Matches(next.snapshot, row, life, saved) BY <1>3, <1>4, <1>6
<1> QED BY <1>1, <1>5, <1>7, RowStays

\* A request that is over holds no turn and nothing it has read.
LEMMA EndedGoes ==
  ASSUME ConversationAssumption, NEW q \in RequestStates,
         NEW o \in {"NEEDS_INPUT", "NEEDS_APPROVAL", "ANSWERED", "INVESTIGATED", "conflict",
                    "failed"}
  PROVE  /\ Ended(q, o) \in RequestStates /\ Sound(Ended(q, o))
         /\ Ended(q, o).at = "done" /\ Ended(q, o).seen = None
         /\ Ended(q, o).took = q.took /\ Ended(q, o).snapshot = Fresh
<1>1. q.took \in Turns \cup {None} BY DEF RequestStates
<1>2. /\ Ended(q, o) \in RequestStates
      /\ Ended(q, o).at = "done" /\ Ended(q, o).seen = None
      /\ Ended(q, o).took = q.took /\ Ended(q, o).snapshot = Fresh
  BY <1>1, FreshIsFresh DEF Ended, IdleRequest, RequestStates, Places
<1> QED BY <1>2 DEF Sound, Clearing

\* A request that ends without writing.
LEMMA EndStep ==
  ASSUME ConversationAssumption, ConversationInv, NEW r \in Requests, MayRun(r),
         NEW o \in {"NEEDS_INPUT", "NEEDS_APPROVAL", "ANSWERED", "INVESTIGATED", "conflict",
                    "failed"},
         Becomes(r, Ended(request[r], o)), UNCHANGED <<row, life, saved, outlived, expiries>>
  PROVE  ConversationInv' /\ Keeps
<1> DEFINE next == Ended(request[r], o)
<1>1. request[r] \in RequestStates BY RequestIsSound
<1>2. /\ next \in RequestStates /\ Sound(next)
      /\ next.at = "done" /\ next.seen = None
      /\ next.took = request[r].took /\ next.snapshot = Fresh
  BY <1>1, EndedGoes
<1>3. request' = [request EXCEPT ![r] = next] BY DEF Becomes
<1> HIDE DEF next
<1>4. Moves(r, next) BY <1>2, <1>3 DEF Moves
<1>5. Matches(Fresh, row, life, saved) BY LoadedIsARow DEF ConversationInv
<1> QED BY <1>2, <1>4, <1>5, RowStays

LEMMA ChainEndsStep ==
  ASSUME ConversationAssumption, ConversationInv, NEW r \in Requests, ChainEnds(r)
  PROVE  ConversationInv' /\ Keeps
<1>1. MayRun(r) /\ UNCHANGED <<row, life, saved, outlived, expiries>> BY DEF ChainEnds, RunsAt
<1>2. \E o \in {"failed", "INVESTIGATED"} : Becomes(r, Ended(request[r], o))
  BY DEF ChainEnds
<1> QED BY <1>1, <1>2, EndStep

\* A save of what x says but for z: the steps that write.
LEMMA SaveStep ==
  ASSUME ConversationAssumption, ConversationInv, NEW r \in Requests, MayRun(r),
         NEW z \in Rows, NEW expired \in BOOLEAN, NEW next,
         ~Conflict(request[r].snapshot), Save(z, expired),
         z.version = request[r].snapshot.version, z.life = request[r].snapshot.life,
         \/ z.pending \in {None, request[r].snapshot.pending}
         \/ z.pending.number > saved /\ z.pending.number <= saved',
         next.snapshot = Fresh, Moves(r, next),
         saved' \in Nat, saved <= saved', UNCHANGED expiries
  PROVE  /\ ConversationInv'
         /\ row' # None /\ row'.pending = z.pending /\ row'.turns = z.turns
         /\ \/ row = None /\ row'.life # life /\ request[r].snapshot.pending = None
            \/ /\ row # None
               /\ \/ /\ request[r].snapshot.pending = row.pending
                     /\ request[r].snapshot.turns = row.turns
                  \/ request[r].snapshot.life < row.life
<1> DEFINE x == request[r].snapshot
<1>1. ConversationType /\ RowIsNewest BY DEF ConversationInv
<1>2. x \in Rows /\ Matches(x, row, life, saved) BY RequestIsSound
<1> HIDE DEF x
<1>3. ~Conflict(x) /\ z.version = x.version /\ z.life = x.life BY DEF x
<1>4. /\ row' \in Rows /\ life' \in Nat /\ outlived' \in BOOLEAN
      /\ row'.version > 0 /\ row'.life > 0 /\ row'.life = life'
      /\ row'.pending = z.pending /\ row'.turns = z.turns
      /\ \A y \in Rows : Matches(y, row, life, saved) => Matches(y, row', life', saved)
      /\ outlived => outlived'
      /\ \/ row = None /\ row'.life = life + 1 /\ x.pending = None
         \/ /\ row # None /\ row'.life = row.life
            /\ \/ x.life = row.life /\ x.pending = row.pending /\ x.turns = row.turns
               \/ x.life < row.life /\ outlived'
  BY <1>1, <1>2, <1>3, SaveGoes
<1>5. life \in Nat /\ saved \in Nat /\ expiries' \in Nat BY <1>1 DEF ConversationType
<1>6. row' # None BY <1>4, NoneIsNone
<1>7. PendingGoes
  <2>1. z.pending \in {None, x.pending} \/ z.pending.number > saved BY DEF x
  <2> QED BY <1>4, <2>1 DEF PendingGoes
<1>8. RowIsNewest'
  <2>1. x.pending # None => x.pending.number <= saved BY <1>2 DEF Matches
  <2>2. x.pending # None => x.pending.number \in Nat BY <1>2 DEF Rows, Turns
  <2>3. z.pending # None => z.pending.number <= saved' BY <1>5, <2>1, <2>2 DEF x
  <2> QED BY <1>4, <2>3 DEF RowIsNewest
<1>9. \A y \in Rows : Matches(y, row, life, saved) => Matches(y, row', life', saved')
  BY <1>4, <1>5, StillMatches
<1>10. Matches(next.snapshot, row, life, saved) BY <1>1, LoadedIsARow
<1>11. ConversationInv'
  BY <1>4, <1>5, <1>7, <1>8, <1>9, <1>10, StepKeepsInv
<1> QED BY <1>4, <1>5, <1>6, <1>11 DEF x

LEMMA ClearSavesStep ==
  ASSUME ConversationAssumption, ConversationInv, NEW r \in Requests, ClearSaves(r)
  PROVE  ConversationInv' /\ Keeps
<1> DEFINE x == request[r].snapshot
           z == [x EXCEPT !.pending = None]
           next == Continued(request[r])
<1>1. MayRun(r) /\ request[r].at = "clearing" /\ UNCHANGED <<saved, expiries>>
  BY DEF ClearSaves, RunsAt
<1>2. /\ request[r] \in RequestStates /\ Sound(request[r]) /\ x \in Rows
      /\ request \in [Requests -> RequestStates]
      /\ ConversationType /\ saved \in Nat /\ RowIsNewest
  BY RequestIsSound DEF ConversationInv, ConversationType
<1>3. CASE Conflict(x)
  <2>1. Becomes(r, Ended(request[r], "conflict")) /\ UNCHANGED <<row, life, outlived>>
    BY <1>3 DEF ClearSaves
  <2> QED BY <1>1, <2>1, EndStep
<1>4. CASE ~Conflict(x)
  <2>1. /\ Becomes(r, next)
        /\ \E expired \in (IF row = None \/ x.life < row.life THEN BOOLEAN ELSE {row.expired}) :
               Save(z, expired)
    BY <1>4 DEF ClearSaves
  <2>2. row # None => row.expired \in BOOLEAN BY <1>2 DEF ConversationType, Rows
  <2>3. PICK expired \in BOOLEAN : Save(z, expired) BY <2>1, <2>2
  <2>4. /\ z \in Rows /\ z.version = x.version /\ z.life = x.life
        /\ z.pending = None /\ z.turns = x.turns
    BY <1>2 DEF Rows
  <2>5. request[r].route # None BY <1>1, <1>2 DEF Sound, Clearing
  <2>6. /\ next \in RequestStates /\ Sound(next)
        /\ next.at \in {"ask", "prepare", "investigate", "done"}
        /\ next.seen = None /\ next.took = request[r].seen /\ next.snapshot = Fresh
    BY <1>2, <2>5, ContinuedGoes
  <2> HIDE DEF z, next
  <2>7. row'.pending = None BY <2>3, <2>4 DEF Save, Rows
  <2>8. request' = [request EXCEPT ![r] = next] BY <2>1 DEF Becomes
  <2>9. Moves(r, next) BY <2>6, <2>7, <2>8 DEF Moves
  <2>10. /\ z.version = request[r].snapshot.version /\ z.life = request[r].snapshot.life
         /\ ~Conflict(request[r].snapshot) /\ z.pending \in {None, request[r].snapshot.pending}
         /\ saved' \in Nat /\ saved <= saved'
    BY <1>1, <1>2, <1>4, <2>4
  <2>11. /\ ConversationInv'
         /\ row' # None /\ row'.pending = z.pending /\ row'.turns = z.turns
         /\ \/ row = None /\ row'.life # life /\ request[r].snapshot.pending = None
            \/ /\ row # None
               /\ \/ /\ request[r].snapshot.pending = row.pending
                     /\ request[r].snapshot.turns = row.turns
                  \/ request[r].snapshot.life < row.life
    BY <1>1, <2>3, <2>4, <2>6, <2>9, <2>10, SaveStep
  <2>12. Acts(r) BY <1>1, <1>2, <2>6, <2>8 DEF Acts
  <2>13. row # None => row.turns \in Seq(Requests) BY <1>2 DEF ConversationType, Rows
  <2>14. KeepsTurns
    BY <1>1, <2>4, <2>11, <2>12, <2>13, TurnsKeptInThemselves
       DEF KeepsTurns, SameRow, OfAnEarlierRow
  <2>15. KeepsPending BY <1>1, <2>11, <2>12 DEF KeepsPending, SameRow, OfAnEarlierRow
  <2>16. KeepsCleared BY <2>7 DEF KeepsCleared
  <2> QED BY <2>11, <2>14, <2>15, <2>16 DEF Keeps
<1> QED BY <1>3, <1>4

LEMMA AskSavesStep ==
  ASSUME ConversationAssumption, ConversationInv, NEW r \in Requests, AskSaves(r)
  PROVE  ConversationInv' /\ Keeps
<1> DEFINE x == request[r].snapshot
           z == [x EXCEPT !.pending = Question(request[r])]
           next == Ended(request[r], "NEEDS_INPUT")
<1>1. MayRun(r) /\ request[r].at = "asking" /\ UNCHANGED expiries
  BY DEF AskSaves, RunsAt
<1>2. /\ request[r] \in RequestStates /\ Sound(request[r]) /\ x \in Rows
      /\ request \in [Requests -> RequestStates]
      /\ ConversationType /\ saved \in Nat /\ RowIsNewest
  BY RequestIsSound DEF ConversationInv, ConversationType
<1>3. CASE Conflict(x)
  <2>1. /\ Becomes(r, Ended(request[r], "conflict"))
        /\ UNCHANGED <<row, life, saved, outlived>>
    BY <1>3 DEF AskSaves
  <2> QED BY <1>1, <2>1, EndStep
<1>4. CASE ~Conflict(x)
  <2>1. Becomes(r, next) /\ Save(z, FALSE) /\ saved' = saved + 1 BY <1>4 DEF AskSaves
  <2>2. Question(request[r]) \in Turns /\ Question(request[r]).number = saved + 1
    <3>1. request[r].words \in SUBSET Words /\ request[r].route \in Routes \cup {None}
      BY <1>2 DEF RequestStates
    <3> QED BY <1>2, <3>1 DEF Question, Turns
  <2>3. /\ z \in Rows /\ z.version = x.version /\ z.life = x.life
        /\ z.pending = Question(request[r]) /\ z.turns = x.turns
    BY <1>2, <2>2 DEF Rows
  <2>4. /\ next \in RequestStates /\ Sound(next) /\ next.at = "done"
        /\ next.seen = None /\ next.took = request[r].took /\ next.snapshot = Fresh
    BY <1>2, EndedGoes
  <2> HIDE DEF z, next
  <2>5. request' = [request EXCEPT ![r] = next] BY <2>1 DEF Becomes
  <2>6. Moves(r, next) BY <2>4, <2>5 DEF Moves
  <2>7. /\ z.version = request[r].snapshot.version /\ z.life = request[r].snapshot.life
        /\ ~Conflict(request[r].snapshot) /\ saved' \in Nat /\ saved <= saved'
        /\ z.pending.number > saved /\ z.pending.number <= saved'
    BY <1>2, <1>4, <2>1, <2>2, <2>3
  <2>8. /\ ConversationInv'
        /\ row' # None /\ row'.pending = z.pending /\ row'.turns = z.turns
        /\ \/ row = None /\ row'.life # life /\ request[r].snapshot.pending = None
           \/ /\ row # None
              /\ \/ /\ request[r].snapshot.pending = row.pending
                    /\ request[r].snapshot.turns = row.turns
                 \/ request[r].snapshot.life < row.life
    BY <1>1, <2>1, <2>3, <2>4, <2>6, <2>7, SaveStep
  <2>9. Acts(r) BY <1>1, <1>2, <2>4, <2>5 DEF Acts
  <2>10. row # None => row.turns \in Seq(Requests) BY <1>2 DEF ConversationType, Rows
  <2>11. KeepsTurns
    BY <1>1, <2>3, <2>8, <2>9, <2>10, TurnsKeptInThemselves
       DEF KeepsTurns, SameRow, OfAnEarlierRow
  <2>12. KeepsPending BY <1>1, <2>8, <2>9 DEF KeepsPending, SameRow, OfAnEarlierRow
  <2>13. row'.pending.number = saved' /\ saved' > saved BY <1>2, <2>1, <2>2, <2>3, <2>8
  <2>14. KeepsCleared BY <2>13 DEF KeepsCleared
  <2> QED BY <2>8, <2>11, <2>12, <2>14 DEF Keeps
<1> QED BY <1>3, <1>4

\* An answer recorded after `old', whatever the summary loses, keeps it.
LEMMA AnswerKeepsTurns ==
  ASSUME ConversationAssumption, NEW old \in Seq(Requests), NEW r \in Requests,
         NEW k \in MayBeLost(Append(old, r))
  PROVE  /\ Without(Append(old, r), k) \in Seq(Requests)
         /\ KeptIn(old, Without(Append(old, r), k))
<1> DEFINE turns == Append(old, r)
           new == Without(turns, k)
           n == Len(old)
<1>1. /\ turns \in Seq(Requests) /\ n \in Nat /\ Len(turns) = n + 1
      /\ \A i \in 1 .. n : turns[i] = old[i]
      /\ \A i \in 1 .. n + 1 : turns[i] \in Requests
  OBVIOUS
<1>2. k \in 0 .. n + 1 /\ (k = 0 \/ n + 1 - k >= Window) BY <1>1 DEF MayBeLost
<1>3. Window \in Nat \ {0} BY DEF ConversationAssumption
<1>4. k \in 0 .. n BY <1>1, <1>2, <1>3
<1>5. new = [i \in 1 .. n + 1 - k |-> turns[i + k]]
  <2>1. new = [i \in 1 .. Len(turns) - k |-> turns[i + k]] BY DEF Without
  <2> HIDE DEF turns, new, n
  <2>2. Len(turns) - k = n + 1 - k BY <1>1, <1>4
  <2> QED BY <2>1, <2>2
<1> HIDE DEF turns, n
<1>6. n + 1 - k \in Nat BY <1>1, <1>4
<1> HIDE DEF new
<1>7. \A i \in 1 .. n + 1 - k : i + k \in 1 .. n + 1 BY <1>1, <1>4
<1>8. new \in Seq(Requests) /\ Len(new) = n + 1 - k BY <1>1, <1>5, <1>6, <1>7
<1>9. ASSUME NEW i \in 1 .. n - k
      PROVE  i \in DOMAIN new /\ new[i] = old[i + k]
  <2>1. i \in 1 .. n + 1 - k /\ i + k \in 1 .. n BY <1>1, <1>4
  <2>2. i \in DOMAIN new /\ new[i] = turns[i + k] BY <1>5, <2>1
  <2> QED BY <1>1, <2>1, <2>2
<1>10. k > 0 => Len(new) >= Window BY <1>2, <1>8
<1>11. k \in 0 .. Len(old) BY <1>4 DEF n
<1>12. KeptIn(old, new) BY <1>9, <1>10, <1>11 DEF KeptIn, n
<1> QED BY <1>8, <1>12 DEF new, turns

LEMMA RecordTurnStep ==
  ASSUME ConversationAssumption, ConversationInv, NEW r \in Requests, RecordTurn(r)
  PROVE  ConversationInv' /\ Keeps
<1> DEFINE x == request[r].snapshot
           turns == Append(x.turns, r)
           next == Ended(request[r], "ANSWERED")
<1>1. MayRun(r) /\ request[r].at = "answer" /\ UNCHANGED <<saved, expiries>>
  BY DEF RecordTurn, RunsAt
<1>2. /\ request[r] \in RequestStates /\ Sound(request[r]) /\ x \in Rows
      /\ request \in [Requests -> RequestStates]
      /\ ConversationType /\ saved \in Nat /\ RowIsNewest
  BY RequestIsSound DEF ConversationInv, ConversationType
<1>3. CASE Conflict(x)
  <2>1. Becomes(r, Ended(request[r], "conflict")) /\ UNCHANGED <<row, life, outlived>>
    BY <1>3 DEF RecordTurn
  <2> QED BY <1>1, <2>1, EndStep
<1>4. CASE ~Conflict(x)
  <2>1. Becomes(r, next)
        /\ \E k \in MayBeLost(turns) : Save([x EXCEPT !.turns = Without(turns, k)], FALSE)
    BY <1>4 DEF RecordTurn
  <2>2. PICK k \in MayBeLost(turns) : Save([x EXCEPT !.turns = Without(turns, k)], FALSE)
    BY <2>1
  <2> DEFINE new == Without(turns, k)
             z == [x EXCEPT !.turns = new]
  <2>3. x.turns \in Seq(Requests) BY <1>2 DEF Rows
  <2>4. new \in Seq(Requests) /\ KeptIn(x.turns, new) BY <2>2, <2>3, AnswerKeepsTurns
  <2>5. Save(z, FALSE) BY <2>2
  <2> HIDE DEF new
  <2>6. /\ z \in Rows /\ z.version = x.version /\ z.life = x.life
        /\ z.pending = x.pending /\ z.turns = new
    BY <1>2, <2>4 DEF Rows
  <2>7. /\ next \in RequestStates /\ Sound(next) /\ next.at = "done"
        /\ next.seen = None /\ next.took = request[r].took /\ next.snapshot = Fresh
    BY <1>2, EndedGoes
  <2> HIDE DEF z, next
  <2>8. request' = [request EXCEPT ![r] = next] BY <2>1 DEF Becomes
  <2>9. Moves(r, next) BY <2>7, <2>8 DEF Moves
  <2>10. /\ z.version = request[r].snapshot.version /\ z.life = request[r].snapshot.life
         /\ ~Conflict(request[r].snapshot) /\ z.pending \in {None, request[r].snapshot.pending}
         /\ saved' \in Nat /\ saved <= saved'
    BY <1>1, <1>2, <1>4, <2>6
  <2>11. /\ ConversationInv'
         /\ row' # None /\ row'.pending = z.pending /\ row'.turns = z.turns
         /\ \/ row = None /\ row'.life # life /\ request[r].snapshot.pending = None
            \/ /\ row # None
               /\ \/ /\ request[r].snapshot.pending = row.pending
                     /\ request[r].snapshot.turns = row.turns
                  \/ request[r].snapshot.life < row.life
    BY <1>1, <2>5, <2>6, <2>7, <2>9, <2>10, SaveStep
  <2>12. Acts(r) BY <1>1, <1>2, <2>7, <2>8 DEF Acts
  <2>13. row # None /\ ~(x.life < row.life) => row.turns = x.turns /\ row.pending = x.pending
    BY <2>11
  <2>14. KeepsTurns
    BY <1>1, <2>4, <2>6, <2>11, <2>12, <2>13 DEF KeepsTurns, SameRow, OfAnEarlierRow
  <2>15. KeepsPending
    BY <1>1, <2>6, <2>11, <2>12, <2>13 DEF KeepsPending, SameRow, OfAnEarlierRow
  <2>16. KeepsCleared
    BY <1>1, <2>6, <2>11, <2>12, <2>13 DEF KeepsCleared, OfAnEarlierRow
  <2> QED BY <2>11, <2>14, <2>15, <2>16 DEF Keeps
<1> QED BY <1>3, <1>4

\* The instance of a request stops.
LEMMA StopStep ==
  ASSUME ConversationAssumption, ConversationInv, NEW instance, Stop(instance)
  PROVE  ConversationInv' /\ Keeps
<1>1. UNCHANGED <<row, life, saved, outlived, expiries>> BY DEF Stop
<1>2. /\ \A s \in Requests : request[s] \in RequestStates /\ Sound(request[s])
            /\ OfSaved(request[s], saved) /\ Matches(request[s].snapshot, row, life, saved)
      /\ ConversationType /\ RowIsNewest
  BY DEF ConversationInv, ConversationType, RequestsAreSound, SnapshotsMatch
<1>3. /\ DOMAIN request' = Requests
      /\ \A s \in Requests : request'[s] \in {request[s], Ended(request[s], "failed")}
  BY DEF Stop
<1>4. request' = [s \in Requests |-> request'[s]] BY DEF Stop
<1>5. Matches(Fresh, row, life, saved) BY <1>2, LoadedIsARow
<1>6. ASSUME NEW s \in Requests
      PROVE  /\ request'[s] \in RequestStates /\ Sound(request'[s])
             /\ OfSaved(request'[s], saved) /\ request'[s].took = request[s].took
             /\ request'[s].seen \in {None, request[s].seen}
             /\ Matches(request'[s].snapshot, row, life, saved)
  <2>1. CASE request'[s] = request[s] BY <1>2, <2>1
  <2>2. CASE request'[s] = Ended(request[s], "failed")
    <3>1. request[s] \in RequestStates BY <1>2
    <3>2. /\ request'[s] \in RequestStates /\ Sound(request'[s])
          /\ request'[s].seen = None /\ request'[s].took = request[s].took
          /\ request'[s].snapshot = Fresh
      BY <2>2, <3>1, EndedGoes
    <3>3. OfSaved(request'[s], saved) BY <1>2, <3>2 DEF OfSaved
    <3> QED BY <1>5, <3>2, <3>3
  <2> QED BY <1>3, <2>1, <2>2
<1>7. ConversationType'
  <2>1. request' \in [Requests -> RequestStates] BY <1>4, <1>6
  <2> QED BY <1>1, <1>2, <2>1 DEF ConversationType
<1>8. RowIsNewest' BY <1>1, <1>2 DEF RowIsNewest
<1>9. SnapshotsMatch' BY <1>1, <1>6 DEF SnapshotsMatch, Matches
<1>10. RequestsAreSound' BY <1>1, <1>6 DEF RequestsAreSound, Sound, OfSaved, Clearing, Confirmed
<1>11. TakenIsGone' BY <1>1, <1>6 DEF TakenIsGone, Confirmed, ConversationInv
<1>12. SeenIsUntaken' BY <1>1, <1>6 DEF SeenIsUntaken, Confirmed, ConversationInv
<1>13. ConfirmedIsTakenOnce' BY <1>1, <1>6 DEF ConfirmedIsTakenOnce, ConversationInv
<1>14. ConversationInv'
  BY <1>7, <1>8, <1>9, <1>10, <1>11, <1>12, <1>13 DEF ConversationInv
<1>15. Keeps BY <1>1, SameContentKeeps
<1> QED BY <1>14, <1>15

\* The row expires, and says what it said.
LEMMA ExpireStep ==
  ASSUME ConversationAssumption, ConversationInv, Expire
  PROVE  ConversationInv' /\ Keeps
<1>1. /\ row # None /\ row' = [row EXCEPT !.expired = TRUE]
      /\ expiries' = expiries + 1 /\ UNCHANGED <<request, life, saved, outlived>>
  BY DEF Expire
<1>2. ConversationType /\ RowIsNewest BY DEF ConversationInv
<1>3. /\ row' \in Rows /\ row'.version = row.version /\ row'.life = row.life
      /\ row'.turns = row.turns /\ row'.pending = row.pending
  BY <1>1, <1>2 DEF ConversationType, Rows
<1>4. row' # None BY <1>3, NoneIsNone
<1>5. ConversationType' BY <1>1, <1>2, <1>3 DEF ConversationType
<1>6. RowIsNewest' BY <1>1, <1>2, <1>3 DEF RowIsNewest
<1>7. SnapshotsMatch'
  BY <1>1, <1>3, <1>4 DEF ConversationInv, SnapshotsMatch, Matches
<1>8. RequestsAreSound'
  BY <1>1 DEF ConversationInv, RequestsAreSound, Sound, OfSaved, Clearing, Confirmed
<1>9. TakenIsGone' BY <1>1, <1>3 DEF ConversationInv, TakenIsGone, Confirmed
<1>10. SeenIsUntaken' BY <1>1 DEF ConversationInv, SeenIsUntaken, Confirmed
<1>11. ConfirmedIsTakenOnce' BY <1>1 DEF ConversationInv, ConfirmedIsTakenOnce
<1>12. ConversationInv'
  BY <1>5, <1>6, <1>7, <1>8, <1>9, <1>10, <1>11 DEF ConversationInv
<1>13. Keeps BY <1>1, <1>3, SameContentKeeps
<1> QED BY <1>12, <1>13

\* At first there is no row and nobody has read one.
LEMMA InitConversation ==
  ASSUME ConversationAssumption, ConversationInit
  PROVE  ConversationInv
<1>1. /\ row = None /\ request = [r \in Requests |-> IdleRequest]
      /\ life = 0 /\ saved = 0 /\ outlived = FALSE /\ expiries = 0
  BY DEF ConversationInit
<1>2. /\ IdleRequest \in RequestStates /\ IdleRequest.seen = None /\ IdleRequest.took = None
      /\ IdleRequest.at = "idle" /\ IdleRequest.snapshot = Fresh
  BY FreshIsFresh DEF IdleRequest
<1> HIDE DEF IdleRequest
<1>3. \A r \in Requests : request[r] = IdleRequest BY <1>1
<1>4. ConversationType BY <1>1, <1>2 DEF ConversationType
<1>5. RowIsNewest BY <1>1 DEF RowIsNewest
<1>6. SnapshotsMatch BY <1>1, <1>2, <1>3, FreshIsFresh DEF SnapshotsMatch, Matches
<1>7. RequestsAreSound BY <1>2, <1>3 DEF RequestsAreSound, Sound, OfSaved, Clearing
<1>8. TakenIsGone BY <1>1 DEF TakenIsGone
<1>9. SeenIsUntaken BY <1>2, <1>3 DEF SeenIsUntaken, Confirmed
<1>10. ConfirmedIsTakenOnce BY <1>2, <1>3 DEF ConfirmedIsTakenOnce
<1> QED BY <1>4, <1>5, <1>6, <1>7, <1>8, <1>9, <1>10 DEF ConversationInv

\* Every step keeps the invariant and does what the three properties of steps say.
LEMMA ConversationStep ==
  ASSUME ConversationAssumption, ConversationInv, [ConversationNext]_conversationVars
  PROVE  ConversationInv' /\ Keeps
<1>1. ASSUME NEW r \in Requests, NEW message \in UserMessages, Execute(r, message)
      PROVE  ConversationInv' /\ Keeps
  BY <1>1, ExecuteStep
<1>2. ASSUME NEW r \in Requests, ClearLoads(r) \/ AskLoads(r) \/ Prepare(r)
      PROVE  ConversationInv' /\ Keeps
  BY <1>2, ReloadStep
<1>3. ASSUME NEW r \in Requests, Delete(r) PROVE ConversationInv' /\ Keeps
  BY <1>3, DeleteStep
<1>4. ASSUME NEW r \in Requests, Classify(r) PROVE ConversationInv' /\ Keeps
  BY <1>4, ClassifyStep
<1>5. ASSUME NEW r \in Requests, ClearSaves(r) PROVE ConversationInv' /\ Keeps
  BY <1>5, ClearSavesStep
<1>6. ASSUME NEW r \in Requests, AskSaves(r) PROVE ConversationInv' /\ Keeps
  BY <1>6, AskSavesStep
<1>7. ASSUME NEW r \in Requests, RecordTurn(r) PROVE ConversationInv' /\ Keeps
  BY <1>7, RecordTurnStep
<1>8. ASSUME NEW r \in Requests, ChainEnds(r) PROVE ConversationInv' /\ Keeps
  BY <1>8, ChainEndsStep
<1>9. ASSUME NEW r \in Requests, Stop(InstanceOf[r]) PROVE ConversationInv' /\ Keeps
  BY <1>9, StopStep
<1>10. CASE Expire BY <1>10, ExpireStep
<1>11. ASSUME NEW r \in Requests, Query(r) PROVE ConversationInv' /\ Keeps
  BY <1>11, QueryStep
<1>12. CASE UNCHANGED conversationVars
  <2>1. UNCHANGED <<row, request, life, saved, outlived, expiries>>
    BY <1>12 DEF conversationVars
  <2>2. ConversationType' /\ RowIsNewest'
    BY <2>1 DEF ConversationInv, ConversationType, RowIsNewest
  <2>3. SnapshotsMatch' BY <2>1 DEF ConversationInv, SnapshotsMatch, Matches
  <2>4. RequestsAreSound'
    BY <2>1 DEF ConversationInv, RequestsAreSound, Sound, OfSaved, Clearing, Confirmed
  <2>5. TakenIsGone' /\ SeenIsUntaken' /\ ConfirmedIsTakenOnce'
    BY <2>1 DEF ConversationInv, TakenIsGone, SeenIsUntaken, ConfirmedIsTakenOnce, Confirmed
  <2>6. ConversationInv' BY <2>2, <2>3, <2>4, <2>5 DEF ConversationInv
  <2>7. Keeps BY <2>1, SameContentKeeps
  <2> QED BY <2>6, <2>7
<1> QED
  BY <1>1, <1>2, <1>3, <1>4, <1>5, <1>6, <1>7, <1>8, <1>9, <1>10, <1>11, <1>12
     DEF ConversationNext

-----------------------------------------------------------------------------
(* Theorems *)

\* The invariant holds in every reachable state.
THEOREM ConversationInvariance ==
  ASSUME ConversationAssumption PROVE ConversationSpec => []ConversationInv
<1>1. ConversationInit => ConversationInv BY InitConversation
<1>2. ConversationInv /\ [ConversationNext]_conversationVars => ConversationInv'
  BY ConversationStep
<1> QED BY <1>1, <1>2, PTL DEF ConversationSpec

\* The row and the requests are well formed.
THEOREM ConversationTypeCorrect ==
  ASSUME ConversationAssumption PROVE ConversationSpec => []ConversationType
<1>1. ConversationInv => ConversationType BY DEF ConversationInv
<1> QED BY <1>1, ConversationInvariance, PTL

\* Until a row is overwritten from what was read of an earlier one, a confirmed intent is
\* continued by one request of an instance only, whatever the other instances do.
THEOREM ConfirmedOnce ==
  ASSUME ConversationAssumption PROVE ConversationSpec => []ConfirmedIsTakenOnce
<1>1. ConversationInv => ConfirmedIsTakenOnce BY DEF ConversationInv
<1> QED BY <1>1, ConversationInvariance, PTL

\* Answered turns leave their conversation oldest first, and never those that fill the
\* window, unless a request outlived the row it read.
THEOREM TurnsKept ==
  ASSUME ConversationAssumption PROVE ConversationSpec => TurnsAreKept
<1>1. ConversationInv /\ [ConversationNext]_conversationVars => [KeepsTurns]_conversationVars
  BY ConversationStep DEF Keeps
<1>2. TurnsAreKept <=> [][KeepsTurns]_conversationVars BY DEF TurnsAreKept, KeepsTurns
<1> QED BY <1>1, <1>2, ConversationInvariance, PTL DEF ConversationSpec

\* A pending turn is dropped or replaced only by a request that found it there when it last
\* read the row, to clear it or to ask, or by one that outlived its row.
THEOREM PendingKept ==
  ASSUME ConversationAssumption PROVE ConversationSpec => PendingIsTakenUp
<1>1. ConversationInv /\ [ConversationNext]_conversationVars => [KeepsPending]_conversationVars
  BY ConversationStep DEF Keeps
<1>2. PendingIsTakenUp <=> [][KeepsPending]_conversationVars
  BY DEF PendingIsTakenUp, KeepsPending
<1> QED BY <1>1, <1>2, ConversationInvariance, PTL DEF ConversationSpec

\* A pending turn that appears in the row was asked just now, or a request wrote what it had
\* read of an earlier row.
THEOREM ClearedStays ==
  ASSUME ConversationAssumption PROVE ConversationSpec => ClearedStaysCleared
<1>1. ConversationInv /\ [ConversationNext]_conversationVars => [KeepsCleared]_conversationVars
  BY ConversationStep DEF Keeps
<1>2. ClearedStaysCleared <=> [][KeepsCleared]_conversationVars
  BY DEF ClearedStaysCleared, KeepsCleared
<1> QED BY <1>1, <1>2, ConversationInvariance, PTL DEF ConversationSpec

-------------------------------------------------------------------------------
(* DispatchTools *)

Entries == [trace : Traces, calls : Nat]

\* A trace has one entry at most.
OneEach(table) ==
    \A i, j \in DOMAIN table : table[i].trace = table[j].trace => i = j

\* A trace has made no more attempts than its table entry says, or than its budget when the
\* entry counts refused ones too, besides a budget for each entry that was dropped.
AttemptsCounted ==
    \A t \in Traces :
        /\ attempted[t] <= MaxToolCalls * forgotten[t] + MaxToolCalls
        /\ attempted[t] <= MaxToolCalls * forgotten[t] + CallsOf(counts, t)

\* The count that opens a circuit is that of the failures since the last success.
FailuresCounted == \A tool \in Tools : failures[tool] <= Cardinality(InARow(tool))

ToolsInv == /\ ToolsType
        /\ OneEach(counts)
        /\ AttemptsCounted
        /\ FailuresCounted

-----------------------------------------------------------------------------
(* Lemmas about the table of counts *)

\* The count of a trace is that of its entry.
LEMMA CallsOfEntry ==
  ASSUME NEW table \in Seq(Entries), OneEach(table), NEW i \in DOMAIN table
  PROVE  CallsOf(table, table[i].trace) = table[i].calls
<1> DEFINE k == CHOOSE j \in DOMAIN table : table[j].trace = table[i].trace
<1>1. k \in DOMAIN table /\ table[k].trace = table[i].trace OBVIOUS
<1>2. k = i BY <1>1 DEF OneEach
<1>3. table[i].trace \in Tracked(table) BY DEF Tracked
<1> QED BY <1>2, <1>3 DEF CallsOf

\* Who has no entry has no count.
LEMMA CallsOfNone ==
  ASSUME NEW table, NEW t, t \notin Tracked(table)
  PROVE  CallsOf(table, t) = 0
BY DEF CallsOf

\* Counts are numbers.
LEMMA CallsOfType ==
  ASSUME NEW table \in Seq(Entries), OneEach(table), NEW t
  PROVE  CallsOf(table, t) \in Nat
<1>1. CASE t \in Tracked(table)
  <2>1. PICK i \in DOMAIN table : table[i].trace = t BY <1>1 DEF Tracked
  <2>2. table[i] \in Entries BY <2>1
  <2>3. table[i].calls \in Nat BY <2>2 DEF Entries
  <2> QED BY <2>1, <2>3, CallsOfEntry
<1>2. CASE t \notin Tracked(table) BY <1>2, CallsOfNone
<1> QED BY <1>1, <1>2

\* Making room drops the oldest entry or none, and moves the others up.
LEMMA RoomKeeps ==
  ASSUME MaxTracesAssumption, NEW table \in Seq(Entries), OneEach(table), NEW trace \in Traces
  PROVE  /\ Room(table, trace) \in Seq(Entries)
         /\ OneEach(Room(table, trace))
         /\ Tracked(Room(table, trace)) \subseteq Tracked(table)
         /\ \A t \in Tracked(Room(table, trace)) :
               CallsOf(Room(table, trace), t) = CallsOf(table, t)
<1> DEFINE left == Room(table, trace)
<1>1. CASE left = table BY <1>1
<1>2. CASE left # table
  <2>1. left = Tail(table) /\ Len(table) >= MaxTraces /\ table # <<>>
    BY <1>2 DEF Room, MaxTracesAssumption
  <2>2. /\ left \in Seq(Entries) /\ Len(left) = Len(table) - 1
        /\ \A i \in DOMAIN left : i + 1 \in DOMAIN table /\ left[i] = table[i + 1]
    BY <2>1
  <2> HIDE DEF left
  <2>3. OneEach(left)
    <3> SUFFICES ASSUME NEW i \in DOMAIN left, NEW j \in DOMAIN left,
                        left[i].trace = left[j].trace
                 PROVE  i = j
      BY DEF OneEach
    <3>1. i + 1 = j + 1 BY <2>2 DEF OneEach
    <3> QED BY <2>2, <3>1
  <2>4. Tracked(left) \subseteq Tracked(table) BY <2>2 DEF Tracked
  <2>5. ASSUME NEW t \in Tracked(left) PROVE CallsOf(left, t) = CallsOf(table, t)
    <3>1. PICK i \in DOMAIN left : left[i].trace = t BY <2>5 DEF Tracked
    <3>2. i + 1 \in DOMAIN table /\ left[i] = table[i + 1] BY <2>2, <3>1
    <3>3. CallsOf(left, t) = left[i].calls BY <2>2, <2>3, <3>1, CallsOfEntry
    <3>4. CallsOf(table, t) = table[i + 1].calls BY <3>1, <3>2, CallsOfEntry
    <3> QED BY <3>2, <3>3, <3>4
  <2> QED BY <2>2, <2>3, <2>4, <2>5 DEF left
<1> QED BY <1>1, <1>2

\* Counting adds one to a trace's count, which starts from 0 with a new entry; the others
\* keep theirs or are forgotten.
LEMMA CountedAddsOne ==
  ASSUME MaxTracesAssumption, NEW table \in Seq(Entries), OneEach(table), NEW trace \in Traces
  PROVE  /\ Counted(table, trace) \in Seq(Entries)
         /\ OneEach(Counted(table, trace))
         /\ CallsOf(Counted(table, trace), trace) = CallsOf(table, trace) + 1
         /\ trace \notin Forgotten(table, trace)
         /\ \A t \in Traces \ {trace} :
               IF t \in Forgotten(table, trace)
               THEN CallsOf(Counted(table, trace), t) = 0
               ELSE CallsOf(Counted(table, trace), t) = CallsOf(table, t)
<1> DEFINE next == Counted(table, trace)
<1>1. CASE trace \in Tracked(table)
  <2>1. next = [i \in DOMAIN table |->
                   IF table[i].trace = trace THEN [table[i] EXCEPT !.calls = @ + 1] ELSE table[i]]
    BY <1>1 DEF Counted
  <2>2. \A i \in DOMAIN table : table[i] \in Entries OBVIOUS
  <2>3. \A i \in DOMAIN table :
            [table[i] EXCEPT !.calls = @ + 1] \in Entries
            /\ [table[i] EXCEPT !.calls = @ + 1].trace = table[i].trace
            /\ [table[i] EXCEPT !.calls = @ + 1].calls = table[i].calls + 1
    BY <2>2 DEF Entries
  <2>4. /\ DOMAIN next = DOMAIN table
        /\ \A i \in DOMAIN table :
              /\ next[i] \in Entries
              /\ next[i].trace = table[i].trace
              /\ next[i].calls = IF table[i].trace = trace THEN table[i].calls + 1
                                                           ELSE table[i].calls
    BY <2>1, <2>2, <2>3
  <2>5. next \in Seq(Entries)
    <3>1. DOMAIN next = 1 .. Len(table) /\ Len(table) \in Nat BY <2>4
    <3>2. next \in [1 .. Len(table) -> Entries] BY <2>1, <2>4, <3>1
    <3> QED BY <3>1, <3>2
  <2> HIDE DEF next
  <2>6. OneEach(next) BY <2>4 DEF OneEach
  <2>7. Tracked(next) = Tracked(table) BY <2>4 DEF Tracked
  <2>8. ASSUME NEW t \in Tracked(table)
        PROVE  CallsOf(next, t) = IF t = trace THEN CallsOf(table, t) + 1 ELSE CallsOf(table, t)
    <3>1. PICK i \in DOMAIN table : table[i].trace = t BY <2>8 DEF Tracked
    <3>2. CallsOf(table, t) = table[i].calls BY <3>1, CallsOfEntry
    <3>3. CallsOf(next, t) = next[i].calls BY <2>4, <2>5, <2>6, <3>1, CallsOfEntry
    <3> QED BY <2>4, <3>1, <3>2, <3>3
  <2>9. Forgotten(table, trace) = {} BY <1>1 DEF Forgotten, Room
  <2>10. \A t \in Traces \ Tracked(table) : CallsOf(next, t) = CallsOf(table, t)
    BY <2>7, CallsOfNone
  <2> QED BY <1>1, <2>5, <2>6, <2>8, <2>9, <2>10 DEF next
<1>2. CASE trace \notin Tracked(table)
  <2> DEFINE left == Room(table, trace)
             entry == [trace |-> trace, calls |-> 1]
  <2>1. next = Append(left, entry) BY <1>2 DEF Counted
  <2>2. /\ left \in Seq(Entries) /\ OneEach(left) /\ Tracked(left) \subseteq Tracked(table)
        /\ \A t \in Tracked(left) : CallsOf(left, t) = CallsOf(table, t)
    BY RoomKeeps
  <2>3. Forgotten(table, trace) = Tracked(table) \ Tracked(left) BY DEF Forgotten
  <2>4. entry \in Entries /\ entry.trace = trace /\ entry.calls = 1 BY DEF Entries
  <2> HIDE DEF left, entry
  <2>5. /\ next \in Seq(Entries)
        /\ DOMAIN next = DOMAIN left \cup {Len(left) + 1}
        /\ next[Len(left) + 1] = entry
        /\ \A i \in DOMAIN left : next[i] = left[i]
    BY <2>1, <2>2, <2>4
  <2> HIDE DEF next
  <2>6. \A i \in DOMAIN left : left[i].trace # trace BY <1>2, <2>2 DEF Tracked
  <2>7. OneEach(next) BY <2>2, <2>4, <2>5, <2>6 DEF OneEach
  <2>8. Tracked(next) = Tracked(left) \cup {trace}
    BY <2>4, <2>5 DEF Tracked
  <2>9. CallsOf(next, trace) = 1
    <3>1. Len(left) + 1 \in DOMAIN next /\ next[Len(left) + 1].trace = trace BY <2>4, <2>5
    <3> QED BY <2>4, <2>5, <2>7, <3>1, CallsOfEntry
  <2>10. CallsOf(table, trace) = 0 BY <1>2, CallsOfNone
  <2>11. ASSUME NEW t \in Traces \ {trace}
         PROVE  IF t \in Forgotten(table, trace) THEN CallsOf(next, t) = 0
                ELSE CallsOf(next, t) = CallsOf(table, t)
    <3>1. CASE t \in Tracked(left)
      <4>1. PICK i \in DOMAIN left : left[i].trace = t BY <3>1 DEF Tracked
      <4>2. CallsOf(left, t) = left[i].calls BY <2>2, <4>1, CallsOfEntry
      <4>3. CallsOf(next, t) = next[i].calls BY <2>5, <2>7, <4>1, CallsOfEntry
      <4> QED BY <2>2, <2>3, <2>5, <3>1, <4>1, <4>2, <4>3
    <3>2. CASE t \notin Tracked(left)
      <4>1. CallsOf(next, t) = 0 BY <2>8, <2>11, <3>2, CallsOfNone
      <4>2. t \notin Tracked(table) => CallsOf(table, t) = 0 BY CallsOfNone
      <4> QED BY <2>3, <3>2, <4>1, <4>2
    <3> QED BY <3>1, <3>2
  <2> QED BY <1>2, <2>2, <2>3, <2>5, <2>7, <2>9, <2>10, <2>11 DEF next
<1> QED BY <1>1, <1>2

-----------------------------------------------------------------------------
(* Lemmas about the failures in a row *)

\* Only finitely many attempts have ended.
LEMMA InARowIsFinite ==
  ASSUME ToolsType, NEW tool \in Tools
  PROVE  /\ IsFiniteSet(InARow(tool))
         /\ Cardinality(InARow(tool)) \in Nat
<1>1. ended[tool] \in Seq({"success", "failure", "raised"}) BY DEF ToolsType
<1>2. InARow(tool) \subseteq 1 .. Len(ended[tool]) BY <1>1 DEF InARow
<1>3. IsFiniteSet(1 .. Len(ended[tool])) BY <1>1, FS_Interval
<1>4. IsFiniteSet(InARow(tool)) BY <1>2, <1>3, FS_Subset
<1> QED BY <1>4, FS_CardinalityType

\* Nor any more after a step.
LEMMA InARowStaysFinite ==
  ASSUME NEW tool, ended'[tool] \in Seq({"success", "failure", "raised"})
  PROVE  Cardinality(InARow(tool)') \in Nat
<1>1. InARow(tool)' \subseteq 1 .. Len(ended'[tool]) BY DEF InARow
<1>2. IsFiniteSet(1 .. Len(ended'[tool])) BY FS_Interval
<1> QED BY <1>1, <1>2, FS_Subset, FS_CardinalityType

\* An end that is no success keeps the failures in a row, and a failure is one more.
LEMMA OneMoreEnd ==
  ASSUME ToolsType, NEW tool \in Tools, NEW how \in {"failure", "raised"},
         ended' = [ended EXCEPT ![tool] = Append(@, how)]
  PROVE  /\ how = "raised" => InARow(tool)' = InARow(tool)
         /\ how = "failure" => Cardinality(InARow(tool)') = Cardinality(InARow(tool)) + 1
<1> DEFINE n == Len(ended[tool])
<1>1. ended[tool] \in Seq({"success", "failure", "raised"}) /\ n \in Nat BY DEF ToolsType
<1>2. ended'[tool] = Append(ended[tool], how) BY DEF ToolsType
<1>3. /\ Len(ended'[tool]) = n + 1
      /\ DOMAIN ended[tool] = 1 .. n
      /\ DOMAIN ended'[tool] = 1 .. n + 1
      /\ ended'[tool][n + 1] = how
      /\ \A i \in 1 .. n : ended'[tool][i] = ended[tool][i]
  BY <1>1, <1>2
<1> HIDE DEF n
<1>4. \A i \in 1 .. n : i \in InARow(tool)' <=> i \in InARow(tool)
  <2> SUFFICES ASSUME NEW i \in 1 .. n
               PROVE  (\A j \in i .. n + 1 : ended'[tool][j] # "success")
                         <=> (\A j \in i .. n : ended[tool][j] # "success")
    BY <1>1, <1>3 DEF InARow, n
  <2>1. \A j \in i .. n : j \in 1 .. n /\ j \in i .. n + 1 BY <1>1
  <2>2. \A j \in i .. n + 1 : j \in i .. n \/ j = n + 1 BY <1>1
  <2> QED BY <1>3, <2>1, <2>2
<1>5. n + 1 \in InARow(tool)' <=> how = "failure"
  <2>1. \A j \in n + 1 .. n + 1 : j = n + 1 BY <1>1
  <2> QED BY <1>1, <1>3, <2>1 DEF InARow
<1>6. n + 1 \notin InARow(tool) BY <1>1, <1>3 DEF InARow
<1>7. InARow(tool) \subseteq 1 .. n /\ InARow(tool)' \subseteq 1 .. n + 1
  BY <1>3 DEF InARow
<1>8. \A i \in 1 .. n + 1 : i \in 1 .. n \/ i = n + 1 BY <1>1
<1>9. CASE how = "raised"
  <2>1. InARow(tool)' = InARow(tool) BY <1>4, <1>5, <1>6, <1>7, <1>8, <1>9
  <2> QED BY <1>9, <2>1
<1>10. CASE how = "failure"
  <2>1. InARow(tool)' = InARow(tool) \cup {n + 1}
    BY <1>4, <1>5, <1>7, <1>8, <1>10
  <2> QED BY <1>6, <1>10, <2>1, InARowIsFinite, FS_AddElement
<1> QED BY <1>9, <1>10

\* Other tools' attempts do not matter.
LEMMA OtherTools ==
  ASSUME NEW tool, ended'[tool] = ended[tool]
  PROVE  InARow(tool)' = InARow(tool)
BY DEF InARow

-----------------------------------------------------------------------------
(* What each step does *)

\* A refusal is one of the ways a call can end.
LEMMA RefusedType ==
  /\ \A why \in {"contract", "permission", "circuit", "deadline", "budget"} :
        Refused(why) \in CallStates /\ Refused(why).at = "refused"
  /\ Idle \in CallStates /\ Idle.at = "idle"
  /\ Done \in CallStates /\ Done.at = "done"
BY DEF Refused, Idle, Done, CallStates

\* An attempt is counted, and let through only within the budget; it is of its own tool.
LEMMA AttemptCounts ==
  ASSUME ToolsAssumption, MaxTracesAssumption, ToolsInv,
         NEW c \in Calls, NEW tool \in Tools, NEW trace \in Traces, NEW n \in 1 .. MaxAttempts,
         Attempt(c, tool, trace, n)
  PROVE  /\ counts' \in Seq(Entries) /\ OneEach(counts')
         /\ attempted' \in [Traces -> Nat] /\ forgotten' \in [Traces -> Nat]
         /\ AttemptsCounted'
         /\ \E q \in CallStates :
               /\ call' = [call EXCEPT ![c] = q]
               /\ q.at \in {"refused", "waiting"}
               /\ q.at = "waiting" => q.tool = tool
<1>1. /\ counts \in Seq(Entries) /\ OneEach(counts)
      /\ attempted \in [Traces -> Nat] /\ forgotten \in [Traces -> Nat]
      /\ MaxToolCalls \in Nat
  BY DEF ToolsInv, ToolsType, Entries, ToolsAssumption
<1>2. CASE trace \in late
  <2>1. /\ call' = [call EXCEPT ![c] = Refused("deadline")]
        /\ UNCHANGED <<counts, attempted, forgotten>>
    BY <1>2 DEF Attempt
  <2>2. AttemptsCounted' BY <2>1 DEF ToolsInv, AttemptsCounted
  <2> QED BY <1>1, <2>1, <2>2, RefusedType
<1>3. CASE trace \notin late
  <2> DEFINE next == Counted(counts, trace)
             within == CallsOf(next, trace) <= MaxToolCalls
             q == IF within
                  THEN [at |-> "waiting", tool |-> tool, trace |-> trace, attempt |-> n]
                  ELSE Refused("budget")
  <2>1. /\ counts' = next
        /\ forgotten' = [t \in Traces |->
               IF t \in Forgotten(counts, trace) THEN forgotten[t] + 1 ELSE forgotten[t]]
        /\ attempted' = IF within THEN [attempted EXCEPT ![trace] = @ + 1] ELSE attempted
        /\ call' = [call EXCEPT ![c] = q]
    BY <1>3 DEF Attempt
  <2>2. /\ q \in CallStates /\ q.at \in {"refused", "waiting"}
        /\ q.at = "waiting" => q.tool = tool
    BY RefusedType DEF CallStates
  <2>3. /\ next \in Seq(Entries) /\ OneEach(next)
        /\ CallsOf(next, trace) = CallsOf(counts, trace) + 1
        /\ trace \notin Forgotten(counts, trace)
        /\ \A t \in Traces \ {trace} :
              IF t \in Forgotten(counts, trace) THEN CallsOf(next, t) = 0
              ELSE CallsOf(next, t) = CallsOf(counts, t)
    BY <1>1, CountedAddsOne
  <2> HIDE DEF next, within, q
  <2>4. attempted' \in [Traces -> Nat] /\ forgotten' \in [Traces -> Nat] BY <1>1, <2>1
  <2>5. AttemptsCounted'
    <3> SUFFICES ASSUME NEW t \in Traces
                 PROVE  /\ attempted'[t] <= MaxToolCalls * forgotten'[t] + MaxToolCalls
                        /\ attempted'[t] <= MaxToolCalls * forgotten'[t] + CallsOf(counts', t)
      BY DEF AttemptsCounted
    <3> DEFINE spent == MaxToolCalls * forgotten[t]
    <3>1. /\ attempted[t] \in Nat /\ forgotten[t] \in Nat /\ CallsOf(counts, t) \in Nat
          /\ spent \in Nat
      BY <1>1, CallsOfType
    <3>2. /\ attempted[t] <= spent + MaxToolCalls
          /\ attempted[t] <= spent + CallsOf(counts, t)
      BY DEF ToolsInv, AttemptsCounted
    <3>3. MaxToolCalls * (forgotten[t] + 1) = spent + MaxToolCalls BY <1>1, <3>1
    <3> HIDE DEF spent
    <3>4. CASE t = trace
      <4>1. forgotten'[t] = forgotten[t] BY <2>1, <2>3, <3>4
      <4>2. MaxToolCalls * forgotten'[t] = spent BY <4>1 DEF spent
      <4>3. attempted'[t] = IF within THEN attempted[t] + 1 ELSE attempted[t]
        BY <1>1, <2>1, <3>4
      <4>4. CallsOf(counts', t) = CallsOf(counts, t) + 1 BY <2>1, <2>3, <3>4
      <4>5. within => CallsOf(counts, t) + 1 <= MaxToolCalls BY <2>3, <3>4 DEF within
      <4>6. CASE within BY <1>1, <3>1, <3>2, <4>3, <4>4, <4>5, <4>2, <4>6
      <4>7. CASE ~within BY <1>1, <3>1, <3>2, <4>3, <4>4, <4>2, <4>7
      <4> QED BY <4>6, <4>7
    <3>5. CASE t # trace /\ t \in Forgotten(counts, trace)
      <4>1. /\ forgotten'[t] = forgotten[t] + 1 /\ attempted'[t] = attempted[t]
            /\ CallsOf(counts', t) = 0
        BY <1>1, <2>1, <2>3, <3>5
      <4> QED BY <1>1, <3>1, <3>2, <3>3, <4>1
    <3>6. CASE t # trace /\ t \notin Forgotten(counts, trace)
      <4>1. /\ forgotten'[t] = forgotten[t] /\ attempted'[t] = attempted[t]
            /\ CallsOf(counts', t) = CallsOf(counts, t)
        BY <1>1, <2>1, <2>3, <3>6
      <4> QED BY <3>2, <4>1 DEF spent
    <3> QED BY <3>4, <3>5, <3>6
  <2> QED BY <2>1, <2>2, <2>3, <2>4, <2>5
<1> QED BY <1>2, <1>3

\* What CircuitIsOneWay says of a step, for one tool.
OneWay(tool) ==
    /\ Stuck(tool) => Stuck(tool)'
    /\ ~CircuitOpen(tool) /\ CircuitOpen(tool)' => Cardinality(InARow(tool)') >= CircuitThreshold

\* A circuit that is stuck stays so when no attempt is made for it and its count stays.
LEMMA StaysStuck ==
  ASSUME ToolsType, NEW tool \in Tools, NEW c \in Calls, NEW q \in CallStates,
         call' = [call EXCEPT ![c] = q], failures'[tool] = failures[tool],
         q.at = "waiting" => q.tool # tool \/ ~Stuck(tool)
  PROVE  OneWay(tool)
<1>1. /\ call'[c] = q
      /\ \A d \in Calls \ {c} : call'[d] = call[d]
  BY DEF ToolsType
<1>2. CircuitOpen(tool)' <=> CircuitOpen(tool) BY DEF CircuitOpen
<1> QED BY <1>1, <1>2 DEF OneWay, Stuck, Waiting

\* A call is refused or makes its first attempt.
LEMMA InvokeStep ==
  ASSUME ToolsAssumption, MaxTracesAssumption, ToolsInv,
         NEW c \in Calls, NEW tool \in Tools, NEW trace \in Traces, Invoke(c, tool, trace)
  PROVE  ToolsInv' /\ \A other \in Tools : OneWay(other)
<1>1. UNCHANGED <<failures, late, ended>> BY DEF Invoke
<1>2. PICK why \in {"contract", "permission", "circuit"} :
          IF why = "circuit" /\ ~CircuitOpen(tool)
          THEN Attempt(c, tool, trace, 1)
          ELSE /\ call' = [call EXCEPT ![c] = Refused(why)]
               /\ UNCHANGED <<counts, attempted, forgotten>>
  BY DEF Invoke
<1>3. 1 \in 1 .. MaxAttempts BY DEF ToolsAssumption
<1>4. /\ counts' \in Seq(Entries) /\ OneEach(counts')
      /\ attempted' \in [Traces -> Nat] /\ forgotten' \in [Traces -> Nat]
      /\ AttemptsCounted'
      /\ \E q \in CallStates :
            /\ call' = [call EXCEPT ![c] = q]
            /\ q.at \in {"refused", "waiting"}
            /\ q.at = "waiting" => q.tool = tool /\ ~CircuitOpen(tool)
  <2>1. CASE why = "circuit" /\ ~CircuitOpen(tool)
    BY <1>2, <1>3, <2>1, AttemptCounts
  <2>2. CASE ~(why = "circuit" /\ ~CircuitOpen(tool))
    <3>1. /\ call' = [call EXCEPT ![c] = Refused(why)]
          /\ UNCHANGED <<counts, attempted, forgotten>>
      BY <1>2, <2>2
    <3>2. Refused(why) \in CallStates /\ Refused(why).at = "refused" BY RefusedType
    <3> QED BY <3>1, <3>2 DEF ToolsInv, ToolsType, Entries, AttemptsCounted
  <2> QED BY <2>1, <2>2
<1>5. PICK q \in CallStates :
          /\ call' = [call EXCEPT ![c] = q]
          /\ q.at \in {"refused", "waiting"}
          /\ q.at = "waiting" => q.tool = tool /\ ~CircuitOpen(tool)
  BY <1>4
<1>6. ToolsType' BY <1>1, <1>4, <1>5 DEF ToolsInv, ToolsType, Entries
<1>7. FailuresCounted' BY <1>1, OtherTools DEF ToolsInv, FailuresCounted
<1>8. ASSUME NEW other \in Tools PROVE OneWay(other)
  <2>1. q.at = "waiting" => q.tool # other \/ ~Stuck(other) BY <1>5 DEF Stuck
  <2> QED BY <1>1, <1>5, <2>1, StaysStuck DEF ToolsInv
<1> QED BY <1>4, <1>6, <1>7, <1>8 DEF ToolsInv

\* Who waits does so for one of the tools.
LEMMA WaitingFor ==
  ASSUME ToolsType, NEW c \in Calls, Waiting(c)
  PROVE  /\ call[c].tool \in Tools /\ call[c].trace \in Traces
         /\ call[c].attempt \in 1 .. MaxAttempts
<1>1. call[c] \in CallStates BY DEF ToolsType
<1> QED BY <1>1 DEF Waiting, CallStates

\* An answer closes the circuit, an exception leaves it as it is.
LEMMA AnswerStep ==
  ASSUME ToolsAssumption, ToolsInv, NEW c \in Calls, Succeed(c) \/ Raise(c)
  PROVE  ToolsInv' /\ \A other \in Tools : OneWay(other)
<1>0. Waiting(c) BY DEF Succeed, Raise
<1>01. PICK tool \in Tools : tool = call[c].tool BY <1>0, WaitingFor DEF ToolsInv
<1>1. /\ call' = [call EXCEPT ![c] = Done]
      /\ UNCHANGED <<counts, late, attempted, forgotten>>
  BY DEF Succeed, Raise
<1>2. PICK how \in {"success", "raised"} :
          /\ ended' = [ended EXCEPT ![tool] = Append(@, how)]
          /\ how = "success" => failures' = [failures EXCEPT ![tool] = 0]
          /\ how = "raised" => failures' = failures
  BY <1>01 DEF Succeed, Raise
<1>3. ~Stuck(tool) BY <1>0, <1>01 DEF Stuck
<1>4. /\ failures' \in [Tools -> Nat]
      /\ failures'[tool] \in {failures[tool], 0}
      /\ \A other \in Tools \ {tool} : failures'[other] = failures[other]
  <2>1. failures \in [Tools -> Nat] BY DEF ToolsInv, ToolsType
  <2>2. CASE how = "success" BY <1>2, <2>1, <2>2
  <2>3. CASE how = "raised" BY <1>2, <2>1, <2>3
  <2> QED BY <2>2, <2>3
<1>5. /\ ended' \in [Tools -> Seq({"success", "failure", "raised"})]
      /\ \A other \in Tools \ {tool} : ended'[other] = ended[other]
  BY <1>2 DEF ToolsInv, ToolsType
<1>6. ToolsType' BY <1>1, <1>4, <1>5, RefusedType DEF ToolsInv, ToolsType
<1>7. FailuresCounted'
  <2> SUFFICES ASSUME NEW other \in Tools
               PROVE  failures'[other] <= Cardinality(InARow(other)')
    BY DEF FailuresCounted
  <2>1. CASE other # tool \/ how = "raised"
    <3>1. InARow(other)' = InARow(other)
      <4>1. CASE other # tool BY <1>5, <4>1, OtherTools
      <4>2. CASE other = tool /\ how = "raised"
        BY <1>2, <4>2, OneMoreEnd DEF ToolsInv
      <4> QED BY <2>1, <4>1, <4>2
    <3>2. failures'[other] = failures[other] BY <1>2, <1>4, <2>1
    <3> QED BY <3>1, <3>2 DEF ToolsInv, FailuresCounted
  <2>2. CASE other = tool /\ how = "success"
    <3>1. failures'[other] = 0 BY <1>2, <2>2 DEF ToolsInv, ToolsType
    <3>2. Cardinality(InARow(other)') \in Nat BY <1>5, InARowStaysFinite
    <3> QED BY <3>1, <3>2
  <2> QED BY <2>1, <2>2
<1>8. ASSUME NEW other \in Tools PROVE OneWay(other)
  <2>1. CASE other # tool
    BY <1>1, <1>4, <2>1, RefusedType, StaysStuck DEF ToolsInv
  <2>2. CASE other = tool
    <3>1. failures[tool] \in Nat /\ CircuitThreshold \in Nat \ {0}
      BY DEF ToolsInv, ToolsType, ToolsAssumption
    <3>2. CircuitOpen(tool)' => CircuitOpen(tool) BY <1>4, <3>1 DEF CircuitOpen
    <3> QED BY <1>3, <2>2, <3>2 DEF OneWay
  <2> QED BY <2>1, <2>2
<1>9. OneEach(counts') /\ AttemptsCounted' BY <1>1 DEF ToolsInv, AttemptsCounted
<1> QED BY <1>6, <1>7, <1>8, <1>9 DEF ToolsInv

\* A failure counts, and its call may try once more, whatever the circuit says.
LEMMA FailStep ==
  ASSUME ToolsAssumption, MaxTracesAssumption, ToolsInv, NEW c \in Calls, Fail(c)
  PROVE  ToolsInv' /\ \A other \in Tools : OneWay(other)
<1>1. Waiting(c) BY DEF Fail
<1>2. PICK tool \in Tools : tool = call[c].tool BY <1>1, WaitingFor DEF ToolsInv
<1>3. /\ failures' = [failures EXCEPT ![tool] = @ + 1]
      /\ ended' = [ended EXCEPT ![tool] = Append(@, "failure")]
      /\ late' = late
      /\ IF call[c].attempt = MaxAttempts
         THEN call' = [call EXCEPT ![c] = Done] /\ UNCHANGED <<counts, attempted, forgotten>>
         ELSE Attempt(c, tool, call[c].trace, call[c].attempt + 1)
  BY <1>2 DEF Fail
<1>4. /\ counts' \in Seq(Entries) /\ OneEach(counts')
      /\ attempted' \in [Traces -> Nat] /\ forgotten' \in [Traces -> Nat]
      /\ AttemptsCounted'
      /\ \E q \in CallStates :
            /\ call' = [call EXCEPT ![c] = q]
            /\ q.at = "waiting" => q.tool = tool
  <2>1. CASE call[c].attempt = MaxAttempts
    BY <1>3, <2>1, RefusedType DEF ToolsInv, ToolsType, Entries, AttemptsCounted
  <2>2. CASE call[c].attempt # MaxAttempts
    <3>1. call[c].trace \in Traces /\ call[c].attempt \in 1 .. MaxAttempts
      BY <1>1, WaitingFor DEF ToolsInv
    <3>2. call[c].attempt + 1 \in 1 .. MaxAttempts BY <2>2, <3>1 DEF ToolsAssumption
    <3>3. Attempt(c, tool, call[c].trace, call[c].attempt + 1) BY <1>3, <2>2
    <3> QED BY <3>1, <3>2, <3>3, AttemptCounts
  <2> QED BY <2>1, <2>2
<1>5. PICK q \in CallStates :
          /\ call' = [call EXCEPT ![c] = q]
          /\ q.at = "waiting" => q.tool = tool
  BY <1>4
<1>6. /\ failures' \in [Tools -> Nat]
      /\ failures[tool] \in Nat /\ failures'[tool] = failures[tool] + 1
      /\ \A other \in Tools \ {tool} : failures'[other] = failures[other]
  BY <1>3 DEF ToolsInv, ToolsType
<1>7. /\ ended' \in [Tools -> Seq({"success", "failure", "raised"})]
      /\ \A other \in Tools \ {tool} : ended'[other] = ended[other]
  BY <1>3 DEF ToolsInv, ToolsType
<1>8. ToolsType' BY <1>3, <1>4, <1>5, <1>6, <1>7 DEF ToolsInv, ToolsType, Entries
<1>9. failures[tool] + 1 <= Cardinality(InARow(tool)')
  <2>1. Cardinality(InARow(tool)') = Cardinality(InARow(tool)) + 1
    BY <1>3, OneMoreEnd DEF ToolsInv
  <2> QED BY <1>6, <2>1, InARowIsFinite DEF ToolsInv, FailuresCounted
<1>10. FailuresCounted'
  <2> SUFFICES ASSUME NEW other \in Tools
               PROVE  failures'[other] <= Cardinality(InARow(other)')
    BY DEF FailuresCounted
  <2>1. CASE other = tool BY <1>6, <1>9, <2>1
  <2>2. CASE other # tool
    <3>1. InARow(other)' = InARow(other) BY <1>7, <2>2, OtherTools
    <3> QED BY <1>6, <2>2, <3>1 DEF ToolsInv, FailuresCounted
  <2> QED BY <2>1, <2>2
<1>11. ASSUME NEW other \in Tools PROVE OneWay(other)
  <2>1. CASE other # tool BY <1>5, <1>6, <2>1, StaysStuck DEF ToolsInv
  <2>2. CASE other = tool
    <3>1. ~Stuck(tool) BY <1>1, <1>2 DEF Stuck
    <3>2. CircuitThreshold \in Nat /\ Cardinality(InARow(tool)') \in Nat
      BY <1>7, InARowStaysFinite DEF ToolsAssumption
    <3>3. CircuitOpen(tool)' => Cardinality(InARow(tool)') >= CircuitThreshold
      BY <1>6, <1>9, <3>2 DEF CircuitOpen
    <3> QED BY <2>2, <3>1, <3>3 DEF OneWay
  <2> QED BY <2>1, <2>2
<1> QED BY <1>4, <1>8, <1>10, <1>11 DEF ToolsInv

\* Deadlines and stuttering touch neither counts nor circuits.
LEMMA OtherCallStep ==
  ASSUME ToolsInv,
         \/ \E trace \in Traces : DeadlinePasses(trace) \/ Renew(trace)
         \/ UNCHANGED toolVars
  PROVE  ToolsInv' /\ \A other \in Tools : OneWay(other)
<1>1. UNCHANGED <<counts, failures, call, ended, attempted, forgotten>> /\ late' \subseteq Traces
  BY DEF DeadlinePasses, Renew, toolVars, ToolsInv, ToolsType
<1>2. ToolsType' BY <1>1 DEF ToolsInv, ToolsType
<1>3. OneEach(counts') /\ AttemptsCounted' BY <1>1 DEF ToolsInv, AttemptsCounted
<1>4. FailuresCounted' BY <1>1, OtherTools DEF ToolsInv, FailuresCounted
<1>5. \A other \in Tools : OneWay(other)
  BY <1>1 DEF OneWay, Stuck, CircuitOpen, Waiting
<1> QED BY <1>2, <1>3, <1>4, <1>5 DEF ToolsInv

\* At first nothing is counted.
LEMMA InitTools ==
  ASSUME ToolsAssumption, ToolsInit
  PROVE  ToolsInv
<1>1. ToolsType BY RefusedType DEF ToolsInit, ToolsType
<1>2. OneEach(counts) BY DEF ToolsInit, OneEach
<1>3. AttemptsCounted
  <2> SUFFICES ASSUME NEW t \in Traces
               PROVE  /\ attempted[t] <= MaxToolCalls * forgotten[t] + MaxToolCalls
                      /\ attempted[t] <= MaxToolCalls * forgotten[t] + CallsOf(counts, t)
    BY DEF AttemptsCounted
  <2>1. attempted[t] = 0 /\ forgotten[t] = 0 BY DEF ToolsInit
  <2>2. CallsOf(counts, t) = 0 BY CallsOfNone DEF ToolsInit, Tracked
  <2>3. MaxToolCalls \in Nat /\ MaxToolCalls * 0 = 0 BY DEF ToolsAssumption
  <2> QED BY <2>1, <2>2, <2>3
<1>4. FailuresCounted
  <2>1. \A tool \in Tools : failures[tool] = 0 BY DEF ToolsInit
  <2> QED BY <1>1, <2>1, InARowIsFinite DEF FailuresCounted
<1> QED BY <1>1, <1>2, <1>3, <1>4 DEF ToolsInv

\* Every step keeps the invariant, and no step closes a circuit that is stuck.
LEMMA ToolsStep ==
  ASSUME ToolsAssumption, MaxTracesAssumption, ToolsInv, [ToolsNext]_toolVars
  PROVE  ToolsInv' /\ \A tool \in Tools : OneWay(tool)
BY InvokeStep, AnswerStep, FailStep, OtherCallStep DEF ToolsNext

-----------------------------------------------------------------------------
(* Theorems *)

\* The invariant holds in every reachable state.
THEOREM ToolsInvariance ==
  ASSUME ToolsAssumption, MaxTracesAssumption PROVE ToolsSpec => []ToolsInv
<1>1. ToolsInit => ToolsInv BY InitTools
<1>2. ToolsInv /\ [ToolsNext]_toolVars => ToolsInv' BY ToolsStep
<1> QED BY <1>1, <1>2, PTL DEF ToolsSpec

\* The counts, circuits and calls are well formed.
THEOREM ToolsTypeCorrect ==
  ASSUME ToolsAssumption, MaxTracesAssumption PROVE ToolsSpec => []ToolsType
<1>1. ToolsInv => ToolsType BY DEF ToolsInv
<1> QED BY <1>1, ToolsInvariance, PTL

\* A trace makes no more attempts than its budget for each time it was tracked, over all
\* its calls, retries and renewed deadlines.
THEOREM BudgetKept ==
  ASSUME ToolsAssumption, MaxTracesAssumption PROVE ToolsSpec => []BudgetIsKept
<1>1. ToolsInv => BudgetIsKept
  <2> SUFFICES ASSUME ToolsInv, NEW t \in Traces
               PROVE  attempted[t] <= MaxToolCalls * (1 + forgotten[t])
    BY DEF BudgetIsKept
  <2>1. MaxToolCalls \in Nat /\ forgotten[t] \in Nat
    BY DEF ToolsAssumption, ToolsInv, ToolsType
  <2>2. MaxToolCalls * (1 + forgotten[t]) = MaxToolCalls * forgotten[t] + MaxToolCalls
    BY <2>1
  <2> QED BY <2>2 DEF ToolsInv, AttemptsCounted
<1> QED BY <1>1, ToolsInvariance, PTL

\* A circuit opens only on failures in a row, and stays open once its last attempt ended.
THEOREM CircuitsAreOneWay ==
  ASSUME ToolsAssumption, MaxTracesAssumption PROVE ToolsSpec => CircuitIsOneWay
<1>1. ToolsInv /\ [ToolsNext]_toolVars => [\A tool \in Tools : OneWay(tool)]_toolVars
  BY ToolsStep
<1>2. CircuitIsOneWay <=> [][\A tool \in Tools : OneWay(tool)]_toolVars
  BY DEF CircuitIsOneWay, OneWay
<1> QED BY <1>1, <1>2, ToolsInvariance, PTL DEF ToolsSpec

-------------------------------------------------------------------------------
(* DispatchKernel *)

\* A key has one content, and what is or was active is registered.
RegistryIsSound ==
    /\ \A s, u \in skills : s.key = u.key => s = u
    /\ active = None \/ Registered(active, skills)
    /\ stack \in Seq({s.key : s \in skills})

\* A saved decision is the one of its event, and what its own input comes to.
Accountable(d) == d = Decision(d.input) /\ d.input.skill \in skills
TableIsSound == \A e \in DOMAIN decisions : decisions[e].input.event = e /\ Accountable(decisions[e])

\* What a run holds rests on a registered skill; what it returned is saved.
RunIsSound(c) ==
    LET r == decider[c]
    IN /\ r.at = "frozen" => r.skill \in skills
       /\ r.at = "loaded" => r.input.skill \in skills
       /\ r.at = "made" => r.decision.input = r.input /\ Accountable(r.decision)
       /\ r.at = "returned" => /\ r.input.event \in DOMAIN decisions
                               /\ decisions[r.input.event] = r.decision
                               /\ r.decision.input = r.input

KernelInv ==
    /\ RegistryIsSound
    /\ DOMAIN decider = Deciders
    /\ TableIsSound
    /\ \A c \in Deciders : RunIsSound(c)

LEMMA DecisionHasItsInput == \A input : Decision(input).input = input
  BY DEF Decision, Built

LEMMA InitKernel == KernelInit => KernelInv
  BY DEF KernelInit, KernelInv, RegistryIsSound, Registered, TableIsSound, RunIsSound

\* More skills under other keys change nothing for those that were there.
LEMMA MoreSkills ==
  ASSUME KernelInv, skills \subseteq skills', UNCHANGED <<decisions, decider>>,
         RegistryIsSound'
  PROVE  KernelInv'
<1>1. TableIsSound'
  BY DEF KernelInv, TableIsSound, Accountable
<1>2. \A c \in Deciders : RunIsSound(c)'
  BY DEF KernelInv, RunIsSound, Accountable
<1> QED BY <1>1, <1>2 DEF KernelInv

LEMMA RegistryStep ==
  ASSUME KernelInv, (\E s \in Manifests : Register(s)) \/ (\E s \in skills : Activate(s.key))
                    \/ Rollback \/ Boot
  PROVE  KernelInv'
<1>1. ASSUME NEW s \in Manifests, Register(s) PROVE KernelInv'
  <2>1. skills \subseteq skills' /\ UNCHANGED <<active, stack, decisions, decider>>
    BY <1>1 DEF Register
  <2>2. \A t, u \in skills' : t.key = u.key => t = u
    BY <1>1 DEF Register, Registered, KernelInv, RegistryIsSound
  <2>3. (active = None \/ Registered(active, skills))'
    BY <2>1 DEF KernelInv, RegistryIsSound, Registered
  <2>4. stack' \in Seq({t.key : t \in skills'})
    <3>1. {t.key : t \in skills} \subseteq {t.key : t \in skills'}
      BY <2>1
    <3> QED BY <2>1, <3>1 DEF KernelInv, RegistryIsSound
  <2> QED BY <2>1, <2>2, <2>3, <2>4, MoreSkills DEF RegistryIsSound
<1>2. ASSUME NEW s \in skills, Activate(s.key) PROVE KernelInv'
  <2>1. UNCHANGED <<skills, decisions, decider>> /\ active' = s.key
        /\ stack' = Append(stack, s.key)
    BY <1>2 DEF Activate, Activated
  <2>2. Registered(active', skills')
    BY <2>1 DEF Registered
  <2>3. stack' \in Seq({t.key : t \in skills'})
    <3> DEFINE keys == {t.key : t \in skills}
    <3>1. s.key \in keys /\ stack \in Seq(keys)
      BY DEF KernelInv, RegistryIsSound
    <3>2. stack' \in Seq(keys)
      <4> HIDE DEF keys
      <4> QED BY <2>1, <3>1
    <3> QED BY <2>1, <3>2
  <2> QED BY <2>1, <2>2, <2>3, MoreSkills DEF KernelInv, RegistryIsSound
<1>3. CASE Rollback
  <2> DEFINE keys == {t.key : t \in skills}
  <2>1. UNCHANGED <<skills, decisions, decider>> /\ stack' = Front(stack)
        /\ active' = Last(Front(stack)) /\ Len(stack) >= 2
    BY <1>3 DEF Rollback
  <2>2. stack \in Seq(keys)
    BY DEF KernelInv, RegistryIsSound
  <2>3. stack' \in Seq(keys) /\ active' \in keys
    <3> HIDE DEF keys
    <3>1. stack' = SubSeq(stack, 1, Len(stack) - 1) /\ active' = stack'[Len(stack')]
      BY <2>1 DEF Front, Last
    <3>2. stack' \in Seq(keys) /\ Len(stack') = Len(stack) - 1 /\ Len(stack') >= 1
      BY <2>1, <2>2, <3>1
    <3> QED BY <3>1, <3>2
  <2>4. Registered(active', skills')
    BY <2>1, <2>3 DEF Registered
  <2> QED BY <2>1, <2>3, <2>4, MoreSkills DEF KernelInv, RegistryIsSound
<1>4. CASE Boot
  <2>1. skills' = skills \cup Builtin /\ UNCHANGED <<decisions, decider>>
        /\ Loadable(Builtin) /\ Registered(Default, skills') /\ Activated(Default)
        /\ \A b \in Builtin : Registered(b.key, skills) => b \in skills
    BY <1>4 DEF Boot
  <2>2. \A t, u \in skills' : t.key = u.key => t = u
    BY <2>1 DEF Loadable, Registered, KernelInv, RegistryIsSound
  <2>3. Registered(active', skills')
    BY <2>1 DEF Activated
  <2>4. stack' \in Seq({t.key : t \in skills'})
    <3> DEFINE keys == {t.key : t \in skills'}
    <3>1. {t.key : t \in skills} \subseteq keys
      BY <2>1
    <3>2. stack \in Seq(keys)
      <4> HIDE DEF keys
      <4> QED BY <3>1 DEF KernelInv, RegistryIsSound
    <3>3. Default \in keys
      BY <2>1 DEF Registered
    <3>4. stack' = stack \/ stack' = Append(stack, Default)
      BY <2>1 DEF Activated
    <3> HIDE DEF keys
    <3>5. stack' \in Seq(keys)
      BY <3>2, <3>3, <3>4
    <3> QED BY <3>5 DEF keys
  <2> QED BY <2>1, <2>2, <2>3, <2>4, MoreSkills DEF RegistryIsSound
<1> QED BY <1>1, <1>2, <1>3, <1>4

\* A run that goes on disturbs no other one, as long as saved decisions stay.
LEMMA OneRunGoes ==
  ASSUME KernelInv, NEW c \in Deciders, NEW r, Goes(c, r), UNCHANGED registryVars,
         TableIsSound',
         \A e \in DOMAIN decisions : e \in DOMAIN decisions' /\ decisions'[e] = decisions[e],
         RunIsSound(c)'
  PROVE  KernelInv'
<1>1. RegistryIsSound'
  BY DEF KernelInv, RegistryIsSound, registryVars
<1>2. DOMAIN decider' = Deciders
  BY DEF KernelInv, Goes
<1>3. ASSUME NEW d \in Deciders, d # c PROVE RunIsSound(d)'
  <2>1. decider'[d] = decider[d] /\ skills' = skills
    BY <1>3 DEF KernelInv, Goes, registryVars
  <2> QED BY <2>1 DEF KernelInv, RunIsSound, Accountable
<1> QED BY <1>1, <1>2, <1>3 DEF KernelInv

LEMMA TableStays ==
  ASSUME KernelInv, UNCHANGED <<registryVars, decisions>>
  PROVE  TableIsSound'
  BY DEF KernelInv, TableIsSound, Accountable, registryVars

LEMMA FreezeStep ==
  ASSUME KernelInv, NEW c \in Deciders, NEW e \in Events, Freeze(c, e)
  PROVE  KernelInv'
<1> DEFINE r == [at |-> "frozen", event |-> e, skill |-> Skill(active)]
<1>1. Goes(c, r) /\ UNCHANGED <<registryVars, decisions>> /\ active # None
  BY DEF Freeze
<1>2. Skill(active) \in skills
  BY <1>1 DEF KernelInv, RegistryIsSound, Registered, Skill
<1>3. decider'[c] = r
  BY <1>1 DEF Goes, KernelInv
<1>4. RunIsSound(c)'
  BY <1>1, <1>2, <1>3 DEF RunIsSound, registryVars
<1> QED BY <1>1, <1>4, TableStays, OneRunGoes

LEMMA LoadInputStep ==
  ASSUME KernelInv, NEW c \in Deciders, LoadInput(c)
  PROVE  KernelInv'
<1>1. PICK order \in OrderSnapshots, workers \in Lists :
          Goes(c, [at |-> "loaded", input |->
              [event |-> decider[c].event, order |-> order, workers |-> workers,
               skill |-> decider[c].skill]])
  BY DEF LoadInput
<1> DEFINE r == [at |-> "loaded", input |->
              [event |-> decider[c].event, order |-> order, workers |-> workers,
               skill |-> decider[c].skill]]
<1>2. UNCHANGED <<registryVars, decisions>> /\ decider[c].skill \in skills
  BY DEF LoadInput, KernelInv, RunIsSound
<1>3. decider'[c] = r
  BY <1>1 DEF Goes, KernelInv
<1>4. RunIsSound(c)'
  BY <1>2, <1>3 DEF RunIsSound, registryVars
<1> QED BY <1>1, <1>2, <1>4, TableStays, OneRunGoes

LEMMA DecidePreparedStep ==
  ASSUME KernelInv, NEW c \in Deciders, DecidePrepared(c)
  PROVE  KernelInv'
<1> DEFINE input == decider[c].input
           made == [at |-> "made", input |-> input, decision |-> Decision(input)]
           r == IF input.event \in DOMAIN decisions
                THEN SameOrConflict(decisions[input.event], input)
                ELSE IF Unscorable(input) THEN [at |-> "raised"] ELSE made
<1>1. Goes(c, r) /\ UNCHANGED <<registryVars, decisions>> /\ decider[c].at = "loaded"
  BY DEF DecidePrepared
<1>2. decider'[c] = r /\ input.skill \in skills /\ skills' = skills
  BY <1>1 DEF Goes, KernelInv, RunIsSound, registryVars
<1>3. CASE input.event \in DOMAIN decisions
  <2>1. decider'[c] = SameOrConflict(decisions[input.event], input)
    BY <1>2, <1>3
  <2> QED BY <2>1, <1>1, <1>3, TableStays, OneRunGoes DEF RunIsSound, SameOrConflict
<1>4. CASE input.event \notin DOMAIN decisions /\ Unscorable(input)
  <2>1. decider'[c] = [at |-> "raised"]
    BY <1>2, <1>4
  <2>2. RunIsSound(c)'
    BY <2>1 DEF RunIsSound
  <2> QED BY <2>2, <1>1, TableStays, OneRunGoes
<1>5. CASE input.event \notin DOMAIN decisions /\ ~Unscorable(input)
  <2>1. decider'[c] = made
    BY <1>2, <1>5
  <2>2. Decision(input).input = input
    BY DecisionHasItsInput
  <2>3. RunIsSound(c)'
    <3> HIDE DEF input
    <3> QED BY <2>1, <2>2, <1>2 DEF RunIsSound, Accountable
  <2> QED BY <2>3, <1>1, TableStays, OneRunGoes
<1> QED BY <1>3, <1>4, <1>5

LEMMA SaveDecisionStep ==
  ASSUME KernelInv, NEW c \in Deciders, SaveDecision(c)
  PROVE  KernelInv'
<1> DEFINE made == decider[c].decision
           event == made.input.event
           r == SameOrConflict(Insert(made)[event], made.input)
<1>1. Goes(c, r) /\ UNCHANGED registryVars /\ decider[c].at = "made" /\ decisions' = Insert(made)
  BY DEF SaveDecision
<1>2. Accountable(made) /\ decider'[c] = r /\ skills' = skills
  BY <1>1 DEF Goes, KernelInv, RunIsSound, registryVars
<1> HIDE DEF made
<1>3. /\ event \in DOMAIN decisions'
      /\ \A e \in DOMAIN decisions : e \in DOMAIN decisions' /\ decisions'[e] = decisions[e]
      /\ \A e \in DOMAIN decisions' : e \notin DOMAIN decisions => e = event /\ decisions'[e] = made
  BY <1>1 DEF Insert
<1>4. TableIsSound'
  BY <1>2, <1>3 DEF KernelInv, TableIsSound, Accountable
<1>5. RunIsSound(c)'
  <2>1. decider'[c] = SameOrConflict(decisions'[event], made.input)
    BY <1>1, <1>2
  <2> QED BY <2>1, <1>3 DEF RunIsSound, SameOrConflict
<1> QED BY <1>1, <1>3, <1>4, <1>5, OneRunGoes

\* The registry and the table stay sound, and every run's part in them.
THEOREM KernelInvariance == KernelSpec => []KernelInv
<1>1. ASSUME KernelInv, [KernelNext]_kernelVars PROVE KernelInv'
  <2>1. CASE UNCHANGED kernelVars
    BY <2>1, <1>1 DEF kernelVars, registryVars, KernelInv, RegistryIsSound, TableIsSound,
                      RunIsSound, Accountable
  <2>2. CASE KernelNext
    BY <2>2, <1>1, RegistryStep, FreezeStep, LoadInputStep, DecidePreparedStep,
       SaveDecisionStep DEF KernelNext
  <2> QED BY <1>1, <2>1, <2>2
<1> QED BY <1>1, InitKernel, PTL DEF KernelSpec

\* Every run that gets a decision gets the saved one, made of its own frozen input and of a
\* skill that the registry still holds under its key (decide_prepared, save_if_absent).
THEOREM Reproducible == KernelSpec => []DecisionsAreReproducible
<1>1. KernelInv => DecisionsAreReproducible
  BY DEF KernelInv, RegistryIsSound, TableIsSound, RunIsSound, Accountable,
         DecisionsAreReproducible
<1> QED BY <1>1, KernelInvariance, PTL

-------------------------------------------------------------------------------
(* The scores of DispatchKernel *)

\* What a saved decision rests on: a snapshot somebody may have sent, whose scores exist.
InputGood(input) == input.order \in OrderSnapshots /\ input.workers \in Lists
SkillGood(s) == s \in Manifests \cup Builtin /\ ValidSkill(s)
Scored(d) == InputGood(d.input) /\ ~Unscorable(d.input)
RunIsScored(c) ==
    /\ decider[c].at = "loaded" => InputGood(decider[c].input)
    /\ decider[c].at = "made" => Scored(decider[c].decision)
ScoringInv ==
    /\ \A s \in skills : SkillGood(s)
    /\ \A c \in Deciders : RunIsScored(c)
    /\ \A e \in DOMAIN decisions : Scored(decisions[e])

LEMMA ScoringRegistry ==
  ASSUME ScoringInv, (\E s \in Manifests : Register(s)) \/ (\E s \in skills : Activate(s.key))
                     \/ Rollback \/ Boot
  PROVE  ScoringInv'
<1>1. UNCHANGED <<decisions, decider>>
  BY DEF Register, Activate, Rollback, Boot
<1>2. \A s \in skills' : SkillGood(s)
  <2>1. ASSUME NEW s \in Manifests, Register(s) PROVE \A u \in skills' : SkillGood(u)
    BY <2>1 DEF Register, ScoringInv, SkillGood
  <2>2. CASE Boot
    BY <2>2 DEF Boot, Loadable, ScoringInv, SkillGood
  <2>3. CASE (\E s \in skills : Activate(s.key)) \/ Rollback
    BY <2>3 DEF Activate, Rollback, ScoringInv
  <2> QED BY <2>1, <2>2, <2>3
<1> QED BY <1>1, <1>2 DEF ScoringInv, RunIsScored

LEMMA ScoringRun ==
  ASSUME KernelInv, ScoringInv, NEW c \in Deciders, NEW r, Goes(c, r), UNCHANGED registryVars,
         r.at = "loaded" => InputGood(r.input), r.at = "made" => Scored(r.decision),
         \A e \in DOMAIN decisions' : Scored(decisions'[e])
  PROVE  ScoringInv'
<1>1. decider' = [decider EXCEPT ![c] = r] /\ DOMAIN decider = Deciders /\ skills' = skills
  BY DEF Goes, KernelInv, registryVars
<1>2. ASSUME NEW d \in Deciders PROVE RunIsScored(d)'
  <2>1. CASE d = c
    BY <1>1, <2>1 DEF RunIsScored
  <2>2. CASE d # c
    BY <1>1, <2>2 DEF RunIsScored, ScoringInv
  <2> QED BY <2>1, <2>2
<1> QED BY <1>1, <1>2 DEF ScoringInv

LEMMA ScoringFreeze ==
  ASSUME KernelInv, ScoringInv, NEW c \in Deciders, NEW e \in Events, Freeze(c, e)
  PROVE  ScoringInv'
<1> DEFINE r == [at |-> "frozen", event |-> e, skill |-> Skill(active)]
<1>1. Goes(c, r) /\ UNCHANGED <<registryVars, decisions>>
  BY DEF Freeze
<1>2. r.at = "frozen"
  OBVIOUS
<1> HIDE DEF r
<1> QED BY <1>1, <1>2, ScoringRun DEF ScoringInv

LEMMA ScoringLoad ==
  ASSUME KernelInv, ScoringInv, NEW c \in Deciders, LoadInput(c)
  PROVE  ScoringInv'
<1>1. PICK order \in OrderSnapshots, workers \in Lists :
          Goes(c, [at |-> "loaded", input |->
              [event |-> decider[c].event, order |-> order, workers |-> workers,
               skill |-> decider[c].skill]])
  BY DEF LoadInput
<1> DEFINE r == [at |-> "loaded", input |->
              [event |-> decider[c].event, order |-> order, workers |-> workers,
               skill |-> decider[c].skill]]
<1>2. Goes(c, r) /\ UNCHANGED <<registryVars, decisions>>
  BY <1>1 DEF LoadInput
<1>3. r.at = "loaded" /\ InputGood(r.input)
  BY DEF InputGood
<1> HIDE DEF r
<1> QED BY <1>2, <1>3, ScoringRun DEF ScoringInv

LEMMA ScoringDecide ==
  ASSUME KernelInv, ScoringInv, NEW c \in Deciders, DecidePrepared(c)
  PROVE  ScoringInv'
<1> DEFINE input == decider[c].input
           made == [at |-> "made", input |-> input, decision |-> Decision(input)]
<1>1. UNCHANGED <<registryVars, decisions>> /\ decider[c].at = "loaded" /\ InputGood(input)
  BY DEF DecidePrepared, ScoringInv, RunIsScored
<1>2. PICK r : /\ Goes(c, r)
               /\ \/ r = SameOrConflict(decisions[input.event], input)
                  \/ r = [at |-> "raised"]
                  \/ ~Unscorable(input) /\ r = made
  <2>1. Goes(c, IF input.event \in DOMAIN decisions
                THEN SameOrConflict(decisions[input.event], input)
                ELSE IF Unscorable(input) THEN [at |-> "raised"] ELSE made)
    BY DEF DecidePrepared
  <2> HIDE DEF input, made
  <2> QED BY <2>1
<1>3. r.at = "made" => Scored(r.decision)
  <2>1. CASE r = SameOrConflict(decisions[input.event], input)
    BY <2>1 DEF SameOrConflict
  <2>2. CASE r = [at |-> "raised"]
    BY <2>2
  <2>3. CASE ~Unscorable(input) /\ r = made
    <3>1. r.decision = Decision(input)
      BY <2>3
    <3> HIDE DEF input
    <3> QED BY <3>1, <2>3, <1>1, DecisionHasItsInput DEF Scored
  <2> QED BY <1>2, <2>1, <2>2, <2>3
<1>4. r.at # "loaded"
  BY <1>2 DEF SameOrConflict
<1> QED BY <1>1, <1>2, <1>3, <1>4, ScoringRun DEF ScoringInv

LEMMA ScoringSave ==
  ASSUME KernelInv, ScoringInv, NEW c \in Deciders, SaveDecision(c)
  PROVE  ScoringInv'
<1> DEFINE made == decider[c].decision
           r == SameOrConflict(Insert(made)[made.input.event], made.input)
<1>1. Goes(c, r) /\ UNCHANGED registryVars /\ decisions' = Insert(made) /\ Scored(made)
  BY DEF SaveDecision, ScoringInv, RunIsScored
<1>2. \A e \in DOMAIN decisions' : Scored(decisions'[e])
  <2> HIDE DEF made
  <2> QED BY <1>1 DEF Insert, ScoringInv
<1>3. r.at # "loaded" /\ r.at # "made"
  BY DEF SameOrConflict
<1> HIDE DEF r
<1> QED BY <1>1, <1>2, <1>3, ScoringRun

THEOREM ScoringInvariance == KernelSpec => [](KernelInv /\ ScoringInv)
<1>1. KernelInit => ScoringInv
  BY DEF KernelInit, ScoringInv, RunIsScored
<1>2. ASSUME KernelInv, ScoringInv, [KernelNext]_kernelVars PROVE ScoringInv'
  <2>1. CASE UNCHANGED kernelVars
    BY <2>1, <1>2 DEF kernelVars, registryVars, ScoringInv, RunIsScored
  <2>2. CASE KernelNext
    BY <2>2, <1>2, ScoringRegistry, ScoringFreeze, ScoringLoad, ScoringDecide, ScoringSave
       DEF KernelNext
  <2> QED BY <1>2, <2>1, <2>2
<1> QED BY <1>1, <1>2, KernelInvariance, PTL DEF KernelSpec

\* Divided by the same number, what is no less stays no less, and what is more by that
\* number or by more stays more.
LEMMA DivisionMonotone ==
  ASSUME NEW a \in Int, NEW b \in Int, NEW c \in Nat \ {0}
  PROVE  /\ a \div c \in Int
         /\ a <= b => a \div c <= b \div c
         /\ a + c <= b => a \div c < b \div c
<1> DEFINE p == a \div c
           q == b \div c
<1>1. p \in Int /\ q \in Int
  OBVIOUS
<1>2. c * p <= a /\ a < c * p + c /\ c * q <= b /\ b < c * q + c
  OBVIOUS
<1> HIDE DEF p, q
<1>3. ASSUME a <= b PROVE p <= q
  <2>1. SUFFICES ASSUME q + 1 <= p PROVE FALSE
    BY <1>1
  <2>2. c * (q + 1) <= c * p
    BY <1>1, <2>1
  <2>3. c * (q + 1) = c * q + c
    BY <1>1
  <2> QED BY <1>1, <1>2, <1>3, <2>2, <2>3
<1>4. ASSUME a + c <= b PROVE p < q
  <2>1. SUFFICES ASSUME q <= p PROVE FALSE
    BY <1>1
  <2>2. c * q <= c * p
    BY <1>1, <2>1
  <2> QED BY <1>1, <1>2, <1>4, <2>2
<1> QED BY <1>1, <1>3, <1>4 DEF p, q

LEMMA ProductMonotone ==
  ASSUME NEW a \in Int, NEW b \in Int, NEW k \in Nat, a <= b
  PROVE  /\ a * k \in Int /\ b * k \in Int /\ a * k <= b * k
         /\ a # b /\ k > 0 => a * k < b * k
<1>1. a * k \in Int /\ b * k \in Int /\ (b - a) * k \in Int /\ b * k = a * k + (b - a) * k
  OBVIOUS
<1>2. (b - a) * k >= 0
  OBVIOUS
<1>3. a # b /\ k > 0 => (b - a) * k > 0
  OBVIOUS
<1> QED BY <1>1, <1>2, <1>3

\* Whom no reason excludes.
LEMMA EligibleMeansAllowed ==
  ASSUME NEW order, NEW workers, NEW s, NEW w \in Eligible(order, workers, s)
  PROVE  /\ w \in workers /\ w.tenant = order.tenant /\ w.available /\ w.shift
         /\ ~(w.load >= w.capacity) /\ ToSet(order.required) \subseteq DOMAIN w.skills
         /\ w.distance # Unknown => ~(w.distance > s.maxDistance)
<1>1. w \in workers /\ HardReasons(order, w) = {} /\ SkillReasons(order, w, s) = {}
  BY DEF Eligible
<1>2. "tenant" \notin HardReasons(order, w) /\ "unavailable" \notin HardReasons(order, w)
      /\ "shift" \notin HardReasons(order, w) /\ "capacity" \notin HardReasons(order, w)
      /\ "skills" \notin HardReasons(order, w) /\ "distance" \notin SkillReasons(order, w, s)
  BY <1>1
<1>3. w.tenant = order.tenant /\ w.available /\ w.shift /\ ~(w.load >= w.capacity)
      /\ ToSet(order.required) \subseteq DOMAIN w.skills
  BY <1>2 DEF HardReasons
<1>4. w.distance # Unknown => ~(w.distance > s.maxDistance)
  BY <1>2 DEF SkillReasons
<1> QED BY <1>1, <1>3, <1>4

LEMMA LoadRatioType ==
  ASSUME NEW w, Reported(w)
  PROVE  LoadRatio(w) \in Int
<1>1. w.load \in Nat /\ w.capacity \in Nat \ {0}
  BY DEF Reported
<1>2. 100 * w.load \in Int
  BY <1>1
<1> QED BY <1>1, <1>2, DivisionMonotone DEF LoadRatio

\* Who is as good in each skill the order asks for masters it as well.
LEMMA MasteryMonotone ==
  ASSUME NEW order, order.required \in Seq(STRING) \ {<<>>}, NEW v, Reported(v), NEW w, Reported(w),
         ToSet(order.required) \subseteq DOMAIN v.skills,
         ToSet(order.required) \subseteq DOMAIN w.skills
  PROVE  /\ Mastery(order, v) \in Int
         /\ (\A n \in ToSet(order.required) : ~(v.skills[n] < w.skills[n]))
            => Mastery(order, w) <= Mastery(order, v)
<1> DEFINE names == order.required
           n == Len(names)
           Terms(u) == [i \in DOMAIN names |-> u.skills[names[i]]]
<1>1. n \in Nat \ {0} /\ DOMAIN names = 1 .. n
  <2> names \in Seq(STRING) /\ names # <<>>
    OBVIOUS
  <2> QED OBVIOUS
<1>2. \A i \in 1 .. n : names[i] \in ToSet(names)
  BY <1>1 DEF ToSet
<1> HIDE DEF names, n
<1>3. ASSUME NEW u, Reported(u), ToSet(names) \subseteq DOMAIN u.skills
      PROVE  /\ Terms(u) \in Seq(Int) /\ Len(Terms(u)) = n
             /\ \A i \in 1 .. n : Terms(u)[i] = u.skills[names[i]]
             /\ \A i \in ToSet(names) : u.skills[i] \in Nat
             /\ SumOf(Terms(u)) \in Int
  <2>1. \A i \in ToSet(names) : u.skills[i] \in Nat
    BY <1>3 DEF Reported
  <2>2. \A i \in 1 .. n : u.skills[names[i]] \in Int
    BY <2>1, <1>2
  <2>3. Terms(u) \in [1 .. n -> Int]
    BY <2>2, <1>1
  <2>4. Terms(u) \in Seq(Int) /\ Len(Terms(u)) = n
    <3> HIDE DEF Terms
    <3> QED BY <2>3, <1>1
  <2>5. \A i \in 1 .. n : Terms(u)[i] = u.skills[names[i]]
    BY <1>1
  <2>6. SumOf(Terms(u)) \in Int
    <3> HIDE DEF Terms
    <3> QED BY <2>4, SumOfMonotone
  <2> QED BY <2>1, <2>4, <2>5, <2>6
<1>4. \A u : Mastery(order, u) = SumOf(Terms(u)) \div n
  BY DEF Mastery, names, n
<1>5. ASSUME \A i \in ToSet(names) : ~(v.skills[i] < w.skills[i])
      PROVE  SumOf(Terms(w)) <= SumOf(Terms(v))
  <2>1. \A i \in ToSet(names) : v.skills[i] \in Nat /\ w.skills[i] \in Nat
    BY <1>3 DEF names
  <2>2. \A i \in 1 .. n : w.skills[names[i]] <= v.skills[names[i]]
    BY <2>1, <1>2, <1>5
  <2>3. /\ Terms(v) \in Seq(Int) /\ Len(Terms(v)) = n
        /\ \A i \in 1 .. n : Terms(v)[i] = v.skills[names[i]]
    BY <1>3 DEF names
  <2>4. /\ Terms(w) \in Seq(Int) /\ Len(Terms(w)) = n
        /\ \A i \in 1 .. n : Terms(w)[i] = w.skills[names[i]]
    BY <1>3 DEF names
  <2> HIDE DEF Terms
  <2> QED BY <2>2, <2>3, <2>4, SumOfMonotone
<1>6. SumOf(Terms(v)) \in Int /\ SumOf(Terms(w)) \in Int
  BY <1>3 DEF names
<1> HIDE DEF Terms
<1> QED BY <1>1, <1>4, <1>5, <1>6, DivisionMonotone DEF names

\* An order, a skill and repairmen that can be scored.
Scorable(order, s) ==
    /\ Unknown \notin Int
    /\ order.required \in Seq(STRING) \ {<<>>}
    /\ s.weights \in [Metrics -> Nat] /\ Summed(s.weights) = 100
    /\ s.maxDistance \in Nat \ {0} /\ s.tie \in TieBreaks
Skilled(order, w) == Reported(w) /\ ToSet(order.required) \subseteq DOMAIN w.skills

LEMMA ComponentType ==
  ASSUME NEW order, NEW s, Scorable(order, s), NEW w, Skilled(order, w)
  PROVE  /\ Component(order, w, s, "load") \in Int
         /\ Component(order, w, s, "skill") \in Int
         /\ IF w.distance = Unknown THEN Component(order, w, s, "distance") = Unknown
            ELSE Component(order, w, s, "distance") \in Int
         /\ IF w.sla = Unknown THEN Component(order, w, s, "sla") = Unknown
            ELSE Component(order, w, s, "sla") \in Int
         /\ \A m \in Known(order, w, s) : Component(order, w, s, m) \in Int
<1>1. Component(order, w, s, "load") \in Int
  <2> LoadRatio(w) \in Int
    BY LoadRatioType DEF Skilled
  <2> QED BY DEF Component
<1>2. Component(order, w, s, "skill") \in Int
  <2> Mastery(order, w) \in Int
    BY MasteryMonotone DEF Skilled, Scorable
  <2> QED BY DEF Component
<1>3. IF w.distance = Unknown THEN Component(order, w, s, "distance") = Unknown
      ELSE Component(order, w, s, "distance") \in Int
  <2>1. CASE w.distance = Unknown
    BY <2>1 DEF Component
  <2>2. CASE w.distance # Unknown
    <3>1. w.distance \in Nat /\ s.maxDistance \in Nat \ {0}
      BY <2>2 DEF Skilled, Reported, Scorable
    <3>2. (100 * w.distance) \div s.maxDistance \in Int
      BY <3>1, DivisionMonotone
    <3> QED BY <2>2, <3>2 DEF Component
  <2> QED BY <2>1, <2>2
<1>4. IF w.sla = Unknown THEN Component(order, w, s, "sla") = Unknown
      ELSE Component(order, w, s, "sla") \in Int
  BY DEF Component, Skilled, Reported
<1>5. \A m \in Known(order, w, s) : Component(order, w, s, m) \in Int
  BY <1>1, <1>2, <1>3, <1>4 DEF Known, Metrics
<1> QED BY <1>1, <1>2, <1>3, <1>4, <1>5

\* The parts of Weight and of Gain.
Share(order, w, s, m) == IF m \in Known(order, w, s) THEN s.weights[m] ELSE 0
Term(order, w, s, m) ==
    IF m \in Known(order, w, s) THEN Component(order, w, s, m) * s.weights[m] ELSE 0

LEMMA Parts ==
  ASSUME NEW order, NEW s, Scorable(order, s), NEW w, Skilled(order, w)
  PROVE  /\ \A m \in Metrics : Share(order, w, s, m) \in 0 .. s.weights[m] /\ s.weights[m] \in Nat
         /\ \A m \in Metrics : Term(order, w, s, m) \in Int
         /\ Weight(order, w, s) = Share(order, w, s, "distance") + Share(order, w, s, "load")
                                  + Share(order, w, s, "skill") + Share(order, w, s, "sla")
         /\ Gain(order, w, s) = Term(order, w, s, "distance") + Term(order, w, s, "load")
                                + Term(order, w, s, "skill") + Term(order, w, s, "sla")
         /\ Weight(order, w, s) \in 0 .. 100 /\ Gain(order, w, s) \in Int
<1>1. \A m \in Metrics : s.weights[m] \in Nat
  BY DEF Scorable
<1>2. \A m \in Metrics : Share(order, w, s, m) \in 0 .. s.weights[m]
  BY <1>1 DEF Share
<1>3. ASSUME NEW m \in Metrics PROVE Term(order, w, s, m) \in Int
  <2>1. CASE m \in Known(order, w, s)
    <3> Component(order, w, s, m) \in Int /\ s.weights[m] \in Int
      BY <1>1, <2>1, ComponentType
    <3> QED BY <2>1, ProductMonotone DEF Term
  <2>2. CASE m \notin Known(order, w, s)
    BY <2>2 DEF Term
  <2> QED BY <2>1, <2>2
<1>4. "distance" \in Metrics /\ "load" \in Metrics /\ "skill" \in Metrics /\ "sla" \in Metrics
  BY DEF Metrics
<1>5. Weight(order, w, s) = Share(order, w, s, "distance") + Share(order, w, s, "load")
                            + Share(order, w, s, "skill") + Share(order, w, s, "sla")
  BY <1>4 DEF Weight, Summed, Share
<1>6. Gain(order, w, s) = Term(order, w, s, "distance") + Term(order, w, s, "load")
                          + Term(order, w, s, "skill") + Term(order, w, s, "sla")
  BY <1>4 DEF Gain, Summed, Term
<1>7. s.weights["distance"] + s.weights["load"] + s.weights["skill"] + s.weights["sla"] = 100
  BY DEF Scorable, Summed
<1>8. Weight(order, w, s) \in 0 .. 100
  <2> DEFINE a == Share(order, w, s, "distance")
             b == Share(order, w, s, "load")
             c == Share(order, w, s, "skill")
             d == Share(order, w, s, "sla")
             wa == s.weights["distance"]
             wb == s.weights["load"]
             wc == s.weights["skill"]
             wd == s.weights["sla"]
  <2>1. a \in 0 .. wa /\ b \in 0 .. wb /\ c \in 0 .. wc /\ d \in 0 .. wd
        /\ wa \in Nat /\ wb \in Nat /\ wc \in Nat /\ wd \in Nat /\ wa + wb + wc + wd = 100
    BY <1>1, <1>2, <1>4, <1>7
  <2> HIDE DEF a, b, c, d, wa, wb, wc, wd
  <2>2. a + b + c + d \in 0 .. 100
    BY <2>1
  <2> QED BY <2>2, <1>5 DEF a, b, c, d
<1>9. Gain(order, w, s) \in Int
  <2> DEFINE a == Term(order, w, s, "distance")
             b == Term(order, w, s, "load")
             c == Term(order, w, s, "skill")
             d == Term(order, w, s, "sla")
  <2>1. a \in Int /\ b \in Int /\ c \in Int /\ d \in Int
    BY <1>3, <1>4
  <2> HIDE DEF a, b, c, d
  <2>2. a + b + c + d \in Int
    BY <2>1
  <2> QED BY <2>2, <1>6 DEF a, b, c, d
<1> QED BY <1>1, <1>2, <1>3, <1>5, <1>6, <1>8, <1>9

LEMMA TotalType ==
  ASSUME NEW order, NEW s, Scorable(order, s), NEW w, Skilled(order, w), Weight(order, w, s) # 0
  PROVE  Total(order, w, s) \in Int /\ TieKey(w, s) \in Int
<1>1. Weight(order, w, s) \in Nat \ {0} /\ Gain(order, w, s) \in Int
  BY Parts
<1>2. Weight(order, w, s) \div 2 \in Int
  BY <1>1, DivisionMonotone
<1>3. Total(order, w, s) \in Int
  <2> 100 * Gain(order, w, s) + Weight(order, w, s) \div 2 \in Int
    BY <1>1, <1>2
  <2> QED BY <1>1, DivisionMonotone DEF Total
<1>4. TieKey(w, s) \in Int
  <2>1. LoadRatio(w) \in Int /\ w.distance \in Nat \cup {Unknown} /\ s.tie \in TieBreaks
    BY LoadRatioType DEF Skilled, Reported, Scorable
  <2> QED BY <2>1 DEF TieKey, TieBreaks
<1> QED BY <1>3, <1>4

\* The ranking leaves no two repairmen undecided.
LEMMA BeforeIsLinear ==
  ASSUME NEW order, NEW s, Scorable(order, s), NEW W, \A w \in W : Skilled(order, w),
         \A w \in W : Weight(order, w, s) # 0, \A v, w \in W : v.id = w.id => v = w
  PROVE  Linear(W, {p \in W \X W : Before(order, s, p[1], p[2])})
<1> DEFINE R == {p \in W \X W : Before(order, s, p[1], p[2])}
<1>1. \A w \in W : Total(order, w, s) \in Int /\ TieKey(w, s) \in Int /\ w.id \in Int
  BY TotalType DEF Skilled, Reported
<1>2. \A v, w \in W : <<v, w>> \in R <=> Before(order, s, v, w)
  OBVIOUS
<1>3. \A v \in W : ~Before(order, s, v, v)
  BY <1>1 DEF Before
<1>4. \A v, w \in W : v # w => Before(order, s, v, w) \/ Before(order, s, w, v)
  BY <1>1 DEF Before
<1>5. \A u, v, w \in W : Before(order, s, u, v) /\ Before(order, s, v, w) => Before(order, s, u, w)
  BY <1>1 DEF Before
<1> HIDE DEF R
<1>6. Linear(W, R)
  BY <1>2, <1>3, <1>4, <1>5 DEF Linear
<1> QED BY <1>6 DEF R

\* Who is as good as another one in each metric scores as much, and more if a component that
\* counts is not the same.
LEMMA DominatingScores ==
  ASSUME NEW order, NEW s, Scorable(order, s), NEW v, Skilled(order, v), NEW w, Skilled(order, w),
         Weight(order, w, s) # 0, Dominates(order, s, v, w),
         NEW k \in Metrics, s.weights[k] > 0, Component(order, v, s, k) # Component(order, w, s, k)
  PROVE  Total(order, v, s) > Total(order, w, s)
<1> DEFINE C(u, m) == Component(order, u, s, m)
<1>1. /\ v.distance = Unknown <=> w.distance = Unknown
      /\ v.sla = Unknown <=> w.sla = Unknown
      /\ ~(LoadRatio(v) > LoadRatio(w))
      /\ \A n \in ToSet(order.required) : ~(v.skills[n] < w.skills[n])
      /\ v.distance # Unknown => ~(v.distance > w.distance)
      /\ v.sla # Unknown => ~(v.sla < w.sla)
  BY DEF Dominates, Metrics
<1>2. Known(order, v, s) = Known(order, w, s)
  <2>1. ASSUME NEW u, Skilled(order, u), NEW m \in Metrics
        PROVE  m \in Known(order, u, s) <=> /\ m = "distance" => u.distance # Unknown
                                            /\ m = "sla" => u.sla # Unknown
    <3>1. Unknown \notin Int
      BY DEF Scorable
    <3> QED BY <2>1, <3>1, ComponentType DEF Known, Metrics
  <2>2. \A m \in Metrics : m \in Known(order, v, s) <=> m \in Known(order, w, s)
    BY <1>1, <2>1
  <2> QED BY <2>2 DEF Known
<1>3. C(w, "load") <= C(v, "load")
  <2> LoadRatio(v) \in Int /\ LoadRatio(w) \in Int
    BY LoadRatioType DEF Skilled
  <2> QED BY <1>1 DEF Component
<1>4. C(w, "skill") <= C(v, "skill")
  <2> Mastery(order, w) <= Mastery(order, v)
    BY <1>1, MasteryMonotone DEF Skilled, Scorable
  <2> QED BY DEF Component
<1>5. w.distance # Unknown => C(w, "distance") <= C(v, "distance")
  <2> SUFFICES ASSUME w.distance # Unknown PROVE C(w, "distance") <= C(v, "distance")
    OBVIOUS
  <2>1. v.distance \in Nat /\ w.distance \in Nat /\ v.distance <= w.distance
        /\ s.maxDistance \in Nat \ {0} /\ v.distance # Unknown
    BY <1>1 DEF Skilled, Reported, Scorable
  <2> DEFINE a == (100 * v.distance) \div s.maxDistance
             b == (100 * w.distance) \div s.maxDistance
  <2>2. a \in Int /\ b \in Int /\ a <= b
    <3> 100 * v.distance \in Int /\ 100 * w.distance \in Int /\ 100 * v.distance <= 100 * w.distance
      BY <2>1
    <3> QED BY <2>1, DivisionMonotone
  <2>3. C(v, "distance") = 100 - a /\ C(w, "distance") = 100 - b
    BY <2>1 DEF Component
  <2> HIDE DEF a, b, C
  <2> QED BY <2>2, <2>3
<1>6. w.sla # Unknown => C(w, "sla") <= C(v, "sla")
  BY <1>1 DEF Component, Skilled, Reported
<1>7. \A m \in Known(order, w, s) :
          m \in Metrics /\ C(v, m) \in Int /\ C(w, m) \in Int /\ C(w, m) <= C(v, m)
  <2>1. \A m \in Known(order, w, s) : m \in Metrics /\ C(v, m) \in Int /\ C(w, m) \in Int
    BY <1>2, ComponentType DEF Known
  <2>2. \A m \in Known(order, w, s) :
            (m = "distance" => w.distance # Unknown) /\ (m = "sla" => w.sla # Unknown)
    BY ComponentType DEF Known
  <2> HIDE DEF C
  <2> QED BY <1>3, <1>4, <1>5, <1>6, <2>1, <2>2 DEF Metrics
<1>8. k \in Known(order, w, s)
  <2>1. CASE k \notin Known(order, w, s)
    <3>1. C(w, k) = Unknown /\ C(v, k) = Unknown
      BY <2>1, <1>2 DEF Known
    <3> QED BY <3>1
  <2> QED BY <2>1
<1> DEFINE P(m) == Term(order, v, s, m)
           Q(m) == Term(order, w, s, m)
<1>9. \A m \in Metrics : P(m) \in Int /\ Q(m) \in Int
  BY Parts
<1>10. ASSUME NEW m \in Metrics
       PROVE  Q(m) <= P(m) /\ (m = k => Q(m) < P(m))
  <2>1. s.weights[m] \in Nat
    BY DEF Scorable
  <2>2. CASE m \in Known(order, w, s)
    <3>1. P(m) = C(v, m) * s.weights[m] /\ Q(m) = C(w, m) * s.weights[m]
      BY <2>2, <1>2 DEF Term
    <3>2. C(v, m) \in Int /\ C(w, m) \in Int /\ C(w, m) <= C(v, m)
      BY <1>7, <2>2
    <3>3. m = k => C(w, m) # C(v, m) /\ s.weights[m] > 0
      OBVIOUS
    <3> HIDE DEF P, Q, C
    <3> QED BY <2>1, <3>1, <3>2, <3>3, ProductMonotone
  <2>3. CASE m \notin Known(order, w, s)
    <3>1. P(m) = 0 /\ Q(m) = 0 /\ m # k
      BY <2>3, <1>2, <1>8 DEF Term
    <3> HIDE DEF P, Q
    <3> QED BY <3>1
  <2> QED BY <2>2, <2>3
<1> DEFINE a == Gain(order, w, s)
           b == Gain(order, v, s)
           c == Weight(order, w, s)
<1>11. a \in Int /\ b \in Int /\ a < b
  <2>1. a = Q("distance") + Q("load") + Q("skill") + Q("sla") /\ a \in Int
    BY Parts
  <2>2. b = P("distance") + P("load") + P("skill") + P("sla") /\ b \in Int
    BY Parts
  <2>3. k = "distance" \/ k = "load" \/ k = "skill" \/ k = "sla"
    BY DEF Metrics
  <2>4. /\ "distance" \in Metrics /\ "load" \in Metrics /\ "skill" \in Metrics /\ "sla" \in Metrics
    BY DEF Metrics
  <2> HIDE DEF P, Q, a, b
  <2> QED BY <1>9, <1>10, <2>1, <2>2, <2>3, <2>4
<1>12. c \in 1 .. 100 /\ Weight(order, v, s) = c
  <2>1. c \in 0 .. 100
    BY Parts
  <2>2. Weight(order, v, s) = c
    BY <1>2 DEF Weight
  <2> QED BY <2>1, <2>2
<1>13. Total(order, v, s) = (100 * b + c \div 2) \div c /\ Total(order, w, s) = (100 * a + c \div 2) \div c
  BY <1>12 DEF Total
<1> HIDE DEF a, b, c
<1> DEFINE x == 100 * a + c \div 2
           y == 100 * b + c \div 2
<1>14. x \in Int /\ y \in Int /\ x + c <= y
  <2>1. c \div 2 \in Int
    BY <1>12, DivisionMonotone
  <2> QED BY <2>1, <1>11, <1>12
<1> HIDE DEF x, y
<1>15. x \div c < y \div c /\ x \div c \in Int /\ y \div c \in Int
  <2> c \in Nat \ {0}
    BY <1>12
  <2> QED BY <1>14, DivisionMonotone
<1> QED BY <1>13, <1>15 DEF x, y

\* An assignment is made from a list that could be scored and ranked, and names its first.
LEMMA AssignedIsFirst ==
  ASSUME KernelAssumption, KernelInv, ScoringInv, NEW e \in DOMAIN decisions,
         decisions[e].outcome = "assign"
  PROVE  LET in == decisions[e].input
             w == decisions[e].selected
             who == Eligible(in.order, in.workers, in.skill)
         IN /\ ~OrderIsRefused(in.order) /\ Scorable(in.order, in.skill) /\ w \in who
            /\ \A v \in who : Skilled(in.order, v) /\ Weight(in.order, v, in.skill) # 0
            /\ \A v \in who : v # w => Before(in.order, in.skill, w, v)
<1> DEFINE d == decisions[e]
           in == d.input
           s == in.skill
           order == in.order
           who == Eligible(order, in.workers, s)
           list == Ranked(order, who, s)
<1>1. d = Decision(in) /\ s \in skills /\ Scored(d) /\ SkillGood(s)
  BY DEF KernelInv, TableIsSound, Accountable, ScoringInv
<1>2. order \in OrderSnapshots /\ in.workers \in Lists /\ ~Unscorable(in)
  BY <1>1 DEF Scored, InputGood
<1>3. /\ ~OrderIsRefused(order) /\ ~FieldIsMissing(in.workers, s)
      /\ list # <<>> => d.selected = list[1]
  <2> DEFINE refused == Built(in, "rejected", "high", None, <<>>)
  <2>1. d.outcome = "assign"
    OBVIOUS
  <2>2. refused.outcome = "rejected" /\ Built(in, "manual", "high", None, <<>>).outcome = "manual"
        /\ Built(in, "manual", "medium", None, list).outcome = "manual"
        /\ Built(in, "assign", "low", list[1], list).selected = list[1]
    BY DEF Built
  <2>3. d = IF OrderIsRefused(order) \/ FieldIsMissing(in.workers, s) THEN refused
            ELSE CASE list = <<>> -> Built(in, "manual", "high", None, <<>>)
                   [] list # <<>> ->
                          IF Risky(order, list, s)
                          THEN Built(in, "manual", "medium", None, list)
                          ELSE Built(in, "assign", "low", list[1], list)
    <3> HIDE DEF d
    <3> QED BY <1>1 DEF Decision
  <2> HIDE DEF d, in, s, order, who, list, refused
  <2>4. ~(OrderIsRefused(order) \/ FieldIsMissing(in.workers, s))
    <3>1. CASE OrderIsRefused(order) \/ FieldIsMissing(in.workers, s)
      BY <2>1, <2>2, <2>3, <3>1
    <3> QED BY <3>1
  <2>5. ASSUME list # <<>> PROVE d.selected = list[1]
    <3>1. CASE Risky(order, list, s)
      BY <2>1, <2>2, <2>3, <2>4, <2>5, <3>1
    <3>2. CASE ~Risky(order, list, s)
      BY <2>1, <2>2, <2>3, <2>4, <2>5, <3>2
    <3> QED BY <3>1, <3>2
  <2> QED BY <2>4, <2>5
<1>4. who # {}
  <2>1. SUFFICES ASSUME who = {} PROVE FALSE
    OBVIOUS
  <2>2. list = <<>>
    <3>1. Cardinality(who) = 0
      BY <2>1, FS_EmptySet
    <3> HIDE DEF who
    <3>2. list = [k \in 1 .. 0 |->
                      CHOOSE x \in who : Cardinality({y \in who : <<y, x>> \in
                          {p \in who \X who : Before(order, s, p[1], p[2])}}) = k - 1]
      BY <3>1 DEF Ranked, Sorted
    <3> QED BY <3>2
  <2>3. d = Built(in, "manual", "high", None, <<>>)
    <3> HIDE DEF d, who, s, order
    <3> QED BY <1>1, <1>3, <2>2 DEF Decision, who, s, order
  <2>4. d.outcome = "manual"
    <3> HIDE DEF d, in
    <3> QED BY <2>3 DEF Built
  <2> QED BY <2>4
<1>5. Scorable(order, s)
  BY <1>1, <1>2 DEF KernelAssumption, SkillGood, ValidSkill, Scorable
<1>6. ASSUME NEW v \in who PROVE Skilled(order, v) /\ Weight(order, v, s) # 0
  <2>1. v \in in.workers /\ ToSet(order.required) \subseteq DOMAIN v.skills
    BY <1>6, EligibleMeansAllowed
  <2>2. Reported(v)
    BY <2>1, <1>2 DEF KernelAssumption
  <2>3. Weight(order, v, s) # 0
    <3> HIDE DEF d
    <3> QED BY <1>2, <1>3 DEF Unscorable
  <2> QED BY <2>1, <2>2, <2>3 DEF Skilled
<1>7. IsFiniteSet(who) /\ \A v, w \in who : v.id = w.id => v = w
  <2>1. who \subseteq in.workers
    BY DEF Eligible
  <2>2. IsFiniteSet(in.workers) /\ \A v, w \in in.workers : v.id = w.id => v = w
    BY <1>2 DEF KernelAssumption
  <2> HIDE DEF who, in
  <2> QED BY <2>1, <2>2, FS_Subset
<1> DEFINE R == {p \in who \X who : Before(order, s, p[1], p[2])}
<1>8. Linear(who, R)
  <2> HIDE DEF who, order, s
  <2> QED BY <1>5, <1>6, <1>7, BeforeIsLinear
<1>9. list = Sorted(who, R)
  BY DEF Ranked
<1>10. list # <<>> /\ list[1] \in who /\ \A v \in who : v # list[1] => <<list[1], v>> \in R
  <2> HIDE DEF who, R, list
  <2> QED BY <1>4, <1>7, <1>8, <1>9, SortedFirst
<1>11. \A v \in who : v # list[1] => Before(order, s, list[1], v)
  <2> HIDE DEF who, list, order, s
  <2> QED BY <1>10
<1> HIDE DEF list, who
<1> QED BY <1>3, <1>5, <1>6, <1>10, <1>11 DEF who

\* The part of ChosenIsUndominated that no rounding touches: nobody is assigned whom the
\* order's rules refuse, and nobody while another one has a higher score.
ChosenIsFirst ==
    \A e \in DOMAIN decisions : decisions[e].outcome = "assign" =>
        LET in == decisions[e].input
            w == decisions[e].selected
        IN /\ in.order.tenant = Tenant /\ in.order.worker = None
           /\ w \in Eligible(in.order, in.workers, in.skill)
           /\ w.tenant = Tenant /\ w.available /\ w.shift /\ w.load < w.capacity
           /\ ToSet(in.order.required) \subseteq DOMAIN w.skills
           /\ \A v \in Eligible(in.order, in.workers, in.skill) :
                 Total(in.order, v, in.skill) <= Total(in.order, w, in.skill)

\* Components are rounded.  Here that hides nobody: who is plainly better than another one has
\* another component in a metric that counts.
RoundingHidesNobody ==
    \A e \in DOMAIN decisions :
        LET in == decisions[e].input
        IN \A v, w \in Eligible(in.order, in.workers, in.skill) :
              Dominates(in.order, in.skill, v, w) =>
                  \E m \in Metrics : /\ in.skill.weights[m] > 0
                                     /\ Component(in.order, v, in.skill, m)
                                            # Component(in.order, w, in.skill, m)

LEMMA FirstOnes == KernelAssumption /\ KernelInv /\ ScoringInv => ChosenIsFirst
<1> SUFFICES ASSUME KernelAssumption, KernelInv, ScoringInv, NEW e \in DOMAIN decisions,
                    decisions[e].outcome = "assign"
             PROVE  LET in == decisions[e].input
                        w == decisions[e].selected
                    IN /\ in.order.tenant = Tenant /\ in.order.worker = None
                       /\ w \in Eligible(in.order, in.workers, in.skill)
                       /\ w.tenant = Tenant /\ w.available /\ w.shift /\ w.load < w.capacity
                       /\ ToSet(in.order.required) \subseteq DOMAIN w.skills
                       /\ \A v \in Eligible(in.order, in.workers, in.skill) :
                             Total(in.order, v, in.skill) <= Total(in.order, w, in.skill)
  BY DEF ChosenIsFirst
<1> DEFINE in == decisions[e].input
           w == decisions[e].selected
           s == in.skill
           order == in.order
           who == Eligible(order, in.workers, s)
<1>1. /\ ~OrderIsRefused(order) /\ Scorable(order, s) /\ w \in who
      /\ \A v \in who : Skilled(order, v) /\ Weight(order, v, s) # 0
      /\ \A v \in who : v # w => Before(order, s, w, v)
  BY AssignedIsFirst
<1> HIDE DEF in, w
<1>2. order.tenant = Tenant /\ order.worker = None
  BY <1>1 DEF OrderIsRefused
<1>3. /\ w.tenant = order.tenant /\ w.available /\ w.shift
      /\ ~(w.load >= w.capacity) /\ ToSet(order.required) \subseteq DOMAIN w.skills
  BY <1>1, EligibleMeansAllowed
<1>4. w.load < w.capacity
  <2> w.load \in Nat /\ w.capacity \in Nat
    BY <1>1 DEF Skilled, Reported
  <2> QED BY <1>3
<1>5. ASSUME NEW v \in who PROVE Total(order, v, s) <= Total(order, w, s)
  <2> HIDE DEF who, order, s
  <2>1. Total(order, v, s) \in Int /\ Total(order, w, s) \in Int
    BY <1>1, TotalType
  <2>2. v = w \/ Before(order, s, w, v)
    BY <1>1
  <2> QED BY <2>1, <2>2 DEF Before
<1> QED BY <1>1, <1>2, <1>3, <1>4, <1>5 DEF in, w

\* Whoever is assigned may be, under the rules no skill can switch off, and nobody who may be
\* scores more (filter_workers, score_candidates), for any weights, ties and snapshots.
THEOREM AssignedFirst == ASSUME KernelAssumption PROVE KernelSpec => []ChosenIsFirst
<1>1. KernelInv /\ ScoringInv => ChosenIsFirst
  BY FirstOnes
<1> QED BY <1>1, ScoringInvariance, PTL

\* ChosenIsUndominated, where the rounding of components hides nobody: the ranking never puts
\* a repairman before one who is as good in each metric and better in one that counts.
THEOREM Undominated ==
  ASSUME KernelAssumption
  PROVE  KernelSpec => [](RoundingHidesNobody => ChosenIsUndominated)
<1>1. ASSUME KernelInv, ScoringInv, RoundingHidesNobody PROVE ChosenIsUndominated
  <2>1. ChosenIsFirst
    BY <1>1, FirstOnes
  <2> SUFFICES ASSUME NEW e \in DOMAIN decisions, decisions[e].outcome = "assign",
                      NEW v \in Eligible(decisions[e].input.order, decisions[e].input.workers,
                                         decisions[e].input.skill),
                      Dominates(decisions[e].input.order, decisions[e].input.skill, v,
                                decisions[e].selected)
               PROVE  FALSE
    BY <2>1 DEF ChosenIsFirst, ChosenIsUndominated
  <2> DEFINE in == decisions[e].input
             w == decisions[e].selected
             s == in.skill
             order == in.order
             who == Eligible(order, in.workers, s)
  <2>2. /\ Scorable(order, s) /\ w \in who
        /\ \A u \in who : Skilled(order, u) /\ Weight(order, u, s) # 0
    BY <1>1, AssignedIsFirst
  <2>3. Total(order, v, s) <= Total(order, w, s)
    BY <2>1 DEF ChosenIsFirst
  <2>4. PICK m \in Metrics : s.weights[m] > 0 /\ Component(order, v, s, m) # Component(order, w, s, m)
    BY <1>1, <2>2 DEF RoundingHidesNobody
  <2>5. v \in who /\ Dominates(order, s, v, w)
    OBVIOUS
  <2> HIDE DEF in, w, s, order, who
  <2>6. Total(order, v, s) > Total(order, w, s)
    BY <2>2, <2>4, <2>5, DominatingScores
  <2>7. Total(order, v, s) \in Int /\ Total(order, w, s) \in Int
    <3> Weight(order, v, s) # 0
      BY <2>2, <2>5
    <3> QED BY <2>2, <2>5, TotalType
  <2> QED BY <2>3, <2>6, <2>7
<1>2. KernelInv /\ ScoringInv => (RoundingHidesNobody => ChosenIsUndominated)
  BY <1>1
<1> QED BY <1>2, ScoringInvariance, PTL

-------------------------------------------------------------------------------
(* Investigation *)

Observed == [id : Traces \X Nat, success : BOOLEAN]
Successes(observations) == {i \in 1 .. Len(observations) : observations[i].success}
BoundArguments == {Bound(arguments) : arguments \in Arguments}

\* The observations of a run are numbered, and each that succeeded answers a call of its own,
\* which the run has seen.
Answers(r) ==
    /\ run[r].trace \in Traces
    /\ run[r].observations \in Seq(Observed)
    /\ \A i \in 1 .. Len(run[r].observations) : run[r].observations[i].id = <<run[r].trace, i>>
    /\ Cardinality(Successes(run[r].observations)) = Len(answered[r])
    /\ ToSet(answered[r]) \subseteq run[r].seen

\* What a run waits for is new to it; what it cites in the end is one reference an answer.
LoopIsSound(r) ==
    /\ answered[r] \in Seq(BoundArguments) /\ IsInjective(answered[r])
    /\ run[r].at \in {"decide", "call", "done"}
    /\ run[r].at \in {"decide", "call"} => Answers(r)
    /\ run[r].at = "call" => /\ run[r].asks \in run[r].seen \cap BoundArguments
                             /\ run[r].asks \notin ToSet(answered[r])
    /\ run[r].at = "done" => /\ Len(run[r].refs) = Len(answered[r])
                             /\ IsInjective(run[r].refs)

InvestigationInv ==
    /\ run = [r \in Runs |-> run[r]] /\ answered = [r \in Runs |-> answered[r]]
    /\ \A r \in Runs : LoopIsSound(r)

\* The references are those of the successes, each once.
LEMMA RefsOfSuccesses ==
  ASSUME NEW observations \in Seq(Observed),
         \A i, j \in 1 .. Len(observations) : observations[i].id = observations[j].id => i = j
  PROVE  /\ Len(Refs(observations)) = Cardinality(Successes(observations))
         /\ IsInjective(Refs(observations))
<1> DEFINE good == {o \in ToSet(observations) : o.success}
           kept == Only(observations, good)
<1>1. kept \in Seq(Observed \cap good)
      /\ \E h \in [1 .. Len(kept) -> 1 .. Len(observations)] :
             Selects(h, observations, good, Len(observations), kept)
  BY OnlySelects
<1>2. Refs(observations) = [i \in DOMAIN kept |-> kept[i].id]
  BY DEF Refs
<1>3. Len(kept) = Cardinality({i \in 1 .. Len(observations) : observations[i] \in good})
  BY OnlyCount
<1>4. {i \in 1 .. Len(observations) : observations[i] \in good} = Successes(observations)
  <2> \A i \in 1 .. Len(observations) : observations[i] \in ToSet(observations)
    BY DEF ToSet
  <2> QED BY DEF Successes
<1> HIDE DEF kept, good
<1>5. DOMAIN kept = 1 .. Len(kept) /\ Len(kept) \in Nat
  BY <1>1
<1>6. Len(Refs(observations)) = Len(kept) /\ DOMAIN Refs(observations) = 1 .. Len(kept)
  BY <1>2, <1>5
<1>7. PICK h \in [1 .. Len(kept) -> 1 .. Len(observations)] :
          Selects(h, observations, good, Len(observations), kept)
  BY <1>1
<1>8. ASSUME NEW k \in 1 .. Len(kept), NEW l \in 1 .. Len(kept), kept[k].id = kept[l].id
      PROVE  k = l
  <2>1. h[k] = h[l] /\ h[k] \in Int
    BY <1>7, <1>8 DEF Selects
  <2> QED BY <2>1, <1>5, <1>7 DEF Selects
<1>9. IsInjective(Refs(observations))
  BY <1>2, <1>5, <1>8 DEF IsInjective
<1> QED BY <1>3, <1>4, <1>6, <1>9

\* One more observation.
LEMMA Observes ==
  ASSUME NEW r \in Runs, Answers(r), NEW success \in BOOLEAN
  PROVE  LET observations == Observe(r, success)
         IN /\ observations \in Seq(Observed)
            /\ \A i \in 1 .. Len(observations) : observations[i].id = <<run[r].trace, i>>
            /\ Cardinality(Successes(observations)) =
                   Len(answered[r]) + IF success THEN 1 ELSE 0
<1> DEFINE before == run[r].observations
           n == Len(before)
           after == Observe(r, success)
           o == [id |-> <<run[r].trace, n + 1>>, success |-> success]
<1>1. before \in Seq(Observed) /\ n \in Nat /\ run[r].trace \in Traces
  BY DEF Answers
<1>2. after = Append(before, o) /\ o \in Observed
  BY <1>1 DEF Observe, CallId, Observed
<1> HIDE DEF after, o
<1>3. after \in Seq(Observed) /\ Len(after) = n + 1 /\ after[n + 1] = o
      /\ \A i \in 1 .. n : after[i] = before[i]
  BY <1>1, <1>2
<1>4. \A i \in 1 .. n + 1 : after[i].id = <<run[r].trace, i>>
  <2> TAKE i \in 1 .. n + 1
  <2>1. CASE i = n + 1
    BY <2>1, <1>3 DEF o
  <2>2. CASE i # n + 1
    <3> i \in 1 .. n
      BY <1>1, <2>2
    <3> QED BY <1>3 DEF Answers
  <2> QED BY <2>1, <2>2
<1>5. IsFiniteSet(Successes(before)) /\ n + 1 \notin Successes(before)
  <2>1. IsFiniteSet(1 .. n)
    BY <1>1, Interval
  <2>2. Successes(before) \in SUBSET (1 .. n)
    BY DEF Successes
  <2>3. IsFiniteSet(Successes(before))
    BY <2>1, <2>2, FS_Subset
  <2> QED BY <2>2, <2>3, <1>1
<1>6. Successes(after) = IF success THEN Successes(before) \cup {n + 1} ELSE Successes(before)
  <2>1. after[n + 1].success = success
    BY <1>3 DEF o
  <2> HIDE DEF n
  <2> QED BY <2>1, <1>1, <1>3 DEF Successes, n
<1>7. Cardinality(Successes(before)) = Len(answered[r])
      /\ Cardinality(Successes(before) \cup {n + 1}) = Len(answered[r]) + 1
      /\ Cardinality(Successes(before)) \in Nat
  BY <1>5, FS_AddElement, FS_CardinalityType DEF Answers
<1>8. Cardinality(Successes(after)) = Len(answered[r]) + IF success THEN 1 ELSE 0
  <2>1. CASE success
    BY <2>1, <1>6, <1>7
  <2>2. CASE ~success
    BY <2>2, <1>6, <1>7, <1>1 DEF Answers
  <2> QED BY <2>1, <2>2
<1> QED BY <1>3, <1>4, <1>8 DEF after

\* The others stay as they are.
LEMMA OneRunMoves ==
  ASSUME InvestigationInv, NEW r \in Runs, NEW next, NEW turns,
         run' = [run EXCEPT ![r] = next], answered' = [answered EXCEPT ![r] = turns],
         LoopIsSound(r)'
  PROVE  InvestigationInv'
<1>1. ASSUME NEW s \in Runs, s # r PROVE LoopIsSound(s)'
  <2>1. run'[s] = run[s] /\ answered'[s] = answered[s]
    BY <1>1 DEF InvestigationInv
  <2> QED BY <2>1 DEF InvestigationInv, LoopIsSound, Answers
<1> QED BY <1>1 DEF InvestigationInv

\* A run that ends with its observations, or with one more of them.
LEMMA Ending ==
  ASSUME InvestigationInv, NEW r \in Runs, NEW observations \in Seq(Observed), NEW reason,
         NEW turns \in Seq(BoundArguments), IsInjective(turns), NEW trace,
         \A i \in 1 .. Len(observations) : observations[i].id = <<trace, i>>,
         Cardinality(Successes(observations)) = Len(turns),
         run' = [run EXCEPT ![r] = Result(r, observations, reason)],
         answered' = [answered EXCEPT ![r] = turns]
  PROVE  InvestigationInv'
<1>1. Len(Refs(observations)) = Len(turns) /\ IsInjective(Refs(observations))
  BY RefsOfSuccesses
<1>2. run'[r] = Result(r, observations, reason) /\ answered'[r] = turns
  BY DEF InvestigationInv
<1>3. LoopIsSound(r)'
  BY <1>1, <1>2 DEF LoopIsSound, Result
<1> QED BY <1>3, OneRunMoves

LEMMA EndKeeps ==
  ASSUME InvestigationInv, NEW r \in Runs, run[r].at \in {"decide", "call"}, NEW reason,
         End(r, reason), answered' = answered
  PROVE  InvestigationInv'
<1>1. Answers(r) /\ answered[r] \in Seq(BoundArguments) /\ IsInjective(answered[r])
  BY DEF InvestigationInv, LoopIsSound
<1>2. answered' = [answered EXCEPT ![r] = answered[r]]
  BY DEF InvestigationInv
<1> QED BY <1>1, <1>2, Ending DEF Answers, End

\* The next step, with one more observation and what it answers.
LEMMA StepKeeps ==
  ASSUME InvestigationInv, NEW r \in Runs, run[r].at \in {"decide", "call"}, NEW seen,
         NEW success \in BOOLEAN, NEW turns \in Seq(BoundArguments), IsInjective(turns),
         Len(turns) = Len(answered[r]) + (IF success THEN 1 ELSE 0),
         ToSet(turns) \subseteq seen,
         Step(r, seen, Observe(r, success)), answered' = [answered EXCEPT ![r] = turns]
  PROVE  InvestigationInv'
<1> DEFINE after == Observe(r, success)
<1>1. Answers(r)
  BY DEF InvestigationInv, LoopIsSound
<1>2. /\ after \in Seq(Observed)
      /\ \A i \in 1 .. Len(after) : after[i].id = <<run[r].trace, i>>
      /\ Cardinality(Successes(after)) = Len(turns)
  BY <1>1, Observes
<1> HIDE DEF after
<1>3. CASE run[r].step = MaxSteps
  <2>1. run' = [run EXCEPT ![r] = Result(r, after, "budget_exhausted")]
    BY <1>3 DEF Step, after
  <2> QED BY <2>1, <1>2, Ending
<1>4. CASE run[r].step # MaxSteps
  <2> DEFINE next == [at |-> "decide", trace |-> run[r].trace, step |-> run[r].step + 1,
                      seen |-> seen, observations |-> after]
  <2>1. run' = [run EXCEPT ![r] = next]
    BY <1>4 DEF Step, after, InvestigationInv
  <2>2. run'[r] = next /\ answered'[r] = turns
    BY <2>1 DEF InvestigationInv
  <2>3. /\ run'[r].at = "decide" /\ run'[r].trace = run[r].trace
        /\ run'[r].seen = seen /\ run'[r].observations = after
    BY <2>2
  <2>4. Answers(r)'
    BY <2>2, <2>3, <1>1, <1>2 DEF Answers
  <2>5. LoopIsSound(r)'
    BY <2>2, <2>3, <2>4 DEF LoopIsSound
  <2> QED BY <2>1, <2>5, OneRunMoves
<1> QED BY <1>3, <1>4

LEMMA ConcludeStep ==
  ASSUME InvestigationInv, NEW r \in Runs, Conclude(r)
  PROVE  InvestigationInv'
  BY EndKeeps DEF Conclude

LEMMA CallIsBound ==
  ASSUME NEW message \in Decisions, "call" \in DOMAIN message
  PROVE  Bound(message.call.arguments) \in BoundArguments
<1>1. message \in [call : ToolCalls]
  <2>1. CASE message \in [closing : Closings] \cup {[text |-> "no decision"]}
    <3> DOMAIN message = {"closing"} \/ DOMAIN message = {"text"}
      BY <2>1
    <3> QED OBVIOUS
  <2> QED BY <2>1 DEF Decisions, Messages
<1>2. CallIsValid(message.call)
  BY <1>1 DEF Decisions, MessageIsValid
<1>3. message.call.arguments \in Arguments
  BY <1>1, <1>2 DEF CallIsValid, ToolCalls
<1> QED BY <1>3 DEF BoundArguments

LEMMA DecideCallStep ==
  ASSUME InvestigationInv, NEW r \in Runs, DecideCall(r)
  PROVE  InvestigationInv'
<1>1. PICK message \in Decisions :
        LET bound == Bound(message.call.arguments)
            seen == run[r].seen \cup {bound}
            table == Counted(used, run[r].trace)
        IN /\ "call" \in DOMAIN message
           /\ IF bound \in run[r].seen \/ ~ReadAuthorized(message.call.capability, "read", {"tool:read"})
              THEN End(r, "blocked") /\ UNCHANGED used
              ELSE /\ used' = table
                   /\ IF CallsOf(table, run[r].trace) > MaxSteps THEN End(r, "blocked")
                      ELSE IF HasQuery(bound)
                           THEN run' = [run EXCEPT ![r] =
                                    [at |-> "call", trace |-> @.trace, step |-> @.step,
                                     seen |-> seen, observations |-> @.observations,
                                     asks |-> bound, attempt |-> 1]]
                           ELSE Step(r, seen, Observe(r, FALSE))
  BY DEF DecideCall
<1> DEFINE bound == Bound(message.call.arguments)
           seen == run[r].seen \cup {bound}
<1>2. bound \in BoundArguments
  BY <1>1, CallIsBound
<1>3. run[r].at = "decide" /\ answered' = answered
  BY DEF DecideCall
<1>4. Answers(r) /\ answered[r] \in Seq(BoundArguments) /\ IsInjective(answered[r])
      /\ answered' = [answered EXCEPT ![r] = answered[r]]
  BY <1>3 DEF InvestigationInv, LoopIsSound
<1> HIDE DEF bound
<1>5. CASE End(r, "blocked")
  BY <1>3, <1>5, EndKeeps
<1>6. CASE Step(r, seen, Observe(r, FALSE))
  <2>1. ToSet(answered[r]) \subseteq seen /\ Len(answered[r]) = Len(answered[r]) + 0
    BY <1>4 DEF Answers
  <2> HIDE DEF seen
  <2> QED BY <2>1, <1>3, <1>4, <1>6, StepKeeps
<1>7. CASE bound \notin run[r].seen
           /\ run' = [run EXCEPT ![r] =
                    [at |-> "call", trace |-> @.trace, step |-> @.step,
                     seen |-> seen, observations |-> @.observations,
                     asks |-> bound, attempt |-> 1]]
  <2> DEFINE next == [at |-> "call", trace |-> run[r].trace, step |-> run[r].step,
                      seen |-> seen, observations |-> run[r].observations,
                      asks |-> bound, attempt |-> 1]
  <2>1. run' = [run EXCEPT ![r] = next] /\ run'[r] = next /\ answered'[r] = answered[r]
    BY <1>3, <1>7 DEF InvestigationInv
  <2>2. bound \notin ToSet(answered[r]) /\ ToSet(answered[r]) \subseteq seen
    BY <1>4, <1>7 DEF Answers
  <2>3. LoopIsSound(r)'
    BY <2>1, <2>2, <1>2, <1>4 DEF LoopIsSound, Answers
  <2> QED BY <2>1, <2>3, <1>4, OneRunMoves
<1> QED BY <1>1, <1>5, <1>6, <1>7 DEF bound

\* What is appended to the answers was not among them.
LEMMA AnswerStaysInjective ==
  ASSUME NEW V, NEW turns \in Seq(V), IsInjective(turns), NEW x \in V, x \notin ToSet(turns)
  PROVE  /\ Append(turns, x) \in Seq(V) /\ IsInjective(Append(turns, x))
         /\ Len(Append(turns, x)) = Len(turns) + 1
         /\ ToSet(Append(turns, x)) = ToSet(turns) \cup {x}
<1> DEFINE n == Len(turns)
           more == Append(turns, x)
<1>1. n \in Nat /\ more \in Seq(V) /\ Len(more) = n + 1 /\ more[n + 1] = x
      /\ \A i \in 1 .. n : more[i] = turns[i] /\ turns[i] # x
  BY DEF ToSet
<1>2. DOMAIN turns = 1 .. n /\ DOMAIN more = 1 .. n + 1
  OBVIOUS
<1> HIDE DEF more, n
<1>3. IsInjective(more)
  <2> SUFFICES ASSUME NEW i \in 1 .. n + 1, NEW j \in 1 .. n + 1, more[i] = more[j] PROVE i = j
    BY <1>2 DEF IsInjective
  <2> QED BY <1>1, <1>2 DEF IsInjective
<1>4. ToSet(more) = ToSet(turns) \cup {x}
  BY <1>1, <1>2 DEF ToSet
<1> QED BY <1>1, <1>3, <1>4 DEF more, n

LEMMA AnsweredStep ==
  ASSUME InvestigationInv, NEW r \in Runs, Answer(r)
  PROVE  InvestigationInv'
<1> DEFINE turns == Append(answered[r], run[r].asks)
<1>1. /\ run[r].at = "call" /\ answered[r] \in Seq(BoundArguments) /\ IsInjective(answered[r])
      /\ run[r].asks \in BoundArguments /\ run[r].asks \in run[r].seen
      /\ run[r].asks \notin ToSet(answered[r]) /\ ToSet(answered[r]) \subseteq run[r].seen
      /\ Step(r, run[r].seen, Observe(r, TRUE))
  BY DEF Answer, InvestigationInv, LoopIsSound, Answers
<1>2. answered' = [answered EXCEPT ![r] = turns]
  BY DEF Answer
<1>3. turns \in Seq(BoundArguments) /\ IsInjective(turns) /\ Len(turns) = Len(answered[r]) + 1
      /\ ToSet(turns) \subseteq run[r].seen
  BY <1>1, AnswerStaysInjective
<1> HIDE DEF turns
<1> QED BY <1>1, <1>2, <1>3, StepKeeps

LEMMA CallFailsStep ==
  ASSUME InvestigationInv, NEW r \in Runs, CallFails(r)
  PROVE  InvestigationInv'
<1>1. run[r].at = "call" /\ answered' = answered
      /\ (End(r, "blocked") \/ run' = [run EXCEPT ![r].attempt = @ + 1])
  BY DEF CallFails
<1>2. CASE End(r, "blocked")
  BY <1>1, <1>2, EndKeeps
<1>3. CASE run' = [run EXCEPT ![r].attempt = @ + 1]
  <2> DEFINE next == [run[r] EXCEPT !.attempt = @ + 1]
  <2>1. run' = [run EXCEPT ![r] = next] /\ answered' = [answered EXCEPT ![r] = answered[r]]
    BY <1>1, <1>3 DEF InvestigationInv
  <2>2. run'[r] = next /\ answered'[r] = answered[r]
    BY <2>1 DEF InvestigationInv
  <2>3. LoopIsSound(r)
    BY DEF InvestigationInv
  <2>4. LoopIsSound(r)'
    BY <2>2, <2>3, <1>1 DEF LoopIsSound, Answers
  <2> QED BY <2>1, <2>4, OneRunMoves
<1> QED BY <1>1, <1>2, <1>3

LEMMA InitInvestigation == InvestigationInit => InvestigationInv
<1> SUFFICES ASSUME InvestigationInit PROVE InvestigationInv
  OBVIOUS
<1>1. run = [r \in Runs |-> run[r]] /\ answered = [r \in Runs |-> answered[r]]
  BY DEF InvestigationInit
<1>2. ASSUME NEW r \in Runs PROVE LoopIsSound(r)
  <2>1. PICK t \in Traces : run[r] = [at |-> "decide", trace |-> t, step |-> 1, seen |-> {},
                                      observations |-> <<>>]
    BY DEF InvestigationInit
  <2>2. answered[r] = <<>>
    BY DEF InvestigationInit
  <2>3. /\ run[r].at = "decide" /\ run[r].trace = t
        /\ run[r].seen = {} /\ run[r].observations = <<>>
    BY <2>1
  <2>4. Successes(<<>>) = {} /\ Cardinality({}) = 0 /\ ToSet(<<>>) = {} /\ IsInjective(<<>>)
    BY FS_EmptySet DEF Successes, ToSet, IsInjective
  <2>5. Answers(r)
    <3>1. <<>> \in Seq(Observed) /\ Len(<<>>) = 0 /\ 1 .. Len(<<>>) = {}
      OBVIOUS
    <3>2. Cardinality(Successes(run[r].observations)) = Len(answered[r])
      <4>1. Cardinality(Successes(<<>>)) = 0
        BY <2>4
      <4> QED BY <2>2, <2>3, <3>1, <4>1
    <3>3. ToSet(answered[r]) \subseteq run[r].seen
      BY <2>2, <2>3, <2>4
    <3> QED BY <2>3, <3>1, <3>2, <3>3 DEF Answers
  <2> QED BY <2>2, <2>3, <2>4, <2>5 DEF LoopIsSound
<1> QED BY <1>1, <1>2 DEF InvestigationInv

\* Each success of a run is numbered and answers a request of its own.
THEOREM InvestigationInvariance == InvestigationSpec => []InvestigationInv
<1>1. ASSUME InvestigationInv, [InvestigationNext]_investigationVars PROVE InvestigationInv'
  <2>1. CASE UNCHANGED <<run, answered>>
    BY <2>1, <1>1 DEF InvestigationInv, LoopIsSound, Answers
  <2>2. CASE \E trace \in Traces : Search(trace)
    BY <2>1, <2>2 DEF Search
  <2>3. CASE \E r \in Runs : Conclude(r) \/ DecideCall(r) \/ Answer(r) \/ CallFails(r)
    BY <2>3, <1>1, ConcludeStep, DecideCallStep, AnsweredStep, CallFailsStep
  <2> QED BY <1>1, <2>1, <2>2, <2>3 DEF InvestigationNext, investigationVars
<1> QED BY <1>1, InitInvestigation, PTL DEF InvestigationSpec

\* A run cites each answer it got once, and asks a provider for none twice
\* (InvestigationLoop.run and its _evidence_refs).
THEOREM EvidenceOfItsOwn == InvestigationSpec => []EvidenceIsItsOwn
<1>1. InvestigationInv => EvidenceIsItsOwn
  BY DEF InvestigationInv, LoopIsSound, EvidenceIsItsOwn
<1> QED BY <1>1, InvestigationInvariance, PTL
===============================================================================
