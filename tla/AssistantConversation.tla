------------------------ MODULE AssistantConversation ------------------------
(* AssistantService.execute, /v1/qa/query and the conversation store: several *)
(* requests of one user's thread, in several instances of the agent on one    *)
(* store.  Every access to the store is a transaction and a step of its own.  *)
(* Within an instance, which has one event loop, a request is only            *)
(* interrupted where it awaits the route classifier or the chain it was       *)
(* routed to; requests of different instances meet anywhere.                  *)
(*                                                                            *)
(* A message is the set of what the rules find in it, and a merged message    *)
(* the union.  The row keeps its answered turns in one sequence, oldest       *)
(* first: the rolling summary, then the window of recent messages.  life,     *)
(* saved and outlived only serve the properties.                              *)
EXTENDS Integers, Sequences, RequestContext

CONSTANTS Requests,
          InstanceOf,   \* the instance of the agent a request comes to
          UserMessages, \* subsets of Words
          Window,       \* turns in the window: half the recent_limit, which counts messages
          MaxExpiries

Words == {"dispatch", "incident", "knowledge", "device", "work order"}

Routes == {"KNOWLEDGE_QA", "DIRECT_DISPATCH", "INCIDENT_INVESTIGATION", "NEEDS_CLARIFICATION"}

\* What may be confirmed about a pending turn is any route but the question for it.
Turns == [words : SUBSET Words, number : Nat,
          route : (Routes \ {"NEEDS_CLARIFICATION"}) \cup {None}]
Rows == [version : Nat, life : Nat, turns : Seq(Requests), pending : Turns \cup {None},
         expired : BOOLEAN]

ConversationAssumption ==
    /\ DOMAIN InstanceOf = Requests
    /\ UserMessages \subseteq SUBSET Words
    /\ Window \in Nat \ {0}
    /\ MaxExpiries \in Nat
    /\ None \notin Rows \cup Turns \cup Routes

VARIABLES row,        \* conversations row of the thread, or None
          request,    \* of each request: where it is, and what it has read
          life,       \* rows inserted so far
          saved,      \* pending turns saved so far
          outlived,   \* whether a row was overwritten from what was read of an earlier one
          expiries

conversationVars == <<row, request, life, saved, outlived, expiries>>

Fresh == [version |-> 0, life |-> 0, turns |-> <<>>, pending |-> None, expired |-> FALSE]

\* Of a request: where it is; the message and the route; the pending turn it loaded and the
\* one it goes on with; the row it read for its next write; where it goes once it has deleted
\* an expired row; and how it ended.
IdleRequest == [at |-> "idle", words |-> {}, route |-> None, seen |-> None, took |-> None,
                snapshot |-> Fresh, then |-> None, outcome |-> None]

ConversationInit ==
    /\ row = None
    /\ request = [r \in Requests |-> IdleRequest]
    /\ life = 0 /\ saved = 0 /\ outlived = FALSE /\ expiries = 0

(* The event loop. *)

\* Where a request lets others of its instance run.
Awaits == {"idle", "classify", "answer", "investigate", "done"}
MayRun(r) ==
    \A s \in Requests \ {r} : InstanceOf[s] = InstanceOf[r] => request[s].at \in Awaits
RunsAt(r, place) == request[r].at = place /\ MayRun(r)

(* The store. *)

\* What load returns: an expired row counts as none.
Expired == row # None /\ row.expired
Loaded == IF row = None \/ Expired THEN Fresh ELSE row

\* An update looks at no version.
MutantLastWriterWins(state) ==
    IF state.version = 0 THEN row # None ELSE row = None

\* save: insert if the writer read no row, else update the version it read.
Conflict(state) ==
    IF state.version = 0 THEN row # None ELSE row = None \/ row.version # state.version

\* A turn is cleared without a new version.
MutantClearKeepsVersion(state, expired) ==
    /\ row' = [state EXCEPT !.version = IF state.pending = None THEN @ ELSE @ + 1,
                            !.life = IF state.version = 0 THEN life + 1 ELSE row.life,
                            !.expired = expired]
    /\ life' = IF state.version = 0 THEN life + 1 ELSE life
    /\ outlived' = (outlived \/ (state.version # 0 /\ state.life < row.life))

Save(state, expired) ==
    /\ row' = [state EXCEPT !.version = @ + 1,
                            !.life = IF state.version = 0 THEN life + 1 ELSE row.life,
                            !.expired = expired]
    /\ life' = IF state.version = 0 THEN life + 1 ELSE life
    /\ outlived' = (outlived \/ (state.version # 0 /\ state.life < row.life))

(* Routing. *)

\* route_by_rules
ByRules(words) ==
    IF {"dispatch", "incident", "device"} \subseteq words THEN "INCIDENT_INVESTIGATION"
    ELSE IF "dispatch" \in words THEN "DIRECT_DISPATCH"
    ELSE IF "incident" \in words THEN "INCIDENT_INVESTIGATION"
    ELSE IF "knowledge" \in words THEN "KNOWLEDGE_QA"
    ELSE "NEEDS_CLARIFICATION"

\* A confirmed intent is guessed again.
MutantGuessedAgain(pending, words) == ByRules(words)

\* RequestRouter.route: a confirmed intent is not guessed again.
Routed(pending, words) ==
    IF pending # None /\ pending.route # None THEN pending.route ELSE ByRules(words)

\* What the chain cannot start without.
Missing(route, words) ==
    CASE route = "NEEDS_CLARIFICATION" -> {"intent"}
      [] route = "DIRECT_DISPATCH" -> {"work order"} \ words
      [] route = "INCIDENT_INVESTIGATION" -> {"device"} \ words
      [] route = "KNOWLEDGE_QA" -> {}

(* A request. *)

Ended(q, outcome) == [IdleRequest EXCEPT !.at = "done", !.took = q.took, !.outcome = outcome]
Becomes(r, next) == request' = [request EXCEPT ![r] = next]

\* The chain of the route, or the question for what it cannot start without.
Onward(q) ==
    IF Missing(q.route, q.words) # {} THEN [q EXCEPT !.at = "ask", !.seen = None]
    ELSE CASE q.route = "KNOWLEDGE_QA" -> [IdleRequest EXCEPT !.at = "prepare", !.took = q.took]
           [] q.route = "INCIDENT_INVESTIGATION" ->
                  [IdleRequest EXCEPT !.at = "investigate", !.took = q.took]
           [] q.route = "DIRECT_DISPATCH" -> Ended(q, "NEEDS_APPROVAL")

\* A pending turn that is continued, by whatever route, is first cleared.
Decided(q, route) ==
    IF q.seen # None /\ route # "NEEDS_CLARIFICATION"
    THEN [q EXCEPT !.at = "clear", !.route = route]
    ELSE Onward([q EXCEPT !.route = route])

\* From clear_pending on, the request goes on with the turn it loaded at first.
Continued(q) == Onward([q EXCEPT !.took = q.seen, !.snapshot = Fresh])

\* execute routes the message together with the pending turn.  Only an intent the rules do
\* not find goes to the classifier, never one that was confirmed.
Begun(q, pending) ==
    LET words == q.words \cup (IF pending = None THEN {} ELSE pending.words)
        route == Routed(pending, words)
        merged == [q EXCEPT !.words = words, !.seen = pending]
    IN IF route = "NEEDS_CLARIFICATION" THEN [merged EXCEPT !.at = "classify"]
       ELSE Decided(merged, route)

\* What a request does with what it loads: to begin; in clear_pending, which clears whatever
\* turn is there by now; in save_pending; and in prepare, for the answer to be recorded in.
Found(q, state) ==
    CASE q.at = "execute" -> Begun(q, state.pending)
      [] q.at = "clear" -> IF state.pending = None THEN Continued(q)
                           ELSE [q EXCEPT !.at = "clearing", !.snapshot = state]
      [] q.at = "ask" -> [q EXCEPT !.at = "asking", !.snapshot = state]
      [] q.at = "prepare" -> [q EXCEPT !.at = "answer", !.snapshot = state]

\* load: an expired row counts as none, but has to be deleted first.
Load(r, q) ==
    /\ request' = [request EXCEPT ![r] =
           IF Expired THEN [q EXCEPT !.at = "delete", !.then = q.at] ELSE Found(q, Loaded)]
    /\ UNCHANGED <<row, life, saved, outlived, expiries>>

\* The delete is a transaction of its own and looks at no version.
Delete(r) ==
    LET q == request[r]
    IN /\ RunsAt(r, "delete")
       /\ row' = None
       /\ Becomes(r, Found([q EXCEPT !.at = q.then, !.then = None], Fresh))
       /\ UNCHANGED <<life, saved, outlived, expiries>>

Execute(r, message) ==
    RunsAt(r, "idle") /\ Load(r, [IdleRequest EXCEPT !.at = "execute", !.words = message])
\* /v1/qa/query answers in the same conversation, without routing.
Query(r) == RunsAt(r, "idle") /\ Load(r, [IdleRequest EXCEPT !.at = "prepare"])
ClearLoads(r) == RunsAt(r, "clear") /\ Load(r, request[r])
AskLoads(r) == RunsAt(r, "ask") /\ Load(r, request[r])
Prepare(r) == RunsAt(r, "prepare") /\ Load(r, request[r])

\* The model names a route of its choice, or "needs clarification", which is also what is
\* left of a reply that does not parse.
Classified == Routes

Classify(r) ==
    /\ RunsAt(r, "classify")
    /\ \E route \in Classified : Becomes(r, Decided(request[r], route))
    /\ UNCHANGED <<row, life, saved, outlived, expiries>>

\* The expiry date stays what it was in the row that was read.
ClearSaves(r) ==
    LET q == request[r]
        expiry == IF row = None \/ q.snapshot.life < row.life THEN BOOLEAN ELSE {row.expired}
    IN /\ RunsAt(r, "clearing")
       /\ IF Conflict(q.snapshot)
          THEN Becomes(r, Ended(q, "conflict")) /\ UNCHANGED <<row, life, outlived>>
          ELSE /\ \E expired \in expiry : Save([q.snapshot EXCEPT !.pending = None], expired)
               /\ Becomes(r, Continued(q))
       /\ UNCHANGED <<saved, expiries>>

\* The route of a turn is confirmed unless it still needs clarification.
Question(q) ==
    [words |-> q.words, number |-> saved + 1,
     route |-> IF q.route = "NEEDS_CLARIFICATION" THEN None ELSE q.route]

\* save_pending puts its turn over the one that is there.
AskSaves(r) ==
    LET q == request[r]
    IN /\ RunsAt(r, "asking")
       /\ IF Conflict(q.snapshot)
          THEN Becomes(r, Ended(q, "conflict")) /\ UNCHANGED <<row, life, saved, outlived>>
          ELSE /\ Save([q.snapshot EXCEPT !.pending = Question(q)], FALSE)
               /\ saved' = saved + 1
               /\ Becomes(r, Ended(q, "NEEDS_INPUT"))
       /\ UNCHANGED expiries

\* The turns but for the k oldest.
Without(turns, k) == [i \in 1 .. Len(turns) - k |-> turns[i + k]]

\* What falls out of the window is kept in a summary of limited length, by its end: any
\* number of the oldest turns may be lost, but none of the window.
MutantSummaryCutsWindow(turns) == 0 .. Len(turns)
MayBeLost(turns) == {k \in 0 .. Len(turns) : k = 0 \/ Len(turns) - k >= Window}

\* record_turn
RecordTurn(r) ==
    LET q == request[r]
        turns == Append(q.snapshot.turns, r)
    IN /\ RunsAt(r, "answer")
       /\ IF Conflict(q.snapshot)
          THEN Becomes(r, Ended(q, "conflict")) /\ UNCHANGED <<row, life, outlived>>
          ELSE /\ \E k \in MayBeLost(turns) :
                     Save([q.snapshot EXCEPT !.turns = Without(turns, k)], FALSE)
               /\ Becomes(r, Ended(q, "ANSWERED"))
       /\ UNCHANGED <<saved, expiries>>

\* The chain ends without the conversation, or raises.
ChainEnds(r) ==
    /\ \/ RunsAt(r, "answer") /\ Becomes(r, Ended(request[r], "failed"))
       \/ RunsAt(r, "investigate")
          /\ \E o \in {"INVESTIGATED", "failed"} : Becomes(r, Ended(request[r], o))
    /\ UNCHANGED <<row, life, saved, outlived, expiries>>

\* An instance stops: its requests are gone, the row is not.
Stop(instance) ==
    LET gone == {r \in Requests : /\ InstanceOf[r] = instance
                                  /\ request[r].at \notin {"idle", "done"}}
    IN /\ gone # {}
       /\ request' = [r \in Requests |->
                         IF r \in gone THEN Ended(request[r], "failed") ELSE request[r]]
       /\ UNCHANGED <<row, life, saved, outlived, expiries>>

\* expires_at goes by.
Expire ==
    /\ row # None /\ ~row.expired
    /\ expiries < MaxExpiries
    /\ row' = [row EXCEPT !.expired = TRUE]
    /\ expiries' = expiries + 1
    /\ UNCHANGED <<request, life, saved, outlived>>

ConversationNext ==
    \/ \E r \in Requests :
        \/ \E message \in UserMessages : Execute(r, message)
        \/ Query(r) \/ ClearLoads(r) \/ AskLoads(r) \/ Prepare(r) \/ Delete(r)
        \/ Classify(r) \/ ClearSaves(r) \/ AskSaves(r)
        \/ RecordTurn(r) \/ ChainEnds(r)
    \/ \E r \in Requests : Stop(InstanceOf[r])
    \/ Expire

ConversationSpec == ConversationInit /\ [][ConversationNext]_conversationVars

(* Properties *)

Places == {"idle", "execute", "delete", "classify", "clear", "clearing", "ask", "asking", "prepare",
           "answer", "investigate", "done"}
RequestStates == [at : Places, words : SUBSET Words, route : Routes \cup {None},
                  seen : Turns \cup {None}, took : Turns \cup {None},
                  snapshot : Rows, then : Places \cup {None},
                  outcome : {"NEEDS_INPUT", "NEEDS_APPROVAL", "ANSWERED", "INVESTIGATED",
                             "conflict", "failed", None}]

ConversationType ==
    /\ row \in Rows \cup {None}
    /\ request \in [Requests -> RequestStates]
    /\ life \in Nat /\ saved \in Nat /\ expiries \in Nat
    /\ outlived \in BOOLEAN

\* The request that moves in this step.
Acts(r) == request'[r] # request[r]
SameRow == row # None /\ row' # None /\ row'.life = row.life
\* It writes what it read of a row that has expired and been replaced: version numbers start
\* again with a new row, so its save may pass for an update of the new one.
OfAnEarlierRow(r) ==
    request[r].at \in {"clearing", "asking", "answer"} /\ request[r].snapshot.life < row.life

\* `new' begins with `old' but for its oldest turns, and these are missing only if what is
\* left fills the window.
KeptIn(old, new) ==
    \E k \in 0 .. Len(old) :
        /\ \A i \in 1 .. Len(old) - k : i \in DOMAIN new /\ new[i] = old[i + k]
        /\ k > 0 => Len(new) >= Window

\* Answered turns leave their conversation oldest first, and none of the newest that fill the
\* window does, whatever other requests of the thread do meanwhile in this instance or
\* another: only a request that outlived the row it read can displace one.
TurnsAreKept ==
    [][SameRow /\ ~KeptIn(row.turns, row'.turns) =>
          \E r \in Requests : Acts(r) /\ OfAnEarlierRow(r)]_conversationVars

\* The turn the user was asked to complete is dropped or replaced only by a request that
\* found this turn when it last read the row, to clear it or to ask a question of its own.
\* An answer that was on its way never drops it, nor does a clearing that meant another.
PendingIsTakenUp ==
    [][SameRow /\ row.pending # None /\ row'.pending # row.pending =>
          \E r \in Requests :
              /\ Acts(r)
              /\ \/ /\ request[r].at \in {"clearing", "asking"}
                    /\ request[r].snapshot.pending = row.pending
                 \/ OfAnEarlierRow(r)]_conversationVars

\* A turn that was cleared or replaced does not come back: one that appears was saved just
\* now, and has not been continued by anybody.
ClearedStaysCleared ==
    [][row' # None /\ row'.pending # None /\ (row = None \/ row.pending # row'.pending) =>
          \/ row'.pending.number = saved'  /\ saved' > saved
          \/ \E r \in Requests : Acts(r) /\ OfAnEarlierRow(r)]_conversationVars

\* Of the requests of one instance at most one continues a confirmed intent, whatever the
\* other instances do: from loading it to clearing it nothing is awaited.  It comes back only
\* when a request wrote what it had read of an earlier row.
ConfirmedIsTakenOnce ==
    ~outlived => \A r, s \in Requests :
        /\ r # s /\ InstanceOf[r] = InstanceOf[s]
        /\ request[r].took # None
        /\ request[r].took = request[s].took
        => request[r].took.route = None
=============================================================================
