---------------------------- MODULE Investigation ----------------------------
(* InvestigationLoop over the shared ToolGateway: a model decides, the loop   *)
(* binds and checks its call, the gateway used it and asks the provider.    *)
(* Several runs in one process; a run is interrupted while its model or its   *)
(* provider is waited for.  The worker, the question and the MCP client that  *)
(* search under the trace of a run are Search.                                *)
EXTENDS Integers, Sequences, SequencesExt, TraceBudget, RequestContext, Selections

CONSTANTS Runs,
          Capability,   \* KNOWLEDGE_SEARCH, the capability the agent registers
          Visible,      \* allowed_capabilities of the requests
          Configured,   \* the providers an agent may have: sets of records [id, priority]
          Arguments,    \* what a model may ask for: [query, tenant, visibility, options]
          MaxSteps,     \* max_steps of a request, and its max_tool_calls
          MaxTries

InvestigationAssumption == {MaxSteps, MaxTries} \subseteq Nat \ {0}

VARIABLES used,       \* ToolGateway._calls
          run,        \* of each run: where it is, and what it has seen
          answered    \* history: of each run, the arguments a provider has answered

investigationVars == <<used, run, answered>>

InvestigationInit ==
    /\ used = <<>>
    /\ run \in [Runs -> {[at |-> "decide", trace |-> t, step |-> 1, seen |-> {},
                          observations |-> <<>>] : t \in Traces}]
    /\ answered = [r \in Runs |-> <<>>]

-----------------------------------------------------------------------------
(* What a model may answer, and what the adapter makes of it *)

StopReasons == {"completed", "budget_exhausted", "insufficient_evidence", "blocked"}
Closings == [conclusion : BOOLEAN, reason : StopReasons \cup {None}]
ToolCalls == [capability : Visible \cup {Capability, "write_order", None},
              arguments : Arguments \cup {None}]

\* AgentDecision, or nothing that parses.
Messages == [call : ToolCalls] \cup [closing : Closings] \cup {[text |-> "no decision"]}

\* _validate_tool_call and the checks of a native call before it.
CallIsValid(call) == call.capability \in Visible \cap {Capability} /\ call.arguments # None

\* _parse_and_validate of a message that ends the run.
ClosingIsValid(closing) ==
    /\ closing.conclusion \/ closing.reason # None
    /\ closing.reason \in {None, "completed", "insufficient_evidence"}

\* The native branch takes the first tool call, both parse the text otherwise.
MessageIsValid(message) ==
    \/ "call" \in DOMAIN message /\ CallIsValid(message.call)
    \/ "closing" \in DOMAIN message /\ ClosingIsValid(message.closing)

\* The first answer of the model, or the repaired one; two wrong ones end the run.
Decisions == {message \in Messages : MessageIsValid(message)}

ReasonOf(closing) ==
    IF closing.reason # None THEN closing.reason
    ELSE IF closing.conclusion THEN "completed" ELSE "insufficient_evidence"

\* _bind_runtime_arguments
Bound(arguments) ==
    [arguments EXCEPT !.tenant = Tenant, !.options = IF @ = None THEN "default" ELSE @]

\* The adapter numbers a call by the observations so far.
CallId(r) == <<run[r].trace, Len(run[r].observations) + 1>>
Observe(r, success) == Append(run[r].observations, [id |-> CallId(r), success |-> success])

-----------------------------------------------------------------------------
(* The gateway and the providers *)

\* ToolPolicy.authorize: an investigation reads what its request lists.
ReadAuthorized(capability, access, permissions) ==
    capability \in Visible /\ access = "read" /\ "tool:read" \in permissions

\* The input schema: of the four fields it requires only the query is the model's.
HasQuery(arguments) == arguments.query # None

\* ToolResolver.resolve without a preferred provider.
Resolved(providers) == CHOOSE p \in providers : \A q \in providers : p.priority <= q.priority

\* What a provider may come to; the local one takes only scopes it can parse.
ProviderReplies(provider, arguments) ==
    {"timeout", "raises"} \cup
    CASE provider.id = "mcp-http" -> {"tool error", "no content", "plain text", "bundle", "long bundle"}
      [] provider.id = "local-retrieval" ->
             IF arguments.visibility \in {"public", "tenant"} /\ arguments.tenant = Tenant
             THEN {"bundle", "long bundle"} ELSE {}

\* What the gateway makes of a reply: a plain text has not the fields of a bundle, and a
\* long one is cut, which a model may read but RetrievalCapabilityClient may not.
Outcome(reply) ==
    CASE reply = "timeout" -> "again"
      [] reply \in {"raises", "tool error", "no content", "plain text"} -> "blocked"
      [] reply \in {"bundle", "long bundle"} -> "observed"
MayCome(r, outcome) ==
    \E providers \in Configured :
        \E reply \in ProviderReplies(Resolved(providers), run[r].asks) : Outcome(reply) = outcome

-----------------------------------------------------------------------------
(* The loop *)

\* Observations that failed are cited too.
MutantFailuresCited(observations) == [i \in DOMAIN observations |-> observations[i].id]

Refs(observations) ==
    LET successes == Only(observations, {o \in ToSet(observations) : o.success})
    IN [i \in DOMAIN successes |-> successes[i].id]

\* InvestigationResult
Result(r, observations, reason) ==
    [at |-> "done", trace |-> run[r].trace, refs |-> Refs(observations), reason |-> reason]
End(r, reason) == run' = [run EXCEPT ![r] = Result(r, run[r].observations, reason)]

\* After an observation: the next step, unless that was the last.
Step(r, seen, observations) ==
    run' = [run EXCEPT ![r] =
        IF run[r].step = MaxSteps THEN Result(r, observations, "budget_exhausted")
        ELSE [at |-> "decide", trace |-> @.trace, step |-> @.step + 1, seen |-> seen,
              observations |-> observations]]

\* The model has come to an end, or what it says is wrong twice.
Conclude(r) ==
    /\ run[r].at = "decide"
    /\ \/ \E message \in Decisions :
              "closing" \in DOMAIN message /\ End(r, ReasonOf(message.closing))
       \/ End(r, "raised")
    /\ UNCHANGED <<used, answered>>

\* A call, up to the provider: a repeated one ends the run, and so does the gateway's
\* refusal; malformed arguments are an observation that failed.
DecideCall(r) ==
    /\ run[r].at = "decide"
    /\ \E message \in Decisions :
        LET bound == Bound(message.call.arguments)
            seen == run[r].seen \cup {bound}
            table == Counted(used, run[r].trace)
        IN /\ "call" \in DOMAIN message
           /\ IF bound \in run[r].seen \/ ~ReadAuthorized(message.call.capability, "read", {"tool:read"})
              THEN End(r, "blocked") /\ UNCHANGED used
              ELSE /\ used' = table
                   /\ IF CallsOf(table, run[r].trace) > MaxSteps THEN End(r, "blocked")
                      ELSE IF HasQuery(bound)
                           THEN run' = [run EXCEPT ![r] =
                                    [at |-> "call", trace |-> @.trace, step |-> @.step,
                                     seen |-> seen, observations |-> @.observations,
                                     asks |-> bound, attempt |-> 1]]
                           ELSE Step(r, seen, Observe(r, FALSE))
    /\ UNCHANGED answered

Answer(r) ==
    /\ run[r].at = "call" /\ MayCome(r, "observed")
    /\ answered' = [answered EXCEPT ![r] = Append(@, run[r].asks)]
    /\ Step(r, run[r].seen, Observe(r, TRUE))
    /\ UNCHANGED used

\* A timeout or a lost connection is tried again; the last one, and any other failure,
\* ends the run.
CallFails(r) ==
    /\ run[r].at = "call"
    /\ \/ /\ run[r].attempt < MaxTries /\ MayCome(r, "again")
          /\ run' = [run EXCEPT ![r].attempt = @ + 1]
       \/ /\ run[r].attempt = MaxTries /\ MayCome(r, "again")
          /\ End(r, "blocked")
       \/ MayCome(r, "blocked") /\ End(r, "blocked")
    /\ UNCHANGED <<used, answered>>

\* RetrievalCapabilityClient.retrieve, and knowledge_search of the agent's own MCP server: a
\* search that may make one call, whose trace its caller chose.  Whether it is answered or
\* refused, it has been counted; further ones than a run may make change nothing.
Search(trace) ==
    /\ CallsOf(used, trace) < MaxSteps
    /\ used' = Counted(used, trace)
    /\ UNCHANGED <<run, answered>>

InvestigationNext ==
    \/ \E r \in Runs : Conclude(r) \/ DecideCall(r) \/ Answer(r) \/ CallFails(r)
    \/ \E trace \in Traces : Search(trace)

InvestigationSpec == InvestigationInit /\ [][InvestigationNext]_investigationVars

(* Properties *)

\* What a run cites is what it was answered: one reference of its own for each answer, and
\* no two answers to the same request as the provider sees it, however the model words it.
EvidenceIsItsOwn ==
    \A r \in Runs :
        /\ IsInjective(answered[r])
        /\ run[r].at = "done" => /\ Len(run[r].refs) = Len(answered[r])
                                 /\ IsInjective(run[r].refs)

=============================================================================
