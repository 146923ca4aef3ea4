---------------------------- MODULE DispatchTools ----------------------------
(* DispatchToolGateway: every call of the dispatch runtime to the order       *)
(* service goes through it.  Calls of several dispatch threads run at once    *)
(* in one process; a call is only interrupted while its attempt is waiting    *)
(* for the service.  Requests, responses and the audit list of attempts are   *)
(* left out.                                                                  *)
EXTENDS Integers, Sequences, FiniteSets, TraceBudget

CONSTANTS Calls,
          Tools,
          MaxAttempts,          \* of a call
          CircuitThreshold,     \* circuit_failure_threshold
          MaxToolCalls          \* max_tool_calls of every request context

ToolsAssumption ==
    {MaxAttempts, CircuitThreshold, MaxToolCalls} \subseteq Nat \ {0}

VARIABLES counts,       \* _calls_by_trace
          failures,     \* _consecutive_failures
          late,         \* traces whose deadline has passed
          call,         \* of each call: its tool and trace, the attempt, how it ended
          ended,        \* history: of each tool, how its attempts ended
          attempted,    \* history: of each trace, attempts made
          forgotten     \* history: of each trace, how often its count was dropped

toolVars == <<counts, failures, late, call, ended, attempted, forgotten>>

Idle == [at |-> "idle"]
Waiting(c) == call[c].at = "waiting"

ToolsInit ==
    /\ counts = <<>>
    /\ failures = [t \in Tools |-> 0]
    /\ late = {}
    /\ call = [c \in Calls |-> Idle]
    /\ ended = [t \in Tools |-> <<>>]
    /\ attempted = [t \in Traces |-> 0]
    /\ forgotten = [t \in Traces |-> 0]

Refused(why) == [at |-> "refused", why |-> why]
Done == [at |-> "done"]

\* Only the first attempt of a call is counted.
MutantRetriesAreFree(c, tool, trace, n) ==
    LET table == IF n = 1 THEN Counted(counts, trace) ELSE counts
        within == CallsOf(table, trace) <= MaxToolCalls
    IN IF trace \in late
       THEN /\ call' = [call EXCEPT ![c] = Refused("deadline")]
            /\ UNCHANGED <<counts, attempted, forgotten>>
       ELSE /\ counts' = table
            /\ forgotten' = [t \in Traces |->
                   IF n = 1 /\ t \in Forgotten(counts, trace) THEN forgotten[t] + 1
                   ELSE forgotten[t]]
            /\ attempted' = IF within THEN [attempted EXCEPT ![trace] = @ + 1] ELSE attempted
            /\ call' = [call EXCEPT ![c] =
                   IF within THEN [at |-> "waiting", tool |-> tool, trace |-> trace, attempt |-> n]
                   ELSE Refused("budget")]

\* _check_budget_and_deadline and the attempt it lets through.  A refused attempt has
\* been counted too, one after the deadline has not.
Attempt(c, tool, trace, n) ==
    IF trace \in late
    THEN /\ call' = [call EXCEPT ![c] = Refused("deadline")]
         /\ UNCHANGED <<counts, attempted, forgotten>>
    ELSE LET within == CallsOf(Counted(counts, trace), trace) <= MaxToolCalls
         IN /\ counts' = Counted(counts, trace)
            /\ forgotten' = [t \in Traces |->
                   IF t \in Forgotten(counts, trace) THEN forgotten[t] + 1 ELSE forgotten[t]]
            /\ attempted' = IF within THEN [attempted EXCEPT ![trace] = @ + 1] ELSE attempted
            /\ call' = [call EXCEPT ![c] =
                   IF within THEN [at |-> "waiting", tool |-> tool, trace |-> trace, attempt |-> n]
                   ELSE Refused("budget")]

CircuitOpen(tool) == failures[tool] >= CircuitThreshold

Permission(tool) ==
    CASE tool = "create_assignment"      -> "dispatch:write"
      [] tool = "publish_dispatch_audit" -> "dispatch:audit"
      [] OTHER                           -> "dispatch:read"

\* The system has every tool; the frozen skill and the request must both grant this one.
Authorized(tool, declared, permissions) ==
    tool \in declared /\ Permission(tool) \in permissions

\* A call is about the tenant of its request, and a command about its event too.
Inputs == [tenant : {"own", "other"}, event : {"own", "other"}]
ContractHolds(tool, input) ==
    /\ input.tenant = "own"
    /\ tool = "create_assignment" => input.event = "own"

\* A call up to its first await.
Invoke(c, tool, trace) ==
    /\ call[c] = Idle
    /\ \E declared \in SUBSET Tools, permissions \in SUBSET {Permission(t) : t \in Tools},
          input \in Inputs :
        LET why == CASE ~ContractHolds(tool, input) -> "contract"
                     [] ContractHolds(tool, input) /\ ~Authorized(tool, declared, permissions) ->
                            "permission"
                     [] OTHER -> "circuit"
        IN IF why = "circuit" /\ ~CircuitOpen(tool)
           THEN Attempt(c, tool, trace, 1)
           ELSE /\ call' = [call EXCEPT ![c] = Refused(why)]
                /\ UNCHANGED <<counts, attempted, forgotten>>
    /\ UNCHANGED <<failures, late, ended>>

\* What the answer of the order service is to the gateway; a business error is an answer to
\* a command alone, and only when it carries a receipt.
Responses == {"none", "server error", "no JSON", "client error", "refusal with receipt",
              "other contract", "ok"}
Meaning(tool, response) ==
    CASE response \in {"none", "server error"} -> "unavailable"
      [] response \in {"no JSON", "client error", "other contract"} -> "contract error"
      [] response = "refusal with receipt" ->
             IF tool = "create_assignment" THEN "answer" ELSE "contract error"
      [] response = "ok" -> "answer"
Means(c, meaning) == \E response \in Responses : Meaning(call[c].tool, response) = meaning

\* A success leaves the count of failures as it is.
MutantFailuresKept(c) ==
    /\ Waiting(c)
    /\ ended' = [ended EXCEPT ![call[c].tool] = Append(@, "success")]
    /\ call' = [call EXCEPT ![c] = Done]
    /\ UNCHANGED <<counts, failures, late, attempted, forgotten>>

Succeed(c) ==
    /\ Waiting(c) /\ Means(c, "answer")
    /\ failures' = [failures EXCEPT ![call[c].tool] = 0]
    /\ ended' = [ended EXCEPT ![call[c].tool] = Append(@, "success")]
    /\ call' = [call EXCEPT ![c] = Done]
    /\ UNCHANGED <<counts, late, attempted, forgotten>>

\* A timeout or an unavailable service: one more attempt, whatever the circuit says by now.
Fail(c) ==
    /\ Waiting(c) /\ Means(c, "unavailable")
    /\ failures' = [failures EXCEPT ![call[c].tool] = @ + 1]
    /\ ended' = [ended EXCEPT ![call[c].tool] = Append(@, "failure")]
    /\ IF call[c].attempt = MaxAttempts
       THEN call' = [call EXCEPT ![c] = Done] /\ UNCHANGED <<counts, attempted, forgotten>>
       ELSE Attempt(c, call[c].tool, call[c].trace, call[c].attempt + 1)
    /\ UNCHANGED late

\* Any other exception leaves the gateway as it is.
Raise(c) ==
    /\ Waiting(c) /\ Means(c, "contract error")
    /\ call' = [call EXCEPT ![c] = Done]
    /\ ended' = [ended EXCEPT ![call[c].tool] = Append(@, "raised")]
    /\ UNCHANGED <<counts, failures, late, attempted, forgotten>>

DeadlinePasses(trace) ==
    /\ trace \notin late
    /\ late' = late \cup {trace}
    /\ UNCHANGED <<counts, failures, call, ended, attempted, forgotten>>

\* resume and retry give a thread a new deadline, and keep its trace.
Renew(trace) ==
    /\ trace \in late
    /\ late' = late \ {trace}
    /\ UNCHANGED <<counts, failures, call, ended, attempted, forgotten>>

ToolsNext ==
    \/ \E c \in Calls :
        \/ \E tool \in Tools, trace \in Traces : Invoke(c, tool, trace)
        \/ Succeed(c) \/ Fail(c) \/ Raise(c)
    \/ \E trace \in Traces : DeadlinePasses(trace) \/ Renew(trace)

ToolsSpec == ToolsInit /\ [][ToolsNext]_toolVars

(* Properties *)

CallStates ==
    [at : {"idle", "done"}]
        \cup [at : {"refused"}, why : {"contract", "permission", "circuit", "deadline", "budget"}]
        \cup [at : {"waiting"}, tool : Tools, trace : Traces, attempt : 1..MaxAttempts]

ToolsType ==
    /\ counts \in Seq([trace : Traces, calls : Nat])
    /\ failures \in [Tools -> Nat]
    /\ late \subseteq Traces
    /\ call \in [Calls -> CallStates]
    /\ ended \in [Tools -> Seq({"success", "failure", "raised"})]
    /\ attempted \in [Traces -> Nat] /\ forgotten \in [Traces -> Nat]

\* A trace makes no more attempts than its budget, over all its calls, retries and renewed
\* deadlines, for each time it was tracked; only another trace can make it start again.
BudgetIsKept ==
    \A t \in Traces : attempted[t] <= MaxToolCalls * (1 + forgotten[t])

\* The failures of a tool since its last success, by their places.
InARow(tool) ==
    {i \in DOMAIN ended[tool] :
        /\ ended[tool][i] = "failure"
        /\ \A j \in i .. Len(ended[tool]) : ended[tool][j] # "success"}

\* The circuit opens only on as many failures in a row of that tool, of any calls.  Then the
\* attempts under way still end; without one nothing reaches the service again, and as only
\* an attempt closes the circuit, it stays open, whatever becomes of the service.
Stuck(tool) == CircuitOpen(tool) /\ \A c \in Calls : ~(Waiting(c) /\ call[c].tool = tool)
CircuitIsOneWay ==
    [][\A tool \in Tools :
          /\ Stuck(tool) => Stuck(tool)'
          /\ ~CircuitOpen(tool) /\ CircuitOpen(tool)' =>
                Cardinality(InARow(tool)') >= CircuitThreshold]_toolVars
=============================================================================
