----------------------------- MODULE TraceBudget -----------------------------
(* The call counts that ToolGateway and DispatchToolGateway keep: one for     *)
(* each trace, in the order the traces came in.  A new trace pushes the       *)
(* oldest one out when the table is full, and its count is then forgotten.    *)
EXTENDS Integers, Sequences

CONSTANTS Traces,
          MaxTraces     \* max_tracked_traces

MaxTracesAssumption == MaxTraces \in Nat \ {0}

Tracked(counts) == {counts[i].trace : i \in DOMAIN counts}
CallsOf(counts, trace) ==
    IF trace \in Tracked(counts)
    THEN counts[CHOOSE i \in DOMAIN counts : counts[i].trace = trace].calls ELSE 0

Room(counts, trace) ==
    IF trace \notin Tracked(counts) /\ Len(counts) >= MaxTraces THEN Tail(counts) ELSE counts
Counted(counts, trace) ==
    IF trace \in Tracked(counts)
    THEN [i \in DOMAIN counts |->
             IF counts[i].trace = trace THEN [counts[i] EXCEPT !.calls = @ + 1] ELSE counts[i]]
    ELSE Append(Room(counts, trace), [trace |-> trace, calls |-> 1])

Forgotten(counts, trace) == Tracked(counts) \ Tracked(Room(counts, trace))
=============================================================================
