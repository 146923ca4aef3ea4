--------------------------- MODULE MCOrderAssignment ---------------------------
(***************************************************************************)
(* Instances of OrderAssignment for TLC.  The command sets hold the cases  *)
(* the code tells apart: a retry of the same command, a command re-decided *)
(* for another worker under the same idempotency key, another key under    *)
(* the same dispatch id, a stale version, a claim with a reused key.       *)
(***************************************************************************)
EXTENDS OrderAssignment, TLC

CONSTANTS o1, o2, w1, w2, k1, k2, k3, d1, d2

AssignOf(o, w, k, d, v) ==
  [kind |-> "assign", order |-> o, worker |-> w, key |-> k, dispatch |-> d, expected |-> v]
ClaimOf(o, w, k) == [kind |-> "claim", order |-> o, worker |-> w, key |-> k]

\* One order: retries and rivals for it.
RivalCommands ==
  {AssignOf(o1, w1, k1, d1, 1), AssignOf(o1, w2, k1, d1, 1), AssignOf(o1, w1, k2, d1, 1)}
RivalClaims == {ClaimOf(o1, w2, k3), ClaimOf(o1, w1, k1)}

\* Two orders, a command whose key and dispatch id another order's command uses, and
\* claims that share one request id or reuse a command's key.
SharedCommands ==
  {AssignOf(o1, w1, k1, d1, 1), AssignOf(o2, w1, k2, d2, 0), AssignOf(o1, w1, k2, d2, 0)}
SharedClaims == {ClaimOf(o1, w2, k3), ClaimOf(o2, w2, k3), ClaimOf(o2, w1, k2)}

\* Two orders and one worker, no retries.
RaceCommands == {AssignOf(o1, w1, k1, d1, 0), AssignOf(o2, w1, k2, d2, 0)}

RoomForOne == w1 :> 1 @@ w2 :> 1
AllEligible == Orders \X Workers

Identical == Permutations(Threads)

=============================================================================
