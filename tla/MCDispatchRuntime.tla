-------------------------- MODULE MCDispatchRuntime --------------------------
(* Instances of DispatchRuntime for TLC. *)
EXTENDS DispatchRuntime, TLC

CONSTANTS order1

MCOrderOf == [e \in Events |-> order1]

MCSymmetry == Permutations(Workers) \cup Permutations(Calls)
=============================================================================
